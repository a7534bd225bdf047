\* One refused attachment in NewExecutable: are its handles still owned?
\* Deadlock is not checked: when every tracer's Init has failed Beyla exits
\* (init errors are fatal), and the model stops there.
CHECK_DEADLOCK FALSE
CONSTANTS
  t1 = t1  t2 = t2  b1 = b1  b2 = b2  b3 = b3
  i1 = i1  i2 = i2  p1 = p1  p2 = p2  p3 = p3  s1 = s1  s2 = s2  m1 = m1
  NoTracer = NoTracer
  Tracers <- MCTracers
  Bundles <- MCBundles
  Programs <- MCPrograms
  GoBundles <- MCGoBundles
  UProbeBundles <- MCUProbeBundles
  BaseSyms <- MCBaseSyms
  CPSyms <- MCCPSyms
  Modules <- MCModules
  Inodes <- MCInodes
  Pids <- MCPids
  ExeOf <- MCExeOf
  FuncsOf <- MCFuncsOf
  LibsOf <- MCLibsOf
  LoadMayFail = FALSE
  AttachMayFail = TRUE
  MaxCalls = 3
SPECIFICATION Spec
INVARIANT
  NoOrphanHandles
