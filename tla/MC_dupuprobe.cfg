\* An attachment of NewExecutable fails after t2's bundle b2 uprobed m1: the
\* uprobe leaks while b2 keeps m1 recorded; the unlink of another executable
\* that uprobed m1 from b3 forgets m1 in b2 too, and b2 uprobes m1 again.
CHECK_DEADLOCK FALSE
CONSTANTS
  t1 = t1  t2 = t2  b1 = b1  b2 = b2  b3 = b3
  i1 = i1  i2 = i2  p1 = p1  p2 = p2  p3 = p3  s1 = s1  s2 = s2  m1 = m1
  NoTracer = NoTracer
  Tracers <- MCTracers
  Bundles <- MCBundles
  Programs <- MCPrograms
  GoBundles <- MCGoBundles
  UProbeBundles <- MCUProbeBundles
  BaseSyms <- MCBaseSyms
  CPSyms <- MCCPSyms
  Modules <- MCModules
  Inodes <- MCInodes
  Pids <- MCPids
  ExeOf <- MCExeOf
  FuncsOf <- MCFuncsOf
  LibsOf <- MCLibsOf
  LoadMayFail = TRUE
  AttachMayFail = TRUE
  MaxCalls = 3
SPECIFICATION Spec
INVARIANTS
  ModuleDedup
