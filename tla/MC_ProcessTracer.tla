------------------------- MODULE MC_ProcessTracer -------------------------
(* Small instances of ProcessTracer for TLC.                               *)
(* Tracer t1 runs the Go tracer bundle b1; tracer t2 runs a Go tracer b2   *)
(* and, after it, b3, the only bundle with shared-library uprobes.         *)
(* Processes p1, p2 run executable i1, p3 runs i2; all three map library   *)
(* m1.                                                                     *)
EXTENDS ProcessTracer, TLC

CONSTANTS t1, t2, b1, b2, b3, i1, i2, p1, p2, p3, s1, s2, m1

MCTracers == {t1, t2}
MCBundles == {b1, b2, b3}
MCPrograms == (t1 :> <<b1>>) @@ (t2 :> <<b2, b3>>)
MCGoBundles == {b1, b2}
MCUProbeBundles == {b3}
MCBaseSyms == {s1}
MCCPSyms == {s2}
MCModules == {m1}
MCInodes == {i1, i2}
MCPids == {p1, p2, p3}
MCExeOf == (p1 :> i1) @@ (p2 :> i1) @@ (p3 :> i2)
MCFuncsOf == (i1 :> {s1, s2}) @@ (i2 :> {s1})
MCLibsOf == (p1 :> {m1}) @@ (p2 :> {m1}) @@ (p3 :> {m1})
=============================================================================
