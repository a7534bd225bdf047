------------------------- MODULE ProcessTracerLifecycle -------------------------
(***************************************************************************)
(* What the process tracers promise, abstractly (spec 4.3, 4.4 and 5):     *)
(*  - a tracer's initialisation is one critical section of the             *)
(*    process-wide load lock, ending ready or failed, never to be redone;  *)
(*  - the integrity-override flag is only ever set, and only by the tracer *)
(*    that holds the load lock;                                            *)
(*  - only a ready tracer registers executables, and unregisters them.     *)
(* Every Init that starts also ends.                                       *)
(***************************************************************************)
CONSTANTS Tracers, Inodes, NoTracer

VARIABLES
  phase,     \* per tracer: "new", "loading", "ready", "failed"
  holder,    \* the tracer in its load critical section, or NoTracer
  override,  \* the process-wide integrity-override flag
  registered \* per tracer: the inodes it has instrumented

avars == <<phase, holder, override, registered>>

Init ==
  /\ phase = [t \in Tracers |-> "new"]
  /\ holder = NoTracer
  /\ override = FALSE
  /\ registered = [t \in Tracers |-> {}]

(* A tracer that has not initialised takes the free load lock.             *)
Begin(t) ==
  /\ phase[t] = "new"
  /\ holder = NoTracer
  /\ holder' = t
  /\ phase' = [phase EXCEPT ![t] = "loading"]
  /\ UNCHANGED <<override, registered>>

(* The holder sets the override flag (the capability fallback).            *)
SetOverride(t) ==
  /\ holder = t
  /\ override' = TRUE
  /\ UNCHANGED <<phase, holder, registered>>

(* The holder ends its initialisation, possibly setting the flag as it     *)
(* fails, and releases the lock.                                           *)
End(t) ==
  /\ holder = t
  /\ holder' = NoTracer
  /\ \E r \in {"ready", "failed"} : phase' = [phase EXCEPT ![t] = r]
  /\ override' \in {override, TRUE}
  /\ UNCHANGED registered

Register(t, i) ==
  /\ phase[t] = "ready"
  /\ i \notin registered[t]
  /\ registered' = [registered EXCEPT ![t] = @ \cup {i}]
  /\ UNCHANGED <<phase, holder, override>>

Unregister(t, i) ==
  /\ phase[t] = "ready"
  /\ i \in registered[t]
  /\ registered' = [registered EXCEPT ![t] = @ \ {i}]
  /\ UNCHANGED <<phase, holder, override>>

Next ==
  \E t \in Tracers :
    \/ Begin(t) \/ SetOverride(t) \/ End(t)
    \/ \E i \in Inodes : Register(t, i) \/ Unregister(t, i)

SafeSpec == Init /\ [][Next]_avars

Spec == SafeSpec /\ \A t \in Tracers : WF_avars(End(t))

=============================================================================
