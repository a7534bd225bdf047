----------------------- MODULE ProcessTracerRefinement -----------------------
(***************************************************************************)
(* Proof that the process tracers implement the safety part of the        *)
(* abstract lifecycle ProcessTracerLifecycle under the mapping PhaseBar,   *)
(* loadMux, override, registered.  The step proof needs LockInv: the       *)
(* tracer that acts on loadMux's critical section is the one holding it.   *)
(***************************************************************************)
EXTENDS ProcessTracerProofs

-----------------------------------------------------------------------------
(* LockInv is inductive.                                                   *)

LEMMA LockInvInit == Init => LockInv
BY InitTypeOK, ProgramsAssumption DEF Init, LockInv

(* The shape of a LoadProgram step: what it does to the lock, the states,  *)
(* the flag and the registrations.                                         *)
LEMMA LoadProgramShape ==
  ASSUME NEW t \in Tracers, LoadProgram(t)
  PROVE  /\ ptState[t] = "loading"
         /\ UNCHANGED registered
         /\ \/ UNCHANGED <<ptState, loadMux, override>>
            \/ UNCHANGED <<ptState, loadMux>> /\ override' = TRUE
            \/ Failed(t) /\ override' \in {override, TRUE}
<1> DEFINE b   == Programs[t][nextProg[t]]
           v1  == LoaderVariant(override)
           ov2 == RetryOverride(override)
           v2  == LoaderVariant(ov2)
<1>1. ptState[t] = "loading" /\ UNCHANGED registered
  BY DEF LoadProgram, instVars
<1>2. ASSUME NEW v, Loaded(t, b, v)
      PROVE  UNCHANGED <<ptState, loadMux>> \/ Failed(t)
  BY <1>2 DEF Loaded
<1>3. ov2 = TRUE
  BY DEF RetryOverride
<1>4. CASE LoadMayFail /\ Failed(t) /\ UNCHANGED override
  BY <1>1, <1>4
<1>5. CASE Loaded(t, b, v1) /\ UNCHANGED override
  BY <1>1, <1>2, <1>5
<1>6. CASE /\ override' = ov2
           /\ \/ Loaded(t, b, v2)
              \/ Failed(t)
  BY <1>1, <1>2, <1>3, <1>6
<1>7. QED
  <2>1. \/ LoadMayFail /\ Failed(t) /\ UNCHANGED override
        \/ Loaded(t, b, v1) /\ UNCHANGED override
        \/ /\ override' = ov2
           /\ \/ Loaded(t, b, v2)
              \/ Failed(t)
    BY DEF LoadProgram
  <2>2. QED
    BY <2>1, <1>4, <1>5, <1>6

(* The executable handlers and the utility tracer neither take nor        *)
(* release loadMux nor change a tracer's state or the override flag.       *)
LEMMA HandlersKeepLock ==
  ASSUME \/ \E t \in Tracers :
              \/ \E pid \in Pids : NewExecutable(t, pid) \/ NewExecutableInstance(t, pid)
              \/ \E ino \in Inodes : UnlinkExecutable(t, ino)
         \/ UtilStartLoad \/ UtilFinish
  PROVE  UNCHANGED <<ptState, loadMux, override>>
<1>1. ASSUME NEW t \in Tracers, NEW pid \in Pids, NewExecutable(t, pid)
      PROVE  UNCHANGED <<ptState, loadMux, override>>
  BY <1>1 DEF NewExecutable
<1>2. ASSUME NEW t \in Tracers, NEW pid \in Pids, NewExecutableInstance(t, pid)
      PROVE  UNCHANGED <<ptState, loadMux, override>>
  BY <1>2 DEF NewExecutableInstance
<1>3. ASSUME NEW t \in Tracers, NEW ino \in Inodes, UnlinkExecutable(t, ino)
      PROVE  UNCHANGED <<ptState, loadMux, override>>
  BY <1>3 DEF UnlinkExecutable
<1>4. CASE UtilStartLoad \/ UtilFinish
  BY <1>4 DEF UtilStartLoad, UtilFinish
<1>5. QED
  BY <1>1, <1>2, <1>3, <1>4

LEMMA LockInvStep == LockInv /\ [Next]_vars => LockInv'
<1> SUFFICES ASSUME LockInv, [Next]_vars
             PROVE  \A u \in Tracers : ptState'[u] = "loading" <=> loadMux' = u
  BY TypeOKStep DEF LockInv
<1>1. NoTracer \notin Tracers
  BY ProgramsAssumption
<1>2. CASE UNCHANGED <<ptState, loadMux>>
  BY <1>2 DEF LockInv
<1>3. CASE \E t \in Tracers : CallInit(t)
  BY <1>3 DEF CallInit, LockInv, TypeOK
<1>4. CASE \E t \in Tracers : AcquireLoad(t)
  BY <1>1, <1>4 DEF AcquireLoad, LockInv, TypeOK
<1>5. CASE \E t \in Tracers : ptState[t] = "loading" /\ Failed(t)
  BY <1>1, <1>5 DEF Failed, LockInv, TypeOK
<1>6. CASE \E t \in Tracers : FinishLoad(t)
  BY <1>1, <1>6 DEF FinishLoad, LockInv, TypeOK
<1>7. CASE \E t \in Tracers : LoadProgram(t)
  <2>1. PICK t \in Tracers : LoadProgram(t)
    BY <1>7
  <2>2. /\ ptState[t] = "loading"
        /\ \/ UNCHANGED <<ptState, loadMux>>
           \/ Failed(t)
    BY <2>1, LoadProgramShape
  <2>3. QED
    BY <2>2, <1>2, <1>5
<1>8. CASE \/ \E t \in Tracers :
              \/ \E pid \in Pids : NewExecutable(t, pid) \/ NewExecutableInstance(t, pid)
              \/ \E ino \in Inodes : UnlinkExecutable(t, ino)
           \/ UtilStartLoad \/ UtilFinish
  <2>1. UNCHANGED <<ptState, loadMux>>
    BY <1>8, HandlersKeepLock
  <2>2. QED
    BY <2>1, <1>2
<1>9. QED
  BY <1>2, <1>3, <1>4, <1>6, <1>7, <1>8 DEF Next, vars

-----------------------------------------------------------------------------
(* Every step of the tracers is a step of the lifecycle or leaves its      *)
(* variables alone.                                                        *)

LEMMA RefineInit == Init => Lifecycle!Init
BY DEF Init, Lifecycle!Init, PhaseBar

LEMMA RefineStep ==
  LockInv /\ [Next]_vars => [Lifecycle!Next]_Lifecycle!avars
<1> SUFFICES ASSUME LockInv, [Next]_vars
             PROVE  [Lifecycle!Next]_Lifecycle!avars
  OBVIOUS
<1>1. TypeOK /\ TypeOK'
  BY TypeOKStep DEF LockInv
<1>2. NoTracer \notin Tracers
  BY ProgramsAssumption
<1> DEFINE Stutter == UNCHANGED <<PhaseBar, loadMux, override, registered>>
<1>3. Stutter => [Lifecycle!Next]_Lifecycle!avars
  BY DEF Lifecycle!avars
<1>4. ASSUME NEW t \in Tracers, CallInit(t)
      PROVE  [Lifecycle!Next]_Lifecycle!avars
  <2>1. PhaseBar' = PhaseBar
    BY <1>1, <1>4 DEF CallInit, PhaseBar, TypeOK
  <2>2. QED
    BY <2>1, <1>3, <1>4 DEF CallInit, instVars
<1>5. ASSUME NEW t \in Tracers, AcquireLoad(t)
      PROVE  [Lifecycle!Next]_Lifecycle!avars
  <2>1. Lifecycle!Begin(t)
    BY <1>1, <1>5 DEF AcquireLoad, instVars, Lifecycle!Begin, PhaseBar, TypeOK
  <2>2. QED
    BY <2>1 DEF Lifecycle!Next
<1>6. ASSUME NEW t \in Tracers, ptState[t] = "loading",
             Failed(t), override' \in {override, TRUE}, UNCHANGED registered
      PROVE  Lifecycle!End(t)
  BY <1>1, <1>6 DEF Failed, Lifecycle!End, PhaseBar, LockInv, TypeOK
<1>7. ASSUME NEW t \in Tracers, LoadProgram(t)
      PROVE  [Lifecycle!Next]_Lifecycle!avars
  <2>1. /\ ptState[t] = "loading"
        /\ UNCHANGED registered
        /\ \/ UNCHANGED <<ptState, loadMux, override>>
           \/ UNCHANGED <<ptState, loadMux>> /\ override' = TRUE
           \/ Failed(t) /\ override' \in {override, TRUE}
    BY <1>7, LoadProgramShape
  <2>2. CASE UNCHANGED <<ptState, loadMux, override>>
    BY <2>1, <2>2, <1>3 DEF PhaseBar
  <2>3. CASE UNCHANGED <<ptState, loadMux>> /\ override' = TRUE
    <3>1. Lifecycle!SetOverride(t)
      BY <2>1, <2>3 DEF Lifecycle!SetOverride, PhaseBar, LockInv
    <3>2. QED
      BY <3>1 DEF Lifecycle!Next
  <2>4. CASE Failed(t) /\ override' \in {override, TRUE}
    BY <2>1, <2>4, <1>6 DEF Lifecycle!Next
  <2>5. QED
    BY <2>1, <2>2, <2>3, <2>4
<1>8. ASSUME NEW t \in Tracers, FinishLoad(t)
      PROVE  [Lifecycle!Next]_Lifecycle!avars
  <2>1. Lifecycle!End(t)
    BY <1>1, <1>8 DEF FinishLoad, instVars, Lifecycle!End, PhaseBar, LockInv,
                      TypeOK
  <2>2. QED
    BY <2>1 DEF Lifecycle!Next
<1>9. ASSUME NEW t \in Tracers, NEW pid \in Pids, NewExecutable(t, pid)
      PROVE  [Lifecycle!Next]_Lifecycle!avars
  <2>1. UNCHANGED <<ptState, loadMux, override>>
    BY <1>9, HandlersKeepLock
  <2>2. ExeOf[pid] \in Inodes
    BY EnvAssumption
  <2>3. CASE UNCHANGED registered
    BY <2>1, <2>3, <1>3 DEF PhaseBar
  <2>4. CASE registered' = [registered EXCEPT ![t] = @ \cup {ExeOf[pid]}]
    <3>1. Lifecycle!Register(t, ExeOf[pid])
      BY <2>1, <2>4, <1>9 DEF NewExecutable, Lifecycle!Register, PhaseBar
    <3>2. QED
      BY <3>1, <2>2 DEF Lifecycle!Next
  <2>5. QED
    BY <1>9, <2>3, <2>4 DEF NewExecutable
<1>10. ASSUME NEW t \in Tracers, NEW pid \in Pids, NewExecutableInstance(t, pid)
       PROVE  [Lifecycle!Next]_Lifecycle!avars
  <2>1. UNCHANGED <<ptState, loadMux, override>>
    BY <1>10, HandlersKeepLock
  <2>2. UNCHANGED registered
    BY <1>10 DEF NewExecutableInstance, instVars
  <2>3. QED
    BY <2>1, <2>2, <1>3 DEF PhaseBar
<1>11. ASSUME NEW t \in Tracers, NEW ino \in Inodes, UnlinkExecutable(t, ino)
       PROVE  [Lifecycle!Next]_Lifecycle!avars
  <2>1. UNCHANGED <<ptState, loadMux, override>>
    BY <1>11, HandlersKeepLock
  <2>2. CASE ino \in registered[t]
    <3>1. Lifecycle!Unregister(t, ino)
      BY <2>1, <2>2, <1>11 DEF UnlinkExecutable, Lifecycle!Unregister, PhaseBar
    <3>2. QED
      BY <3>1 DEF Lifecycle!Next
  <2>3. CASE ino \notin registered[t]
    BY <2>1, <2>3, <1>3, <1>11 DEF UnlinkExecutable, PhaseBar
  <2>4. QED
    BY <2>2, <2>3
<1>12. CASE UtilStartLoad \/ UtilFinish
  <2>1. UNCHANGED <<ptState, loadMux, override, registered>>
    BY <1>12 DEF UtilStartLoad, UtilFinish, instVars
  <2>2. QED
    BY <2>1, <1>3 DEF PhaseBar
<1>13. CASE UNCHANGED vars
  BY <1>13, <1>3 DEF vars, PhaseBar
<1>14. QED
  BY <1>4, <1>5, <1>7, <1>8, <1>9, <1>10, <1>11, <1>12, <1>13 DEF Next

(* The process tracers implement the abstract lifecycle's safety: under    *)
(* the mapping PhaseBar, loadMux, override, registered, every behaviour of *)
(* loadTracers, the executable handlers and the utility tracer is one of   *)
(* serialised initialisations, a flag set only by the lock holder and      *)
(* registrations only by ready tracers.                                    *)
THEOREM LifecycleRefinement == Spec => Lifecycle!SafeSpec
<1>1. Init => LockInv
  BY LockInvInit
<1>2. LockInv /\ [Next]_vars => LockInv'
  BY LockInvStep
<1>3. Init => Lifecycle!Init
  BY RefineInit
<1>4. LockInv /\ [Next]_vars => [Lifecycle!Next]_Lifecycle!avars
  BY RefineStep
<1>5. QED
  BY <1>1, <1>2, <1>3, <1>4, PTL DEF Spec, Lifecycle!SafeSpec

=============================================================================
