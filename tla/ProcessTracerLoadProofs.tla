----------------------- MODULE ProcessTracerLoadProofs -----------------------
(***************************************************************************)
(* Proof that p.Load() runs at most once per bundle and value of           *)
(* IntegrityModeOverride (LoadOncePerOverride), through the inductive      *)
(* invariant LogInv: the loop of loadTracers reaches each bundle once, a   *)
(* bundle belongs to one tracer only, and one iteration logs either the    *)
(* current flag or, in the fallback, FALSE and then TRUE.                  *)
(***************************************************************************)
EXTENDS ProcessTracerProofs

(* Two facts about small naturals, for the provers to use on log lengths.  *)
LEMMA UpToTwo == ASSUME NEW n \in Nat, n <= 2 PROVE n <= 1 \/ n = 2
BY SMT

LEMMA OneOrTwo == ASSUME NEW n, n \in {1, 2} PROVE n <= 2
BY SMT

LEMMA LogInvInit == Init => LogInv
<1> SUFFICES ASSUME Init PROVE LogInv
  OBVIOUS
<1>1. TypeOK
  BY InitTypeOK
<1>2. \A b \in Bundles : loadLog[b] = <<>>
  BY DEF Init
<1>3. QED
  BY <1>1, <1>2, ProgramsAssumption DEF LogInv

(* One iteration of the loop writes a log of one flag value, or of FALSE   *)
(* then TRUE, into the empty log of the bundle it reaches, and then fails  *)
(* or moves on to the next bundle.                                         *)
LEMMA LoadProgramLog ==
  ASSUME LogInv, NEW t \in Tracers, LoadProgram(t)
  PROVE  LET b == Programs[t][nextProg[t]]
         IN /\ nextProg[t] \in 1..Len(Programs[t])
            /\ ptState[t] = "loading"
            /\ b \in Bundles
            /\ loadLog' = [loadLog EXCEPT ![b] = loadLog'[b]]
            /\ loadLog'[b] \in Seq(BOOLEAN)
            /\ Len(loadLog'[b]) \in {1, 2}
            /\ Len(loadLog'[b]) = 2 => loadLog'[b][1] = FALSE /\ loadLog'[b][2] = TRUE
            /\ \/ ptState' = [ptState EXCEPT ![t] = "failed"]
                  /\ UNCHANGED nextProg
               \/ UNCHANGED ptState
                  /\ nextProg' = [nextProg EXCEPT ![t] = nextProg[t] + 1]
<1> DEFINE n   == nextProg[t]
           b   == Programs[t][n]
           v1  == LoaderVariant(override)
           ov2 == RetryOverride(override)
           v2  == LoaderVariant(ov2)
<1>1. n \in 1..Len(Programs[t]) /\ ptState[t] = "loading"
  <2>1. ptState[t] = "loading" /\ n <= Len(Programs[t])
    BY DEF LoadProgram
  <2>2. n \in Nat \ {0}
    BY DEF LogInv, TypeOK
  <2>3. Len(Programs[t]) \in Nat
    BY ProgramsAssumption
  <2>4. QED
    BY <2>1, <2>2, <2>3
<1>2. b \in Bundles
  BY <1>1, ProgramsAssumption
<1>3. loadLog[b] \in Seq(BOOLEAN) /\ Len(loadLog[b]) = 0
  BY <1>1, <1>2 DEF LogInv, TypeOK
<1>4. override \in BOOLEAN /\ loadLog \in [Bundles -> Seq(BOOLEAN)]
  BY DEF LogInv, TypeOK
<1>5. ASSUME NEW v, Loaded(t, b, v)
      PROVE  \/ ptState' = [ptState EXCEPT ![t] = "failed"] /\ UNCHANGED nextProg
             \/ UNCHANGED ptState /\ nextProg' = [nextProg EXCEPT ![t] = n + 1]
  BY <1>5 DEF Loaded, Failed
<1> DEFINE Logged(X) ==
      /\ loadLog' = [loadLog EXCEPT ![b] = X]
      /\ X \in Seq(BOOLEAN)
      /\ Len(X) \in {1, 2}
      /\ Len(X) = 2 => X[1] = FALSE /\ X[2] = TRUE
<1>6. ASSUME NEW X, Logged(X)
      PROVE  /\ loadLog' = [loadLog EXCEPT ![b] = loadLog'[b]]
             /\ loadLog'[b] \in Seq(BOOLEAN)
             /\ Len(loadLog'[b]) \in {1, 2}
             /\ Len(loadLog'[b]) = 2 => loadLog'[b][1] = FALSE /\ loadLog'[b][2] = TRUE
  BY <1>2, <1>4, <1>6
<1>8. CASE /\ LoadMayFail
           /\ loadLog' = [loadLog EXCEPT ![b] = Append(@, override)]
           /\ Failed(t)
           /\ UNCHANGED <<override, variant, nextProg>>
  <2>1. Logged(Append(loadLog[b], override))
    BY <1>3, <1>4, <1>8
  <2>2. QED
    BY <2>1, <1>6, <1>1, <1>2, <1>8 DEF Failed
<1>9. CASE /\ ~MissingHelper(v1)
           /\ loadLog' = [loadLog EXCEPT ![b] = Append(@, override)]
           /\ Loaded(t, b, v1)
  <2>1. Logged(Append(loadLog[b], override))
    BY <1>3, <1>4, <1>9
  <2>2. QED
    BY <2>1, <1>6, <1>1, <1>2, <1>5, <1>9
<1>10. CASE /\ MissingHelper(v1)
            /\ override' = ov2
            /\ loadLog' = [loadLog EXCEPT ![b] = Append(Append(@, override), ov2)]
            /\ \/ ~MissingHelper(v2) /\ Loaded(t, b, v2)
               \/ /\ MissingHelper(v2) \/ LoadMayFail
                  /\ Failed(t)
                  /\ UNCHANGED <<variant, nextProg>>
  <2>1. override = FALSE /\ ov2 = TRUE
    BY <1>4, <1>10 DEF MissingHelper, LoaderVariant, SupportsCP, RetryOverride
  <2>2. Logged(Append(Append(loadLog[b], override), ov2))
    <3>0. Append(Append(loadLog[b], override), ov2)
          = Append(Append(loadLog[b], FALSE), TRUE)
      BY <2>1
    <3>1. LET X == Append(Append(loadLog[b], override), ov2)
          IN X \in Seq(BOOLEAN) /\ Len(X) = 2 /\ X[1] = FALSE /\ X[2] = TRUE
      <4>1. LET X == Append(Append(loadLog[b], FALSE), TRUE)
            IN X \in Seq(BOOLEAN) /\ Len(X) = 2 /\ X[1] = FALSE /\ X[2] = TRUE
        BY <1>3
      <4>2. QED
        BY <4>1, <3>0
    <3>2. loadLog' = [loadLog EXCEPT ![b] = Append(Append(loadLog[b], override), ov2)]
      BY <1>10
    <3>3. QED
      BY <3>1, <3>2
  <2>3. \/ ptState' = [ptState EXCEPT ![t] = "failed"] /\ UNCHANGED nextProg
        \/ UNCHANGED ptState /\ nextProg' = [nextProg EXCEPT ![t] = n + 1]
    BY <1>5, <1>10 DEF Failed
  <2>4. QED
    BY <2>2, <2>3, <1>6, <1>1, <1>2
<1>11. QED
  BY <1>8, <1>9, <1>10 DEF LoadProgram

(* The steps other than the loop's leave the logs alone, and move a tracer *)
(* only from "new" to "waiting" to "loading" at the first bundle, or from  *)
(* "loading" to "ready".                                                   *)
LEMMA LogInvStep == LogInv /\ [Next]_vars => LogInv'
<1> SUFFICES ASSUME LogInv, [Next]_vars PROVE LogInv'
  OBVIOUS
<1>0. /\ ptState \in [Tracers -> {"new", "waiting", "loading", "ready", "failed"}]
      /\ nextProg \in [Tracers -> Nat \ {0}]
      /\ loadLog \in [Bundles -> Seq(BOOLEAN)]
  BY DEF LogInv, TypeOK
<1>1. TypeOK'
  BY TypeOKStep DEF LogInv
<1>2. \A u \in Tracers : \A j \in 1..Len(Programs[u]) : Programs[u][j] \in Bundles
  BY ProgramsAssumption
<1> DEFINE Fresh(u, j) ==
      \/ ptState'[u] \in {"new", "waiting"}
      \/ ptState'[u] = "loading" /\ j >= nextProg'[u]
      => Len(loadLog'[Programs[u][j]]) = 0
<1> DEFINE Bounded(c) ==
      /\ Len(loadLog'[c]) <= 2
      /\ Len(loadLog'[c]) = 2 => loadLog'[c][1] = FALSE /\ loadLog'[c][2] = TRUE
<1> DEFINE Goal ==
      /\ \A c \in Bundles : Bounded(c)
      /\ \A u \in Tracers : \A j \in 1..Len(Programs[u]) : Fresh(u, j)
<1>3. SUFFICES Goal
  BY <1>1 DEF LogInv
<1>4. CASE UNCHANGED <<ptState, nextProg, loadLog>>
  BY <1>4 DEF LogInv
<1>5. ASSUME NEW t \in Tracers, CallInit(t)
      PROVE  Goal
  <2>1. /\ UNCHANGED <<nextProg, loadLog>>
        /\ ptState' = [ptState EXCEPT ![t] = "waiting"]
        /\ ptState[t] = "new"
    BY <1>5 DEF CallInit
  <2>2. \A u \in Tracers : \A j \in 1..Len(Programs[u]) : Fresh(u, j)
    BY <2>1, <1>0 DEF LogInv
  <2>3. QED
    BY <2>1, <2>2, <1>1 DEF LogInv
<1>6. ASSUME NEW t \in Tracers, FinishLoad(t)
      PROVE  Goal
  <2>1. /\ UNCHANGED <<nextProg, loadLog>>
        /\ ptState' = [ptState EXCEPT ![t] = "ready"]
    BY <1>6 DEF FinishLoad
  <2>2. \A u \in Tracers : \A j \in 1..Len(Programs[u]) : Fresh(u, j)
    BY <2>1, <1>0 DEF LogInv
  <2>3. QED
    BY <2>1, <2>2, <1>1 DEF LogInv
<1>7. ASSUME NEW t \in Tracers, AcquireLoad(t)
      PROVE  Goal
  <2>1. /\ UNCHANGED loadLog
        /\ ptState' = [ptState EXCEPT ![t] = "loading"]
        /\ nextProg' = [nextProg EXCEPT ![t] = 1]
        /\ ptState[t] = "waiting"
    BY <1>7 DEF AcquireLoad
  <2>2. \A u \in Tracers : \A j \in 1..Len(Programs[u]) : Fresh(u, j)
    BY <2>1, <1>0 DEF LogInv
  <2>3. QED
    BY <2>1, <2>2, <1>1 DEF LogInv
<1>8. ASSUME NEW t \in Tracers, LoadProgram(t)
      PROVE  Goal
  <2> DEFINE n == nextProg[t]
             b == Programs[t][n]
  <2>2. /\ n \in 1..Len(Programs[t])
        /\ ptState[t] = "loading"
        /\ b \in Bundles
        /\ loadLog' = [loadLog EXCEPT ![b] = loadLog'[b]]
        /\ loadLog'[b] \in Seq(BOOLEAN)
        /\ Len(loadLog'[b]) \in {1, 2}
        /\ Len(loadLog'[b]) = 2 => loadLog'[b][1] = FALSE /\ loadLog'[b][2] = TRUE
        /\ \/ ptState' = [ptState EXCEPT ![t] = "failed"] /\ UNCHANGED nextProg
           \/ UNCHANGED ptState /\ nextProg' = [nextProg EXCEPT ![t] = n + 1]
    BY <1>8, LoadProgramLog
  <2>3. ASSUME NEW c \in Bundles PROVE Bounded(c)
    <3>1. CASE c = b
      <4>1. /\ loadLog'[c] \in Seq(BOOLEAN)
            /\ Len(loadLog'[c]) \in {1, 2}
            /\ (Len(loadLog'[c]) = 2 => loadLog'[c][1] = FALSE /\ loadLog'[c][2] = TRUE)
        BY <3>1, <2>2
      <4>2. QED
        BY <4>1, OneOrTwo, Zenon
    <3>2. CASE c # b
      <4>1. loadLog'[c] = loadLog[c]
        BY <3>2, <2>2, <1>0
      <4>2. QED
        BY <4>1 DEF LogInv
    <3>3. QED
      BY <3>1, <3>2
  <2>4. ASSUME NEW u \in Tracers, NEW j \in 1..Len(Programs[u])
        PROVE  Fresh(u, j)
    <3>1. CASE Programs[u][j] = b
      <4>1. u = t /\ j = n
        BY <3>1, <2>2, ProgramsAssumption
      <4>2. QED
        BY <4>1, <2>2, <1>0
    <3>2. CASE Programs[u][j] # b
      <4>1. loadLog'[Programs[u][j]] = loadLog[Programs[u][j]]
        BY <3>2, <2>2, <1>2, <1>0
      <4>2. Len(loadLog[Programs[u][j]]) = 0 => Fresh(u, j)
        BY <4>1
      <4>3. CASE ptState' = [ptState EXCEPT ![t] = "failed"] /\ UNCHANGED nextProg
        <5>1. u # t => ptState'[u] = ptState[u] /\ nextProg'[u] = nextProg[u]
          BY <4>3, <1>0
        <5>2. u = t => ptState'[u] = "failed"
          BY <4>3, <1>0
        <5>3. QED
          BY <5>1, <5>2, <4>2 DEF LogInv
      <4>4. CASE UNCHANGED ptState /\ nextProg' = [nextProg EXCEPT ![t] = n + 1]
        <5>1. u # t => ptState'[u] = ptState[u] /\ nextProg'[u] = nextProg[u]
          BY <4>4, <1>0
        <5>2. u = t => ptState'[u] = ptState[u] /\ nextProg'[u] = nextProg[u] + 1
          BY <4>4, <1>0
        <5>3. nextProg[u] \in Nat
          BY <1>0
        <5>4. QED
          BY <5>1, <5>2, <5>3, <4>2 DEF LogInv
      <4>5. QED
        BY <2>2, <4>3, <4>4
    <3>3. QED
      BY <3>1, <3>2
  <2>5. QED
    BY <2>3, <2>4, <1>1 DEF LogInv
<1>9. QED
  <2>1. ASSUME NEW t \in Tracers,
               \/ \E pid \in Pids : NewExecutable(t, pid) \/ NewExecutableInstance(t, pid)
               \/ \E ino \in Inodes : UnlinkExecutable(t, ino)
        PROVE  UNCHANGED <<ptState, nextProg, loadLog>>
    BY <2>1 DEF NewExecutable, NewExecutableInstance, UnlinkExecutable
  <2>2. UtilStartLoad \/ UtilFinish => UNCHANGED <<ptState, nextProg, loadLog>>
    BY DEF UtilStartLoad, UtilFinish
  <2>3. UNCHANGED vars => UNCHANGED <<ptState, nextProg, loadLog>>
    BY DEF vars
  <2>4. QED
    BY <1>4, <1>5, <1>6, <1>7, <1>8, <2>1, <2>2, <2>3 DEF Next

(* p.Load() is called at most once per bundle and value of                 *)
(* IntegrityModeOverride, for every configuration of tracers and bundles:  *)
(* the missing-helper fallback really changes the flag before it retries.  *)
THEOREM LoadOnce == Spec => []LoadOncePerOverride
<1>1. Init => LogInv
  BY LogInvInit
<1>2. LogInv /\ [Next]_vars => LogInv'
  BY LogInvStep
<1>3. LogInv => LoadOncePerOverride
  <2> SUFFICES ASSUME LogInv, NEW b \in Bundles,
                      NEW i \in 1..Len(loadLog[b]), NEW j \in 1..Len(loadLog[b]),
                      loadLog[b][i] = loadLog[b][j]
               PROVE  i = j
    BY DEF LoadOncePerOverride
  <2>1. /\ loadLog[b] \in Seq(BOOLEAN)
        /\ Len(loadLog[b]) <= 2
        /\ Len(loadLog[b]) = 2 => loadLog[b][1] = FALSE /\ loadLog[b][2] = TRUE
    BY DEF LogInv, TypeOK
  <2>0. Len(loadLog[b]) \in Nat
    BY <2>1
  <2>2. CASE Len(loadLog[b]) <= 1
    BY <2>2, <2>1
  <2>3. CASE Len(loadLog[b]) = 2
    <3>1. i \in {1, 2} /\ j \in {1, 2}
      BY <2>3, <2>1
    <3>2. QED
      BY <3>1, <2>1, <2>3
  <2>4. Len(loadLog[b]) <= 1 \/ Len(loadLog[b]) = 2
    BY <2>0, <2>1, UpToTwo, Zenon
  <2>5. QED
    BY <2>4, <2>2, <2>3
<1>4. QED
  BY <1>1, <1>2, <1>3, PTL DEF Spec

=============================================================================
