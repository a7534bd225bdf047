------------------------- MODULE ProcessTracerProofs -------------------------
(***************************************************************************)
(* Proofs about ProcessTracer for every value of its constants.            *)
(***************************************************************************)
EXTENDS ProcessTracer, TLAPS

-----------------------------------------------------------------------------
(* Lemmas on the helpers the handlers are built from.                      *)

(* A bundle of a tracer's program list is a bundle.                        *)
LEMMA ProgramType ==
  ASSUME NEW t \in Tracers, NEW j \in 1..Len(Programs[t])
  PROVE  Programs[t][j] \in Bundles
BY ProgramsAssumption

(* The attachments goprobes and uprobes request are handles.               *)
LEMMA ReqType ==
  ASSUME TypeOK, NEW c \in 1..MaxCalls, NEW b \in Bundles,
         NEW ino \in Inodes, NEW pid \in Pids
  PROVE  /\ GoReq(c, b, ino) \subseteq Handle
         /\ UpReq(c, b, pid) \subseteq Handle
<1>1. GoProbes(b) \subseteq Syms
  BY DEF GoProbes, Syms
<1>2. LibsOf[pid] \subseteq Modules
  BY EnvAssumption
<1>3. QED
  BY <1>1, <1>2 DEF GoReq, UpReq, Handle

(* The libraries among handles are modules, and RecordLibs keeps libs      *)
(* typed.                                                                  *)
LEMMA ModulesOfType ==
  ASSUME NEW hs \in SUBSET Handle
  PROVE  ModulesOf(hs) \subseteq Modules
BY DEF ModulesOf

LEMMA RecordLibsType ==
  ASSUME TypeOK, NEW hs \in SUBSET Handle, RecordLibs(hs)
  PROVE  libs' \in [Bundles -> SUBSET Modules]
<1>1. \A b \in Bundles : ModulesOf({h \in hs : h.b = b}) \subseteq Modules
  BY ModulesOfType
<1>2. QED
  BY <1>1 DEF RecordLibs, TypeOK

-----------------------------------------------------------------------------
(* Type correctness: TypeOK is inductive.                                  *)

LEMMA InitTypeOK == Init => TypeOK
<1> SUFFICES ASSUME Init PROVE TypeOK
  OBVIOUS
<1>1. /\ kernel \in Kernels
      /\ override \in BOOLEAN
      /\ loadMux \in Tracers \cup {NoTracer}
      /\ utilState \in {"idle", "loading", "running", "failed"}
  BY DEF Init
<1>5. /\ ptState \in [Tracers -> {"new", "waiting", "loading", "ready", "failed"}]
      /\ nextProg \in [Tracers -> Nat \ {0}]
      /\ variant \in [Bundles -> {"none", "tp", "notp"}]
  BY DEF Init
<1>2. /\ loadLog \in [Bundles -> Seq(BOOLEAN)]
      /\ live \subseteq Handle
      /\ nextCall \in 0..MaxCalls
      /\ libs \in [Bundles -> SUBSET Modules]
  BY EnvAssumption DEF Init
<1>3. /\ registered \in [Tracers -> SUBSET Inodes]
      /\ owned \in [Tracers -> [Inodes -> SUBSET Handle]]
      /\ modules \in [Tracers -> [Inodes -> SUBSET Modules]]
      /\ procs \in [Tracers -> [Inodes -> SUBSET Pids]]
  BY DEF Init
<1>4. QED
  BY <1>1, <1>2, <1>3, <1>5 DEF TypeOK

LEMMA LoadStepTypeOK ==
  ASSUME TypeOK, NEW t \in Tracers,
         CallInit(t) \/ AcquireLoad(t) \/ LoadProgram(t) \/ FinishLoad(t)
  PROVE  TypeOK'
<1>1. CASE CallInit(t)
  BY <1>1 DEF CallInit, TypeOK, instVars
<1>2. CASE AcquireLoad(t)
  BY <1>2 DEF AcquireLoad, TypeOK, instVars
<1>3. CASE FinishLoad(t)
  BY <1>3 DEF FinishLoad, TypeOK, instVars
<1>4. CASE LoadProgram(t)
  <2> DEFINE b == Programs[t][nextProg[t]]
  <2>1. b \in Bundles
    <3>0. nextProg[t] <= Len(Programs[t])
      BY <1>4 DEF LoadProgram
    <3>1. nextProg[t] \in 1..Len(Programs[t])
      BY <3>0, ProgramsAssumption DEF TypeOK
    <3>2. QED
      BY <3>1, ProgramsAssumption
  <2>2. /\ LoaderVariant(override) \in {"tp", "notp"}
        /\ LoaderVariant(RetryOverride(override)) \in {"tp", "notp"}
        /\ RetryOverride(override) \in BOOLEAN
    BY DEF LoaderVariant, RetryOverride
  <2>3. ASSUME NEW v \in {"tp", "notp"}, Loaded(t, b, v)
        PROVE  /\ variant' \in [Bundles -> {"none", "tp", "notp"}]
               /\ nextProg' \in [Tracers -> Nat \ {0}]
               /\ ptState' \in [Tracers -> {"new", "waiting", "loading", "ready", "failed"}]
               /\ loadMux' \in Tracers \cup {NoTracer}
    <3>1. CASE /\ nextProg' = [nextProg EXCEPT ![t] = @ + 1]
               /\ UNCHANGED <<ptState, loadMux>>
      BY <2>1, <2>3, <3>1 DEF Loaded, TypeOK
    <3>2. CASE Failed(t) /\ UNCHANGED nextProg
      BY <2>1, <2>3, <3>2 DEF Loaded, Failed, TypeOK
    <3>3. QED
      BY <2>3, <3>1, <3>2 DEF Loaded
  <2>4. /\ (\A x \in BOOLEAN : Append(loadLog[b], x) \in Seq(BOOLEAN))
        /\ (\A x, y \in BOOLEAN : Append(Append(loadLog[b], x), y) \in Seq(BOOLEAN))
    BY <2>1 DEF TypeOK
  <2> DEFINE v1  == LoaderVariant(override)
             ov2 == RetryOverride(override)
             v2  == LoaderVariant(ov2)
  <2> DEFINE Post == /\ variant' \in [Bundles -> {"none", "tp", "notp"}]
                    /\ nextProg' \in [Tracers -> Nat \ {0}]
                    /\ ptState' \in [Tracers -> {"new", "waiting", "loading", "ready", "failed"}]
                    /\ loadMux' \in Tracers \cup {NoTracer}
                    /\ loadLog' \in [Bundles -> Seq(BOOLEAN)]
                    /\ override' \in BOOLEAN
  <2>5. UNCHANGED <<kernel, utilState>> /\ UNCHANGED instVars
    BY <1>4 DEF LoadProgram
  <2>6. Post
    <3>1. CASE /\ LoadMayFail
               /\ loadLog' = [loadLog EXCEPT ![b] = Append(@, override)]
               /\ Failed(t)
               /\ UNCHANGED <<override, variant, nextProg>>
      BY <2>1, <2>4, <3>1 DEF Failed, TypeOK
    <3>2. CASE /\ ~MissingHelper(v1)
               /\ loadLog' = [loadLog EXCEPT ![b] = Append(@, override)]
               /\ Loaded(t, b, v1)
               /\ UNCHANGED override
      BY <2>1, <2>2, <2>3, <2>4, <3>2 DEF TypeOK
    <3>3. CASE /\ MissingHelper(v1)
               /\ override' = ov2
               /\ loadLog' = [loadLog EXCEPT ![b] = Append(Append(@, override), ov2)]
               /\ \/ ~MissingHelper(v2) /\ Loaded(t, b, v2)
                  \/ /\ MissingHelper(v2) \/ LoadMayFail
                     /\ Failed(t)
                     /\ UNCHANGED <<variant, nextProg>>
      <4>1. loadLog' \in [Bundles -> Seq(BOOLEAN)] /\ override' \in BOOLEAN
        BY <2>1, <2>2, <2>4, <3>3 DEF TypeOK
      <4>2. CASE Loaded(t, b, v2)
        BY <2>2, <2>3, <4>1, <4>2
      <4>3. CASE Failed(t) /\ UNCHANGED <<variant, nextProg>>
        BY <4>1, <4>3 DEF Failed, TypeOK
      <4>4. QED
        BY <3>3, <4>2, <4>3
    <3>4. QED
      BY <1>4, <3>1, <3>2, <3>3 DEF LoadProgram
  <2>7. QED
    BY <2>5, <2>6 DEF TypeOK, instVars
<1>5. QED
  BY <1>1, <1>2, <1>3, <1>4

LEMMA NewExecutableTypeOK ==
  ASSUME TypeOK, NEW t \in Tracers, NEW pid \in Pids, NewExecutable(t, pid)
  PROVE  TypeOK'
<1> DEFINE ino == ExeOf[pid]
           c   == nextCall + 1
           P   == Programs[t]
           Go(j)  == GoReq(c, P[j], ino)
           Req(j) == Go(j) \cup UpReq(c, P[j], pid)
           All == UNION {Req(j) : j \in 1..Len(P)}
<1>0. nextCall < MaxCalls /\ nextCall' = c
  BY DEF NewExecutable
<1>1. c \in 1..MaxCalls /\ ino \in Inodes /\ nextCall' = c
  BY <1>0, EnvAssumption DEF TypeOK
<1>2. \A j \in 1..Len(P) : Req(j) \subseteq Handle
  BY <1>1, ReqType, ProgramsAssumption
<1>3. All \subseteq Handle
  BY <1>2
<1>4. UNCHANGED <<kernel, override, loadMux, ptState, nextProg, variant,
                  loadLog, utilState>>
  BY DEF NewExecutable
<1>5. CASE /\ live' = live \cup All
           /\ registered' = [registered EXCEPT ![t] = @ \cup {ino}]
           /\ owned' = [owned EXCEPT ![t][ino] = All]
           /\ modules' = [modules EXCEPT ![t][ino] = ModulesOf(All)]
           /\ procs' = [procs EXCEPT ![t][ino] = {pid}]
           /\ RecordLibs(All)
  <2>1. libs' \in [Bundles -> SUBSET Modules]
    BY <1>3, <1>5, RecordLibsType
  <2>2. ModulesOf(All) \subseteq Modules
    BY <1>3, ModulesOfType
  <2>3. owned' \in [Tracers -> [Inodes -> SUBSET Handle]]
    BY <1>1, <1>3, <1>5 DEF TypeOK
  <2>4. modules' \in [Tracers -> [Inodes -> SUBSET Modules]]
    BY <1>1, <1>5, <2>2 DEF TypeOK
  <2>5. procs' \in [Tracers -> [Inodes -> SUBSET Pids]]
    BY <1>1, <1>5 DEF TypeOK
  <2>6. registered' \in [Tracers -> SUBSET Inodes] /\ live' \subseteq Handle
    BY <1>1, <1>3, <1>5 DEF TypeOK
  <2>7. QED
    BY <1>1, <1>4, <2>1, <2>3, <2>4, <2>5, <2>6 DEF TypeOK
<1>6. CASE /\ \E j \in 1..Len(P) : \E done \in SUBSET Req(j) :
                LET att == (UNION {Req(k) : k \in 1..(j - 1)}) \cup done
                IN /\ PartialAttach(Req(j), Go(j), done)
                   /\ live' = live \cup att
                   /\ RecordLibs(att)
           /\ UNCHANGED <<registered, owned, modules, procs>>
  <2>1. PICK j \in 1..Len(P) : \E done \in SUBSET Req(j) :
                LET att == (UNION {Req(k) : k \in 1..(j - 1)}) \cup done
                IN /\ live' = live \cup att
                   /\ RecordLibs(att)
    BY <1>6
  <2>2. PICK done \in SUBSET Req(j) :
                LET att == (UNION {Req(k) : k \in 1..(j - 1)}) \cup done
                IN /\ live' = live \cup att
                   /\ RecordLibs(att)
    BY <2>1
  <2> DEFINE att == (UNION {Req(k) : k \in 1..(j - 1)}) \cup done
  <2>3. att \subseteq Handle
    <3>1. \A k \in 1..(j - 1) : k \in 1..Len(P)
      BY ProgramsAssumption
    <3>2. QED
      BY <1>2, <2>2, <3>1
  <2>4. libs' \in [Bundles -> SUBSET Modules]
    BY <2>2, <2>3, RecordLibsType
  <2>5. live' \subseteq Handle
    BY <2>2, <2>3 DEF TypeOK
  <2>6. UNCHANGED <<registered, owned, modules, procs>>
    BY <1>6
  <2>7. QED
    BY <1>1, <1>4, <2>4, <2>5, <2>6 DEF TypeOK
<1>7. QED
  BY <1>5, <1>6 DEF NewExecutable

LEMMA NewExecutableInstanceTypeOK ==
  ASSUME TypeOK, NEW t \in Tracers, NEW pid \in Pids,
         NewExecutableInstance(t, pid)
  PROVE  TypeOK'
<1> DEFINE ino == ExeOf[pid]
           c   == nextCall + 1
           P   == Programs[t]
           Req(j) == UpReq(c, P[j], pid)
           All == UNION {Req(j) : j \in 1..Len(P)}
<1>1. ino \in Inodes
  BY EnvAssumption
<1>2. UNCHANGED <<kernel, override, loadMux, ptState, nextProg, variant,
                  loadLog, utilState>>
  BY DEF NewExecutableInstance
<1>3. CASE ino \notin registered[t] /\ UNCHANGED instVars
  BY <1>2, <1>3 DEF TypeOK, instVars
<1>4. CASE /\ ino \in registered[t]
           /\ nextCall < MaxCalls
           /\ nextCall' = c
           /\ UNCHANGED registered
           /\ \/ /\ live' = live \cup All
                 /\ owned' = [owned EXCEPT ![t][ino] = @ \cup All]
                 /\ modules' = [modules EXCEPT ![t][ino] = @ \cup ModulesOf(All)]
                 /\ procs' = [procs EXCEPT ![t][ino] = @ \cup {pid}]
                 /\ RecordLibs(All)
              \/ /\ \E j \in 1..Len(P) : \E done \in SUBSET Req(j) :
                      LET att == (UNION {Req(k) : k \in 1..(j - 1)}) \cup done
                      IN /\ live' = live \cup att
                         /\ owned' = [owned EXCEPT ![t][ino] = @ \cup att]
                         /\ modules' = [modules EXCEPT ![t][ino] = @ \cup ModulesOf(att)]
                         /\ RecordLibs(att)
                 /\ UNCHANGED procs
  <2>1. c \in 1..MaxCalls
    BY <1>4, EnvAssumption DEF TypeOK
  <2>2. \A j \in 1..Len(P) : Req(j) \subseteq Handle
    BY <1>1, <2>1, ReqType, ProgramsAssumption
  <2> DEFINE Post(hs) ==
        /\ live' = live \cup hs
        /\ owned' = [owned EXCEPT ![t][ino] = @ \cup hs]
        /\ modules' = [modules EXCEPT ![t][ino] = @ \cup ModulesOf(hs)]
        /\ RecordLibs(hs)
  <2>3. ASSUME NEW hs \in SUBSET Handle, Post(hs)
        PROVE  /\ live' \subseteq Handle
               /\ owned' \in [Tracers -> [Inodes -> SUBSET Handle]]
               /\ modules' \in [Tracers -> [Inodes -> SUBSET Modules]]
               /\ libs' \in [Bundles -> SUBSET Modules]
    <3>1. ModulesOf(hs) \subseteq Modules
      BY ModulesOfType
    <3>2. libs' \in [Bundles -> SUBSET Modules]
      BY <2>3, RecordLibsType
    <3>3. QED
      BY <1>1, <2>3, <3>1, <3>2 DEF TypeOK
  <2>4. CASE Post(All) /\ procs' = [procs EXCEPT ![t][ino] = @ \cup {pid}]
    <3>1. All \subseteq Handle
      BY <2>2
    <3>2. procs' \in [Tracers -> [Inodes -> SUBSET Pids]]
      BY <1>1, <2>4 DEF TypeOK
    <3>3. /\ live' \subseteq Handle
          /\ owned' \in [Tracers -> [Inodes -> SUBSET Handle]]
          /\ modules' \in [Tracers -> [Inodes -> SUBSET Modules]]
          /\ libs' \in [Bundles -> SUBSET Modules]
      BY <2>3, <2>4, <3>1
    <3>4. QED
      BY <1>2, <1>4, <2>1, <3>2, <3>3 DEF TypeOK
  <2>5. CASE /\ \E j \in 1..Len(P) : \E done \in SUBSET Req(j) :
                  Post((UNION {Req(k) : k \in 1..(j - 1)}) \cup done)
             /\ UNCHANGED procs
    <3>1. PICK j \in 1..Len(P) : \E done \in SUBSET Req(j) :
                  Post((UNION {Req(k) : k \in 1..(j - 1)}) \cup done)
      BY <2>5
    <3>2. PICK done \in SUBSET Req(j) :
                  Post((UNION {Req(k) : k \in 1..(j - 1)}) \cup done)
      BY <3>1
    <3>3. (UNION {Req(k) : k \in 1..(j - 1)}) \cup done \subseteq Handle
      <4>1. \A k \in 1..(j - 1) : k \in 1..Len(P)
        BY ProgramsAssumption
      <4>2. QED
        BY <2>2, <3>2, <4>1
    <3>4. /\ live' \subseteq Handle
          /\ owned' \in [Tracers -> [Inodes -> SUBSET Handle]]
          /\ modules' \in [Tracers -> [Inodes -> SUBSET Modules]]
          /\ libs' \in [Bundles -> SUBSET Modules]
      BY <2>3, <3>2, <3>3
    <3>5. /\ procs' = procs /\ registered' = registered
          /\ nextCall' \in 0..MaxCalls
      BY <1>4, <2>1, <2>5
    <3>6. QED
      BY <1>2, <3>4, <3>5 DEF TypeOK
  <2>6. QED
    BY <1>4, <2>4, <2>5
<1>5. QED
  BY <1>3, <1>4 DEF NewExecutableInstance

LEMMA UnlinkExecutableTypeOK ==
  ASSUME TypeOK, NEW t \in Tracers, NEW ino \in Inodes,
         UnlinkExecutable(t, ino)
  PROVE  TypeOK'
<1>1. UNCHANGED <<kernel, override, loadMux, ptState, nextProg, variant,
                  loadLog, nextCall, utilState>>
  BY DEF UnlinkExecutable
<1>2. CASE /\ live' = live \ owned[t][ino]
           /\ libs' = [b \in Bundles |->
                         IF b \in ProgramSet(t) THEN libs[b] \ modules[t][ino]
                                                ELSE libs[b]]
           /\ registered' = [registered EXCEPT ![t] = @ \ {ino}]
           /\ owned' = [owned EXCEPT ![t][ino] = {}]
           /\ modules' = [modules EXCEPT ![t][ino] = {}]
           /\ procs' = [procs EXCEPT ![t][ino] = {}]
  BY <1>1, <1>2 DEF TypeOK
<1>3. CASE UNCHANGED <<live, libs, registered, owned, modules, procs>>
  BY <1>1, <1>3 DEF TypeOK
<1>4. QED
  BY <1>2, <1>3 DEF UnlinkExecutable

LEMMA UtilStepTypeOK ==
  ASSUME TypeOK, UtilStartLoad \/ UtilFinish
  PROVE  TypeOK'
BY DEF UtilStartLoad, UtilFinish, TypeOK, instVars

LEMMA TypeOKStep == TypeOK /\ [Next]_vars => TypeOK'
<1> SUFFICES ASSUME TypeOK, [Next]_vars PROVE TypeOK'
  OBVIOUS
<1>1. ASSUME NEW t \in Tracers,
             CallInit(t) \/ AcquireLoad(t) \/ LoadProgram(t) \/ FinishLoad(t)
      PROVE  TypeOK'
  BY <1>1, LoadStepTypeOK
<1>2. ASSUME NEW t \in Tracers, NEW pid \in Pids, NewExecutable(t, pid)
      PROVE  TypeOK'
  BY <1>2, NewExecutableTypeOK
<1>3. ASSUME NEW t \in Tracers, NEW pid \in Pids,
             NewExecutableInstance(t, pid)
      PROVE  TypeOK'
  BY <1>3, NewExecutableInstanceTypeOK
<1>4. ASSUME NEW t \in Tracers, NEW ino \in Inodes, UnlinkExecutable(t, ino)
      PROVE  TypeOK'
  BY <1>4, UnlinkExecutableTypeOK
<1>5. CASE UtilStartLoad \/ UtilFinish
  BY <1>5, UtilStepTypeOK
<1>6. CASE UNCHANGED vars
  BY <1>6 DEF TypeOK, vars
<1>7. QED
  BY <1>1, <1>2, <1>3, <1>4, <1>5, <1>6 DEF Next

(* TypeOK holds in every state of every behaviour.                        *)
THEOREM TypeCorrect == Spec => []TypeOK
<1>1. Init => TypeOK
  BY InitTypeOK
<1>2. TypeOK /\ [Next]_vars => TypeOK'
  BY TypeOKStep
<1>3. QED
  BY <1>1, <1>2, PTL DEF Spec

-----------------------------------------------------------------------------
(* The Go probe table matches the loaded collection.                       *)

(* Only LoadProgram changes the kernel, the override flag or the loaded   *)
(* variants.                                                               *)
LEMMA OthersKeepVariant ==
  ASSUME [Next]_vars, ~\E t \in Tracers : LoadProgram(t)
  PROVE  UNCHANGED <<kernel, override, variant>>
<1>1. ASSUME NEW t \in Tracers, CallInit(t) \/ AcquireLoad(t) \/ FinishLoad(t)
      PROVE  UNCHANGED <<kernel, override, variant>>
  BY <1>1 DEF CallInit, AcquireLoad, FinishLoad
<1>2. ASSUME NEW t \in Tracers, NEW pid \in Pids,
             NewExecutable(t, pid) \/ NewExecutableInstance(t, pid)
      PROVE  UNCHANGED <<kernel, override, variant>>
  BY <1>2 DEF NewExecutable, NewExecutableInstance
<1>3. ASSUME NEW t \in Tracers, NEW ino \in Inodes, UnlinkExecutable(t, ino)
      PROVE  UNCHANGED <<kernel, override, variant>>
  BY <1>3 DEF UnlinkExecutable
<1>4. CASE UtilStartLoad \/ UtilFinish
  BY <1>4 DEF UtilStartLoad, UtilFinish
<1>5. QED
  BY <1>1, <1>2, <1>3, <1>4 DEF Next, vars

LEMMA CPInvInit == Init => CPInv
BY InitTypeOK DEF Init, CPInv

LEMMA LoadProgramCPInv ==
  ASSUME CPInv, TypeOK', NEW t \in Tracers, LoadProgram(t)
  PROVE  CPInv'
<1> DEFINE b   == Programs[t][nextProg[t]]
           v1  == LoaderVariant(override)
           ov2 == RetryOverride(override)
           v2  == LoaderVariant(ov2)
<1>1. kernel' = kernel
  BY DEF LoadProgram
<1>2. CASE UNCHANGED <<override, variant>>
  BY <1>1, <1>2 DEF CPInv, SupportsCP
<1>3. CASE /\ ~MissingHelper(v1)
           /\ Loaded(t, b, v1)
           /\ UNCHANGED override
  <2>1. variant' = [variant EXCEPT ![b] = v1]
    BY <1>3 DEF Loaded
  <2>2. v1 = "tp" => SupportsCP(override) /\ kernel.helper
    BY <1>3 DEF LoaderVariant, MissingHelper
  <2>3. v1 = "notp" => ~SupportsCP(override)
    BY DEF LoaderVariant
  <2>4. QED
    BY <1>1, <1>3, <2>1, <2>2, <2>3 DEF CPInv, SupportsCP, TypeOK
<1>4. CASE /\ MissingHelper(v1)
           /\ override' = ov2
           /\ \/ Loaded(t, b, v2)
              \/ UNCHANGED variant
  <2>1. ~kernel.helper /\ override' = TRUE
    BY <1>4 DEF MissingHelper, RetryOverride
  <2>2. \A c \in Bundles : variant[c] # "tp"
    BY <2>1 DEF CPInv
  <2>3. v2 = "notp"
    BY DEF LoaderVariant, SupportsCP, RetryOverride
  <2>4. \A c \in Bundles : variant'[c] # "tp"
    <3>1. CASE Loaded(t, b, v2)
      <4>1. variant' = [variant EXCEPT ![b] = v2]
        BY <3>1 DEF Loaded
      <4>2. QED
        BY <2>2, <2>3, <4>1 DEF TypeOK
    <3>2. CASE UNCHANGED variant
      BY <2>2, <3>2
    <3>3. QED
      BY <1>4, <3>1, <3>2
  <2>5. ~SupportsCP(override')
    BY <2>1 DEF SupportsCP
  <2>6. QED
    BY <1>1, <2>1, <2>4, <2>5 DEF CPInv, SupportsCP
<1>5. QED
  <2>1. \/ UNCHANGED <<override, variant>>
        \/ ~MissingHelper(v1) /\ Loaded(t, b, v1) /\ UNCHANGED override
        \/ /\ MissingHelper(v1)
           /\ override' = ov2
           /\ \/ Loaded(t, b, v2)
              \/ UNCHANGED variant
    BY DEF LoadProgram, Failed
  <2>2. QED
    BY <1>2, <1>3, <1>4, <2>1

LEMMA CPInvStep == CPInv /\ [Next]_vars => CPInv'
<1> SUFFICES ASSUME CPInv, [Next]_vars PROVE CPInv'
  OBVIOUS
<1>1. TypeOK'
  BY TypeOKStep DEF CPInv
<1>2. CASE \E t \in Tracers : LoadProgram(t)
  BY <1>1, <1>2, LoadProgramCPInv
<1>3. CASE ~\E t \in Tracers : LoadProgram(t)
  <2>1. UNCHANGED <<kernel, override, variant>>
    BY <1>3, OthersKeepVariant
  <2>2. QED
    BY <1>1, <2>1 DEF CPInv, SupportsCP
<1>4. QED
  BY <1>2, <1>3

LEMMA CPInvImpliesProbeTable == CPInv => ProbeTableMatchesCollection
<1> SUFFICES ASSUME CPInv, NEW b \in GoBundles, variant[b] # "none"
             PROVE  (GoProbes(b) \cap CPSyms # {}) <=> variant[b] = "tp"
  BY DEF ProbeTableMatchesCollection
<1>1. (GoProbes(b) \cap CPSyms # {}) <=> SupportsCP(override)
  BY SymsAssumption DEF GoProbes
<1>2. variant[b] \in {"tp", "notp"}
  BY ProgramsAssumption DEF CPInv, TypeOK
<1>3. QED
  BY <1>1, <1>2, ProgramsAssumption DEF CPInv

(* Whatever the kernel and however the tracers' loads and fallbacks        *)
(* interleave, the GoProbes table offered to NewExecutable names the       *)
(* context-propagation programs exactly when the bundle's loaded           *)
(* collection is the propagation variant.                                  *)
THEOREM ProbeTableCorrect == Spec => []ProbeTableMatchesCollection
<1>1. Init => CPInv
  BY CPInvInit
<1>2. CPInv /\ [Next]_vars => CPInv'
  BY CPInvStep
<1>3. CPInv => ProbeTableMatchesCollection
  BY CPInvImpliesProbeTable
<1>4. QED
  BY <1>1, <1>2, <1>3, PTL DEF Spec

=============================================================================
