------------------------ MODULE ProcessTracerOwnProofs ------------------------
(***************************************************************************)
(* Proof that the closables of every registered instrumenter stay attached *)
(* until their inode is unlinked (OwnedHandlesLive), through the inductive *)
(* invariant OwnInv: each attaching call makes handles of a fresh call     *)
(* number, so no two instrumenters own a handle in common, and             *)
(* UnlinkExecutable closes only the handles of the inode it unlinks.       *)
(***************************************************************************)
EXTENDS ProcessTracerProofs

(* The handles an attaching call requests carry its call number.           *)
LEMMA ReqCall ==
  ASSUME NEW c, NEW b, NEW ino, NEW pid
  PROVE  \A h \in GoReq(c, b, ino) \cup UpReq(c, b, pid) : h.call = c
BY DEF GoReq, UpReq

LEMMA OwnInvInit == Init => OwnInv
BY InitTypeOK DEF Init, OwnInv, OwnedHandlesLive

(* The handles of the instrumenters and their call numbers.                *)
LEMMA OwnedType ==
  ASSUME TypeOK
  PROVE  /\ owned \in [Tracers -> [Inodes -> SUBSET Handle]]
         /\ \A u \in Tracers, k \in Inodes : \A h \in owned[u][k] : h.call \in Nat
         /\ nextCall \in Nat
BY DEF TypeOK, Handle

(* A call that adds the fresh handles hs to the instrumenter of ino, which *)
(* it registers if it is not yet, keeps OwnInv.                            *)
LEMMA AttachOwnInv ==
  ASSUME OwnInv, TypeOK', NEW t \in Tracers, NEW ino \in Inodes, NEW hs,
         \A h \in hs : h.call = nextCall + 1,
         nextCall' = nextCall + 1,
         live' = live \cup hs,
         owned' = [owned EXCEPT ![t][ino] = @ \cup hs],
         registered' = [registered EXCEPT ![t] = @ \cup {ino}]
  PROVE  OwnInv'
<1>a. /\ ino \in registered'[t]
      /\ \A u \in Tracers : registered[u] \subseteq registered'[u]
      /\ \A u \in Tracers, k \in Inodes :
           k \in registered'[u] /\ (u # t \/ k # ino) => k \in registered[u]
  BY DEF OwnInv, TypeOK
<1>0. /\ owned \in [Tracers -> [Inodes -> SUBSET Handle]]
      /\ \A u \in Tracers, k \in Inodes : \A h \in owned[u][k] : h.call \in Nat
      /\ nextCall \in Nat
  BY OwnedType DEF OwnInv
<1>1. \A u \in Tracers, k \in Inodes :
        owned'[u][k] = IF u = t /\ k = ino THEN owned[t][ino] \cup hs
                                          ELSE owned[u][k]
  BY <1>0
<1>2. \A u \in Tracers, k \in Inodes : \A h \in owned'[u][k] : h.call <= nextCall'
  BY <1>0, <1>1 DEF OwnInv
<1>3. \A u \in Tracers, k \in Inodes : k \notin registered'[u] => owned'[u][k] = {}
  BY <1>a, <1>1 DEF OwnInv
<1>4. \A u \in Tracers, k \in Inodes :
        \A h \in owned[u][k] : h \notin hs
  BY <1>0 DEF OwnInv
<1>5. \A u, v \in Tracers, i, k \in Inodes :
        u # v \/ i # k => owned'[u][i] \cap owned'[v][k] = {}
  BY <1>1, <1>4 DEF OwnInv
<1>6. owned[t][ino] \subseteq live
  <2>1. CASE ino \in registered[t]
    BY <2>1 DEF OwnInv, OwnedHandlesLive
  <2>2. CASE ino \notin registered[t]
    BY <2>2 DEF OwnInv
  <2>3. QED
    BY <2>1, <2>2
<1>7. \A u \in Tracers : \A k \in registered'[u] : owned'[u][k] \subseteq live'
  BY <1>a, <1>1, <1>6 DEF OwnInv, OwnedHandlesLive, TypeOK
<1>8. QED
  BY <1>2, <1>3, <1>5, <1>7 DEF OwnInv, OwnedHandlesLive

(* UnlinkExecutable of a registered inode closes exactly its handles and   *)
(* forgets it, which keeps OwnInv.                                         *)
LEMMA UnlinkOwnInv ==
  ASSUME OwnInv, TypeOK', NEW t \in Tracers, NEW ino \in Inodes,
         UNCHANGED nextCall,
         live' = live \ owned[t][ino],
         registered' = [registered EXCEPT ![t] = @ \ {ino}],
         owned' = [owned EXCEPT ![t][ino] = {}]
  PROVE  OwnInv'
<1>0. /\ owned \in [Tracers -> [Inodes -> SUBSET Handle]]
      /\ registered \in [Tracers -> SUBSET Inodes]
  BY DEF OwnInv, TypeOK
<1>1. \A u \in Tracers, k \in Inodes :
        /\ owned'[u][k] = IF u = t /\ k = ino THEN {} ELSE owned[u][k]
        /\ (k \in registered'[u]) <=> (k \in registered[u] /\ (u # t \/ k # ino))
  BY <1>0
<1>2. ASSUME NEW u \in Tracers, NEW k \in registered'[u]
      PROVE  owned'[u][k] \subseteq live'
  <2>1. k \in Inodes /\ k \in registered[u] /\ (u # t \/ k # ino)
    BY <1>0, <1>1 DEF TypeOK
  <2>2. owned'[u][k] = owned[u][k]
    BY <1>1, <2>1
  <2>3. owned[u][k] \subseteq live
    BY <2>1 DEF OwnInv, OwnedHandlesLive
  <2>4. owned[u][k] \cap owned[t][ino] = {}
    BY <2>1 DEF OwnInv
  <2>5. QED
    BY <2>2, <2>3, <2>4
<1>3. QED
  BY <1>1, <1>2 DEF OwnInv, OwnedHandlesLive

(* A failed NewExecutable attaches handles that nobody owns: OwnInv is     *)
(* kept, as only live grows (NoOrphanHandles is what breaks).              *)
LEMMA GrowOwnInv ==
  ASSUME OwnInv, TypeOK', nextCall' = nextCall + 1, live \subseteq live',
         UNCHANGED <<owned, registered>>
  PROVE  OwnInv'
<1>1. \A u \in Tracers, k \in Inodes : \A h \in owned[u][k] : h.call \in Nat
  BY OwnedType DEF OwnInv
<1>2. nextCall \in Nat
  BY DEF OwnInv, TypeOK
<1>3. QED
  BY <1>1, <1>2 DEF OwnInv, OwnedHandlesLive

(* The steps that attach nothing and release nothing.                      *)
LEMMA QuietOwnInv ==
  ASSUME OwnInv, TypeOK', UNCHANGED <<live, nextCall, registered, owned>>
  PROVE  OwnInv'
BY DEF OwnInv, OwnedHandlesLive

LEMMA NewExecutableOwnInv ==
  ASSUME OwnInv, TypeOK', NEW t \in Tracers, NEW pid \in Pids, NewExecutable(t, pid)
  PROVE  OwnInv'
<1> DEFINE ino == ExeOf[pid]
           c   == nextCall + 1
           P   == Programs[t]
           Go(j)  == GoReq(c, P[j], ino)
           Req(j) == Go(j) \cup UpReq(c, P[j], pid)
           All == UNION {Req(j) : j \in 1..Len(P)}
<1>1. ino \in Inodes /\ ino \notin registered[t] /\ nextCall' = c
  BY EnvAssumption DEF NewExecutable
<1>2. \A j \in 1..Len(P) : \A h \in Req(j) : h.call = c
  BY ReqCall
<1>3. CASE /\ live' = live \cup All
           /\ registered' = [registered EXCEPT ![t] = @ \cup {ino}]
           /\ owned' = [owned EXCEPT ![t][ino] = All]
  <2>1. owned[t][ino] = {} /\ owned \in [Tracers -> [Inodes -> SUBSET Handle]]
    BY <1>1 DEF OwnInv, TypeOK
  <2>2. owned' = [owned EXCEPT ![t][ino] = @ \cup All]
    BY <1>3, <2>1
  <2>3. \A h \in All : h.call = nextCall + 1
    BY <1>2
  <2>4. PICK hs : hs = All
    OBVIOUS
  <2>5. /\ \A h \in hs : h.call = nextCall + 1
        /\ live' = live \cup hs
        /\ owned' = [owned EXCEPT ![t][ino] = @ \cup hs]
    BY <1>3, <2>2, <2>3, <2>4
  <2>6. ino \in Inodes /\ nextCall' = nextCall + 1
    BY <1>1
  <2>7. QED
    BY <1>3, <2>5, <2>6, AttachOwnInv
<1>4. CASE /\ \E j \in 1..Len(P) : \E done \in SUBSET Req(j) :
                live' = live \cup ((UNION {Req(k) : k \in 1..(j - 1)}) \cup done)
           /\ UNCHANGED <<registered, owned>>
  BY <1>1, <1>4, GrowOwnInv
<1>5. QED
  <2>1. \/ /\ live' = live \cup All
           /\ registered' = [registered EXCEPT ![t] = @ \cup {ino}]
           /\ owned' = [owned EXCEPT ![t][ino] = All]
        \/ /\ \E j \in 1..Len(P) : \E done \in SUBSET Req(j) :
                live' = live \cup ((UNION {Req(k) : k \in 1..(j - 1)}) \cup done)
           /\ UNCHANGED <<registered, owned>>
    BY DEF NewExecutable
  <2>2. QED
    BY <2>1, <1>3, <1>4

LEMMA NewExecutableInstanceOwnInv ==
  ASSUME OwnInv, TypeOK', NEW t \in Tracers, NEW pid \in Pids,
         NewExecutableInstance(t, pid)
  PROVE  OwnInv'
<1> DEFINE ino == ExeOf[pid]
           c   == nextCall + 1
           P   == Programs[t]
           Req(j) == UpReq(c, P[j], pid)
           All == UNION {Req(j) : j \in 1..Len(P)}
<1>0. ino \in Inodes
  BY EnvAssumption
<1>1. \A j \in 1..Len(P) : \A h \in Req(j) : h.call = c
  BY ReqCall
<1>2. CASE ino \notin registered[t] /\ UNCHANGED instVars
  BY <1>2, QuietOwnInv DEF instVars
<1> DEFINE Post(hs) ==
      /\ live' = live \cup hs
      /\ owned' = [owned EXCEPT ![t][ino] = @ \cup hs]
<1>3. ASSUME NEW hs, \A h \in hs : h.call = c, Post(hs),
             ino \in registered[t], nextCall' = c, UNCHANGED registered
      PROVE  OwnInv'
  <2>1. registered' = [registered EXCEPT ![t] = @ \cup {ino}]
    BY <1>3 DEF OwnInv, TypeOK
  <2>2. QED
    BY <1>0, <1>3, <2>1, AttachOwnInv
<1>4. CASE /\ ino \in registered[t]
           /\ nextCall' = c
           /\ UNCHANGED registered
           /\ \/ Post(All)
              \/ \E j \in 1..Len(P) : \E done \in SUBSET Req(j) :
                   Post((UNION {Req(k) : k \in 1..(j - 1)}) \cup done)
  <2>1. CASE Post(All)
    <3>1. \A h \in All : h.call = c
      BY <1>1
    <3>2. QED
      BY <1>3, <1>4, <2>1, <3>1
  <2>2. CASE \E j \in 1..Len(P) : \E done \in SUBSET Req(j) :
               Post((UNION {Req(k) : k \in 1..(j - 1)}) \cup done)
    <3>1. PICK j \in 1..Len(P) : \E done \in SUBSET Req(j) :
                 Post((UNION {Req(k) : k \in 1..(j - 1)}) \cup done)
      BY <2>2
    <3>2. PICK done \in SUBSET Req(j) :
                 Post((UNION {Req(k) : k \in 1..(j - 1)}) \cup done)
      BY <3>1
    <3>3. \A k \in 1..(j - 1) : k \in 1..Len(P)
      BY ProgramsAssumption
    <3>4. \A h \in (UNION {Req(k) : k \in 1..(j - 1)}) \cup done : h.call = c
      BY <1>1, <3>2, <3>3
    <3>5. QED
      BY <1>3, <1>4, <3>2, <3>4
  <2>3. QED
    BY <1>4, <2>1, <2>2
<1>5. QED
  <2>1. \/ ino \notin registered[t] /\ UNCHANGED instVars
        \/ /\ ino \in registered[t]
           /\ nextCall' = c
           /\ UNCHANGED registered
           /\ \/ Post(All)
              \/ \E j \in 1..Len(P) : \E done \in SUBSET Req(j) :
                   Post((UNION {Req(k) : k \in 1..(j - 1)}) \cup done)
    BY DEF NewExecutableInstance
  <2>2. QED
    BY <2>1, <1>2, <1>4

LEMMA OwnInvStep == OwnInv /\ [Next]_vars => OwnInv'
<1> SUFFICES ASSUME OwnInv, [Next]_vars PROVE OwnInv'
  OBVIOUS
<1>1. TypeOK'
  BY TypeOKStep DEF OwnInv
<1>2. ASSUME NEW t \in Tracers,
             CallInit(t) \/ AcquireLoad(t) \/ LoadProgram(t) \/ FinishLoad(t)
      PROVE  OwnInv'
  <2>1. UNCHANGED <<live, nextCall, registered, owned>>
    BY <1>2 DEF CallInit, AcquireLoad, LoadProgram, FinishLoad, instVars
  <2>2. QED
    BY <1>1, <2>1, QuietOwnInv
<1>3. ASSUME NEW t \in Tracers, NEW ino \in Inodes, UnlinkExecutable(t, ino)
      PROVE  OwnInv'
  <2>1. CASE /\ live' = live \ owned[t][ino]
             /\ registered' = [registered EXCEPT ![t] = @ \ {ino}]
             /\ owned' = [owned EXCEPT ![t][ino] = {}]
             /\ UNCHANGED nextCall
    BY <1>1, <2>1, UnlinkOwnInv
  <2>2. CASE UNCHANGED <<live, nextCall, registered, owned>>
    BY <1>1, <2>2, QuietOwnInv
  <2>3. UNCHANGED nextCall
    BY <1>3 DEF UnlinkExecutable
  <2>4. \/ /\ live' = live \ owned[t][ino]
           /\ registered' = [registered EXCEPT ![t] = @ \ {ino}]
           /\ owned' = [owned EXCEPT ![t][ino] = {}]
        \/ UNCHANGED <<live, registered, owned>>
    BY <1>3 DEF UnlinkExecutable
  <2>5. QED
    BY <2>1, <2>2, <2>3, <2>4
<1>4. CASE UtilStartLoad \/ UtilFinish \/ UNCHANGED vars
  <2>1. UNCHANGED <<live, nextCall, registered, owned>>
    BY <1>4 DEF UtilStartLoad, UtilFinish, instVars, vars
  <2>2. QED
    BY <1>1, <2>1, QuietOwnInv
<1>5. QED
  BY <1>1, <1>2, <1>3, <1>4, NewExecutableOwnInv, NewExecutableInstanceOwnInv
  DEF Next

(* For every configuration, every closable of a registered instrumenter    *)
(* stays attached until UnlinkExecutable of its own inode, across the      *)
(* attach failures and the other executables' unlinks.                     *)
THEOREM OwnedLive == Spec => []OwnedHandlesLive
<1>1. Init => OwnInv
  BY OwnInvInit
<1>2. OwnInv /\ [Next]_vars => OwnInv'
  BY OwnInvStep
<1>3. OwnInv => OwnedHandlesLive
  BY DEF OwnInv
<1>4. QED
  BY <1>1, <1>2, <1>3, PTL DEF Spec

=============================================================================
