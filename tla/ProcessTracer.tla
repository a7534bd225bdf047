---------------------------- MODULE ProcessTracer ----------------------------
(***************************************************************************)
(* The eBPF process tracer orchestrator of Beyla (pkg/internal/ebpf,       *)
(* ProcessTracer in src/unnamed/part_001) together with the program bundle *)
(* it drives (the Go tracer, gotracer.go) and the utility tracer loader.   *)
(*                                                                         *)
(* Several ProcessTracer instances live in one Beyla process.  They share  *)
(* the load mutex loadMux and the process-wide flag                        *)
(* common.IntegrityModeOverride.  Each instance loads its bundles once     *)
(* (Init / loadTracers, serialised by loadMux, with the one fallback retry *)
(* on a kernel without bpf_probe_write_user), then attaches per-executable *)
(* uprobes on NewExecutable / NewExecutableInstance and releases them on   *)
(* UnlinkExecutable.  The utility tracer (RunUtilityTracer) loads its own  *)
(* collection concurrently.                                                *)
(*                                                                         *)
(* Data is abstracted: a kernel attachment handle is a record naming the   *)
(* call that attached it, the bundle and the probed symbol or shared       *)
(* library; probe symbols and libraries are model values.                  *)
(***************************************************************************)
EXTENDS Naturals, Sequences, FiniteSets

CONSTANTS
  Tracers,        \* ProcessTracer instances of the Beyla process
  Bundles,        \* program bundles (implementations of ebpf.Tracer)
  Programs,       \* Programs[t]: pt.Programs, the ordered bundles of tracer t
  GoBundles,      \* bundles whose GoProbes table is the Go tracer's
  UProbeBundles,  \* bundles with a non-empty UProbes table (shared libraries)
  BaseSyms,       \* GoProbes symbols present whatever the kernel
  CPSyms,         \* GoProbes symbols added only with context propagation
  Modules,        \* shared-library inodes
  Inodes,         \* executable inodes
  Pids,           \* process identifiers
  ExeOf,          \* ExeOf[pid]: inode of the executable pid runs
  FuncsOf,        \* FuncsOf[ino]: symbols found in offsets.Funcs of ino
  LibsOf,         \* LibsOf[pid]: shared libraries mapped by pid
  LoadMayFail,    \* spec parse, constant rewrite or verifier errors happen
  AttachMayFail,  \* a probe attachment may be refused
  MaxCalls,       \* bound on attaching calls (names fresh handles)
  NoTracer        \* loadMux is free

Syms == BaseSyms \cup CPSyms

ProgramSet(t) == {Programs[t][j] : j \in 1..Len(Programs[t])}

ASSUME ProgramsAssumption ==
  /\ Programs \in [Tracers -> Seq(Bundles)]
  \* a bundle is listed once, and by one tracer only
  /\ \A t, u \in Tracers :
       \A i \in 1..Len(Programs[t]), j \in 1..Len(Programs[u]) :
         Programs[t][i] = Programs[u][j] => (t = u /\ i = j)
  /\ GoBundles \subseteq Bundles
  /\ UProbeBundles \subseteq Bundles
  \* the Go tracer's UProbes() table is nil: no Go bundle attaches uprobes
  /\ GoBundles \cap UProbeBundles = {}
  /\ NoTracer \notin Tracers

ASSUME SymsAssumption ==
  /\ BaseSyms \cap CPSyms = {}
  /\ CPSyms # {}
  /\ Syms \cap Modules = {}

ASSUME EnvAssumption ==
  /\ ExeOf \in [Pids -> Inodes]
  /\ FuncsOf \in [Inodes -> SUBSET Syms]
  /\ LibsOf \in [Pids -> SUBSET Modules]
  /\ LoadMayFail \in BOOLEAN
  /\ AttachMayFail \in BOOLEAN
  /\ MaxCalls \in Nat

(* The kernel: whether it offers bpf_probe_write_user, and whether it is   *)
(* out of lockdown (ebpfcommon.SupportsContextPropagation).                *)
Kernels == [helper : BOOLEAN, cp : BOOLEAN]

(* A kernel attachment handle (an io.Closer in instrumenter.closables).    *)
Handle == [call : 1..MaxCalls, b : Bundles, on : Syms \cup Modules]

VARIABLES
  kernel,      \* the running kernel, fixed for the process lifetime
  override,    \* common.IntegrityModeOverride
  loadMux,     \* holder of loadMux, or NoTracer
  ptState,     \* per tracer: "new", "waiting" (in Init), "loading", "ready", "failed"
  nextProg,    \* per tracer: index of the next bundle loadTracers loads
  variant,     \* per bundle: collection loaded, "none", "tp" or "notp"
  loadLog,     \* per bundle: IntegrityModeOverride at each call of p.Load()
  live,        \* handles attached and not yet closed
  nextCall,    \* number of attaching calls so far
  registered,  \* per tracer: DOMAIN pt.Instrumentables
  owned,       \* owned[t][ino]: closables of pt.Instrumentables[ino]
  modules,     \* modules[t][ino]: the instrumenter's modules set
  procs,       \* procs[t][ino]: processes of ino handed to the tracer
  libs,        \* per bundle: libraries recorded by RecordInstrumentedLib
  utilState    \* RunUtilityTracer: "idle", "loading", "running", "failed"

vars == <<kernel, override, loadMux, ptState, nextProg, variant, loadLog,
          live, nextCall, registered, owned, modules, procs, libs, utilState>>

instVars == <<live, nextCall, registered, owned, modules, procs, libs>>

-----------------------------------------------------------------------------
(* Tracer.supportsContextPropagation: !IntegrityModeOverride && kernel     *)
(* support, for a given value ov of the flag.                              *)
SupportsCP(ov) == ~ov /\ kernel.cp

(* Tracer.Load: the collection variant the loader picks.                   *)
LoaderVariant(ov) == IF SupportsCP(ov) THEN "tp" ELSE "notp"

(* LoadAndAssign fails with "unknown func bpf_probe_write_user".           *)
MissingHelper(v) == v = "tp" /\ ~kernel.helper

(* Mutant: the table consults the kernel only, not the override flag.     *)
GoProbesKernelOnly(b) ==
  IF b \in GoBundles
    THEN BaseSyms \cup (IF kernel.cp THEN CPSyms ELSE {})
    ELSE {}

(* Tracer.GoProbes: the symbol table, read at attach time.                 *)
GoProbes(b) ==
  IF b \in GoBundles
    THEN BaseSyms \cup (IF SupportsCP(override) THEN CPSyms ELSE {})
    ELSE {}

(* Mutant: the retry does not set IntegrityModeOverride.                  *)
RetryOverrideKept(ov) == ov

(* The flag value loadTracers retries with: it sets the override.          *)
RetryOverride(ov) == TRUE

Init ==
  /\ kernel \in Kernels
  /\ override = FALSE
  /\ loadMux = NoTracer
  /\ ptState = [t \in Tracers |-> "new"]
  /\ nextProg = [t \in Tracers |-> 1]
  /\ variant = [b \in Bundles |-> "none"]
  /\ loadLog = [b \in Bundles |-> <<>>]
  /\ live = {}
  /\ nextCall = 0
  /\ registered = [t \in Tracers |-> {}]
  /\ owned = [t \in Tracers |-> [i \in Inodes |-> {}]]
  /\ modules = [t \in Tracers |-> [i \in Inodes |-> {}]]
  /\ procs = [t \in Tracers |-> [i \in Inodes |-> {}]]
  /\ libs = [b \in Bundles |-> {}]
  /\ utilState = "idle"

-----------------------------------------------------------------------------
(* Init / loadTracers                                                      *)

(* The tracer attacher calls pt.Init(), which blocks on loadMux.Lock().    *)
CallInit(t) ==
  /\ ptState[t] = "new"
  /\ ptState' = [ptState EXCEPT ![t] = "waiting"]
  /\ UNCHANGED <<kernel, override, loadMux, nextProg, variant, loadLog,
                 utilState>>
  /\ UNCHANGED instVars

(* Mutant: Init proceeds without waiting for loadMux.                     *)
AcquireLoadNoLock(t) ==
  /\ ptState[t] = "waiting"
  /\ loadMux' = t
  /\ ptState' = [ptState EXCEPT ![t] = "loading"]
  /\ nextProg' = [nextProg EXCEPT ![t] = 1]
  /\ UNCHANGED <<kernel, override, variant, loadLog, utilState>>
  /\ UNCHANGED instVars

AcquireLoad(t) ==
  /\ ptState[t] = "waiting"
  /\ loadMux = NoTracer
  /\ loadMux' = t
  /\ ptState' = [ptState EXCEPT ![t] = "loading"]
  /\ nextProg' = [nextProg EXCEPT ![t] = 1]
  /\ UNCHANGED <<kernel, override, variant, loadLog, utilState>>
  /\ UNCHANGED instVars

(* Mutant: an error return that skips loadMux.Unlock().                   *)
FailedKeepLock(t) ==
  /\ ptState' = [ptState EXCEPT ![t] = "failed"]
  /\ UNCHANGED loadMux

(* loadTracers returns an error; the deferred Unlock releases loadMux.     *)
Failed(t) ==
  /\ ptState' = [ptState EXCEPT ![t] = "failed"]
  /\ loadMux' = NoTracer

(* LoadAndAssign succeeded with variant v; SetupTailCalls and SetupTC, then *)
(* the kprobes, tracepoints and socket filters of the global instrumenter. *)
Loaded(t, b, v) ==
  /\ variant' = [variant EXCEPT ![b] = v]
  /\ \/ /\ nextProg' = [nextProg EXCEPT ![t] = @ + 1]
        /\ UNCHANGED <<ptState, loadMux>>
     \/ /\ AttachMayFail
        /\ Failed(t)
        /\ UNCHANGED nextProg

(* One iteration of the loop over pt.Programs in loadTracers.              *)
LoadProgram(t) ==
  /\ ptState[t] = "loading"
  /\ nextProg[t] <= Len(Programs[t])
  /\ LET b   == Programs[t][nextProg[t]]
         v1  == LoaderVariant(override)
         ov2 == RetryOverride(override)
         v2  == LoaderVariant(ov2)
     IN \/ \* loadSpec or LoadAndAssign fails for another reason
           /\ LoadMayFail
           /\ loadLog' = [loadLog EXCEPT ![b] = Append(@, override)]
           /\ Failed(t)
           /\ UNCHANGED <<override, variant, nextProg>>
        \/ /\ ~MissingHelper(v1)
           /\ loadLog' = [loadLog EXCEPT ![b] = Append(@, override)]
           /\ Loaded(t, b, v1)
           /\ UNCHANGED override
        \/ \* fallback: set the override and load once more
           /\ MissingHelper(v1)
           /\ override' = ov2
           /\ loadLog' = [loadLog EXCEPT ![b] = Append(Append(@, override), ov2)]
           /\ \/ ~MissingHelper(v2) /\ Loaded(t, b, v2)
              \/ /\ MissingHelper(v2) \/ LoadMayFail
                 /\ Failed(t)
                 /\ UNCHANGED <<variant, nextProg>>
  /\ UNCHANGED <<kernel, utilState>>
  /\ UNCHANGED instVars

(* After the loop: btf.FlushKernelSpec(), return nil, Unlock.              *)
FinishLoad(t) ==
  /\ ptState[t] = "loading"
  /\ nextProg[t] > Len(Programs[t])
  /\ ptState' = [ptState EXCEPT ![t] = "ready"]
  /\ loadMux' = NoTracer
  /\ UNCHANGED <<kernel, override, nextProg, variant, loadLog, utilState>>
  /\ UNCHANGED instVars
-----------------------------------------------------------------------------
(* The instrumenter (goprobes, uprobes) and the executable handlers.       *)

(* instrumenter.goprobes(p): one attachment per GoProbes symbol that the   *)
(* executable's offsets know; a symbol not in offsets.Funcs is skipped.    *)
GoReq(c, b, ino) ==
  {[call |-> c, b |-> b, on |-> s] : s \in GoProbes(b) \cap FuncsOf[ino]}

(* Mutant: uprobes without the AlreadyInstrumentedLib check.              *)
UpReqNoDedup(c, b, pid) ==
  IF b \in UProbeBundles
    THEN {[call |-> c, b |-> b, on |-> m] : m \in LibsOf[pid]}
    ELSE {}

(* instrumenter.uprobes(pid, p): one attachment per shared library of the  *)
(* process that p has not instrumented yet (AlreadyInstrumentedLib).       *)
UpReq(c, b, pid) ==
  IF b \in UProbeBundles
    THEN {[call |-> c, b |-> b, on |-> m] : m \in LibsOf[pid] \ libs[b]}
    ELSE {}

(* The shared libraries among the handles hs.                              *)
ModulesOf(hs) == {h.on : h \in {g \in hs : g.on \in Modules}}

(* Mutant: records every attachment, not only the library ones.          *)
RecordLibsAll(hs) ==
  libs' = [b \in Bundles |-> libs[b] \cup {h.on : h \in {g \in hs : g.b = b}}]

(* Mutant: the uprobes never call RecordInstrumentedLib.                  *)
RecordLibsNone(hs) == libs' = libs

(* RecordInstrumentedLib for every library attachment in hs.               *)
RecordLibs(hs) ==
  libs' = [b \in Bundles |->
             libs[b] \cup ModulesOf({h \in hs : h.b = b})]

(* The handles attached by a call that fails: all requests of the bundles  *)
(* before the j-th, and the part done of the j-th one's.  Go map order     *)
(* decides which attachments of bundle j precede the refused one, so done  *)
(* is any proper subset of its requests, goprobes before uprobes.          *)
PartialAttach(req, go, done) ==
  /\ done # req
  /\ done \subseteq go \/ go \subseteq done

NewExecutable(t, pid) ==
  LET ino == ExeOf[pid]
      c   == nextCall + 1
      P   == Programs[t]
      Go(j)  == GoReq(c, P[j], ino)
      Req(j) == Go(j) \cup UpReq(c, P[j], pid)
      All == UNION {Req(j) : j \in 1..Len(P)}
  IN /\ ptState[t] = "ready"
     \* Process Discovery reports an executable before its instances
     /\ ino \notin registered[t]
     /\ nextCall < MaxCalls
     /\ nextCall' = c
     /\ \/ /\ live' = live \cup All
           /\ registered' = [registered EXCEPT ![t] = @ \cup {ino}]
           /\ owned' = [owned EXCEPT ![t][ino] = All]
           /\ modules' = [modules EXCEPT ![t][ino] = ModulesOf(All)]
           /\ procs' = [procs EXCEPT ![t][ino] = {pid}]
           /\ RecordLibs(All)
        \/ \* an attachment fails: the local instrumenter is dropped
           /\ AttachMayFail
           /\ \E j \in 1..Len(P) : \E done \in SUBSET Req(j) :
                LET att == (UNION {Req(k) : k \in 1..(j - 1)}) \cup done
                IN /\ PartialAttach(Req(j), Go(j), done)
                   /\ live' = live \cup att
                   /\ RecordLibs(att)
           /\ UNCHANGED <<registered, owned, modules, procs>>
  /\ UNCHANGED <<kernel, override, loadMux, ptState, nextProg, variant,
                 loadLog, utilState>>

NewExecutableInstance(t, pid) ==
  LET ino == ExeOf[pid]
      c   == nextCall + 1
      P   == Programs[t]
      Req(j) == UpReq(c, P[j], pid)
      All == UNION {Req(j) : j \in 1..Len(P)}
  IN /\ ptState[t] = "ready"
     /\ \/ /\ ino \in registered[t]
           /\ pid \notin procs[t][ino]
           /\ nextCall < MaxCalls
           /\ nextCall' = c
           /\ \/ /\ live' = live \cup All
                 /\ owned' = [owned EXCEPT ![t][ino] = @ \cup All]
                 /\ modules' = [modules EXCEPT ![t][ino] = @ \cup ModulesOf(All)]
                 /\ procs' = [procs EXCEPT ![t][ino] = @ \cup {pid}]
                 /\ RecordLibs(All)
              \/ \* the instrumenter keeps what was attached before the error
                 /\ AttachMayFail
                 /\ \E j \in 1..Len(P) : \E done \in SUBSET Req(j) :
                      LET att == (UNION {Req(k) : k \in 1..(j - 1)}) \cup done
                      IN /\ PartialAttach(Req(j), {}, done)
                         /\ live' = live \cup att
                         /\ owned' = [owned EXCEPT ![t][ino] = @ \cup att]
                         /\ modules' = [modules EXCEPT ![t][ino] = @ \cup ModulesOf(att)]
                         /\ RecordLibs(att)
                 /\ UNCHANGED procs
           /\ UNCHANGED registered
        \/ \* "Attempted to update non-existent tracer"
           /\ ino \notin registered[t]
           /\ UNCHANGED instVars
  /\ UNCHANGED <<kernel, override, loadMux, ptState, nextProg, variant,
                 loadLog, utilState>>

(* Mutant: the entry is not deleted from pt.Instrumentables.             *)
UnlinkKeepEntry(t, ino) ==
  /\ ptState[t] = "ready"
  /\ ino \in registered[t]
  /\ live' = live \ owned[t][ino]
  /\ UNCHANGED <<kernel, override, loadMux, ptState, nextProg, variant,
                 loadLog, nextCall, registered, owned, modules, procs, libs,
                 utilState>>

(* Mutant: the entry is deleted without closing its closables.           *)
UnlinkNoClose(t, ino) ==
  /\ ptState[t] = "ready"
  /\ ino \in registered[t]
  /\ registered' = [registered EXCEPT ![t] = @ \ {ino}]
  /\ owned' = [owned EXCEPT ![t][ino] = {}]
  /\ modules' = [modules EXCEPT ![t][ino] = {}]
  /\ procs' = [procs EXCEPT ![t][ino] = {}]
  /\ libs' = [b \in Bundles |->
                IF b \in ProgramSet(t) THEN libs[b] \ modules[t][ino]
                                       ELSE libs[b]]
  /\ UNCHANGED <<kernel, override, loadMux, ptState, nextProg, variant,
                 loadLog, nextCall, live, utilState>>

UnlinkExecutable(t, ino) ==
  /\ ptState[t] = "ready"
  /\ \/ /\ ino \in registered[t]
        /\ live' = live \ owned[t][ino]
        \* UnlinkInstrumentedLib(m) on every bundle for every recorded m
        /\ libs' = [b \in Bundles |->
                      IF b \in ProgramSet(t) THEN libs[b] \ modules[t][ino]
                                             ELSE libs[b]]
        /\ registered' = [registered EXCEPT ![t] = @ \ {ino}]
        /\ owned' = [owned EXCEPT ![t][ino] = {}]
        /\ modules' = [modules EXCEPT ![t][ino] = {}]
        /\ procs' = [procs EXCEPT ![t][ino] = {}]
     \/ \* "Unable to find executable to unlink"
        /\ ino \notin registered[t]
        /\ UNCHANGED <<live, libs, registered, owned, modules, procs>>
  /\ UNCHANGED <<kernel, override, loadMux, ptState, nextProg, variant,
                 loadLog, nextCall, utilState>>

-----------------------------------------------------------------------------
(* RunUtilityTracer: p.Load() and LoadAndAssign, without loadMux.          *)
UtilStartLoad ==
  /\ utilState = "idle"
  /\ utilState' = "loading"
  /\ UNCHANGED <<kernel, override, loadMux, ptState, nextProg, variant,
                 loadLog>>
  /\ UNCHANGED instVars

(* The load returns; kprobes, tracepoints, go p.Run, btf.FlushKernelSpec.  *)
UtilFinish ==
  /\ utilState = "loading"
  /\ \/ utilState' = "running"
     \/ (LoadMayFail \/ AttachMayFail) /\ utilState' = "failed"
  /\ UNCHANGED <<kernel, override, loadMux, ptState, nextProg, variant,
                 loadLog>>
  /\ UNCHANGED instVars

-----------------------------------------------------------------------------
Next ==
  \/ \E t \in Tracers :
       \/ CallInit(t) \/ AcquireLoad(t) \/ LoadProgram(t) \/ FinishLoad(t)
       \/ \E pid \in Pids : NewExecutable(t, pid) \/ NewExecutableInstance(t, pid)
       \/ \E ino \in Inodes : UnlinkExecutable(t, ino)
  \/ UtilStartLoad
  \/ UtilFinish

(* Init runs on the tracer attacher's goroutine until it returns, and      *)
(* sync.Mutex hands a free lock to a waiter: weak fairness per tracer.     *)
Fairness ==
  \A t \in Tracers :
    /\ WF_vars(AcquireLoad(t))
    /\ WF_vars(LoadProgram(t))
    /\ WF_vars(FinishLoad(t))

Spec == Init /\ [][Next]_vars /\ Fairness

-----------------------------------------------------------------------------
(* Properties                                                              *)

TypeOK ==
  /\ kernel \in Kernels
  /\ override \in BOOLEAN
  /\ loadMux \in Tracers \cup {NoTracer}
  /\ ptState \in [Tracers -> {"new", "waiting", "loading", "ready", "failed"}]
  /\ nextProg \in [Tracers -> Nat \ {0}]
  /\ variant \in [Bundles -> {"none", "tp", "notp"}]
  /\ loadLog \in [Bundles -> Seq(BOOLEAN)]
  /\ live \subseteq Handle
  /\ nextCall \in 0..MaxCalls
  /\ registered \in [Tracers -> SUBSET Inodes]
  /\ owned \in [Tracers -> [Inodes -> SUBSET Handle]]
  /\ modules \in [Tracers -> [Inodes -> SUBSET Modules]]
  /\ procs \in [Tracers -> [Inodes -> SUBSET Pids]]
  /\ libs \in [Bundles -> SUBSET Modules]
  /\ utilState \in {"idle", "loading", "running", "failed"}

(* The probe table Tracer.GoProbes hands to NewExecutable matches the      *)
(* collection loadTracers loaded for the bundle: it names the context-     *)
(* propagation programs exactly when the propagation variant is loaded.    *)
(* The table is read at attach time, the variant was fixed at load time,   *)
(* possibly by another tracer's fallback in between.                       *)
ProbeTableMatchesCollection ==
  \A b \in GoBundles :
    variant[b] # "none" =>
      ((GoProbes(b) \cap CPSyms # {}) <=> variant[b] = "tp")

(* p.Load() is called at most once per bundle and value of                 *)
(* IntegrityModeOverride: the fallback retry really changes the variant.   *)
LoadOncePerOverride ==
  \A b \in Bundles :
    \A i, j \in 1..Len(loadLog[b]) : loadLog[b][i] = loadLog[b][j] => i = j

(* Every closable of a registered instrumenter stays attached until        *)
(* UnlinkExecutable of its inode, across the other executables' unlinks.   *)
OwnedHandlesLive ==
  \A t \in Tracers : \A ino \in registered[t] : owned[t][ino] \subseteq live

(* Every attached handle belongs to the closables of a registered          *)
(* instrumenter, so some UnlinkExecutable will close it: none is leaked.   *)
NoOrphanHandles ==
  live \subseteq UNION {owned[t][ino] : t \in Tracers, ino \in Inodes}

(* A bundle has at most one live uprobe on a shared library, however many  *)
(* executables map it (the AlreadyInstrumentedLib deduplication).          *)
ModuleDedup ==
  \A b \in Bundles, m \in Modules :
    Cardinality({h \in live : h.b = b /\ h.on = m}) <= 1

(* Every shared library mapped by a process handed to a tracer is covered  *)
(* by a live uprobe of each of the tracer's uprobe bundles.                *)
SharedLibInstrumented ==
  \A t \in Tracers : \A ino \in registered[t] : \A pid \in procs[t][ino] :
    \A b \in ProgramSet(t) \cap UProbeBundles, m \in LibsOf[pid] :
      \E h \in live : h.b = b /\ h.on = m

(* Loading into the kernel is mutually exclusive across all loaders of the *)
(* process: the utility tracer never loads while a tracer holds loadMux.   *)
LoadExclusive ==
  ~(utilState = "loading" /\ loadMux # NoTracer)

(* Every Init that was called returns, with or without an error, even     *)
(* when another tracer's Init failed while holding loadMux.                *)
InitTerminates ==
  \A t \in Tracers :
    ptState[t] = "waiting" ~> ptState[t] \in {"ready", "failed"}

(* Inductive strengthening of ProbeTableMatchesCollection: the override    *)
(* is only ever set on a kernel without the helper, a propagation          *)
(* collection is only loaded while the flag is clear on a kernel with the  *)
(* helper, and the plain one only while propagation is unsupported.        *)
CPInv ==
  /\ TypeOK
  /\ override => ~kernel.helper
  /\ \A b \in Bundles : variant[b] = "tp" => SupportsCP(override) /\ kernel.helper
  /\ \A b \in Bundles : variant[b] = "notp" => ~SupportsCP(override)

-----------------------------------------------------------------------------
(* Refinement of the abstract lifecycle.  A tracer waiting on loadMux has  *)
(* not begun; the holder of loadMux is the abstract lock holder.           *)
PhaseBar ==
  [t \in Tracers |-> IF ptState[t] \in {"new", "waiting"} THEN "new"
                                                         ELSE ptState[t]]

Lifecycle == INSTANCE ProcessTracerLifecycle
               WITH phase <- PhaseBar, holder <- loadMux

(* The process tracers implement the abstract lifecycle: initialisations   *)
(* are serialised by loadMux, each ends once, the override flag is only    *)
(* set by the tracer holding loadMux, and only ready tracers register      *)
(* executables; every initialisation that begins ends.                     *)
LifecycleRefined == Lifecycle!Spec

(* The load lock and the tracers' states agree: a tracer is loading        *)
(* exactly when it holds loadMux.                                          *)
LockInv ==
  /\ TypeOK
  /\ \A t \in Tracers : ptState[t] = "loading" <=> loadMux = t

(* Inductive strengthening of LoadOncePerOverride: a bundle's Load log is  *)
(* empty until its tracer's loop reaches it, and then holds one flag       *)
(* value, or FALSE then TRUE (the fallback), as one iteration writes.      *)
LogInv ==
  /\ TypeOK
  /\ \A b \in Bundles :
       /\ Len(loadLog[b]) <= 2
       /\ Len(loadLog[b]) = 2 => loadLog[b][1] = FALSE /\ loadLog[b][2] = TRUE
  /\ \A t \in Tracers : \A j \in 1..Len(Programs[t]) :
       \/ ptState[t] \in {"new", "waiting"}
       \/ ptState[t] = "loading" /\ j >= nextProg[t]
       => Len(loadLog[Programs[t][j]]) = 0

(* Inductive strengthening of OwnedHandlesLive: every owned handle comes   *)
(* from a call already made, an inode that is not registered owns nothing, *)
(* and no handle is owned by two instrumenters, so an unlink closes only   *)
(* its own.                                                                *)
OwnInv ==
  /\ TypeOK
  /\ \A t \in Tracers, i \in Inodes : \A h \in owned[t][i] : h.call <= nextCall
  /\ \A t \in Tracers, i \in Inodes : i \notin registered[t] => owned[t][i] = {}
  /\ \A t, u \in Tracers, i, k \in Inodes :
       t # u \/ i # k => owned[t][i] \cap owned[u][k] = {}
  /\ OwnedHandlesLive


(* The parts of the strengthening of NoOrphanHandles and ModuleDedup.      *)
(* An instrumenter's handles are of its tracer's bundles, a library uprobe *)
(* of an uprobe bundle.                                                    *)
HandlesHome ==
  \A t \in Tracers, i \in Inodes : \A h \in owned[t][i] :
    h.b \in ProgramSet(t) /\ (h.on \in Modules => h.b \in UProbeBundles)

(* An instrumenter's modules set names exactly the libraries it uprobes.   *)
ModulesRecorded ==
  \A t \in Tracers, i \in Inodes : modules[t][i] = ModulesOf(owned[t][i])

(* An instrumenter that uprobes a library does so from every uprobe bundle *)
(* of its tracer.                                                          *)
ModulesAllBundles ==
  \A t \in Tracers, i \in Inodes : \A m \in modules[t][i] :
    \A b \in ProgramSet(t) \cap UProbeBundles :
      \E h \in owned[t][i] : h.b = b /\ h.on = m

(* The uprobe bundles of one tracer record the same libraries.             *)
LibsAgree ==
  \A t \in Tracers : \A b, d \in ProgramSet(t) \cap UProbeBundles :
    libs[b] = libs[d]

(* The library of a live uprobe is recorded for its bundle.               *)
LibsCoverLive ==
  \A h \in live : h.on \in Modules => h.on \in libs[h.b]

(* No two live uprobes of a bundle are on the same library.               *)
UprobesUnique ==
  \A g, h \in live : g.on \in Modules /\ g.b = h.b /\ g.on = h.on => g = h

(* Inductive strengthening of NoOrphanHandles and ModuleDedup when every   *)
(* attachment succeeds.  LibsAgree and ModulesAllBundles are what make an  *)
(* unlink safe: UnlinkInstrumentedLib forgets the unlinked instrumenter's  *)
(* libraries in every bundle of the tracer, and they hold only because no  *)
(* other live uprobe of the tracer is on those libraries.                  *)
UprobeInv ==
  /\ OwnInv
  /\ NoOrphanHandles
  /\ HandlesHome
  /\ ModulesRecorded
  /\ ModulesAllBundles
  /\ LibsAgree
  /\ LibsCoverLive
  /\ UprobesUnique

=============================================================================
