# TLA+ models of Beyla's eBPF process tracer

This directory holds the formal models of the orchestrator that loads Beyla's
eBPF program bundles and attaches them to executables
(`src/unnamed/part_001`, the `ProcessTracer`). It also covers the Go tracer
bundle whose loader and probe table the orchestrator drives
(`src/pkg/internal/ebpf/gotracer/gotracer.go`): its constants table, its event
pump and its debug log. It also covers the generated loader of the exec
tracer's debug collection (`src/pkg/internal/ebpf/secexec/bpf_debug_bpfel_x86.go`).
The models are checked with TLC on small instances. The type invariant and
three safety invariants of the process tracer, and its refinement of an
abstract lifecycle, are proved with TLAPS for every value of the constants.

## The system

| Part | Code | What it does |
|---|---|---|
| Process Tracer | `part_001` | `Init`/`loadTracers` loads every bundle of `pt.Programs` under the process-wide `loadMux`. `NewExecutable`, `NewExecutableInstance` and `UnlinkExecutable` attach and release per-inode probes. `Run` starts the bundles' event pumps. |
| Capability fallback | `part_001:101-116`, `gotracer.go:70-90` | If `LoadAndAssign` fails with `unknown func bpf_probe_write_user`, the tracer sets the global `IntegrityModeOverride` and loads the same bundle once more. `supportsContextPropagation` then answers false, so `Load` picks the variant without propagation and `GoProbes` drops the propagation symbols. |
| Go tracer bundle | `gotracer.go` | `Load` picks one of four loaders. `Constants` rewrites offsets (optional ones get `0xffffffffffffffff`). `GoProbes` is the symbol table. `Run` pumps the ring buffer. |
| Instrumenter | not under `src/` (spec 4.2) | Attaches goprobes and uprobes and collects their closables. It also records each shared library per bundle (`AlreadyInstrumentedLib`/`RecordInstrumentedLib`). |
| Utility tracer | `part_001:226-258` | Loads one bundle, attaches its kprobes and tracepoints, and runs it. |
| Event pump, PID filter | `gotracer.go:62-68, 315-358`; the forwarder is not under `src/` | `Run` hands the ring buffer and the filter to `SharedRingbuf`, which reads records, filters spans by the PID allow-set at decode time and sends them in batches; on cancellation it flushes the batch and exits. `AllowPID`/`BlockPID` change the filter from Process Discovery's goroutine. In the debug build `processLogEvent` logs each record's message through `readString`. |
| Prometheus reporter | `part_000` | Internal metrics. |
| Generated loader | `secexec/bpf_debug_bpfel_x86.go` | bpf2go output: loads the embedded collection into a struct, and closes its programs, then its maps, with `_Bpf_debugClose`, which returns at the first error. |

How the parts interact:
- Several process tracers, and the utility tracer, load into the same kernel.
- One tracer's fallback changes the flag that every later load and every later `GoProbes` call reads.
- Executables share libraries, so the uprobe on a library is attached once per bundle, by whichever executable comes first.

## Modules

- `ProcessTracer.tla` is the model. Its constants are:
  - the tracers, and the sequence of bundles each one loads (`Programs`);
  - which bundles are Go bundles and which attach uprobes;
  - the base and propagation symbols;
  - the shared libraries, the inodes and the pids, with each pid's executable (`ExeOf`), the symbols of each executable (`FuncsOf`) and the libraries each pid maps (`LibsOf`);
  - the flags `LoadMayFail` and `AttachMayFail`;
  - the bound `MaxCalls` on executable calls.

  The variables correspond to the code as follows:

  | Variable | Code |
  |---|---|
  | `kernel` | Helper present, propagation supported. Chosen once in `Init`. |
  | `override` | `common.IntegrityModeOverride` |
  | `loadMux` | Which tracer holds `loadMux` |
  | `ptState`, `nextProg` | Where each tracer's `Init` is, and the loop index over `pt.Programs` |
  | `variant` | The collection loaded for each bundle: with or without propagation |
  | `loadLog` | The flag value of every `p.Load()` call |
  | `live` | The attached kernel handles. A handle is a record of the call that made it, its bundle and its target symbol or library. |
  | `registered`, `owned`, `modules`, `procs` | `pt.Instrumentables`: the inodes, with each one's `closables`, `modules` and processes |
  | `libs` | The libraries each bundle has recorded as instrumented |
  | `utilState` | The utility tracer |

  The actions:
  - `Init` is split at its blocking points. `CallInit` is the call. `AcquireLoad` is `Lock`. `LoadProgram` is one iteration of the loop: `loadSpec`, `LoadAndAssign`, the fallback and the global attachments. `FinishLoad` is `FlushKernelSpec` and the deferred `Unlock`. Every error return goes through `Failed`, which releases the mutex as the `defer` does.
  - `NewExecutable`, `NewExecutableInstance` and `UnlinkExecutable` are one action each, with their failure and unknown-inode branches.
  - A failed attach adds the attachments made before the refused one. Go map order decides which attachments those are, so the model lets them be any proper subset of the failing bundle's requests, goprobes before uprobes (`PartialAttach`).
  - `UtilStartLoad` and `UtilFinish` are `RunUtilityTracer`. No mutex is taken.
- `MC_ProcessTracer.tla` is the instance for TLC.
  - Tracer `t1` loads Go bundle `b1`. Tracer `t2` loads Go bundle `b2` and uprobe bundle `b3`.
  - Executable `i1` (pids `p1`, `p2`) has a base and a propagation symbol. Executable `i2` (pid `p3`) has only the base symbol.
  - All three pids map the shared library `m1`.
  - `MaxCalls = 3` allows a first executable, a second process of it, and a second executable, or an unlink followed by a re-registration.
  - With these bounds every interesting case occurs: the fallback on one tracer seen by the other, a failure in the second bundle after the first one's attachments, library deduplication across two executables, and an unlink followed by use of the other executable.
- `MC_TwoUprobes.tla` is a second instance, for the deduplication of library uprobes: tracer `t1` loads Go bundle `b1`, tracer `t2` loads the two uprobe bundles `b2` and `b3`. It has the same executables and pids. An unlink of `t2` then forgets `m1` in both bundles, which the first instance, with one uprobe bundle, cannot show.
- `ProcessTracerLifecycle.tla` is the abstract specification of what the tracers promise: each tracer's initialisation is one critical section of a process-wide lock (`Begin`, `End` as ready or failed), the override flag is only set, and only by the lock holder (`SetOverride`, or as `End` fails), and only ready tracers register and unregister inodes. `ProcessTracer` instantiates it as `Lifecycle` with the mapping `PhaseBar` (a tracer waiting on `loadMux` has not begun), `holder <- loadMux`, and the same `override` and `registered`.
- `GoTracerConstants.tla` models `Tracer.Constants` (`gotracer.go:94-151`) and the rewrite in `loadSpec` (`part_001:69-79`). The offset map is any subset of the names with any value. `Constants` is two left folds over the code's two name lists: the required loop copies the map read (nil when absent), the optional loop replaces nil by the all-ones sentinel, and the map literal starts with `wakeup_data_bytes`, the product of two `uint32` conversions taken modulo `2^W32`. The rewrite fails exactly when a value is nil. Widths are constants (`W64 = 3`, `W32 = 4` in the instance) because TLC's integers are 32-bit; the sentinel is then 7 and `6 * 3` wraps to 2.
- `EventPump.tla` models one Go bundle's pump. `Init` is `New` (an empty filter). `KernelEmit` is the probes enqueueing numbered records (and, in the debug build, log records with an `int8` array). `AllowPID`, `BlockPID` and `Run` are the tracer's methods; `PumpRead`, `Cancel` and `Drain` are the forwarder, modelled from spec 4.5, 5 and 8 because `SharedRingbuf` is not under `src/`. The debug forwarder of `RunDebugger` is merged into the same reader: its records go to `processLogEvent`, whose `readString` is a recursive function over the array (`ReadString`), compared with the reference `CString` (the bytes before the first NUL, each `int8` taken modulo 256). Each `logged` entry keeps the record's `Log` field beside the message, so a message is compared with the field it was decoded from. The forwarder is in the model for the `BlockPID` race of spec 8; its order and its drain on cancellation are not checked as properties, because they would only restate its spec-modelled actions (its out channel is unbounded, so the spec's discarded in-flight batch does not occur).
- `BpfObjects.tla` models the generated loader. `BpfClose` is `_Bpf_debugClose` as a fold that stops at the first failing closer; `ProgramsClose`, `MapsClose` and `ObjectsClose` are the three `Close` methods; `LoadObjects` is `loadBpf_debugObjects` (all objects loaded, or an error and none). `Close` may be called again after an error.
- `MC_ProcessTracer.tla`, `MC_TwoUprobes.tla`, `MC_GoTracerConstants.tla`, `MC_EventPump.tla` and `MC_BpfObjects.tla` give the constants of the runs. `MC_EventPump` has two pids; its log fields are every array of three `int8` values among -1, 0 and 65, so a NUL first, in the middle, last or absent, and a negative byte, all occur.
- `ProcessTracerProofs.tla`, `ProcessTracerRefinement.tla`, `ProcessTracerLoadProofs.tla`, `ProcessTracerOwnProofs.tla` hold the TLAPS proofs.

## Runs

| Run | cfg | Expect | Shows |
|---|---|---|---|
| core | `MC_core.cfg` | pass | Holds on both kernels, with load and attach failures. `ProbeTableMatchesCollection`: the table `GoProbes` returns at attach time matches the collection loaded for the bundle, even after another tracer's fallback. `LoadOncePerOverride`: `Load` runs at most once per bundle and flag value (spec 8, invariant 3). `OwnedHandlesLive`: closables stay attached until their inode is unlinked. `InitTerminates`: every `Init` returns. |
| healthy | `MC_healthy.cfg` on `MC_TwoUprobes` | pass | With no attach failures: no handle is unowned (`NoOrphanHandles`) and a bundle holds at most one uprobe per library (`ModuleDedup`), with two uprobe bundles in one tracer. The strengthening `UprobeInv`, which says why, holds too. |
| leak | `MC_leak.cfg` | violation | A failed `NewExecutable` leaks its attachments. The code returns before line 196 stores the instrumenter, while spec 4.3 says partial state is kept. |
| dupuprobe | `MC_dupuprobe.cfg` on `MC_TwoUprobes` | violation | `ModuleDedup`: a `NewExecutable` fails after `b2` uprobed `m1`, so that uprobe leaks and `b2` keeps `m1` recorded. Another executable uprobes `m1` from `b3`. Its unlink calls `UnlinkInstrumentedLib(m1)` on every program (line 210), `b2` included. The next executable uprobes `m1` from `b2` a second time, against spec 8 scenario 3. With one uprobe bundle per tracer this cannot happen. On an instance where `p1` maps no library and four calls are allowed, TLC also finds two *owned* uprobes on one library: an instance call that uprobed the library from `b2` and failed in `b3` keeps its `b2` uprobe, another executable uprobes it from `b3`, and its unlink forgets the library in `b2` as well. So no form of the deduplication holds once an attachment may fail, and none is proved. |
| sharedlib | `MC_sharedlib.cfg` | violation | Unlinking `i1` closes the only uprobe on `m1`, which `p3` of `i2` still maps. |
| utilrace | `MC_utilrace.cfg` | violation | `RunUtilityTracer` loads while a tracer holds `loadMux`, against spec section 5. |
| constants | `MC_constants.cfg` | pass | `ConstantsMatchSpec`: over all 1024 initial offset maps, the load succeeds exactly when both required offsets are present, and the table then holds every name, each present offset as given and the sentinel for each absent optional one. |
| wakeup | `MC_wakeup.cfg` | violation | `WakeupExact`: with `WakeupLen = 6` the product wraps modulo `2^W32` and the rewrite still succeeds, while spec 7 says an out-of-range constant fails the load. |
| debuglog | `MC_debuglog.cfg` | pass | `TypeOK`: every logged message is a string of non-NUL bytes. `LoggedIsCString`: every logged message is the C string of the `Log` field of the record it was decoded from. Both hold with events, `AllowPID`/`BlockPID` and cancellation interleaved, two records and batches of two. |
| block | `MC_block.cfg` | violation | `BlockedNotEmitted`: a span accepted before `BlockPID` waits in the batch and is sent after `BlockPID` returned, against spec 8 invariant 2. |
| closeleak | `MC_closeleak.cfg` | violation | `FailedCloseReleasesRest`: when the first program's `Close` fails, `bpf_debugObjects.Close` leaves the other two programs and the events map open. |

The core run also checks `LifecycleRefined`: the tracers implement `ProcessTracerLifecycle!Spec`, its weak fairness on `End` included.

A mutant of the code breaks each property of the passing runs (`PROJECT.json`, "mutants"):
- the retry keeps the flag;
- the table reads only the kernel;
- an error path skips the unlock;
- the unlink keeps the entry, or does not close;
- the uprobes skip the deduplication, or never record the library (breaks `UprobeInv`);
- `Init` takes `loadMux` without waiting for it (breaks `LifecycleRefined`);
- the wakeup product is computed without the `uint32` conversions, or the optional loop without the nil check;
- `readString` keeps the NUL in the string (breaks `TypeOK`), or ignores it.

Deadlock is not checked. When every tracer's `Init` has failed, Beyla exits, because init errors are fatal. A constants load, a pump that has exited and a closed collection are final too.

**Bounds.** Two tracers and three bundles make one tracer's fallback visible to the other. In `MC_TwoUprobes`, two uprobe bundles in one tracer and `MaxCalls = 3` allow a failed executable, a second one that uprobes the library from the other bundle, its unlink and a third attaching call. In the block run, batches of two with four records give a `BlockPID` between two spans of a batch; in the debuglog run two records reach a full-batch flush, a log record and a cancellation. Three-element log fields cover every place of the NUL.

**Fairness.** There is weak fairness on `AcquireLoad`, `LoadProgram` and `FinishLoad` of each tracer:
- `Init` runs on its caller's goroutine until it returns;
- a free `sync.Mutex` is eventually granted to a waiter.

Nothing is assumed of the executable handlers, which are driven by Process Discovery. `EventPump` has no fairness: none of its runs checks a liveness property.

## Proofs (`ProcessTracerProofs.tla`)

- `TypeCorrect`: `Spec => []TypeOK`. The proof has one lemma per action group. It rests on the named assumptions `ProgramsAssumption`, `SymsAssumption` and `EnvAssumption`: the bundles are distinct across tracers, the symbol sets are disjoint, and the functions and `MaxCalls` are well typed.
- `ProbeTableCorrect`: `Spec => []ProbeTableMatchesCollection`. The invariant is not inductive on its own, so it is proved through the strengthening `CPInv`:
  - the override is set only on a kernel without the helper;
  - a propagation collection is loaded only while the flag is clear, on a kernel with the helper;
  - a plain collection is loaded only while propagation is unsupported.

  Only `LoadProgram` changes these variables (lemma `OthersKeepVariant`). Its three branches are proved separately: the error, the direct load, and the fallback. In the fallback case the kernel lacks the helper, so no bundle can hold the propagation variant. `CPInv` was checked with TLC before it was proved.

## Proofs (`ProcessTracerRefinement.tla`, `ProcessTracerLoadProofs.tla`, `ProcessTracerOwnProofs.tla`)

- `LifecycleRefinement`: `Spec => Lifecycle!SafeSpec`. The initial states map to the abstract initial state (`RefineInit`). Every step maps to an abstract step or a stutter (`RefineStep`): `AcquireLoad` is `Begin`, `FinishLoad` is `End` as ready, a `LoadProgram` that fails is `End` as failed, one whose fallback sets the flag is `SetOverride`, a successful `NewExecutable` is `Register`, an unlink of a known inode is `Unregister`; `CallInit`, the other iterations, the failed or instance calls and the utility tracer are stutters. The step needs the invariant `LockInv` (a tracer is loading exactly when it holds `loadMux`): without it a loading tracer's failure need not be the lock holder's `End`. `LockInv` was checked with TLC, and is proved inductive (`LockInvInit`, `LockInvStep`). The lemma `LoadProgramShape` gives the three shapes of a loop iteration.
- `LoadOnce`: `Spec => []LoadOncePerOverride`. It rests on the inductive invariant `LogInv`: a bundle's log has at most two entries, and two only as FALSE then TRUE; and the log of a bundle is empty while its tracer has not reached it. `LogInv` needs that a bundle belongs to one tracer and one place of its list (`ProgramsAssumption`) and that the fallback only happens while the flag is clear. The lemma `LoadProgramLog` gives what one iteration writes.
- `OwnedLive`: `Spec => []OwnedHandlesLive`. `OwnedHandlesLive` alone is not inductive: an unlink closes `owned[t][ino]`, and nothing in it says those handles are not also another instrumenter's. The strengthening `OwnInv` adds that every owned handle has a call number no larger than `nextCall`, so the handles of a new call are fresh; that an unregistered inode owns nothing; and that the handle sets of two instrumenters are disjoint. `OwnInv` is checked with TLC as part of `UprobeInv` on the healthy run, and proved inductive (`OwnInvInit`, `OwnInvStep`), one lemma per shape of step: `AttachOwnInv` (a call adds fresh handles to one instrumenter), `GrowOwnInv` (a failed call leaves its partial handles live), `UnlinkOwnInv` and `QuietOwnInv`.
- `NoOrphanHandles`, `ModuleDedup` and `UprobeInv` are model-checked only (the healthy run). They hold only when no attachment fails, and the code does handle failed attachments (`part_001:186`, `192`). So a theorem that assumes no failure would prove them exactly where they cannot go wrong, and a theorem without that assumption is false (the leak and dupuprobe runs).

**Out of the provers' reach, so left to TLC:**
- the liveness property `InitTerminates` and the fairness part of `LifecycleRefined` (the provers do not handle `ENABLED` or fairness);
- `TypeOK` and `ConstantsMatchSpec` of `GoTracerConstants`: `Constants` is a fold over name lists of any length, and what it computes for every list needs induction over the data, which the provers cannot instantiate;
- `TypeOK` and `LoggedIsCString` of `EventPump`: the logged messages are values of the recursive function `ReadString` over the `int8` array, and relating it to `CString` for every array is again induction over the data;
- the properties of `BpfObjects`, which rest on folds over the program and map lists.

`SharedLibInstrumented` is not proved either: it is violated by the code (the sharedlib run).

## Not modelled, and the plan

Not modelled:
- the Prometheus reporter (`part_000`): it only registers collectors and counts;
- `BuildPinPath`, a path join with no state;
- the shared ring-buffer forwarder's metrics, its batch timeout and its bounded out channel, and the kernel side of the probes;
- the bytes embedded in the generated loader and its spec structs, which are data.

Hazards with no property (see `PROJECT.json`):
- `IntegrityModeOverride` is a plain bool, not atomic as spec 5 says;
- a second `NewExecutable` for the same inode would overwrite the `Instrumentables` entry;
- `pt.log` is nil before `Run`;
- closables are closed in forward order, while the spec says reverse.

Planned next: the forwarder's batch timeout and bounded out channel, where cancellation may discard the in-flight batch.
