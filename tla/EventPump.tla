------------------------------ MODULE EventPump ------------------------------
(***************************************************************************)
(* The event pump of a bundle: Tracer.Run hands the Events ring buffer,    *)
(* the PID filter and the closers to the shared ring-buffer forwarder,     *)
(* which reads records, decodes them, filters spans by the PID allow-set   *)
(* and emits them to the out channel in batches; on cancellation it        *)
(* flushes the current batch and exits, closing the closers.  Process      *)
(* Discovery calls AllowPID and BlockPID concurrently.  In the debug       *)
(* variant log records are decoded by processLogEvent, which logs the      *)
(* message and produces no span.                                           *)
(*                                                                         *)
(* The forwarder and the filter are not under src/: they are modelled from *)
(* spec 4.5 and 5 (filter at decode time, batch, flush on cancellation).   *)
(***************************************************************************)
EXTENDS Integers, Sequences

CONSTANTS
  Pids,        \* the processes whose events the kernel enqueues
  BatchLen,    \* cfg.BatchLength: a full batch is flushed
  MaxRecords,  \* bound on the records the kernel enqueues
  Debug,       \* the debug variant: log records in the ring buffer
  LogData      \* the int8 arrays a log record's Log field may hold

ASSUME PumpAssumption ==
  /\ BatchLen \in Nat \ {0}
  /\ MaxRecords \in Nat
  /\ Debug \in BOOLEAN
  /\ LogData \subseteq Seq(-128 .. 127)

VARIABLES
  ring,      \* records enqueued by the kernel and not read yet
  emitted,   \* records enqueued so far; the next one is numbered emitted+1
  allowed,   \* the PID filter's allow-set
  blocked,   \* the pids whose BlockPID returned with no AllowPID since
  batch,     \* the spans of the batch being built
  out,       \* the batches sent on the out channel, in order
  logged,    \* per message processLogEvent wrote: the Log field and the text
  ctxDone,   \* the context handed to Run is cancelled
  pump       \* "idle" before Run, "running", "exited"

vars == <<ring, emitted, allowed, blocked, batch, out, logged,
          ctxDone, pump>>

Span == [pid : Pids, n : 1 .. MaxRecords]
Record == [kind : {"event"}, pid : Pids, n : 1 .. MaxRecords]
          \cup [kind : {"log"}, pid : Pids, n : 1 .. MaxRecords, data : LogData]

-----------------------------------------------------------------------------
(* Mutant: the loop without the NUL check.                                *)
ReadStringNoNul(data) ==
  [i \in 1 .. Len(data) |-> data[i] % 256]

(* Mutant: the string is cut after the NUL instead of before it.        *)
ReadStringKeepNul(data) ==
  LET loop[i \in 0 .. Len(data)] ==
        IF i = 0 THEN <<[k \in 1 .. Len(data) |-> 0], FALSE>>
        ELSE IF loop[i - 1][2] THEN loop[i - 1]
        ELSE IF data[i] = 0 THEN <<SubSeq(loop[i - 1][1], 1, i), TRUE>>
        ELSE <<[k \in 1 .. Len(data) |->
                  IF k = i THEN data[i] % 256 ELSE loop[i - 1][1][k]], FALSE>>
  IN loop[Len(data)][1]

(* readString: copy the int8 array into bytes, cut at the first NUL.  The  *)
(* loop keeps the bytes written so far and whether it broke out.           *)
ReadString(data) ==
  LET loop[i \in 0 .. Len(data)] ==
        IF i = 0 THEN <<[k \in 1 .. Len(data) |-> 0], FALSE>>
        ELSE IF loop[i - 1][2] THEN loop[i - 1]
        ELSE IF data[i] = 0 THEN <<SubSeq(loop[i - 1][1], 1, i - 1), TRUE>>
        ELSE <<[k \in 1 .. Len(data) |->
                  IF k = i THEN data[i] % 256 ELSE loop[i - 1][1][k]], FALSE>>
  IN loop[Len(data)][1]

(* The forwarder appends the decoded span to its batch.                    *)
AddSpan(b, s) == Append(b, s)

Init ==
  /\ ring = <<>>
  /\ emitted = 0
  /\ allowed = {}
  /\ blocked = {}
  /\ batch = <<>>
  /\ out = <<>>
  /\ logged = <<>>
  /\ ctxDone = FALSE
  /\ pump = "idle"

-----------------------------------------------------------------------------
(* The kernel side: an attached probe enqueues an event, or in the debug   *)
(* variant a log record, until the forwarder closes the collection.        *)
KernelEmit(p) ==
  /\ pump # "exited"
  /\ emitted < MaxRecords
  /\ emitted' = emitted + 1
  /\ \/ ring' = Append(ring, [kind |-> "event", pid |-> p, n |-> emitted + 1])
     \/ /\ Debug
        /\ \E d \in LogData :
             ring' = Append(ring, [kind |-> "log", pid |-> p,
                                   n |-> emitted + 1, data |-> d])
  /\ UNCHANGED <<allowed, blocked, batch, out, logged, ctxDone, pump>>

(* Tracer.AllowPID: pidsFilter.AllowPID.                                    *)
AllowPID(p) ==
  /\ allowed' = allowed \cup {p}
  /\ blocked' = blocked \ {p}
  /\ UNCHANGED <<ring, emitted, batch, out, logged, ctxDone, pump>>

(* Tracer.BlockPID: pidsFilter.BlockPID.                                    *)
BlockPID(p) ==
  /\ allowed' = allowed \ {p}
  /\ blocked' = blocked \cup {p}
  /\ UNCHANGED <<ring, emitted, batch, out, logged, ctxDone, pump>>

(* Tracer.Run: SharedRingbuf(...)(ctx, closers, eventsChan) starts the      *)
(* forwarder.                                                              *)
Run ==
  /\ pump = "idle"
  /\ pump' = "running"
  /\ UNCHANGED <<ring, emitted, allowed, blocked, batch, out,
                 logged, ctxDone>>

(* The forwarder reads one record.  A log record goes to processLogEvent:  *)
(* the message is logged and the span ignored.  An event is decoded and    *)
(* kept if its pid is allowed; a full batch is flushed to the channel.     *)
PumpRead ==
  /\ pump = "running"
  /\ ~ctxDone
  /\ ring # <<>>
  /\ ring' = Tail(ring)
  /\ LET r == Head(ring)
         s == [pid |-> r.pid, n |-> r.n]
         b == AddSpan(batch, s)
     IN \/ /\ r.kind = "log"
           /\ logged' = Append(logged, [data |-> r.data, msg |-> ReadString(r.data)])
           /\ UNCHANGED <<batch, out>>
        \/ /\ r.kind = "event"
           /\ r.pid \notin allowed
           /\ UNCHANGED <<batch, out, logged>>
        \/ /\ r.kind = "event"
           /\ r.pid \in allowed
           /\ IF Len(b) = BatchLen
                THEN out' = Append(out, b) /\ batch' = <<>>
                ELSE batch' = b /\ UNCHANGED out
           /\ UNCHANGED logged
  /\ UNCHANGED <<emitted, allowed, blocked, ctxDone, pump>>

(* The context-termination watcher of ProcessTracer.Run: ctx is cancelled. *)
Cancel ==
  /\ ~ctxDone
  /\ ctxDone' = TRUE
  /\ UNCHANGED <<ring, emitted, allowed, blocked, batch, out,
                 logged, pump>>

(* On ctx.Done the forwarder flushes the current batch, closes the closers *)
(* (the collection with them, so the kernel stops enqueuing) and exits.    *)
Drain ==
  /\ pump = "running"
  /\ ctxDone
  /\ out' = IF batch # <<>> THEN Append(out, batch) ELSE out
  /\ batch' = <<>>
  /\ pump' = "exited"
  /\ UNCHANGED <<ring, emitted, allowed, blocked, logged, ctxDone>>

Next ==
  \/ \E p \in Pids : KernelEmit(p) \/ AllowPID(p) \/ BlockPID(p)
  \/ Run \/ PumpRead \/ Cancel \/ Drain

Spec == Init /\ [][Next]_vars

-----------------------------------------------------------------------------
(* The type of every variable.  A logged message is a C string: bytes, and *)
(* none of them the NUL at which readString cut the Log field.             *)
TypeOK ==
  /\ ring \in Seq(Record)
  /\ emitted \in 0 .. MaxRecords
  /\ allowed \subseteq Pids /\ blocked \subseteq Pids
  /\ batch \in Seq(Span)
  /\ out \in Seq(Seq(Span))
  /\ logged \in Seq([data : LogData, msg : Seq(1 .. 255)])
  /\ ctxDone \in BOOLEAN
  /\ pump \in {"idle", "running", "exited"}

(* Spec 8, invariant 2: once BlockPID(pid) has returned, no batch sent on  *)
(* the out channel carries a span of that pid.                             *)
BlockedNotEmitted ==
  [][\A i \in (Len(out) + 1) .. Len(out') :
        \A k \in DOMAIN out'[i] : out'[i][k].pid \notin blocked]_vars

(* The message logged for a debug record is the C string of its Log field: *)
(* the bytes before the first NUL, each int8 read as a byte.               *)
CString(d) ==
  LET nul == {i \in DOMAIN d : d[i] = 0}
      first == CHOOSE i \in nul : \A j \in nul : i <= j
  IN [i \in 1 .. (IF nul = {} THEN Len(d) ELSE first - 1) |-> d[i] % 256]

(* Every message processLogEvent logged is the C string of the Log field  *)
(* of the very record it decoded.                                          *)
LoggedIsCString ==
  \A i \in DOMAIN logged : logged[i].msg = CString(logged[i].data)

=============================================================================
