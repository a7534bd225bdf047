-------------------------- MODULE GoTracerConstants --------------------------
(***************************************************************************)
(* Tracer.Constants of the Go tracer (gotracer.go) and the rewrite of the  *)
(* collection's constants with its result.  The Offset Provider hands the  *)
(* tracer a map of named field offsets; Constants copies the required      *)
(* ones, replaces every absent optional one by the all-ones sentinel, and  *)
(* adds wakeup_data_bytes, a product computed in uint32.                   *)
(*                                                                         *)
(* Integers keep their width: W64 is the width of the offsets and of the   *)
(* sentinel, W32 the width of the wakeup product (64 and 32 in the code,   *)
(* smaller in the instances TLC checks).                                   *)
(***************************************************************************)
EXTENDS Integers, Sequences, SequencesExt

CONSTANTS
  RequiredNames,  \* the required offsets, in the order of the code's list
  OptionalNames,  \* the optional offsets, in the order of the code's list
  WakeupName,     \* "wakeup_data_bytes"
  Nil,            \* the nil interface value a Go map read of an absent key gives
  W32, W64,       \* widths of uint32 and uint64
  TraceSize,      \* unsafe.Sizeof(ebpfcommon.HTTPRequestTrace{})
  WakeupLens,     \* the values of cfg.WakeupLen the runs try
  OffsetValues    \* the offset values the Offset Provider may report

AllNames == ToSet(RequiredNames) \cup ToSet(OptionalNames) \cup {WakeupName}

ASSUME ConstantsAssumption ==
  /\ IsInjective(RequiredNames \o OptionalNames)
  /\ WakeupName \notin ToSet(RequiredNames) \cup ToSet(OptionalNames)
  /\ W32 \in Nat \ {0} /\ W64 \in Nat \ {0}
  /\ TraceSize \in Nat
  /\ WakeupLens \subseteq Int
  /\ OffsetValues \subseteq 0 .. (2^W64 - 1)
  /\ Nil \notin Int

VARIABLES
  offsets,    \* ie.Offsets.Field: the map the Offset Provider returned
  wakeupLen,  \* p.cfg.WakeupLen
  consts,     \* the map Constants returned, Nil before the call
  loadState   \* "idle", "loaded" or "failed" (ConstantRewriteFailed)

vars == <<offsets, wakeupLen, consts, loadState>>

(* The offset maps the Offset Provider can return: any subset of the       *)
(* names, each with any offset value.                                      *)
OffsetMaps ==
  UNION {[D -> OffsetValues] :
           D \in SUBSET (ToSet(RequiredNames) \cup ToSet(OptionalNames))}

(* uint64(0xffffffffffffffff)                                              *)
Sentinel == 2^W64 - 1

(* The conversion uint32(x) of a Go int: its low W32 bits.                  *)
U32(x) == x % 2^W32

(* offsets.Field[s]: nil when s is absent.                                  *)
Lookup(F, s) == IF s \in DOMAIN F THEN F[s] ELSE Nil

(* Mutant: the product computed without the uint32 conversions.            *)
WakeupDataBytesUnbounded(len) == len * TraceSize

(* uint32(p.cfg.WakeupLen) * uint32(unsafe.Sizeof(...)), in uint32.        *)
WakeupDataBytes(len) == (U32(len) * U32(TraceSize)) % 2^W32

(* Mutant: the optional list without the nil check.                       *)
OptionalValueNoSentinel(F, s) == Lookup(F, s)

(* The body of the optional loop: the offset, or the sentinel if nil.      *)
OptionalValue(F, s) ==
  IF Lookup(F, s) = Nil THEN Sentinel ELSE Lookup(F, s)

(* Tracer.Constants: the map literal, then the required loop, then the     *)
(* optional loop, each a left fold over the code's list of names.          *)
Constants(F, len) ==
  LET base == WakeupName :> WakeupDataBytes(len)
      req  == FoldLeft(LAMBDA c, s : (s :> Lookup(F, s)) @@ c,
                       base, RequiredNames)
  IN FoldLeft(LAMBDA c, s : (s :> OptionalValue(F, s)) @@ c,
              req, OptionalNames)

Init ==
  /\ offsets \in OffsetMaps
  /\ wakeupLen \in WakeupLens
  /\ consts = Nil
  /\ loadState = "idle"

(* loadSpec: spec.RewriteConstants(p.Constants(...)).  Rewriting a nil     *)
(* value fails, so the load fails exactly when a value is nil (spec 4.1:   *)
(* required keys fail loading if absent).                                  *)
LoadSpec ==
  /\ loadState = "idle"
  /\ consts' = Constants(offsets, wakeupLen)
  /\ loadState' = IF \E s \in DOMAIN consts' : consts'[s] = Nil
                    THEN "failed" ELSE "loaded"
  /\ UNCHANGED <<offsets, wakeupLen>>

Next == LoadSpec

Spec == Init /\ [][Next]_vars

-----------------------------------------------------------------------------
TypeOK ==
  /\ offsets \in OffsetMaps
  /\ wakeupLen \in WakeupLens
  /\ loadState \in {"idle", "loaded", "failed"}
  /\ loadState # "idle" =>
       consts \in [AllNames -> OffsetValues \cup {Nil, Sentinel} \cup 0 .. (2^W32 - 1)]

(* Spec 3 and 4.1, the contract of Constants and its rewrite: the load     *)
(* succeeds exactly when every required offset is present, and then the    *)
(* table holds every name, each present offset as given and the sentinel   *)
(* for each absent optional one.                                           *)
ConstantsMatchSpec ==
  loadState # "idle" =>
    /\ (loadState = "loaded") <=> ToSet(RequiredNames) \subseteq DOMAIN offsets
    /\ loadState = "loaded" =>
         /\ DOMAIN consts = AllNames
         /\ \A s \in ToSet(RequiredNames) : consts[s] = offsets[s]
         /\ \A s \in ToSet(OptionalNames) :
              consts[s] = IF s \in DOMAIN offsets THEN offsets[s] ELSE Sentinel

(* Spec 7 (ConstantRewriteFailed on an out-of-range value): a load that    *)
(* succeeds has wakeup_data_bytes equal to the configured length times the *)
(* trace record size, not a value wrapped modulo 2^32.                     *)
WakeupExact ==
  loadState = "loaded" => consts[WakeupName] = wakeupLen * TraceSize

=============================================================================
