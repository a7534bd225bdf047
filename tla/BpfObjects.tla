------------------------------ MODULE BpfObjects ------------------------------
(***************************************************************************)
(* The bpf2go loader of the exec tracer's debug collection                 *)
(* (secexec/bpf_debug_bpfel_x86.go): loading the embedded collection into  *)
(* its objects struct, and closing it.  Close closes the programs, then    *)
(* the maps, each group with _Bpf_debugClose, which returns at the first   *)
(* error and leaves the remaining closers alone.  Closing an object that   *)
(* is already closed succeeds (its fd is gone), so Close may be retried.   *)
(***************************************************************************)
EXTENDS Naturals, Sequences, SequencesExt

CONSTANTS
  ProgramObjs,  \* bpf_debugPrograms, in field order
  MapObjs,      \* bpf_debugMaps, in field order
  MayFail       \* the objects (distinct fields) whose Close may fail

Objects == ToSet(ProgramObjs) \cup ToSet(MapObjs)

VARIABLES
  open,   \* the kernel objects of the struct that are open
  state   \* "unloaded", "loadFailed", "loaded", "closed", "closeFailed"

vars == <<open, state>>

(* _Bpf_debugClose(closers...): close each in order, return the first      *)
(* error.  The fold carries the closed objects and whether it returned.    *)
BpfClose(closers, fail) ==
  FoldLeft(LAMBDA acc, c :
             IF acc.err THEN acc
             ELSE IF c \in fail THEN [acc EXCEPT !.err = TRUE]
             ELSE [acc EXCEPT !.closed = @ \cup {c}],
           [closed |-> {}, err |-> FALSE], closers)

(* bpf_debugPrograms.Close                                                 *)
ProgramsClose(fail) == BpfClose(ProgramObjs, fail)

(* bpf_debugMaps.Close                                                     *)
MapsClose(fail) == BpfClose(MapObjs, fail)

(* Mutant: the objects' Close closes the programs only.                   *)
ObjectsCloseNoMaps(fail) == ProgramsClose(fail)

(* bpf_debugObjects.Close: _Bpf_debugClose(&o.bpf_debugPrograms,           *)
(* &o.bpf_debugMaps): the maps are closed only if the programs closed.     *)
ObjectsClose(fail) ==
  LET progs == ProgramsClose(fail)
  IN IF progs.err THEN progs
     ELSE [closed |-> progs.closed \cup MapsClose(fail).closed,
           err |-> MapsClose(fail).err]

Init ==
  /\ open = {}
  /\ state = "unloaded"

(* loadBpf_debugObjects: loadBpf_debug parses the embedded bytes, then     *)
(* LoadAndAssign loads every object, or fails and leaves none loaded.      *)
LoadObjects ==
  /\ state = "unloaded"
  /\ \/ /\ open' = Objects
        /\ state' = "loaded"
     \/ /\ state' = "loadFailed"
        /\ UNCHANGED open

(* o.Close(), on a loaded struct or again after an error.  An object whose *)
(* Close fails stays open.                                                 *)
Close ==
  /\ state \in {"loaded", "closeFailed"}
  /\ \E fail \in SUBSET (open \cap MayFail) :
       LET r == ObjectsClose(fail)
       IN /\ open' = open \ r.closed
          /\ state' = IF r.err THEN "closeFailed" ELSE "closed"

Next == LoadObjects \/ Close

Spec == Init /\ [][Next]_vars

-----------------------------------------------------------------------------
(* A Close that returns an error has still released every object whose own *)
(* Close succeeds: only the failing ones stay open, as every other         *)
(* release path of the tracer keeps closing after an error (spec 5).       *)
FailedCloseReleasesRest ==
  state = "closeFailed" => open \subseteq MayFail

=============================================================================
