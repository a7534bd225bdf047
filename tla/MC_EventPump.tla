---------------------------- MODULE MC_EventPump ----------------------------
(* Two processes, and log records whose Log field is any three int8 values *)
(* among -1, 0 and 'A'; the cfgs choose the batch and record bounds.       *)
EXTENDS EventPump, TLC

CONSTANTS p1, p2

MCPids == {p1, p2}
MCLogData == [1 .. 3 -> {-1, 0, 65}]
=============================================================================
