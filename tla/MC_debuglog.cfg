\* The debug variant: two pids, batches of two, and log records with every
\* Log field of three int8 values among -1, 0 and 'A', interleaved with
\* events, filter updates and cancellation; the run stops at the record bound.
CHECK_DEADLOCK FALSE
CONSTANTS
  p1 = p1  p2 = p2
  Pids <- MCPids
  LogData <- MCLogData
  BatchLen = 2
  MaxRecords = 2
  Debug = TRUE
SPECIFICATION Spec
INVARIANTS
  TypeOK
  LoggedIsCString
