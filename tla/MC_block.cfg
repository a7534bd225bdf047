\* Spec 8, invariant 2: a span that passed the filter before BlockPID sits
\* in the batch and is sent after BlockPID returned.
CHECK_DEADLOCK FALSE
CONSTANTS
  p1 = p1  p2 = p2
  Pids <- MCPids
  LogData <- MCLogData
  BatchLen = 2
  MaxRecords = 4
  Debug = FALSE
SPECIFICATION Spec
PROPERTY
  BlockedNotEmitted
