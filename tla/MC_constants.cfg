\* Constants and its rewrite over every offset map of two required and two
\* optional names.  A load is final: the run stops after LoadSpec.
CHECK_DEADLOCK FALSE
CONSTANTS
  url_ptr_pos = url_ptr_pos  path_ptr_pos = path_ptr_pos
  cc_next_stream_id_pos = cc_next_stream_id_pos  framer_w_pos = framer_w_pos
  wakeup_data_bytes = wakeup_data_bytes
  Nil = Nil
  RequiredNames <- MCRequiredNames
  OptionalNames <- MCOptionalNames
  WakeupName = wakeup_data_bytes
  OffsetValues <- MCOffsetValues
  WakeupLens <- MCWakeupLens
  W32 = 4
  W64 = 3
  TraceSize = 3
SPECIFICATION Spec
INVARIANTS
  TypeOK
  ConstantsMatchSpec
