------------------------ MODULE MC_GoTracerConstants ------------------------
(* Two required and two optional offsets, 3-bit offsets and a 4-bit uint32: *)
(* the sentinel is 7, and the wakeup product wraps for a length of 6.       *)
EXTENDS GoTracerConstants, TLC

CONSTANTS url_ptr_pos, path_ptr_pos, cc_next_stream_id_pos, framer_w_pos,
          wakeup_data_bytes

MCRequiredNames == <<url_ptr_pos, path_ptr_pos>>
MCOptionalNames == <<cc_next_stream_id_pos, framer_w_pos>>
MCOffsetValues == {0, 3, 7}
MCWakeupLens == {1, 6}
=============================================================================
