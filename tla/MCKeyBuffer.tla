---------------------------- MODULE MCKeyBuffer ----------------------------
(* Instance of KeyBuffer for TLC. *)
EXTENDS KeyBuffer

\* Nothing ever clears the buffer, and a call of keyboard_get_key is
\* interrupted by one stroke at most, between the load and the store of
\* --(q->size).
SlowStroke ==
  /\ pc = "idle" \/ (pc = "store_size" /\ size = reg)
  /\ KeyStroke

GetOnlySpec == BufferInit /\ [][SlowStroke \/ keyboard_get_key]_buffervars
=============================================================================
