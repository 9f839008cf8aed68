----------------------------- MODULE MCKeyboard -----------------------------
(***************************************************************************)
(* A line of two characters and a ring of two.  The shell moves while no   *)
(* code is on the wire, and keys other than those of Sudden only move      *)
(* while it waits for one: neither the modifiers nor a code without a      *)
(* character touch anything that the shell sees, so that their order with  *)
(* its steps does not matter, and the characters are nothing to the ring.  *)
(***************************************************************************)
EXTENDS Keyboard

CONSTANT Sudden   \* the keys pressed and held inside dequeue and the flush

ShutdownLine == <<49, 49>>

Waiting == at = "read" /\ pc = "idle" /\ size = 0

User ==
  \/ \E k \in Keys : (k \in Sudden \/ Waiting) /\ (Press(k) \/ Repeat(k))
  \/ \E k \in Keys : Waiting /\ Release(k)

Shell == wire = <<>> /\ shell_loop

MCNext == User \/ keyboard_isr \/ Shell

MCSpec == Init /\ [][MCNext]_vars /\ WF_vars(keyboard_isr) /\ WF_vars(Shell)
=============================================================================
