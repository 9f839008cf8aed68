----------------------------- MODULE LossyFifo -----------------------------
(***************************************************************************)
(* What a queue of include/queue.h promises: a FIFO of at most Capacity    *)
(* values that makes room for a new value by dropping the oldest, and      *)
(* reads as 0 when it is empty.                                            *)
(***************************************************************************)
EXTENDS Naturals, Sequences

CONSTANTS Capacity, Values

VARIABLES
  contents,   \* the values held, oldest first
  accepted,   \* what the last enqueue returned
  removed     \* what the last dequeue returned

vars == <<contents, accepted, removed>>

Init ==
  /\ contents = <<>>
  /\ accepted = TRUE
  /\ removed = 0

Enqueue(val) ==
  /\ accepted' = (Len(contents) < Capacity)
  /\ contents' = IF Len(contents) < Capacity
                 THEN Append(contents, val)
                 ELSE Tail(Append(contents, val))
  /\ UNCHANGED removed

Dequeue ==
  /\ removed' = IF contents = <<>> THEN 0 ELSE Head(contents)
  /\ contents' = IF contents = <<>> THEN <<>> ELSE Tail(contents)
  /\ UNCHANGED accepted

Clear ==
  /\ contents' = <<>>
  /\ UNCHANGED <<accepted, removed>>

Next == (\E val \in Values : Enqueue(val)) \/ Dequeue \/ Clear

Spec == Init /\ [][Next]_vars
=============================================================================
