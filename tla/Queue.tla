------------------------------- MODULE Queue -------------------------------
(***************************************************************************)
(* A queue of lib/queue/queue.c under sequential use: any order of         *)
(* enqueue, dequeue and clear_queue, one call at a time, while nobody else *)
(* writes to the word behind its array.  Lines that share that word are    *)
(* module Serial; the interrupted use that the keyboard driver makes of a  *)
(* queue is module KeyBuffer.                                              *)
(***************************************************************************)
EXTENDS QueueOps, Sequences

CONSTANT Values   \* the ints that callers enqueue

ASSUME ValuesAssumption == 0 \in Values

VARIABLES
  q,          \* the struct queue
  accepted,   \* what the last enqueue returned
  removed     \* what the last dequeue returned

queuevars == <<q, accepted, removed>>

QueueInit ==
  /\ q = new_queue([i \in Slots |-> 0])
  /\ accepted = TRUE
  /\ removed = 0

Enqueue(val) ==
  /\ q' = enqueue(q, val)
  /\ accepted' = HasRoom(q)
  /\ UNCHANGED removed

Dequeue ==
  /\ q' = dequeue(q)
  /\ removed' = Front(q)
  /\ UNCHANGED accepted

Clear ==
  /\ q' = clear_queue(q)
  /\ UNCHANGED <<accepted, removed>>

QueueNext == (\E val \in Values : Enqueue(val)) \/ Dequeue \/ Clear

QueueSpec == QueueInit /\ [][QueueNext]_queuevars

-----------------------------------------------------------------------------

\* The three counters never drift apart: q->size is the distance from q->out
\* to q->in round the ring, through wraps, overflows and clears.
IndicesAgree == q.in = SlotAfter(q.out, q.size)

Fifo == INSTANCE LossyFifo WITH contents <- Held(q)

\* The ring implements the lossy FIFO that the header describes: same return
\* values, same order, and only the oldest value is ever lost.
ImplementsFifo == Fifo!Spec
=============================================================================
