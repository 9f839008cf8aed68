------------------------------ MODULE QueueOps ------------------------------
(***************************************************************************)
(* The ring buffer of lib/queue/queue.c as operators on the value of a     *)
(* struct queue.  The struct's `capacity` never changes after new_queue    *)
(* and is the constant Capacity.  Both indices wrap only once they are     *)
(* greater than capacity and so run over Capacity + 1 slots, although the  *)
(* array that new_queue is given has Capacity of them: slot Capacity of    *)
(* `data` is the word behind the array, which is not the queue's own.      *)
(***************************************************************************)
EXTENDS Naturals

CONSTANT Capacity

ASSUME CapacityAssumption == Capacity \in Nat

\* The words q->in and q->out select, the one behind the array included.
Slots == 0 .. Capacity

\* Mutant of Advance: the index wraps one slot too late.
Advance_WrapsLate(i) == IF i > Capacity THEN 0 ELSE i + 1

\* ++index, then back to 0 once index > capacity.
Advance(i) == IF i + 1 > Capacity THEN 0 ELSE i + 1

new_queue(data) == [size |-> 0, in |-> 0, out |-> 0, data |-> data]

\* Mutant of HasRoom: the queue counts as full one value early.
HasRoom_OneEarly(q) == q.size + 1 < Capacity

\* Whether enqueue finds room: its return value.
HasRoom(q) == q.size # Capacity

\* Mutant of enqueue: on overflow the oldest value is not dropped.
enqueue_KeepsOldest(q, val) ==
  [size |-> IF HasRoom(q) THEN q.size + 1 ELSE q.size,
   in   |-> Advance(q.in),
   out  |-> q.out,
   data |-> [q.data EXCEPT ![q.in] = val]]

\* A full queue drops its oldest value and keeps its size.
enqueue(q, val) ==
  [size |-> IF HasRoom(q) THEN q.size + 1 ELSE q.size,
   in   |-> Advance(q.in),
   out  |-> IF HasRoom(q) THEN q.out ELSE Advance(q.out),
   data |-> [q.data EXCEPT ![q.in] = val]]

\* The value dequeue returns: 0 from an empty queue.
Front(q) == IF q.size = 0 THEN 0 ELSE q.data[q.out]

dequeue(q) ==
  IF q.size = 0 THEN q
  ELSE [size |-> q.size - 1,
        in   |-> q.in,
        out  |-> Advance(q.out),
        data |-> q.data]

\* Mutant of clear_queue: q->out is not reset.
clear_queue_KeepsOut(q) ==
  [size |-> 0, in |-> 0, out |-> q.out, data |-> q.data]

clear_queue(q) == [size |-> 0, in |-> 0, out |-> 0, data |-> q.data]

-----------------------------------------------------------------------------

\* The values of a struct queue whose indices select one of these words.
Struct(Values) ==
  [size : 0 .. Capacity, in : Slots, out : Slots, data : [Slots -> Values]]

\* The slot n places past slot i, going round the ring.
SlotAfter(i, n) == IF i + n > Capacity THEN i + n - (Capacity + 1) ELSE i + n

\* The values a reader of q would get, oldest first.
Held(q) == [n \in 1 .. q.size |-> q.data[SlotAfter(q.out, n - 1)]]
=============================================================================
