----------------------------- MODULE QueueProofs -----------------------------
(***************************************************************************)
(* Proofs about module Queue, for every capacity and every set of values:  *)
(* the struct's counters agree, and the ring implements the lossy FIFO.    *)
(***************************************************************************)
EXTENDS Queue, CommonLemmas

USE CapacityAssumption, ValuesAssumption

\* The inductive invariant of Queue: both indices select a word of the array or
\* the one behind it.
Selected == q \in Struct(Values) /\ accepted \in BOOLEAN /\ removed \in Values

QueueInv == Selected /\ IndicesAgree

LEMMA QueueInvSound == QueueInv => q \in Sound(Values)
BY DEF QueueInv, Selected, IndicesAgree, Sound

LEMMA InitQueueInv == QueueInit => QueueInv
<1> SUFFICES ASSUME QueueInit PROVE QueueInv
  OBVIOUS
<1>1. q \in Sound(Values)
  BY NewSound DEF QueueInit
<1> QED BY <1>1 DEF QueueInit, QueueInv, Selected, IndicesAgree, Sound

\* What each call returns is a struct whose fields are in range and agree.
LEMMA NextQueueInv ==
  ASSUME QueueInv, [QueueNext]_queuevars
  PROVE  QueueInv'
<1>0. q \in Sound(Values) /\ accepted \in BOOLEAN /\ removed \in Values
  BY QueueInvSound DEF QueueInv, Selected
<1>1. ASSUME NEW val \in Values, Enqueue(val)
      PROVE  q' \in Sound(Values) /\ accepted' \in BOOLEAN /\ removed' \in Values
  BY <1>0, <1>1, EnqueueSound DEF Enqueue, HasRoom
<1>2. CASE Dequeue
  <2>1. Front(q) \in Values
    BY <1>0, DequeueSound DEF Front
  <2> QED BY <1>0, <1>2, <2>1, DequeueSound DEF Dequeue, QueueInv, Selected, IndicesAgree, Sound
<1>3. CASE Clear
  BY <1>0, <1>3, ClearSound DEF Clear, QueueInv, Selected, IndicesAgree, Sound
<1>4. CASE UNCHANGED queuevars
  BY <1>4 DEF queuevars, QueueInv, Selected, IndicesAgree
<1> QED BY <1>1, <1>2, <1>3, <1>4 DEF QueueNext, QueueInv, Selected, IndicesAgree, Sound

\* Whatever the capacity, q->size is always the distance from q->out to q->in.
THEOREM QueueSafe == QueueSpec => []IndicesAgree
<1>1. QueueInit => QueueInv
  BY InitQueueInv
<1>2. QueueInv /\ [QueueNext]_queuevars => QueueInv'
  BY NextQueueInv
<1> QED BY <1>1, <1>2, PTL DEF QueueSpec, QueueInv

-----------------------------------------------------------------------------

LEMMA InitFifo ==
  ASSUME QueueInit
  PROVE  Fifo!Init
<1>1. q \in Struct(Values) /\ q.size = 0
  BY InitQueueInv DEF QueueInv, Selected, QueueInit, new_queue
<1> QED BY <1>1, HeldEmpty DEF QueueInit, Fifo!Init

\* enqueue appends, and a full queue drops its oldest value for it.
LEMMA EnqueueFifo ==
  ASSUME QueueInv, NEW val \in Values, Enqueue(val)
  PROVE  Fifo!Enqueue(val)
<1>1. q \in Sound(Values) /\ q.size \in 0 .. Capacity /\ Len(Held(q)) = q.size
  BY QueueInvSound, HeldSeq DEF Sound, Struct
<1>2. Held(q') = IF HasRoom(q) THEN Append(Held(q), val) ELSE Tail(Append(Held(q), val))
  BY <1>1, EnqueueHeld DEF Enqueue
<1>3. HasRoom(q) = (Len(Held(q)) < Capacity)
  BY <1>1 DEF HasRoom
<1>4. /\ accepted' = (Len(Held(q)) < Capacity)
      /\ UNCHANGED removed
  BY <1>3 DEF Enqueue
<1> QED BY <1>2, <1>3, <1>4 DEF Fifo!Enqueue

\* dequeue returns and removes the oldest value, or 0 from an empty queue.
LEMMA DequeueFifo ==
  ASSUME QueueInv, Dequeue
  PROVE  Fifo!Dequeue
<1>1. q \in Sound(Values)
  BY QueueInvSound
<1>2. CASE q.size = 0
  BY <1>1, <1>2, HeldEmpty DEF Dequeue, dequeue, Front, Fifo!Dequeue, Sound
<1>3. CASE q.size # 0
  BY <1>1, <1>3, DequeueHeld DEF Dequeue, Fifo!Dequeue
<1> QED BY <1>2, <1>3

\* clear_queue empties the FIFO.
LEMMA ClearFifo ==
  ASSUME QueueInv, Clear
  PROVE  Fifo!Clear
<1>1. q' \in Struct(Values) /\ q'.size = 0
  BY QueueInvSound, ClearSound DEF Clear, clear_queue, Sound
<1> QED BY <1>1, HeldEmpty DEF Clear, Fifo!Clear

LEMMA NextFifo ==
  ASSUME QueueInv, [QueueNext]_queuevars
  PROVE  [Fifo!Next]_(Fifo!vars)
<1>1. CASE UNCHANGED queuevars
  BY <1>1 DEF queuevars, Fifo!vars
<1> QED
  BY <1>1, EnqueueFifo, DequeueFifo, ClearFifo DEF QueueNext, Fifo!Next

\* The ring of capacity + 1 slots implements the lossy FIFO of queue.h, for
\* every capacity and every set of values.
THEOREM QueueImplementsFifo == QueueSpec => ImplementsFifo
<1>1. QueueInit => QueueInv /\ Fifo!Init
  BY InitQueueInv, InitFifo
<1>2. QueueInv /\ [QueueNext]_queuevars => QueueInv' /\ [Fifo!Next]_(Fifo!vars)
  BY NextQueueInv, NextFifo
<1> QED BY <1>1, <1>2, PTL DEF QueueSpec, ImplementsFifo, Fifo!Spec
=============================================================================
