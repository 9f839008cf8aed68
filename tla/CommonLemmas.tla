---------------------------- MODULE CommonLemmas ----------------------------
(***************************************************************************)
(* Lemmas that several proofs need: induction on the naturals, and, about  *)
(* module QueueOps, going round the ring and what a call makes of the      *)
(* values that a reader would get.                                         *)
(***************************************************************************)
EXTENDS QueueOps, SequenceTheorems, WellFoundedInduction, TLAPS

(***************************************************************************)
(* Induction on the naturals, from their being well-founded.               *)
(***************************************************************************)
\* Every set of naturals that is not empty has a least element.
LEMMA Least ==
  ASSUME NEW T \in SUBSET Nat, T # {}
  PROVE  \E x \in T : \A y \in T : x <= y
<1> DEFINE R == {ss \in Nat \X Nat : ss[1] < ss[2]}
<1>1. OpToRel(<, Nat) = R
  BY DEF OpToRel
<1>2. IsWellFoundedOn(R, Nat)
  BY <1>1, NatLessThanWellFounded, Zenon
<1>3. \E x \in T : \A y \in T : ~(<<y, x>> \in R)
  <2> HIDE DEF R
  <2> QED BY <1>2, WFMin
<1>4. PICK x \in T : \A y \in T : ~(<<y, x>> \in R)
  BY <1>3
<1>5. \A y \in T : ~(y < x)
  BY <1>4
<1> QED BY <1>5

\* A set that holds 0, and n + 1 with every n, holds every natural.
LEMMA Induction ==
  ASSUME NEW T, 0 \in T, \A n \in Nat : n \in T => n + 1 \in T
  PROVE  \A n \in Nat : n \in T
<1> DEFINE S == {n \in Nat : n \notin T}
<1> SUFFICES ASSUME S # {} PROVE FALSE
  OBVIOUS
<1>1. PICK m \in S : \A y \in S : m <= y
  BY Least
<1>2. m # 0
  BY <1>1
<1>3. m - 1 \in Nat /\ m - 1 \notin S
  BY <1>1, <1>2
<1> QED BY <1>1, <1>3, (m - 1) + 1 = m

(***************************************************************************)
(* The ring.                                                               *)
(***************************************************************************)
USE CapacityAssumption

\* Where the indices of the ring can point: Advance and SlotAfter stay on a
\* slot, and Advance goes one place round.
LEMMA RingArithmetic ==
  ASSUME NEW i \in Slots, NEW n \in 0 .. Capacity
  PROVE  /\ Advance(i) \in Slots
         /\ SlotAfter(i, n) \in Slots
         /\ SlotAfter(i, 0) = i
         /\ n < Capacity => SlotAfter(i, n + 1) = Advance(SlotAfter(i, n))
         /\ n # 0 => SlotAfter(Advance(i), n - 1) = SlotAfter(i, n)
BY DEF Slots, Advance, SlotAfter

\* In a full ring both indices go round together.
LEMMA RingFull ==
  ASSUME NEW i \in Slots
  PROVE  Advance(SlotAfter(i, Capacity)) = SlotAfter(Advance(i), Capacity)
BY DEF Slots, Advance, SlotAfter

\* Distinct distances below Capacity + 1 lead to distinct slots.
LEMMA RingInjective ==
  ASSUME NEW i \in Slots, NEW m \in 0 .. Capacity, NEW n \in 0 .. Capacity,
         SlotAfter(i, m) = SlotAfter(i, n)
  PROVE  m = n
BY DEF Slots, SlotAfter

-----------------------------------------------------------------------------
\* A struct whose fields are in range, and whose size is the distance between
\* its indices.
Sound(V) == {q \in Struct(V) : q.in = SlotAfter(q.out, q.size)}

LEMMA NewSound ==
  ASSUME NEW V, NEW data \in [Slots -> V]
  PROVE  new_queue(data) \in Sound(V)
BY DEF new_queue, Sound, Struct, Slots, SlotAfter

LEMMA EnqueueSound ==
  ASSUME NEW V, NEW q \in Sound(V), NEW val \in V
  PROVE  enqueue(q, val) \in Sound(V)
<1> DEFINE r == enqueue(q, val)
<1>1. /\ q.size \in 0 .. Capacity /\ q.in \in Slots /\ q.out \in Slots
      /\ q.data \in [Slots -> V] /\ q.in = SlotAfter(q.out, q.size)
  BY DEF Sound, Struct
<1>2. /\ r.in = Advance(q.in) /\ r.data = [q.data EXCEPT ![q.in] = val]
      /\ r = [size |-> r.size, in |-> r.in, out |-> r.out, data |-> r.data]
  BY DEF enqueue
<1>3. r.data \in [Slots -> V]
  BY <1>1, <1>2
<1>4. CASE q.size = Capacity
  <2>1. r.size = q.size /\ r.out = Advance(q.out)
    BY <1>4 DEF enqueue, HasRoom
  <2>2. r.in = SlotAfter(r.out, r.size)
    <3>1. Advance(SlotAfter(q.out, Capacity)) = SlotAfter(Advance(q.out), Capacity)
      BY <1>1, RingFull
    <3> HIDE DEF r
    <3> QED BY <1>1, <1>2, <1>4, <2>1, <3>1
  <2> HIDE DEF r
  <2>3. r \in Sound(V)
    BY <1>1, <1>2, <1>3, <2>1, <2>2, RingArithmetic DEF Sound, Struct
  <2> QED BY <2>3 DEF r
<1>5. CASE q.size # Capacity
  <2>1. r.size = q.size + 1 /\ r.out = q.out
    BY <1>5 DEF enqueue, HasRoom
  <2>2. r.size \in 0 .. Capacity
    BY <1>1, <1>5, <2>1
  <2>3. r.in = SlotAfter(r.out, r.size)
    <3>1. q.size < Capacity
      BY <1>1, <1>5
    <3>2. SlotAfter(q.out, q.size + 1) = Advance(SlotAfter(q.out, q.size))
      BY <1>1, <3>1, RingArithmetic
    <3> HIDE DEF r
    <3> QED BY <1>1, <1>2, <2>1, <3>2
  <2> HIDE DEF r
  <2>4. r \in Sound(V)
    BY <1>1, <1>2, <1>3, <2>1, <2>2, <2>3, RingArithmetic DEF Sound, Struct
  <2> QED BY <2>4 DEF r
<1> QED BY <1>4, <1>5

LEMMA DequeueSound ==
  ASSUME NEW V, NEW q \in Sound(V)
  PROVE  /\ dequeue(q) \in Sound(V)
         /\ q.size # 0 => Front(q) \in V
<1>1. /\ q.size \in 0 .. Capacity /\ q.in \in Slots /\ q.out \in Slots
      /\ q.data \in [Slots -> V] /\ q.in = SlotAfter(q.out, q.size)
  BY DEF Sound, Struct
<1>2. CASE q.size = 0
  BY <1>2 DEF dequeue
<1>3. CASE q.size # 0
  <2> DEFINE r == dequeue(q)
  <2>1. /\ r.size = q.size - 1 /\ r.in = q.in /\ r.out = Advance(q.out) /\ r.data = q.data
        /\ r = [size |-> r.size, in |-> r.in, out |-> r.out, data |-> r.data]
    BY <1>3 DEF dequeue
  <2>2. r.size \in 0 .. Capacity
    BY <1>1, <1>3, <2>1
  <2>3. r.in = SlotAfter(r.out, r.size)
    <3>1. SlotAfter(Advance(q.out), q.size - 1) = SlotAfter(q.out, q.size)
      BY <1>1, <1>3, RingArithmetic
    <3> HIDE DEF r
    <3> QED BY <1>1, <2>1, <3>1
  <2>4. Front(q) \in V
    BY <1>1, <1>3 DEF Front
  <2> HIDE DEF r
  <2>5. r \in Sound(V)
    BY <1>1, <2>1, <2>2, <2>3, RingArithmetic DEF Sound, Struct
  <2> QED BY <2>4, <2>5 DEF r
<1> QED BY <1>2, <1>3

LEMMA ClearSound ==
  ASSUME NEW V, NEW q \in Sound(V)
  PROVE  clear_queue(q) \in Sound(V)
BY DEF clear_queue, Sound, Struct, Slots, SlotAfter

-----------------------------------------------------------------------------
\* The reader's view of a struct is a sequence of `size` values.
LEMMA HeldSeq ==
  ASSUME NEW V, NEW r \in Struct(V)
  PROVE  /\ Held(r) \in Seq(V)
         /\ Len(Held(r)) = r.size
         /\ \A n \in 1 .. r.size : Held(r)[n] = r.data[SlotAfter(r.out, n - 1)]
<1>1. r.size \in Nat
  BY DEF Struct
<1>2. \A n \in 1 .. r.size : SlotAfter(r.out, n - 1) \in Slots
  BY <1>1, RingArithmetic DEF Struct
<1>3. Held(r) \in [1 .. r.size -> V]
  BY <1>2 DEF Struct, Held
<1>4. Held(r) \in Seq(V)
  BY <1>1, <1>3, SeqDef
<1>5. Len(Held(r)) = r.size
  BY <1>1, <1>3, <1>4, LenProperties
<1> QED BY <1>4, <1>5 DEF Held

LEMMA HeldEmpty ==
  ASSUME NEW V, NEW r \in Struct(V), r.size = 0
  PROVE  Held(r) = <<>>
BY HeldSeq, EmptySeq

\* enqueue appends, and a full queue drops its oldest value for it.
LEMMA EnqueueHeld ==
  ASSUME NEW V, NEW q \in Sound(V), NEW val \in V
  PROVE  Held(enqueue(q, val)) =
           IF HasRoom(q) THEN Append(Held(q), val) ELSE Tail(Append(Held(q), val))
<1> DEFINE s == Held(q)
           t == Append(s, val)
           r == enqueue(q, val)
<1>1. q \in Struct(V) /\ r \in Struct(V)
  BY EnqueueSound DEF Sound
<1>2. q.in = SlotAfter(q.out, q.size)
  BY DEF Sound
<1>3. r.data = [q.data EXCEPT ![q.in] = val]
  BY DEF enqueue
<1>4. /\ s \in Seq(V) /\ Len(s) = q.size
      /\ \A n \in 1 .. q.size : s[n] = q.data[SlotAfter(q.out, n - 1)]
  BY <1>1, HeldSeq
<1>5. /\ t \in Seq(V) /\ Len(t) = q.size + 1
      /\ \A n \in 1 .. q.size : t[n] = s[n]
      /\ t[q.size + 1] = val
  BY <1>4
<1>6. /\ Held(r) \in Seq(V) /\ Len(Held(r)) = r.size
      /\ \A n \in 1 .. r.size : Held(r)[n] = r.data[SlotAfter(r.out, n - 1)]
  BY <1>1, HeldSeq
<1>7. \A n \in 1 .. q.size + 1 : n # 0 /\ n - 1 \in 0 .. Capacity
  BY <1>1 DEF Struct
<1>8. \A n \in 1 .. q.size + 1 : r.data[SlotAfter(q.out, n - 1)] = t[n]
  <2> SUFFICES ASSUME NEW n \in 1 .. q.size + 1
               PROVE  r.data[SlotAfter(q.out, n - 1)] = t[n]
    OBVIOUS
  <2>1. SlotAfter(q.out, n - 1) \in Slots
    BY <1>1, <1>7, RingArithmetic DEF Struct
  <2>2. CASE n = q.size + 1
    BY <1>1, <1>2, <1>3, <1>5, <2>1, <2>2 DEF Struct
  <2>3. CASE n # q.size + 1
    <3>1. n \in 1 .. q.size /\ q.size \in 0 .. Capacity
      BY <1>1, <2>3 DEF Struct
    <3>2. SlotAfter(q.out, n - 1) # q.in
      BY <1>1, <1>2, <1>7, <3>1, RingInjective DEF Struct
    <3> QED BY <1>1, <1>3, <1>4, <1>5, <2>1, <3>1, <3>2 DEF Struct
  <2> QED BY <2>2, <2>3
<1>9. CASE q.size # Capacity
  <2>1. r.size = q.size + 1 /\ r.out = q.out
    BY <1>9 DEF enqueue, HasRoom
  <2>2. \A n \in 1 .. q.size + 1 : Held(r)[n] = t[n]
    BY <1>6, <1>8, <2>1
  <2>3. Held(r) = t
    BY <1>5, <1>6, <2>1, <2>2, SeqEqual
  <2> QED BY <2>3, <1>9 DEF HasRoom
<1>10. CASE q.size = Capacity
  <2>1. r.size = q.size /\ r.out = Advance(q.out)
    BY <1>10 DEF enqueue, HasRoom
  <2>2. /\ Tail(t) \in Seq(V) /\ Len(Tail(t)) = q.size
        /\ \A n \in 1 .. q.size : Tail(t)[n] = t[n + 1]
    <3>1. q.size \in Nat
      BY <1>1 DEF Struct
    <3>2. t # <<>>
      BY <1>5, <3>1, EmptySeq
    <3>3. Len(Tail(t)) = q.size
      BY <1>5, <3>1, <3>2, HeadTailProperties
    <3> QED BY <1>5, <3>2, <3>3, HeadTailProperties
  <2>3. \A n \in 1 .. q.size : Held(r)[n] = Tail(t)[n]
    <3> SUFFICES ASSUME NEW n \in 1 .. q.size
                 PROVE  Held(r)[n] = Tail(t)[n]
      OBVIOUS
    <3>1. SlotAfter(Advance(q.out), n - 1) = SlotAfter(q.out, n)
      <4>1. n \in 0 .. Capacity /\ n # 0
        BY <1>1 DEF Struct
      <4>2. q.out \in Slots
        BY <1>1 DEF Struct
      <4> QED BY <4>1, <4>2, RingArithmetic
    <3>2. n + 1 \in 1 .. q.size + 1 /\ (n + 1) - 1 = n
      BY <1>1 DEF Struct
    <3>3. r.data[SlotAfter(q.out, n)] = t[n + 1]
      BY <1>8, <3>2
    <3> QED BY <1>6, <2>1, <2>2, <3>1, <3>3
  <2>4. Held(r) = Tail(t)
    BY <1>6, <2>1, <2>2, <2>3, SeqEqual
  <2> QED BY <2>4, <1>10 DEF HasRoom
<1> QED BY <1>9, <1>10

\* dequeue removes the oldest value, which is the one it returns.
LEMMA DequeueHeld ==
  ASSUME NEW V, NEW q \in Sound(V), q.size # 0
  PROVE  /\ Held(q) # <<>>
         /\ Held(dequeue(q)) = Tail(Held(q))
         /\ Front(q) = Head(Held(q))
<1> DEFINE s == Held(q)
           r == dequeue(q)
<1>1. q \in Struct(V) /\ r \in Struct(V)
  BY DequeueSound DEF Sound
<1>2. /\ s \in Seq(V) /\ Len(s) = q.size
      /\ \A n \in 1 .. q.size : s[n] = q.data[SlotAfter(q.out, n - 1)]
  BY <1>1, HeldSeq
<1>3. r.size = q.size - 1 /\ r.out = Advance(q.out) /\ r.data = q.data
  BY DEF dequeue
<1>4. q.size \in 1 .. Capacity
  BY <1>1 DEF Struct
<1>5. s # <<>>
  BY <1>2, <1>4, EmptySeq
<1>6. /\ Tail(s) \in Seq(V) /\ Len(Tail(s)) = q.size - 1
      /\ \A n \in 1 .. q.size - 1 : Tail(s)[n] = s[n + 1]
  BY <1>2, <1>4, <1>5, HeadTailProperties
<1>7. /\ Held(r) \in Seq(V) /\ Len(Held(r)) = r.size
      /\ \A n \in 1 .. r.size : Held(r)[n] = r.data[SlotAfter(r.out, n - 1)]
  BY <1>1, HeldSeq
<1>8. \A n \in 1 .. q.size - 1 : Held(r)[n] = Tail(s)[n]
  <2> SUFFICES ASSUME NEW n \in 1 .. q.size - 1
               PROVE  Held(r)[n] = Tail(s)[n]
    OBVIOUS
  <2>1. SlotAfter(Advance(q.out), n - 1) = SlotAfter(q.out, n)
    <3>1. n \in 0 .. Capacity /\ n # 0
      BY <1>4
    <3>2. q.out \in Slots
      BY <1>1 DEF Struct
    <3> QED BY <3>1, <3>2, RingArithmetic
  <2>2. n + 1 \in 1 .. q.size /\ (n + 1) - 1 = n
    BY <1>4
  <2>3. Held(r)[n] = q.data[SlotAfter(q.out, n)]
    BY <1>3, <1>7, <2>1, Zenon
  <2>4. Tail(s)[n] = q.data[SlotAfter(q.out, (n + 1) - 1)]
    BY <1>2, <1>6, <2>2, Zenon
  <2> QED BY <2>2, <2>3, <2>4, Zenon
<1>9. Held(r) = Tail(s)
  BY <1>3, <1>6, <1>7, <1>8, SeqEqual
<1>10. Head(s) = q.data[q.out]
  <2>1. SlotAfter(q.out, 0) = q.out /\ 1 - 1 = 0
    BY <1>1, RingArithmetic DEF Struct
  <2>2. s[1] = q.data[q.out]
    BY <1>2, <1>4, <2>1
  <2> QED BY <1>2, <1>5, <2>2
<1> QED BY <1>5, <1>9, <1>10 DEF Front
=============================================================================
