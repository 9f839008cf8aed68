--------------------------- MODULE KeyBufferProofs ---------------------------
(***************************************************************************)
(* Proofs about module KeyBuffer, for every capacity and every number of   *)
(* strokes.                                                                *)
(***************************************************************************)
EXTENDS KeyBuffer, CommonLemmas, SequenceTheorems

USE CapacityAssumption, MaxKeysAssumption

(***************************************************************************)
(* The inductive invariant.  Bounds holds always; Ring as long as nothing  *)
(* has overflowed and no clear was hit in its window.                      *)
(***************************************************************************)

\* Once dequeue has seen a value, q->size stays positive until it is stored
\* back, because only the handler runs in between and it never takes one out.
CountHeld ==
  /\ pc \in {"load_out", "load_data", "load_size"} => size # 0
  /\ pc = "store_size" => reg # 0

Bounds == BufferTypeOK /\ HeadOnRing /\ CountHeld

\* Where the oldest unread stroke is, or will be when dequeue has moved q->out
\* past the stroke it has taken.
Oldest ==
  IF pc \in {"load_head", "store_head"} THEN Advance(out)
  ELSE IF pc = "clear_out" \/ out > Capacity THEN 0
  ELSE out

\* The ring holds the unread strokes, from the oldest on, up to q->in.
HoldsUnread ==
  /\ in = SlotAfter(Oldest, Len(unread))
  /\ \A n \in 1 .. Len(unread) :
       data[SlotAfter(Oldest, n - 1)] = unread[n]

\* What dequeue has in its registers.
InHand ==
  /\ pc = "load_data" => idx = out
  /\ pc \in {"load_size", "store_size"} => ret = unread[1]
  /\ pc = "store_size" => reg <= Len(unread)
  /\ pc = "store_head" => reg = out
  /\ pc = "wrap_head" => out > Capacity

Ring ==
  /\ Len(unread) <= Capacity
  /\ size <= Len(unread)
  /\ IF pc = "clear_in" THEN unread = <<>> ELSE HoldsUnread
  /\ InHand

KeyInv == Bounds /\ (Clean => Ring)

(***************************************************************************)
(* Fresh holds also after an overflow: until the strokes since the last    *)
(* clear have gone once round the ring, q->size, which updates lost to     *)
(* each other can only make too small, keeps q->out below q->in; then no   *)
(* slot holds an older stroke.                                             *)
(***************************************************************************)
Since == pressed - cleared

\* q->out, or where the call under way will leave it.
Reading ==
  IF pc \in {"clear_in", "clear_out"} THEN 0
  ELSE IF pc \in {"load_head", "store_head"} THEN out + 1
  ELSE out

\* The first time round.
FirstLap ==
  /\ pc # "clear_in" => in = Since
  /\ \A i \in Slots : i < Since => data[i] > cleared
  /\ Reading + size <= Since
  /\ pc = "load_data" => idx = out
  /\ pc = "store_size" => reg <= size
  /\ pc = "store_head" => reg = out

Fresh ==
  /\ cleared <= pressed
  /\ pc = "clear_in" => cleared = pressed /\ size = 0
  /\ pc \in {"load_size", "store_size"} => ret > cleared
  /\ Since <= Capacity => FirstLap
  /\ Since > Capacity => \A i \in Slots : data[i] > cleared

ForgetInv == Bounds /\ (~raced => Fresh)

-----------------------------------------------------------------------------
(***************************************************************************)
(* Bounds.                                                                 *)
(***************************************************************************)

LEMMA InitBounds ==
  ASSUME BufferInit
  PROVE  Bounds
<1>1. /\ size = 0 /\ in = 0 /\ out = 0 /\ data = [i \in Slots |-> 0]
      /\ pc = "idle" /\ idx = 0 /\ reg = 0 /\ ret = 0
      /\ pressed = 0 /\ unread = <<>> /\ last = 0 /\ cleared = 0
      /\ overflow = FALSE /\ raced = FALSE
  BY DEF BufferInit
<1>2. unread \in Seq(Strokes)
  BY <1>1, EmptySeq
<1>3. /\ size \in 0 .. Capacity /\ in \in Slots /\ out \in 0 .. Capacity + 1
      /\ idx \in Slots /\ reg \in Slots /\ ret \in 0 .. MaxKeys
      /\ pressed \in 0 .. MaxKeys /\ last \in 0 .. MaxKeys
      /\ cleared \in 0 .. MaxKeys
  BY <1>1 DEF Slots
<1>4. data \in [Slots -> 0 .. MaxKeys]
  BY <1>1
<1>5. BufferTypeOK
  BY <1>1, <1>2, <1>3, <1>4 DEF BufferTypeOK
<1>6. HeadOnRing
  BY <1>1 DEF HeadOnRing
<1> QED BY <1>1, <1>5, <1>6 DEF Bounds, CountHeld

\* What a stroke does to the fields of the buffer.
LEMMA StrokeFields ==
  ASSUME KeyStroke
  PROVE  /\ in' = Advance(in)
         /\ data' = [data EXCEPT ![in] = pressed + 1]
         /\ size # Capacity => size' = size + 1 /\ out' = out
         /\ size = Capacity => size' = size /\ out' = Advance(out)
         /\ unread' = Append(unread, pressed + 1)
         /\ pressed' = pressed + 1
         /\ UNCHANGED <<pc, idx, reg, ret, last, cleared>>
BY DEF KeyStroke, enqueue, q, HasRoom, main

LEMMA StrokeBounds ==
  ASSUME Bounds, KeyStroke
  PROVE  Bounds'
<1> USE DEF Bounds
<1>1. pressed + 1 \in Strokes /\ pressed + 1 \in 0 .. MaxKeys
  BY DEF BufferTypeOK, KeyStroke, Strokes
<1>2. unread' \in Seq(Strokes)
  BY <1>1 DEF BufferTypeOK, KeyStroke
<1>3. in' \in Slots /\ data' \in [Slots -> 0 .. MaxKeys]
  <2>1. in' = Advance(in) /\ data' = [data EXCEPT ![in] = pressed + 1]
    BY StrokeFields
  <2>2. in \in Slots /\ data \in [Slots -> 0 .. MaxKeys]
    BY DEF BufferTypeOK
  <2> QED BY <1>1, <2>1, <2>2 DEF Advance, Slots
<1>4. size' \in 0 .. Capacity /\ (size # 0 => size' # 0)
  <2>1. CASE size = Capacity
    BY <2>1, StrokeFields DEF BufferTypeOK
  <2>2. CASE size # Capacity
    BY <2>2, StrokeFields DEF BufferTypeOK
  <2> QED BY <2>1, <2>2
<1>5. out' = out \/ out' \in Slots
  <2>1. out' = out \/ out' = Advance(out)
    BY StrokeFields
  <2>2. out \in 0 .. Capacity + 1
    BY DEF BufferTypeOK
  <2> QED BY <2>1, <2>2 DEF Advance, Slots
<1>6. overflow' \in BOOLEAN /\ raced' \in BOOLEAN
  BY DEF KeyStroke
<1>7. BufferTypeOK'
  <2>1. out' \in 0 .. Capacity + 1
    BY <1>5 DEF BufferTypeOK, Slots
  <2>2. /\ pressed' \in 0 .. MaxKeys
        /\ UNCHANGED <<pc, idx, reg, ret, last, cleared>>
    BY <1>1, StrokeFields
  <2> QED BY <1>2, <1>3, <1>4, <1>6, <2>1, <2>2 DEF BufferTypeOK
<1>8. HeadOnRing' /\ CountHeld'
  BY <1>4, <1>5, StrokeFields DEF HeadOnRing, CountHeld, Slots
<1> QED BY <1>7, <1>8

LEMMA GetBounds ==
  ASSUME Bounds, keyboard_get_key
  PROVE  Bounds'
<1> USE DEF Bounds, BufferTypeOK, HeadOnRing, CountHeld, buffer, history
<1>1. CASE GetEmpty
  BY <1>1 DEF GetEmpty, buffervars, main
<1>2. CASE GetTest
  BY <1>2 DEF GetTest
<1>3. CASE LoadOut
  BY <1>3 DEF LoadOut, Slots
<1>4. CASE LoadData
  BY <1>4 DEF LoadData
<1>5. CASE LoadSize
  BY <1>5 DEF LoadSize, Slots
<1>6. CASE StoreSize
  <2>1. reg - 1 \in 0 .. Capacity
    BY <1>6 DEF StoreSize, Slots
  <2>2. unread' \in Seq(Strokes)
    BY <1>6, HeadTailProperties DEF StoreSize
  <2> QED BY <1>6, <2>1, <2>2 DEF StoreSize
<1>7. CASE LoadHead
  BY <1>7 DEF LoadHead, Slots
<1>8. CASE StoreHead
  BY <1>8 DEF StoreHead, Slots
<1>9. CASE TestHead
  BY <1>9 DEF TestHead
<1>10. CASE WrapHead
  BY <1>10 DEF WrapHead
<1> QED
  BY <1>1, <1>2, <1>3, <1>4, <1>5, <1>6, <1>7, <1>8, <1>9, <1>10
  DEF keyboard_get_key

LEMMA ClearBounds ==
  ASSUME Bounds, keyboard_clear_buffer
  PROVE  Bounds'
<1> USE DEF Bounds, BufferTypeOK, HeadOnRing, CountHeld, buffer, history
<1>1. CASE ClearSize
  <2>1. unread' \in Seq(Strokes)
    BY <1>1, EmptySeq DEF ClearSize
  <2>2. overflow' \in BOOLEAN /\ raced' \in BOOLEAN
    BY <1>1 DEF ClearSize
  <2>3. /\ size' = 0 /\ pc' = "clear_in" /\ cleared' = pressed
        /\ UNCHANGED <<in, out, data, idx, reg, ret, pressed, last>>
    BY <1>1 DEF ClearSize
  <2>4. pc = "idle"
    BY <1>1 DEF ClearSize
  <2> QED BY <2>1, <2>2, <2>3, <2>4
<1>2. CASE ClearIn
  BY <1>2 DEF ClearIn, Slots
<1>3. CASE ClearOut
  BY <1>3 DEF ClearOut
<1> QED BY <1>1, <1>2, <1>3 DEF keyboard_clear_buffer

LEMMA NextBounds ==
  ASSUME Bounds, [BufferNext]_buffervars
  PROVE  Bounds'
<1>1. CASE UNCHANGED buffervars
  BY <1>1 DEF buffervars, buffer, main, history, Bounds, BufferTypeOK, HeadOnRing, CountHeld
<1> QED
  BY <1>1, StrokeBounds, GetBounds, ClearBounds DEF BufferNext

\* However strokes interrupt main, every field of the buffer stays in range
\* and q->out is off the ring only where nothing reads through it.
THEOREM KeyBufferBounds == BufferSpec => [](BufferTypeOK /\ HeadOnRing)
<1>1. BufferInit => Bounds
  BY InitBounds
<1>2. Bounds /\ [BufferNext]_buffervars => Bounds'
  BY NextBounds
<1> QED BY <1>1, <1>2, PTL DEF BufferSpec, Bounds

-----------------------------------------------------------------------------
(***************************************************************************)
(* Ring.                                                                   *)
(***************************************************************************)

LEMMA OldestOnRing ==
  ASSUME Bounds
  PROVE  Oldest \in Slots
BY DEF Bounds, BufferTypeOK, Oldest, Advance, Slots

\* A stroke that keeps the buffer clean goes to the slot after the last one.
LEMMA StrokeRing ==
  ASSUME Bounds, Clean => Ring, KeyStroke, Clean'
  PROVE  Ring'
<1> DEFINE n == Len(unread)
<1>1. Clean /\ n < Capacity /\ pc # "clear_in"
  <2>1. ~overflow /\ ~(n >= Capacity) /\ ~raced /\ pc # "clear_in"
    BY DEF KeyStroke, Clean
  <2>2. n \in Nat
    BY DEF Bounds, BufferTypeOK
  <2>3. n < Capacity
    BY <2>1, <2>2
  <2> QED BY <2>1, <2>3 DEF Clean
<1>2. Ring
  BY <1>1
<1>3. n \in 0 .. Capacity /\ n + 1 \in 0 .. Capacity /\ n # n + 1
  BY <1>1 DEF Bounds, BufferTypeOK
<1>4. size # Capacity /\ size' = size + 1 /\ out' = out
  BY <1>1, <1>2, StrokeFields DEF Ring, Bounds, BufferTypeOK
<1>5. /\ in' = Advance(in)
      /\ data' = [data EXCEPT ![in] = pressed + 1]
      /\ unread' = Append(unread, pressed + 1)
      /\ UNCHANGED <<pc, idx, reg, ret>>
  BY StrokeFields
<1>6. unread \in Seq(Strokes) /\ pressed + 1 \in Strokes
  BY DEF Bounds, BufferTypeOK, KeyStroke, Strokes
<1>7. /\ Len(unread') = n + 1
      /\ \A m \in 1 .. n : unread'[m] = unread[m]
      /\ unread'[n + 1] = pressed + 1
  BY <1>5, <1>6
<1>8. Oldest \in Slots /\ Oldest' = Oldest
  BY <1>4, <1>5, OldestOnRing DEF Oldest
<1>9. in = SlotAfter(Oldest, n)
  BY <1>1, <1>2 DEF Ring, HoldsUnread
<1>10. in' = SlotAfter(Oldest', Len(unread'))
  <2>1. SlotAfter(Oldest, n + 1) = Advance(SlotAfter(Oldest, n))
    BY <1>3, <1>8, RingArithmetic
  <2> QED BY <2>1, <1>5, <1>7, <1>8, <1>9
<1>11. ASSUME NEW m \in 1 .. n + 1
       PROVE  data'[SlotAfter(Oldest, m - 1)] = unread'[m]
  <2>1. in \in Slots /\ data \in [Slots -> 0 .. MaxKeys]
    BY DEF Bounds, BufferTypeOK
  <2>2. CASE m = n + 1
    <3>1. m - 1 = n
      BY <1>3, <2>2
    <3> QED BY <1>5, <1>7, <1>9, <2>1, <2>2, <3>1
  <2>3. CASE m # n + 1
    <3>1. m \in 1 .. n /\ m - 1 \in 0 .. Capacity /\ m - 1 # n
      BY <1>3, <2>3
    <3>2. SlotAfter(Oldest, m - 1) # in
      BY <1>3, <1>8, <1>9, <3>1, RingInjective
    <3>3. SlotAfter(Oldest, m - 1) \in Slots
      BY <1>8, <3>1, RingArithmetic
    <3>4. data[SlotAfter(Oldest, m - 1)] = unread[m]
      BY <1>1, <1>2, <3>1 DEF Ring, HoldsUnread
    <3> QED BY <1>5, <1>7, <2>1, <3>1, <3>2, <3>3, <3>4
  <2> QED BY <2>2, <2>3
<1>12. HoldsUnread'
  BY <1>7, <1>8, <1>10, <1>11 DEF HoldsUnread
<1>13. InHand'
  <2>1. CASE pc \in {"load_size", "store_size"}
    <3>1. n # 0 /\ ret = unread[1]
      BY <1>2, <1>3, <2>1 DEF Ring, InHand, Bounds, BufferTypeOK, CountHeld, Slots
    <3>2. unread'[1] = unread[1]
      BY <1>3, <1>7, <3>1
    <3>3. pc = "store_size" => reg <= n
      BY <1>2 DEF Ring, InHand
    <3>4. pc = "store_size" => reg <= n + 1
      BY <1>3, <3>3 DEF Bounds, BufferTypeOK, Slots
    <3> QED BY <1>4, <1>5, <1>7, <2>1, <3>1, <3>2, <3>4 DEF InHand
  <2>2. CASE pc \notin {"load_size", "store_size"}
    BY <1>2, <1>4, <1>5, <2>2 DEF Ring, InHand
  <2> QED BY <2>1, <2>2
<1>14. Len(unread') <= Capacity /\ size' <= Len(unread')
  BY <1>2, <1>3, <1>4, <1>7 DEF Ring, Bounds, BufferTypeOK
<1> QED BY <1>1, <1>5, <1>12, <1>13, <1>14 DEF Ring

\* A step that moves none of the strokes and not the oldest's place.
LEMMA RingUnmoved ==
  ASSUME Ring, pc # "clear_in", pc' # "clear_in", Oldest' = Oldest, InHand',
         UNCHANGED <<size, in, data, unread>>
  PROVE  Ring'
BY DEF Ring, HoldsUnread

\* Taking a stroke leaves the others where they are.
LEMMA TakeRing ==
  ASSUME Bounds, Ring, StoreSize
  PROVE  Ring' /\ unread # <<>> /\ last' = Head(unread)
<1> DEFINE n == Len(unread)
<1>1. /\ pc = "store_size" /\ pc' = "load_head"
      /\ size' = reg - 1 /\ last' = ret
      /\ UNCHANGED <<in, out, data>>
  BY DEF StoreSize
<1>2. reg \in 1 .. Capacity /\ reg <= n /\ n \in 1 .. Capacity
  BY <1>1 DEF Bounds, BufferTypeOK, CountHeld, Slots, Ring, InHand
<1>3. unread \in Seq(Strokes) /\ unread # <<>>
  BY <1>2, EmptySeq DEF Bounds, BufferTypeOK
<1>4. /\ unread' = Tail(unread)
      /\ Len(unread') = n - 1
      /\ \A m \in 1 .. n - 1 : unread'[m] = unread[m + 1]
  <2>1. unread' = Tail(unread)
    BY <1>3 DEF StoreSize
  <2>2. Len(unread') = n - 1
    BY <1>3, <2>1, HeadTailProperties
  <2>3. \A m \in 1 .. Len(unread') : unread'[m] = unread[m + 1]
    BY <1>3, <2>1, HeadTailProperties
  <2> QED BY <2>1, <2>2, <2>3
<1>5. out \in Slots /\ Oldest = out /\ Oldest' = Advance(out)
  BY <1>1 DEF Bounds, BufferTypeOK, HeadOnRing, Oldest, Slots
<1>6. in' = SlotAfter(Oldest', Len(unread'))
  <2>1. SlotAfter(Advance(out), n - 1) = SlotAfter(out, n)
    BY <1>2, <1>5, RingArithmetic
  <2> QED BY <1>1, <1>4, <1>5, <2>1 DEF Ring, HoldsUnread
<1>7. ASSUME NEW m \in 1 .. n - 1
      PROVE  data'[SlotAfter(Oldest', m - 1)] = unread'[m]
  <2>1. m \in 0 .. Capacity /\ m # 0 /\ m + 1 \in 1 .. n /\ (m + 1) - 1 = m
    BY <1>2
  <2>2. SlotAfter(Advance(out), m - 1) = SlotAfter(out, m)
    BY <1>5, <2>1, RingArithmetic
  <2>3. data[SlotAfter(out, m)] = unread[m + 1]
    BY <1>1, <1>5, <2>1 DEF Ring, HoldsUnread
  <2> QED BY <1>1, <1>4, <1>5, <2>2, <2>3
<1>8. HoldsUnread'
  BY <1>4, <1>6, <1>7 DEF HoldsUnread
<1>9. Len(unread') <= Capacity /\ size' <= Len(unread') /\ InHand'
  BY <1>1, <1>2, <1>4 DEF InHand
<1>10. last' = Head(unread)
  BY <1>1, <1>3 DEF Ring, InHand
<1> QED BY <1>1, <1>3, <1>8, <1>9, <1>10 DEF Ring

LEMMA GetRing ==
  ASSUME Bounds, Ring, keyboard_get_key
  PROVE  Ring'
<1>1. CASE GetEmpty
  BY <1>1 DEF GetEmpty, buffervars, buffer, main, history, Ring, HoldsUnread, InHand,
              Oldest
<1>2. CASE StoreSize
  BY <1>2, TakeRing
<1>3. CASE GetTest \/ LoadOut \/ LoadSize \/ LoadHead
  <2>1. Oldest' = Oldest
    BY <1>3 DEF GetTest, LoadOut, LoadSize, LoadHead, buffer, Oldest
  <2>2. InHand'
    BY <1>3 DEF GetTest, LoadOut, LoadSize, LoadHead, buffer, history, Ring,
                InHand
  <2> QED
    BY <1>3, <2>1, <2>2, RingUnmoved
    DEF GetTest, LoadOut, LoadSize, LoadHead, buffer, history
<1>4. CASE LoadData
  <2>1. pc = "load_data" /\ pc' = "load_size" /\ ret' = data[out]
    BY <1>4 DEF LoadData, Ring, InHand
  <2>2. Oldest = out /\ out \in Slots
    BY <2>1 DEF Bounds, BufferTypeOK, HeadOnRing, Oldest, Slots
  <2>3. 1 \in 1 .. Len(unread)
    BY <2>1 DEF Bounds, BufferTypeOK, CountHeld, Ring
  <2>4. SlotAfter(out, 0) = out /\ 1 - 1 = 0
    BY <2>2, RingArithmetic
  <2>5. ret' = unread[1]
    BY <2>1, <2>2, <2>3, <2>4 DEF Ring, HoldsUnread
  <2>6. InHand' /\ Oldest' = Oldest
    BY <1>4, <2>1, <2>5 DEF LoadData, InHand, Oldest, buffer, history
  <2> QED BY <1>4, <2>1, <2>6, RingUnmoved DEF LoadData, buffer, history
<1>5. CASE StoreHead
  <2>1. out \in Slots /\ out' = out + 1
    BY <1>5 DEF StoreHead, Bounds, BufferTypeOK, HeadOnRing, Slots, Ring, InHand
  <2>2. Oldest' = Oldest
    BY <1>5, <2>1 DEF StoreHead, Oldest, Advance, Slots
  <2>3. InHand'
    BY <1>5 DEF StoreHead, InHand
  <2> QED BY <1>5, <2>2, <2>3, RingUnmoved DEF StoreHead, history
<1>6. CASE TestHead
  <2>1. Oldest' = Oldest /\ InHand'
    BY <1>6 DEF TestHead, buffer, Oldest, InHand
  <2> QED BY <1>6, <2>1, RingUnmoved DEF TestHead, buffer, history
<1>7. CASE WrapHead
  <2>1. Oldest' = Oldest /\ InHand'
    BY <1>7 DEF WrapHead, Oldest, Ring, InHand
  <2> QED BY <1>7, <2>1, RingUnmoved DEF WrapHead, history
<1> QED
  BY <1>1, <1>2, <1>3, <1>4, <1>5, <1>6, <1>7 DEF keyboard_get_key

LEMMA ClearRing ==
  ASSUME Bounds, Clean => Ring, keyboard_clear_buffer, Clean'
  PROVE  Ring'
<1>1. CASE ClearSize
  <2>1. unread' = <<>> /\ Len(unread') = 0 /\ size' = 0 /\ pc' = "clear_in"
    BY <1>1, EmptySeq DEF ClearSize
  <2> QED BY <2>1 DEF Ring, InHand
<1>2. CASE ClearIn
  <2>1. unread' = <<>> /\ Len(unread') = 0 /\ in' = 0 /\ size' <= 0
    BY <1>2, EmptySeq DEF ClearIn, Ring, history, Clean
  <2>2. pc' = "clear_out" /\ Oldest' = 0
    BY <1>2 DEF ClearIn, Oldest
  <2>3. SlotAfter(0, 0) = 0
    BY DEF SlotAfter
  <2> QED BY <2>1, <2>2, <2>3 DEF Ring, HoldsUnread, InHand
<1>3. CASE ClearOut
  <2>1. Oldest' = Oldest /\ InHand'
    BY <1>3 DEF ClearOut, Oldest, InHand
  <2>2. Ring
    BY <1>3 DEF ClearOut, history, Clean
  <2> QED BY <1>3, <2>1, <2>2, RingUnmoved DEF ClearOut, history
<1> QED BY <1>1, <1>2, <1>3 DEF keyboard_clear_buffer

LEMMA InitRing ==
  ASSUME BufferInit
  PROVE  Ring
BY EmptySeq DEF BufferInit, Ring, HoldsUnread, InHand, Oldest, SlotAfter

LEMMA NextKeyInv ==
  ASSUME KeyInv, [BufferNext]_buffervars
  PROVE  KeyInv'
<1>1. Bounds'
  BY NextBounds DEF KeyInv
<1>2. ASSUME Clean' PROVE Ring'
  <2>1. CASE KeyStroke
    BY <1>2, <2>1, StrokeRing DEF KeyInv
  <2>2. CASE keyboard_get_key
    <3>1. Clean
      BY <1>2, <2>2
      DEF Clean, history, buffervars, keyboard_get_key, GetEmpty, GetTest,
          LoadOut, LoadData, LoadSize, StoreSize, LoadHead, StoreHead,
          TestHead, WrapHead
    <3> QED BY <2>2, <3>1, GetRing DEF KeyInv
  <2>3. CASE keyboard_clear_buffer
    BY <1>2, <2>3, ClearRing DEF KeyInv
  <2>4. CASE UNCHANGED buffervars
    BY <1>2, <2>4
    DEF KeyInv, buffervars, buffer, main, history, Clean, Ring, HoldsUnread, InHand,
        Oldest
  <2> QED BY <2>1, <2>2, <2>3, <2>4 DEF BufferNext
<1> QED BY <1>1, <1>2 DEF KeyInv

\* As long as the buffer stays clean q->size never counts a stroke that is not
\* in the ring.
THEOREM KeyBufferNeverOvercounts == BufferSpec => []NeverOvercounts
<1>1. BufferInit => KeyInv
  BY InitBounds, InitRing DEF KeyInv
<1>2. KeyInv /\ [BufferNext]_buffervars => KeyInv'
  BY NextKeyInv
<1>3. KeyInv => NeverOvercounts
  BY DEF KeyInv, Ring, NeverOvercounts
<1> QED BY <1>1, <1>2, <1>3, PTL DEF BufferSpec

\* As long as the buffer stays clean keyboard_get_key returns the oldest
\* unread stroke, wherever the handler interrupts it.
THEOREM KeyBufferTakesOldest == BufferSpec => TakesOldest
<1> DEFINE Taken == Clean /\ pc = "store_size" /\ pc' # pc
                      => unread # <<>> /\ last' = Head(unread)
<1>1. BufferInit => KeyInv
  BY InitBounds, InitRing DEF KeyInv
<1>2. KeyInv /\ [BufferNext]_buffervars => KeyInv'
  BY NextKeyInv
<1>3. KeyInv /\ [BufferNext]_buffervars => [Taken]_buffervars
  <2> SUFFICES ASSUME KeyInv, [BufferNext]_buffervars, Clean, pc = "store_size", pc' # pc
               PROVE  unread # <<>> /\ last' = Head(unread)
    OBVIOUS
  <2>1. StoreSize
    BY DEF BufferNext, KeyStroke, keyboard_get_key, keyboard_clear_buffer, buffervars, main,
           GetEmpty, GetTest, LoadOut, LoadData, LoadSize, LoadHead,
           StoreHead, TestHead, WrapHead, ClearSize, ClearIn, ClearOut
  <2> QED BY <2>1, TakeRing DEF KeyInv
<1> QED BY <1>1, <1>2, <1>3, PTL DEF BufferSpec, TakesOldest

-----------------------------------------------------------------------------
(***************************************************************************)
(* Fresh.                                                                  *)
(***************************************************************************)

LEMMA StrokeFresh ==
  ASSUME Bounds, Fresh, KeyStroke, ~raced'
  PROVE  Fresh'
<1>1. pc # "clear_in" /\ pc' = pc
  BY DEF KeyStroke, main
<1>2. /\ in' = Advance(in)
      /\ data' = [data EXCEPT ![in] = pressed + 1]
      /\ size # Capacity => size' = size + 1 /\ out' = out
      /\ size = Capacity => size' = size /\ out' = Advance(out)
      /\ pressed' = pressed + 1
      /\ UNCHANGED <<idx, reg, ret, cleared>>
  BY StrokeFields
<1>3. /\ pressed \in Nat /\ cleared \in Nat /\ in \in Slots /\ size \in 0 .. Capacity
      /\ cleared <= pressed /\ out \in Nat /\ reg \in Nat
      /\ data \in [Slots -> 0 .. MaxKeys]
  BY DEF Bounds, BufferTypeOK, Fresh, Slots
<1>4. Since \in Nat /\ Since' = Since + 1
  BY <1>2, <1>3 DEF Since
<1>5. \A i \in Slots : data'[i] = IF i = in THEN pressed + 1 ELSE data[i]
  BY <1>2, <1>3
<1>6. ASSUME Since' <= Capacity PROVE FirstLap'
  <2>1. Since < Capacity /\ FirstLap
    BY <1>3, <1>4, <1>6 DEF Fresh
  <2>2. in = Since /\ in' = Since'
    BY <1>1, <1>2, <1>4, <2>1 DEF FirstLap, Advance
  <2>3. \A i \in Slots : i < Since' => data'[i] > cleared'
    BY <1>2, <1>3, <1>4, <1>5, <2>1, <2>2 DEF FirstLap, Slots
  <2>4. Reading \in Nat
    BY <1>3 DEF Reading
  <2>5. size # Capacity
    BY <1>3, <1>4, <2>1, <2>4 DEF FirstLap
  <2>6. size' = size + 1 /\ out' = out /\ Reading' = Reading
    BY <1>1, <1>2, <2>5 DEF Reading
  <2>7. Reading' + size' <= Since'
    BY <1>3, <1>4, <2>1, <2>4, <2>6 DEF FirstLap
  <2>8. pc = "store_size" => reg <= size'
    BY <1>3, <2>1, <2>6 DEF FirstLap
  <2> QED BY <1>1, <1>2, <2>1, <2>2, <2>3, <2>6, <2>7, <2>8 DEF FirstLap
<1>7. ASSUME Since' > Capacity, NEW i \in Slots PROVE data'[i] > cleared'
  <2>1. CASE Since > Capacity
    BY <1>2, <1>3, <1>5, <2>1 DEF Fresh
  <2>2. CASE Since <= Capacity
    <3>1. Since = Capacity /\ FirstLap /\ in = Capacity
      BY <1>1, <1>4, <1>7, <2>2 DEF Fresh, FirstLap
    <3>2. i # in => i < Since
      BY <3>1 DEF Slots
    <3> QED BY <1>2, <1>3, <1>5, <3>1, <3>2 DEF FirstLap
  <2> QED BY <1>4, <2>1, <2>2
<1>8. cleared' <= pressed'
  BY <1>2, <1>3
<1> QED BY <1>1, <1>2, <1>6, <1>7, <1>8 DEF Fresh

\* A step of main that makes no stroke and clears none leaves the second lap
\* alone.
LEMMA MainFresh ==
  ASSUME Bounds, Fresh, UNCHANGED <<data, pressed, cleared>>,
         pc' # "clear_in",
         pc' \in {"load_size", "store_size"} => ret' > cleared,
         Since <= Capacity /\ FirstLap => FirstLap'
  PROVE  Fresh'
BY DEF Fresh, Since

LEMMA GetFresh ==
  ASSUME Bounds, Fresh, keyboard_get_key
  PROVE  Fresh'
<1>1. CASE GetEmpty
  BY <1>1 DEF GetEmpty, buffervars, buffer, main, history, Fresh, FirstLap, Reading, Since
<1>2. CASE GetTest \/ LoadOut
  <2>1. /\ UNCHANGED <<buffer, history>>
        /\ pc \in {"idle", "load_out"} /\ pc' \in {"load_out", "load_data"}
        /\ pc' = "load_data" => idx' = out
    BY <1>2 DEF GetTest, LoadOut
  <2>2. Since <= Capacity /\ FirstLap => FirstLap'
    BY <2>1 DEF buffer, history, FirstLap, Reading, Since
  <2> QED BY <2>1, <2>2, MainFresh DEF buffer, history
<1>3. CASE LoadData
  <2>1. /\ UNCHANGED <<buffer, history, idx, reg>>
        /\ pc = "load_data" /\ pc' = "load_size" /\ ret' = data[idx]
    BY <1>3 DEF LoadData
  <2>2. idx \in Slots /\ size \in Nat /\ size # 0
    BY <2>1 DEF Bounds, BufferTypeOK, CountHeld
  <2>3. Since \in Nat
    BY DEF Bounds, BufferTypeOK, Fresh, Since
  <2>4. ret' > cleared
    <3>1. CASE Since > Capacity
      BY <2>1, <2>2, <3>1 DEF Fresh
    <3>2. CASE Since <= Capacity
      <4>1. idx = out /\ Reading = out /\ FirstLap
        BY <2>1, <3>2 DEF Fresh, FirstLap, Reading
      <4>2. idx < Since
        BY <2>2, <2>3, <4>1 DEF FirstLap, Slots
      <4> QED BY <2>1, <2>2, <4>1, <4>2 DEF FirstLap
    <3> QED BY <2>3, <3>1, <3>2
  <2>5. Since <= Capacity /\ FirstLap => FirstLap'
    BY <2>1 DEF buffer, history, FirstLap, Reading, Since
  <2> QED BY <2>1, <2>4, <2>5, MainFresh DEF buffer, history
<1>4. CASE LoadSize
  <2>1. /\ UNCHANGED <<buffer, history, idx, ret>>
        /\ pc = "load_size" /\ pc' = "store_size" /\ reg' = size
    BY <1>4 DEF LoadSize
  <2>2. Since <= Capacity /\ FirstLap => FirstLap'
    BY <2>1 DEF buffer, history, FirstLap, Reading, Since, Bounds, BufferTypeOK
  <2> QED BY <2>1, <2>2, MainFresh DEF buffer, history, Fresh
<1>5. CASE StoreSize
  <2>1. /\ UNCHANGED <<in, out, data, pressed, cleared>>
        /\ pc = "store_size" /\ pc' = "load_head" /\ size' = reg - 1
    BY <1>5 DEF StoreSize
  <2>2. reg \in Nat \ {0} /\ size \in Nat /\ out \in Nat
    BY <2>1 DEF Bounds, BufferTypeOK, CountHeld, Slots
  <2>3. ASSUME Since <= Capacity, FirstLap PROVE FirstLap'
    <3>1. reg <= size /\ Reading = out /\ Reading' = out + 1
      BY <2>1, <2>3 DEF FirstLap, Reading
    <3>2. Since \in Nat /\ Since' = Since
      BY <2>1 DEF Bounds, BufferTypeOK, Fresh, Since
    <3>3. Reading' + size' <= Since'
      BY <2>1, <2>2, <2>3, <3>1, <3>2 DEF FirstLap
    <3> QED BY <2>1, <2>3, <3>2, <3>3 DEF FirstLap
  <2> QED BY <2>1, <2>3, MainFresh
<1>6. CASE LoadHead \/ StoreHead
  <2>1. /\ UNCHANGED <<size, in, data, history>> /\ out \in Nat
        /\ \/ pc = "load_head" /\ pc' = "store_head" /\ reg' = out /\ out' = out
           \/ pc = "store_head" /\ pc' = "test_head" /\ out' = reg + 1
    BY <1>6 DEF LoadHead, StoreHead, buffer, Bounds, BufferTypeOK
  <2>2. Since <= Capacity /\ FirstLap => FirstLap'
    BY <2>1 DEF history, FirstLap, Reading, Since
  <2> QED BY <2>1, <2>2, MainFresh DEF history
<1>7. CASE TestHead \/ WrapHead
  <2>1. /\ UNCHANGED <<size, in, data, history>> /\ pc' \in {"idle", "wrap_head"}
        /\ pc \in {"test_head", "wrap_head"} /\ out \in Nat /\ size \in Nat
        /\ out' = out \/ out' = 0
    BY <1>7 DEF TestHead, WrapHead, buffer, Bounds, BufferTypeOK
  <2>2. Since <= Capacity /\ FirstLap => FirstLap'
    <3>1. Since \in Nat /\ Since' = Since
      BY <2>1 DEF Bounds, BufferTypeOK, Fresh, Since, history
    <3> QED BY <2>1, <3>1 DEF history, FirstLap, Reading
  <2> QED BY <2>1, <2>2, MainFresh DEF history
<1> QED
  BY <1>1, <1>2, <1>3, <1>4, <1>5, <1>6, <1>7 DEF keyboard_get_key

LEMMA ClearFresh ==
  ASSUME Bounds, ~raced => Fresh, keyboard_clear_buffer, ~raced'
  PROVE  Fresh'
<1>1. CASE ClearSize
  <2>1. /\ size' = 0 /\ pc' = "clear_in" /\ cleared' = pressed
        /\ pressed' = pressed /\ pressed \in Nat
    BY <1>1 DEF ClearSize, Bounds, BufferTypeOK
  <2>2. Since' = 0 /\ Reading' = 0
    BY <2>1 DEF Since, Reading
  <2>3. FirstLap'
    BY <2>1, <2>2 DEF FirstLap, Slots
  <2> QED BY <2>1, <2>2, <2>3 DEF Fresh
<1>2. CASE ClearIn
  <2>1. /\ UNCHANGED <<data, pressed, cleared, size>> /\ in' = 0
        /\ pc = "clear_in" /\ pc' = "clear_out" /\ pressed \in Nat /\ cleared \in Nat
    BY <1>2 DEF ClearIn, history, Bounds, BufferTypeOK
  <2> Fresh
    BY <1>2 DEF ClearIn, history
  <2>2. Since = 0 /\ Since' = 0 /\ size = 0 /\ Reading' = 0
    BY <2>1 DEF Fresh, Since, Reading
  <2>3. FirstLap'
    BY <2>1, <2>2 DEF FirstLap, Slots
  <2> QED BY <2>1, <2>3, MainFresh
<1>3. CASE ClearOut
  <2>1. /\ UNCHANGED <<data, pressed, cleared, size, in>> /\ out' = 0
        /\ pc = "clear_out" /\ pc' = "idle"
    BY <1>3 DEF ClearOut, history
  <2> Fresh
    BY <1>3 DEF ClearOut, history
  <2>2. Since <= Capacity /\ FirstLap => FirstLap'
    BY <2>1 DEF FirstLap, Reading, Since
  <2> QED BY <2>1, <2>2, MainFresh
<1> QED BY <1>1, <1>2, <1>3 DEF keyboard_clear_buffer

LEMMA InitForget ==
  ASSUME BufferInit
  PROVE  ForgetInv
<1>1. Fresh
  BY DEF BufferInit, Fresh, FirstLap, Since, Reading, Slots
<1> QED BY <1>1, InitBounds DEF ForgetInv

LEMMA NextForget ==
  ASSUME ForgetInv, [BufferNext]_buffervars
  PROVE  ForgetInv'
<1>1. Bounds'
  BY NextBounds DEF ForgetInv
<1>2. ASSUME ~raced' PROVE Fresh'
  <2>1. CASE KeyStroke
    <3>1. ~raced
      BY <1>2, <2>1 DEF KeyStroke
    <3> QED BY <1>2, <2>1, <3>1, StrokeFresh DEF ForgetInv
  <2>2. CASE keyboard_get_key
    <3>1. ~raced
      BY <1>2, <2>2
      DEF history, buffervars, keyboard_get_key, GetEmpty, GetTest, LoadOut,
          LoadData, LoadSize, StoreSize, LoadHead, StoreHead, TestHead, WrapHead
    <3> QED BY <2>2, <3>1, GetFresh DEF ForgetInv
  <2>3. CASE keyboard_clear_buffer
    BY <1>2, <2>3, ClearFresh DEF ForgetInv
  <2>4. CASE UNCHANGED buffervars
    BY <1>2, <2>4
    DEF ForgetInv, buffervars, buffer, main, history, Fresh, FirstLap, Reading,
        Since
  <2> QED BY <2>1, <2>2, <2>3, <2>4 DEF BufferNext
<1> QED BY <1>1, <1>2 DEF ForgetInv

\* However strokes interrupt main and whatever has overflowed, a stroke made
\* before a clear is not taken after it, unless a stroke came between the
\* clear's first two stores.
THEOREM KeyBufferForgets == BufferSpec => ClearForgets
<1> DEFINE Forgets == last' # last /\ ~raced => last' > cleared
<1>1. BufferInit => ForgetInv
  BY InitForget
<1>2. ForgetInv /\ [BufferNext]_buffervars => ForgetInv'
  BY NextForget
<1>3. ForgetInv /\ [BufferNext]_buffervars => [Forgets]_buffervars
  <2> SUFFICES ASSUME ForgetInv, [BufferNext]_buffervars, last' # last, ~raced
               PROVE  last' > cleared
    OBVIOUS
  <2>1. StoreSize
    BY DEF BufferNext, KeyStroke, keyboard_get_key, keyboard_clear_buffer, buffervars, history,
           GetEmpty, GetTest, LoadOut, LoadData, LoadSize, LoadHead,
           StoreHead, TestHead, WrapHead, ClearSize, ClearIn, ClearOut
  <2> QED BY <2>1 DEF ForgetInv, Fresh, StoreSize
<1> QED BY <1>1, <1>2, <1>3, PTL DEF BufferSpec, ClearForgets
=============================================================================
