----------------------------- MODULE KeyBuffer -----------------------------
(***************************************************************************)
(* The keyboard buffer of dev/keyboard.c: keyboard_isr puts key strokes    *)
(* into the ring while main code takes them out with keyboard_get_key      *)
(* (dequeue) or empties it with keyboard_clear_buffer (clear_queue).       *)
(* Main code does not disable interrupts around these calls, and a handler *)
(* runs to completion with interrupts off: the handler is one step, main   *)
(* is one step per memory access, in the order the unoptimised build makes *)
(* them (an increment is a load and a later store).                        *)
(*                                                                         *)
(* Key strokes are numbered 1, 2, ... in the order they are made; the      *)
(* number stands for the 16-bit value stored.                              *)
(***************************************************************************)
EXTENDS QueueOps, Sequences

CONSTANT MaxKeys   \* bound: the strokes a behaviour may contain

ASSUME MaxKeysAssumption == MaxKeys \in Nat

VARIABLES
  size, in, out, data,   \* the fields of the struct queue `buffer`
  pc,        \* the next memory access of main
  idx,       \* main: out as read to index data
  reg,       \* main: the operand of the increment or decrement under way
  ret,       \* main: the local `ret` of dequeue
  (* history *)
  pressed,   \* how many keys have been stored so far
  unread,    \* strokes stored and neither taken nor cleared, in order
  last,      \* the stroke taken last; 0 before the first
  cleared,   \* the last stroke made before the last clear began
  overflow,  \* since the last clear, a stroke came while Capacity were unread
  raced      \* a stroke came between the last clear's first two stores

buffer == <<size, in, out, data>>
main == <<pc, idx, reg, ret>>
history == <<pressed, unread, last, cleared, overflow, raced>>
buffervars == <<buffer, main, history>>

q == [size |-> size, in |-> in, out |-> out, data |-> data]

Strokes == 1 .. MaxKeys

BufferInit ==
  /\ data = [i \in Slots |-> 0]
  /\ size = 0 /\ in = 0 /\ out = 0
  /\ pc = "idle"
  /\ idx = 0 /\ reg = 0 /\ ret = 0
  /\ pressed = 0 /\ unread = <<>> /\ last = 0 /\ cleared = 0
  /\ overflow = FALSE /\ raced = FALSE

\* keyboard_isr for a scan code that yields a character.
KeyStroke ==
  /\ pressed < MaxKeys
  /\ pressed' = pressed + 1
  /\ LET r == enqueue(q, pressed + 1) IN
       /\ size' = r.size
       /\ in' = r.in
       /\ out' = r.out
       /\ data' = r.data
  /\ unread' = Append(unread, pressed + 1)
  /\ overflow' = (overflow \/ Len(unread) >= Capacity)
  /\ raced' = (raced \/ pc = "clear_in")
  /\ UNCHANGED <<main, last, cleared>>

(***************************************************************************)
(* keyboard_get_key.                                                       *)
(***************************************************************************)
\* if(q->size) fails: the call returns 0.
GetEmpty ==
  /\ pc = "idle"
  /\ size = 0
  /\ UNCHANGED buffervars

\* Mutant of GetTest: the last stroke is left until another comes.
GetTest_OneBehind ==
  /\ pc = "idle"
  /\ size > 1
  /\ pc' = "load_out"
  /\ UNCHANGED <<buffer, idx, reg, ret, history>>

GetTest ==
  /\ pc = "idle"
  /\ size # 0
  /\ pc' = "load_out"
  /\ UNCHANGED <<buffer, idx, reg, ret, history>>

LoadOut ==
  /\ pc = "load_out"
  /\ idx' = out
  /\ pc' = "load_data"
  /\ UNCHANGED <<buffer, reg, ret, history>>

LoadData ==
  /\ pc = "load_data"
  /\ ret' = data[idx]
  /\ pc' = "load_size"
  /\ UNCHANGED <<buffer, idx, reg, history>>

LoadSize ==
  /\ pc = "load_size"
  /\ reg' = size
  /\ pc' = "store_size"
  /\ UNCHANGED <<buffer, idx, ret, history>>

\* From here on there is room for another stroke: the stroke is taken.
StoreSize ==
  /\ pc = "store_size"
  /\ size' = reg - 1
  /\ pc' = "load_head"
  /\ last' = ret
  /\ unread' = IF unread = <<>> THEN <<>> ELSE Tail(unread)
  /\ UNCHANGED <<in, out, data, idx, reg, ret, pressed, cleared, overflow, raced>>

LoadHead ==
  /\ pc = "load_head"
  /\ reg' = out
  /\ pc' = "store_head"
  /\ UNCHANGED <<buffer, idx, ret, history>>

StoreHead ==
  /\ pc = "store_head"
  /\ out' = reg + 1
  /\ pc' = "test_head"
  /\ UNCHANGED <<size, in, data, idx, reg, ret, history>>

\* Mutant of TestHead: wraps only an index already two too far.
TestHead_WrapsLate ==
  /\ pc = "test_head"
  /\ pc' = IF out > Capacity + 1 THEN "wrap_head" ELSE "idle"
  /\ UNCHANGED <<buffer, idx, reg, ret, history>>

TestHead ==
  /\ pc = "test_head"
  /\ pc' = IF out > Capacity THEN "wrap_head" ELSE "idle"
  /\ UNCHANGED <<buffer, idx, reg, ret, history>>

WrapHead ==
  /\ pc = "wrap_head"
  /\ out' = 0
  /\ pc' = "idle"
  /\ UNCHANGED <<size, in, data, idx, reg, ret, history>>

(***************************************************************************)
(* keyboard_clear_buffer.                                                  *)
(***************************************************************************)
\* Mutant of ClearSize: q->size is not reset.
ClearSize_KeepsSize ==
  /\ pc = "idle"
  /\ pc' = "clear_in"
  /\ unread' = <<>>
  /\ cleared' = pressed
  /\ overflow' = FALSE /\ raced' = FALSE
  /\ UNCHANGED <<buffer, idx, reg, ret, pressed, last>>

ClearSize ==
  /\ pc = "idle"
  /\ size' = 0
  /\ pc' = "clear_in"
  /\ unread' = <<>>
  /\ cleared' = pressed
  /\ overflow' = FALSE /\ raced' = FALSE
  /\ UNCHANGED <<in, out, data, idx, reg, ret, pressed, last>>

ClearIn ==
  /\ pc = "clear_in"
  /\ in' = 0
  /\ pc' = "clear_out"
  /\ UNCHANGED <<size, out, data, idx, reg, ret, history>>

ClearOut ==
  /\ pc = "clear_out"
  /\ out' = 0
  /\ pc' = "idle"
  /\ UNCHANGED <<size, in, data, idx, reg, ret, history>>

keyboard_get_key ==
  \/ GetEmpty \/ GetTest \/ LoadOut \/ LoadData \/ LoadSize
  \/ StoreSize \/ LoadHead \/ StoreHead \/ TestHead \/ WrapHead

keyboard_clear_buffer == ClearSize \/ ClearIn \/ ClearOut

BufferNext == KeyStroke \/ keyboard_get_key \/ keyboard_clear_buffer

BufferSpec == BufferInit /\ [][BufferNext]_buffervars
-----------------------------------------------------------------------------
BufferTypeOK ==
  /\ size \in 0 .. Capacity
  /\ in \in Slots
  /\ out \in 0 .. Capacity + 1
  /\ data \in [Slots -> 0 .. MaxKeys]
  /\ pc \in {"idle", "load_out", "load_data", "load_size", "store_size",
             "load_head", "store_head", "test_head", "wrap_head",
             "clear_in", "clear_out"}
  /\ idx \in Slots
  /\ reg \in Slots
  /\ ret \in 0 .. MaxKeys
  /\ pressed \in 0 .. MaxKeys
  /\ unread \in Seq(Strokes)
  /\ last \in 0 .. MaxKeys
  /\ cleared \in 0 .. MaxKeys
  /\ overflow \in BOOLEAN
  /\ raced \in BOOLEAN

\* However the handler interrupts main, no index is left past the ring: only
\* between dequeue's ++(q->out) and its wrap is q->out one too far, and then
\* nothing uses it to reach q->data.
HeadOnRing == out > Capacity => pc \in {"test_head", "wrap_head"}

Clean == ~overflow /\ ~raced

\* While, since the last clear, nothing has overflowed and no stroke fell into
\* that clear's window,
\* q->size never counts a stroke that is not there, whatever updates of it the
\* handler and dequeue lose to each other: a key is never made up.
NeverOvercounts == Clean => size <= Len(unread)

\* In the same circumstances keyboard_get_key returns exactly the oldest
\* unread stroke: none is skipped, repeated or taken out of order.
TakesOldest ==
  [][Clean /\ pc = "store_size" /\ pc' # pc
       => unread # <<>> /\ last' = Head(unread)]_buffervars

\* "Queue Data Structure (FIFO)" (queue.c): strokes are taken in the order
\* they were made, also after the buffer has overflowed.
KeysInOrder == [][last' # last /\ ~raced => last' > last]_buffervars

\* "Clears the keyboard input buffer" (keyboard.c): a stroke made before a
\* clear is not taken after it, unless a stroke fell into the window of the
\* clear itself; an overflow, with whatever counts were lost before it, brings
\* no cleared stroke back.
ClearForgets == [][last' # last /\ ~raced => last' > cleared]_buffervars
=============================================================================
