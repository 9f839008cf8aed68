--------------------------- MODULE KeyboardProofs ---------------------------
(***************************************************************************)
(* Proofs about module Keyboard, for every set of keys, either state of    *)
(* the keyboard's Num Lock, every capacity of the ring, every length of    *)
(* the line and every number of key presses: the driver's modifiers follow *)
(* the keys held, the line the shell gets is the one typed, and the screen *)
(* shows it.  What the ring does under the handler is KeyInv of module     *)
(* KeyBufferProofs: every step here is one of the buffer's or leaves the   *)
(* buffer alone.                                                           *)
(***************************************************************************)
EXTENDS Keyboard, KeyBufferProofs

(***************************************************************************)
(* What EditAll computes.                                                  *)
(***************************************************************************)
\* One of the first n keys of t is an Enter.
Ended(t, n) == \E i \in 1 .. n : t[i] = NL

\* The line after n keys of t, from the lines after fewer.
LineStep(steps, s, t, n) ==
  IF n = 0 THEN s
  ELSE IF Ended(t, n) THEN steps[n - 1]
  ELSE Edit(steps[n - 1], t[n])

\* steps gives the line after each of the first N keys of t.
IsLine(steps, s, t, N) == steps = [n \in 0 .. N |-> LineStep(steps, s, t, n)]

\* The lines after each key exist, one key at a time.
LEMMA LineExists ==
  ASSUME NEW s, NEW t
  PROVE  \A N \in Nat : \E steps : IsLine(steps, s, t, N)
<1> DEFINE T == {N \in Nat : \E steps : IsLine(steps, s, t, N)}
<1>1. 0 \in T
  <2> DEFINE f == [n \in 0 .. 0 |-> s]
  <2>1. f = [n \in 0 .. 0 |-> LineStep(f, s, t, n)]
    BY DEF LineStep
  <2> QED BY <2>1 DEF IsLine
<1>2. ASSUME NEW N \in Nat, N \in T
      PROVE  N + 1 \in T
  <2>1. PICK f : IsLine(f, s, t, N)
    BY <1>2
  <2> DEFINE g == [n \in 0 .. N + 1 |-> IF n <= N THEN f[n] ELSE LineStep(f, s, t, n)]
  <2>2. \A n \in 0 .. N : g[n] = f[n]
    OBVIOUS
  <2>3. \A n \in 0 .. N + 1 : g[n] = LineStep(f, s, t, n)
    BY <2>1 DEF IsLine
  <2>4. \A n \in 0 .. N + 1 : n # 0 => n - 1 \in 0 .. N
    OBVIOUS
  <2>5. \A n \in 0 .. N + 1 : LineStep(g, s, t, n) = LineStep(f, s, t, n)
    <3> HIDE DEF g
    <3> QED BY <2>2, <2>4 DEF LineStep
  <2>6. g = [n \in 0 .. N + 1 |-> LineStep(g, s, t, n)]
    <3>1. g = [n \in 0 .. N + 1 |-> g[n]]
      OBVIOUS
    <3> HIDE DEF g
    <3>2. \A n \in 0 .. N + 1 : g[n] = LineStep(g, s, t, n)
      BY <2>3, <2>5
    <3> QED BY <3>1, <3>2
  <2>7. IsLine(g, s, t, N + 1)
    BY <2>6 DEF IsLine
  <2> HIDE DEF g
  <2> QED BY <2>7
<1> HIDE DEF T
<1>3. \A N \in Nat : N \in T
  BY <1>1, <1>2, Induction
<1> QED BY <1>3 DEF T

\* They are determined by the keys.
LEMMA LineUnique ==
  ASSUME NEW s, NEW t, NEW N \in Nat, NEW f, NEW g,
         IsLine(f, s, t, N), IsLine(g, s, t, N)
  PROVE  \A n \in 0 .. N : f[n] = g[n]
<1> DEFINE T == {n \in Nat : n <= N => f[n] = g[n]}
<1>1. \A n \in 0 .. N : f[n] = LineStep(f, s, t, n) /\ g[n] = LineStep(g, s, t, n)
  BY DEF IsLine
<1>2. 0 \in T
  BY <1>1 DEF LineStep
<1>3. ASSUME NEW n \in Nat, n \in T
      PROVE  n + 1 \in T
  <2> SUFFICES ASSUME n + 1 <= N
               PROVE  f[n + 1] = g[n + 1]
    OBVIOUS
  <2>1. f[n] = g[n] /\ n + 1 # 0 /\ (n + 1) - 1 = n /\ n + 1 \in 0 .. N
    BY <1>3
  <2> QED BY <1>1, <2>1 DEF LineStep
<1> HIDE DEF T
<1>4. \A n \in Nat : n \in T
  BY <1>2, <1>3, Induction
<1> QED BY <1>4 DEF T

\* So EditAll is the last of them.
LEMMA EditAllIs ==
  ASSUME NEW s, NEW t, Len(t) \in Nat, NEW f, IsLine(f, s, t, Len(t))
  PROVE  EditAll(s, t) = f[Len(t)]
<1> DEFINE g == CHOOSE steps : IsLine(steps, s, t, Len(t))
<1>1. EditAll(s, t) = g[Len(t)]
  BY DEF EditAll, IsLine, LineStep, Ended
<1>2. IsLine(g, s, t, Len(t))
  OBVIOUS
<1> HIDE DEF g
<1>3. f[Len(t)] = g[Len(t)]
  BY <1>2, LineUnique
<1> QED BY <1>1, <1>3

\* Without keys the line stays.
LEMMA EditAllNone ==
  ASSUME NEW s
  PROVE  EditAll(s, <<>>) = s
<1>1. PICK f : IsLine(f, s, <<>>, 0)
  BY LineExists
<1>2. f[0] = s
  BY <1>1 DEF IsLine, LineStep
<1> QED BY <1>1, <1>2, EditAllIs

\* One key more at the end.
LEMMA EditAllAppend ==
  ASSUME NEW s, NEW t \in Seq(0 .. 255), NEW c \in 0 .. 255
  PROVE  EditAll(s, Append(t, c)) = IF Ended(t, Len(t)) \/ c = NL THEN EditAll(s, t)
                                    ELSE Edit(EditAll(s, t), c)
<1> DEFINE u == Append(t, c)
           N == Len(t)
<1>1. N \in Nat /\ Len(u) = N + 1 /\ u[N + 1] = c /\ \A i \in 1 .. N : u[i] = t[i]
  OBVIOUS
<1> HIDE DEF u, N
<1>2. PICK f : IsLine(f, s, u, N + 1)
  <2>1. N + 1 \in Nat
    BY <1>1
  <2> QED BY <2>1, LineExists
<1>3. \A n \in 0 .. N + 1 : f[n] = LineStep(f, s, u, n)
  BY <1>2 DEF IsLine
<1> DEFINE g == [n \in 0 .. N |-> f[n]]
<1>4. g = [n \in 0 .. N |-> LineStep(g, s, t, n)]
  <2>1. \A n \in 0 .. N : Ended(u, n) <=> Ended(t, n)
    BY <1>1 DEF Ended
  <2>2. \A n \in 0 .. N : g[n] = f[n]
    OBVIOUS
  <2>3. \A n \in 0 .. N : n # 0 => n - 1 \in 0 .. N /\ n \in 1 .. N
    BY <1>1
  <2>4. \A n \in 0 .. N : f[n] = LineStep(f, s, u, n)
    BY <1>1, <1>3
  <2>5. g = [n \in 0 .. N |-> g[n]]
    OBVIOUS
  <2> HIDE DEF g
  <2>6. \A n \in 0 .. N : LineStep(f, s, u, n) = LineStep(g, s, t, n)
    BY <1>1, <2>1, <2>2, <2>3 DEF LineStep
  <2>7. \A n \in 0 .. N : g[n] = LineStep(g, s, t, n)
    BY <2>2, <2>4, <2>6
  <2> QED BY <2>5, <2>7
<1>5. EditAll(s, t) = f[N]
  <2>1. IsLine(g, s, t, N) /\ g[N] = f[N]
    BY <1>1, <1>4 DEF IsLine
  <2> HIDE DEF g
  <2> QED BY <1>1, <2>1, EditAllIs DEF N
<1>6. EditAll(s, u) = f[N + 1]
  BY <1>1, <1>2, EditAllIs
<1>7. f[N + 1] = LineStep(f, s, u, N + 1) /\ N + 1 # 0 /\ (N + 1) - 1 = N
  BY <1>1, <1>3
<1>8. Ended(u, N + 1) <=> Ended(t, N) \/ c = NL
  BY <1>1 DEF Ended
<1> QED BY <1>1, <1>5, <1>6, <1>7, <1>8 DEF LineStep, u, N

\* One key taken from the front.
LEMMA EditAllHead ==
  ASSUME NEW s, NEW t \in Seq(0 .. 255), t # <<>>
  PROVE  EditAll(s, t) = IF Head(t) = NL THEN s ELSE EditAll(Edit(s, Head(t)), Tail(t))
<1> DEFINE u == Tail(t)
           N == Len(u)
           k == Head(t)
<1>1. N \in Nat /\ Len(t) = N + 1 /\ t[1] = k /\ \A i \in 1 .. N : u[i] = t[i + 1]
  BY HeadTailProperties
<1> HIDE DEF u, N, k
<1>2. PICK f : IsLine(f, s, t, N + 1)
  <2>1. N + 1 \in Nat
    BY <1>1
  <2> QED BY <2>1, LineExists
<1>3. \A n \in 0 .. N + 1 : f[n] = LineStep(f, s, t, n)
  BY <1>2 DEF IsLine
<1>4. EditAll(s, t) = f[N + 1] /\ f[0] = s
  BY <1>1, <1>2, <1>3, EditAllIs DEF LineStep
<1>5. CASE k = NL
  <2> DEFINE T == {n \in Nat : n <= N + 1 => f[n] = s}
  <2>1. 0 \in T
    BY <1>4
  <2>2. ASSUME NEW n \in Nat, n \in T
        PROVE  n + 1 \in T
    <3> SUFFICES ASSUME n + 1 <= N + 1
                 PROVE  f[n + 1] = s
      OBVIOUS
    <3>1. f[n] = s /\ n + 1 # 0 /\ (n + 1) - 1 = n /\ n + 1 \in 0 .. N + 1
      BY <1>1, <2>2
    <3>2. Ended(t, n + 1)
      BY <1>1, <1>5 DEF Ended
    <3> QED BY <1>3, <3>1, <3>2 DEF LineStep
  <2> HIDE DEF T
  <2>3. N + 1 \in T
    BY <1>1, <2>1, <2>2, Induction
  <2> QED BY <1>1, <1>4, <1>5, <2>3 DEF T, k
<1>6. CASE k # NL
  <2> DEFINE g == [n \in 0 .. N |-> f[n + 1]]
             r == Edit(s, k)
  <2>1. f[1] = r
    <3>1. f[1] = LineStep(f, s, t, 1) /\ 1 - 1 = 0
      BY <1>1, <1>3
    <3>2. ~Ended(t, 1)
      BY <1>1, <1>6 DEF Ended
    <3> QED BY <1>1, <1>4, <3>1, <3>2 DEF LineStep
  <2>2. \A n \in 0 .. N : g[n] = f[n + 1]
    OBVIOUS
  <2>3. \A n \in 0 .. N : n # 0 => Ended(u, n) <=> Ended(t, n + 1)
    <3> SUFFICES ASSUME NEW n \in 1 .. N
                 PROVE  Ended(u, n) <=> Ended(t, n + 1)
      BY <1>1
    <3>1. ASSUME Ended(u, n) PROVE Ended(t, n + 1)
      <4>1. PICK i \in 1 .. n : u[i] = NL
        BY <3>1 DEF Ended
      <4>2. i + 1 \in 1 .. n + 1 /\ t[i + 1] = NL
        BY <1>1, <4>1
      <4> QED BY <4>2 DEF Ended
    <3>2. ASSUME Ended(t, n + 1) PROVE Ended(u, n)
      <4>1. PICK i \in 1 .. n + 1 : t[i] = NL
        BY <3>2 DEF Ended
      <4>2. i # 1
        BY <1>1, <1>6, <4>1
      <4>3. i - 1 \in 1 .. n /\ (i - 1) + 1 = i
        BY <1>1, <4>1, <4>2
      <4>4. u[i - 1] = NL
        BY <1>1, <4>1, <4>3
      <4> QED BY <4>3, <4>4 DEF Ended
    <3> QED BY <3>1, <3>2
  <2>4. g = [n \in 0 .. N |-> LineStep(g, r, u, n)]
    <3>1. g = [n \in 0 .. N |-> g[n]]
      OBVIOUS
    <3> HIDE DEF g
    <3>2. ASSUME NEW n \in 0 .. N
          PROVE  g[n] = LineStep(g, r, u, n)
      <4>1. CASE n = 0
        BY <1>1, <2>1, <2>2, <4>1 DEF LineStep
      <4>2. CASE n # 0
        <5>1. /\ n - 1 \in 0 .. N /\ n \in 1 .. N /\ n + 1 \in 0 .. N + 1
              /\ (n + 1) - 1 = n /\ n + 1 # 0 /\ (n - 1) + 1 = n
          BY <1>1, <4>2
        <5>2. g[n] = f[n + 1] /\ g[n - 1] = f[n] /\ u[n] = t[n + 1]
          BY <1>1, <2>2, <5>1
        <5>3. f[n + 1] = IF Ended(t, n + 1) THEN f[n] ELSE Edit(f[n], t[n + 1])
          BY <1>3, <5>1 DEF LineStep
        <5> QED BY <2>3, <4>2, <5>1, <5>2, <5>3 DEF LineStep
      <4> QED BY <4>1, <4>2
    <3> QED BY <3>1, <3>2
  <2>5. EditAll(r, u) = g[N]
    <3> HIDE DEF g
    <3> QED BY <1>1, <2>4, EditAllIs DEF N, IsLine
  <2> QED BY <1>1, <1>4, <1>6, <2>2, <2>5 DEF k, u
<1> QED BY <1>5, <1>6

-----------------------------------------------------------------------------
(***************************************************************************)
(* The modifiers: ModInv says what they will be once the codes under way   *)
(* have arrived.                                                           *)
(***************************************************************************)
\* The codes of w.
CodesIn(w) == {w[i] : i \in 1 .. Len(w)}

LEMMA NoCodes ==
  ASSUME NEW w, Len(w) = 0
  PROVE  CodesIn(w) = {}
BY DEF CodesIn

LEMMA CodesFew ==
  ASSUME NEW a, NEW b
  PROVE  /\ CodesIn(<<>>) = {}
         /\ CodesIn(<<a>>) = {a}
         /\ CodesIn(<<a, b>>) = {a, b}
<1>1. CodesIn(<<>>) = {}
  BY DEF CodesIn
<1>2. CodesIn(<<a>>) = {a}
  BY DEF CodesIn
<1>3. CodesIn(<<a, b>>) = {a, b}
  BY DEF CodesIn
<1> QED BY <1>1, <1>2, <1>3

LEMMA CodesConcat ==
  ASSUME NEW s \in Seq(1 .. 255), NEW t \in Seq(1 .. 255)
  PROVE  /\ s \o t \in Seq(1 .. 255)
         /\ CodesIn(s \o t) = CodesIn(s) \union CodesIn(t)
<1> DEFINE u == s \o t
<1>1. /\ u \in Seq(1 .. 255) /\ Len(u) = Len(s) + Len(t)
      /\ \A i \in 1 .. Len(s) + Len(t) :
           u[i] = IF i <= Len(s) THEN s[i] ELSE t[i - Len(s)]
  BY ONLY s \in Seq(1 .. 255), t \in Seq(1 .. 255), ConcatProperties, Zenon
<1>2. Len(s) \in Nat /\ Len(t) \in Nat
  OBVIOUS
<1> HIDE DEF u
<1>3. ASSUME NEW c \in CodesIn(s) PROVE c \in CodesIn(u)
  <2>1. PICK i \in 1 .. Len(s) : c = s[i]
    BY DEF CodesIn
  <2>2. i \in 1 .. Len(u) /\ u[i] = c
    BY <1>1, <1>2, <2>1
  <2> QED BY <2>2 DEF CodesIn
<1>4. ASSUME NEW c \in CodesIn(t) PROVE c \in CodesIn(u)
  <2>1. PICK i \in 1 .. Len(t) : c = t[i]
    BY DEF CodesIn
  <2>2. Len(s) + i \in 1 .. Len(u) /\ u[Len(s) + i] = c
    BY <1>1, <1>2, <2>1
  <2> QED BY <2>2 DEF CodesIn
<1>5. ASSUME NEW c \in CodesIn(u) PROVE c \in CodesIn(s) \union CodesIn(t)
  <2>1. PICK i \in 1 .. Len(u) : c = u[i]
    BY DEF CodesIn
  <2>2. CASE i <= Len(s)
    <3>1. i \in 1 .. Len(s) /\ c = s[i]
      BY <1>1, <1>2, <2>1, <2>2
    <3> QED BY <3>1 DEF CodesIn
  <2>3. CASE i > Len(s)
    <3>1. i - Len(s) \in 1 .. Len(t) /\ c = t[i - Len(s)]
      BY <1>1, <1>2, <2>1, <2>3
    <3> QED BY <3>1 DEF CodesIn
  <2> QED BY <1>2, <2>1, <2>2, <2>3
<1>6. CodesIn(u) = CodesIn(s) \union CodesIn(t)
  BY <1>3, <1>4, <1>5
<1> QED BY <1>1, <1>6 DEF u

LEMMA CodesTail ==
  ASSUME NEW w \in Seq(1 .. 255), w # <<>>
  PROVE  /\ Tail(w) \in Seq(1 .. 255)
         /\ CodesIn(w) = {Head(w)} \union CodesIn(Tail(w))
<1>1. /\ Len(w) \in Nat \ {0} /\ Tail(w) \in Seq(1 .. 255)
      /\ Len(Tail(w)) = Len(w) - 1 /\ Head(w) = w[1]
      /\ \A i \in 1 .. Len(w) - 1 : Tail(w)[i] = w[i + 1]
  <2>1. Len(w) \in Nat \ {0}
    BY EmptySeq
  <2>2. Len(Tail(w)) = Len(w) - 1 /\ \A i \in 1 .. Len(w) - 1 : Tail(w)[i] = w[i + 1]
    BY <2>1
  <2> QED BY <2>1, <2>2, HeadTailProperties
<1>2. ASSUME NEW c \in CodesIn(w), c # Head(w)
      PROVE  c \in CodesIn(Tail(w))
  <2>1. PICK i \in 1 .. Len(w) : c = w[i]
    BY DEF CodesIn
  <2>2. i - 1 \in 1 .. Len(Tail(w)) /\ Tail(w)[i - 1] = w[(i - 1) + 1] /\ (i - 1) + 1 = i
    BY <1>1, <1>2, <2>1
  <2> QED BY <2>1, <2>2 DEF CodesIn
<1>3. ASSUME NEW c \in CodesIn(Tail(w)) PROVE c \in CodesIn(w)
  <2>1. PICK i \in 1 .. Len(Tail(w)) : c = Tail(w)[i]
    BY DEF CodesIn
  <2>2. i + 1 \in 1 .. Len(w) /\ w[i + 1] = c
    BY <1>1, <2>1
  <2> QED BY <2>2 DEF CodesIn
<1>4. Head(w) \in CodesIn(w)
  BY <1>1 DEF CodesIn
<1> QED BY <1>1, <1>2, <1>3, <1>4

\* The codes of a key, and of the keyboard's own shifts, around a prefixed key.
Keypad == {42, 54, 72, 170, 182, 200, 224}

\* Whether the driver's shift bits will be set after the codes on the wire.
WillL == 42 \in CodesIn(wire) \/ ("LSHIFT" \in mod_state /\ 170 \notin CodesIn(wire))
WillR == 54 \in CodesIn(wire) \/ ("RSHIFT" \in mod_state /\ 182 \notin CodesIn(wire))

\* What the keys held make of them.
Settled ==
  /\ crossed => num_lock
  /\ "Up" \notin down \/ num_lock =>
       (WillR <=> "RShift" \in down) /\ ("LShift" \in down => WillL)
  /\ "Up" \notin down => (WillL => "LShift" \in down \/ crossed)
  /\ "Up" \in down /\ num_lock =>
       (WillL /\ "RShift" \in down => "LShift" \in down \/ crossed)
  /\ "Up" \in down /\ ~num_lock =>
       (WillL => "LShift" \in down) /\ (WillR => "RShift" \in down)

\* No key sends a make code of a shift together with its break code.
OneSided ==
  /\ ~(42 \in CodesIn(wire) /\ 170 \in CodesIn(wire))
  /\ ~(54 \in CodesIn(wire) /\ 182 \in CodesIn(wire))

WireOK == wire \in Seq(1 .. 255) /\ OneSided

\* The driver's modifiers after the codes under way are those of the keys.
ModInv == WireOK /\ num_lock \in BOOLEAN /\ mod_state \subseteq Modifiers /\ Settled

\* The codes of the keys that the driver's modifiers and lights depend on.
LEMMA KeyCodes ==
  ASSUME NEW k \in Keys
  PROVE  /\ Code[k] \in {42, 54, 72, 58, 69, 70, 1, 2, 14, 15, 28, 30, 59}
         /\ k = "LShift" <=> Code[k] = 42
         /\ k = "RShift" <=> Code[k] = 54
         /\ k = "Up" <=> Code[k] = 72
         /\ k = "Caps" <=> Code[k] = 58
<1>1. k \in {"LShift", "RShift", "Caps", "Num", "Scroll", "Esc", "One", "Back",
            "Tab", "Enter", "A", "F1", "Up"}
  BY KeysAssumption DEF Code
<1> QED BY <1>1 DEF Code

\* What ForHeld sends.
LEMMA HeldCodes ==
  ASSUME NEW k, NEW c \in 1 .. 255
  PROVE  /\ ForHeld(k, c) \in Seq(1 .. 255)
         /\ CodesIn(ForHeld(k, c)) = IF k \in down THEN {224, c} ELSE {}
<1>1. CASE k \in down
  <2>1. ForHeld(k, c) = <<224, c>>
    BY <1>1 DEF ForHeld, PREFIX
  <2>2. CodesIn(<<224, c>>) = {224, c}
    BY CodesFew
  <2>3. <<224, c>> \in Seq(1 .. 255)
    OBVIOUS
  <2> QED BY <1>1, <2>1, <2>2, <2>3, Zenon
<1>2. CASE k \notin down
  <2>1. ForHeld(k, c) = <<>>
    BY <1>2 DEF ForHeld
  <2>2. CodesIn(<<>>) = {}
    BY CodesFew
  <2>3. <<>> \in Seq(1 .. 255)
    OBVIOUS
  <2> QED BY <1>2, <2>1, <2>2, <2>3, Zenon
<1> QED BY <1>1, <1>2

\* The keyboard's own shifts before a prefixed key, and after it.
LEMMA OwnShifts ==
  ASSUME num_lock \in BOOLEAN
  PROVE  /\ ShiftBefore \in Seq(1 .. 255) /\ ShiftAfter \in Seq(1 .. 255)
         /\ CodesIn(ShiftBefore) \subseteq Keypad /\ CodesIn(ShiftAfter) \subseteq Keypad
         /\ 72 \notin CodesIn(ShiftBefore) /\ 200 \notin CodesIn(ShiftAfter)
         /\ 54 \notin CodesIn(ShiftBefore) /\ 182 \notin CodesIn(ShiftAfter)
         /\ 42 \in CodesIn(ShiftBefore)
              <=> num_lock /\ "LShift" \notin down /\ "RShift" \notin down
         /\ 170 \in CodesIn(ShiftBefore) <=> ~num_lock /\ "LShift" \in down
         /\ 182 \in CodesIn(ShiftBefore) <=> ~num_lock /\ "RShift" \in down
         /\ 170 \in CodesIn(ShiftAfter)
              <=> num_lock /\ "LShift" \notin down /\ "RShift" \notin down
         /\ 42 \in CodesIn(ShiftAfter) <=> ~num_lock /\ "LShift" \in down
         /\ 54 \in CodesIn(ShiftAfter) <=> ~num_lock /\ "RShift" \in down
<1>0. down \intersect Shifts = {} <=> "LShift" \notin down /\ "RShift" \notin down
  BY DEF Shifts
<1>1. CASE ~num_lock
  <2> DEFINE a == ForHeld("LShift", 170)
             b == ForHeld("RShift", 182)
             c == ForHeld("LShift", 42)
             d == ForHeld("RShift", 54)
  <2>1. ShiftBefore = a \o b /\ ShiftAfter = c \o d
    <3>1. 42 + UP_FLAG = 170 /\ 54 + UP_FLAG = 182
      BY DEF UP_FLAG
    <3> HIDE DEF UP_FLAG
    <3> QED BY <1>1, <3>1, Zenon DEF ShiftBefore, ShiftAfter
  <2>a. /\ a \in Seq(1 .. 255)
        /\ CodesIn(a) = IF "LShift" \in down THEN {224, 170} ELSE {}
    <3>1. 170 \in 1 .. 255
      OBVIOUS
    <3> QED BY <3>1, HeldCodes
  <2>b. /\ b \in Seq(1 .. 255)
        /\ CodesIn(b) = IF "RShift" \in down THEN {224, 182} ELSE {}
    <3>1. 182 \in 1 .. 255
      OBVIOUS
    <3> QED BY <3>1, HeldCodes
  <2>c. /\ c \in Seq(1 .. 255)
        /\ CodesIn(c) = IF "LShift" \in down THEN {224, 42} ELSE {}
    <3>1. 42 \in 1 .. 255
      OBVIOUS
    <3> QED BY <3>1, HeldCodes
  <2>d. /\ d \in Seq(1 .. 255)
        /\ CodesIn(d) = IF "RShift" \in down THEN {224, 54} ELSE {}
    <3>1. 54 \in 1 .. 255
      OBVIOUS
    <3> QED BY <3>1, HeldCodes
  <2> HIDE DEF a, b, c, d
  <2>3. /\ ShiftBefore \in Seq(1 .. 255) /\ ShiftAfter \in Seq(1 .. 255)
        /\ CodesIn(ShiftBefore) = CodesIn(a) \union CodesIn(b)
        /\ CodesIn(ShiftAfter) = CodesIn(c) \union CodesIn(d)
    BY <2>1, <2>a, <2>b, <2>c, <2>d, CodesConcat
  <2> QED BY <1>1, <2>a, <2>b, <2>c, <2>d, <2>3 DEF Keypad
<1>2. CASE num_lock /\ "LShift" \notin down /\ "RShift" \notin down
  <2>1. ShiftBefore = <<224, 42>> /\ ShiftAfter = <<224, 170>>
    <3>1. 42 + UP_FLAG = 170 /\ PREFIX = 224
      BY DEF UP_FLAG, PREFIX
    <3> HIDE DEF UP_FLAG, PREFIX
    <3> QED BY <1>0, <1>2, <3>1, Zenon DEF ShiftBefore, ShiftAfter
  <2>2. CodesIn(ShiftBefore) = {224, 42} /\ CodesIn(ShiftAfter) = {224, 170}
    <3>1. CodesIn(<<224, 42>>) = {224, 42}
      BY CodesFew
    <3>2. CodesIn(<<224, 170>>) = {224, 170}
      BY CodesFew
    <3> QED BY <2>1, <3>1, <3>2, Zenon
  <2>3. ShiftBefore \in Seq(1 .. 255) /\ ShiftAfter \in Seq(1 .. 255)
    BY <2>1
  <2> QED BY <1>2, <2>2, <2>3 DEF Keypad
<1>3. CASE num_lock /\ ~("LShift" \notin down /\ "RShift" \notin down)
  <2>1. ShiftBefore = <<>> /\ ShiftAfter = <<>>
    BY <1>0, <1>3 DEF ShiftBefore, ShiftAfter
  <2>2. CodesIn(ShiftBefore) = {} /\ CodesIn(ShiftAfter) = {}
    BY <2>1, CodesFew
  <2>3. ShiftBefore \in Seq(1 .. 255) /\ ShiftAfter \in Seq(1 .. 255)
    BY <2>1
  <2> QED BY <1>3, <2>2, <2>3
<1> QED BY <1>1, <1>2, <1>3

\* What a key sends by itself.
LEMMA SentCodes ==
  ASSUME NEW k \in Keys, NEW c \in 1 .. 255
  PROVE  /\ Sent(k, c) \in Seq(1 .. 255)
         /\ k = "Up" => CodesIn(Sent(k, c)) = {224, c}
         /\ k # "Up" => CodesIn(Sent(k, c)) = {c} /\ Sent(k, c) = <<c>>
<1>1. CASE k = "Up"
  <2>1. Sent(k, c) = <<224, c>>
    BY <1>1 DEF Sent, PREFIX
  <2>2. CodesIn(<<224, c>>) = {224, c}
    BY CodesFew
  <2>3. <<224, c>> \in Seq(1 .. 255)
    OBVIOUS
  <2> QED BY <1>1, <2>1, <2>2, <2>3, Zenon
<1>2. CASE k # "Up"
  <2>1. Sent(k, c) = <<c>>
    BY <1>2 DEF Sent
  <2>2. CodesIn(<<c>>) = {c}
    BY CodesFew
  <2>3. <<c>> \in Seq(1 .. 255)
    OBVIOUS
  <2> QED BY <1>2, <2>1, <2>2, <2>3, Zenon
<1> QED BY <1>1, <1>2

(***************************************************************************)
(* The codes that each move of the keyboard puts on the wire.              *)
(***************************************************************************)
\* The shift codes on the wire are b42, b170, b54 and b182, and no others but
\* the keypad's; or the wire has one code.
LEMMA PressUp ==
  ASSUME num_lock \in BOOLEAN, "Up" \in Keys, Press("Up")
  PROVE  /\ wire' \in Seq(1 .. 255) /\ CodesIn(wire') \subseteq Keypad
         /\ 42 \in CodesIn(wire')
              <=> num_lock /\ "LShift" \notin down /\ "RShift" \notin down
         /\ 170 \in CodesIn(wire') <=> ~num_lock /\ "LShift" \in down
         /\ 182 \in CodesIn(wire') <=> ~num_lock /\ "RShift" \in down
         /\ 54 \notin CodesIn(wire')
<1> DEFINE a == ShiftBefore
           b == Sent("Up", 72)
<1>1. wire' = a \o b
  BY DEF Press, Code
<1>2. b \in Seq(1 .. 255) /\ CodesIn(b) = {224, 72}
  <2>1. 72 \in 1 .. 255
    OBVIOUS
  <2> QED BY <2>1, SentCodes
<1>3. a \in Seq(1 .. 255)
  BY OwnShifts
<1> HIDE DEF b
<1>4. wire' \in Seq(1 .. 255) /\ CodesIn(wire') = CodesIn(a) \union {224, 72}
  BY <1>1, <1>2, <1>3, CodesConcat
<1> QED BY <1>4, OwnShifts DEF Keypad

LEMMA ReleaseUp ==
  ASSUME num_lock \in BOOLEAN, "Up" \in Keys, Release("Up")
  PROVE  /\ wire' \in Seq(1 .. 255) /\ CodesIn(wire') \subseteq Keypad
         /\ 170 \in CodesIn(wire')
              <=> num_lock /\ "LShift" \notin down /\ "RShift" \notin down
         /\ 42 \in CodesIn(wire') <=> ~num_lock /\ "LShift" \in down
         /\ 54 \in CodesIn(wire') <=> ~num_lock /\ "RShift" \in down
         /\ 182 \notin CodesIn(wire')
<1> DEFINE a == ShiftAfter
           b == Sent("Up", 200)
<1>1. wire' = b \o a
  <2>1. Code["Up"] + UP_FLAG = 200
    BY DEF Code, UP_FLAG
  <2> QED BY <2>1 DEF Release
<1>2. b \in Seq(1 .. 255) /\ CodesIn(b) = {224, 200}
  <2>1. 200 \in 1 .. 255
    OBVIOUS
  <2> QED BY <2>1, SentCodes
<1>3. a \in Seq(1 .. 255)
  BY OwnShifts
<1> HIDE DEF b
<1>4. wire' \in Seq(1 .. 255) /\ CodesIn(wire') = {224, 200} \union CodesIn(a)
  BY <1>1, <1>2, <1>3, CodesConcat
<1> QED BY <1>4, OwnShifts DEF Keypad

LEMMA RepeatUp ==
  ASSUME "Up" \in Keys, Repeat("Up")
  PROVE  wire' \in Seq(1 .. 255) /\ CodesIn(wire') = {224, 72}
<1>1. wire' = Sent("Up", 72)
  BY DEF Repeat, Code
<1>2. 72 \in 1 .. 255
  OBVIOUS
<1> QED BY <1>1, <1>2, SentCodes

\* Any other key sends its code alone.
LEMMA OneCode ==
  ASSUME NEW k \in Keys, k # "Up"
  PROVE  /\ Press(k) \/ Repeat(k) => /\ wire' = <<Code[k]>> /\ wire' \in Seq(1 .. 255)
                                     /\ CodesIn(wire') = {Code[k]}
         /\ Release(k) => /\ wire' = <<Code[k] + 128>> /\ wire' \in Seq(1 .. 255)
                          /\ CodesIn(wire') = {Code[k] + 128}
<1>1. Code[k] \in 1 .. 255 /\ Code[k] + 128 \in 1 .. 255
  BY KeyCodes
<1> DEFINE s == Sent(k, Code[k])
           t == Sent(k, Code[k] + 128)
<1>2. s \in Seq(1 .. 255) /\ CodesIn(s) = {Code[k]} /\ s = <<Code[k]>>
  BY <1>1, SentCodes
<1>3. t \in Seq(1 .. 255) /\ CodesIn(t) = {Code[k] + 128} /\ t = <<Code[k] + 128>>
  <2> DEFINE c == Code[k] + 128
  <2>1. c \in 1 .. 255
    BY <1>1
  <2> HIDE DEF c
  <2>2. Sent(k, c) \in Seq(1 .. 255) /\ CodesIn(Sent(k, c)) = {c} /\ Sent(k, c) = <<c>>
    BY <2>1, SentCodes
  <2> QED BY <2>2 DEF c
<1> HIDE DEF s, t
<1>4. \A u \in Seq(1 .. 255) : <<>> \o u = u /\ u \o <<>> = u
  OBVIOUS
<1>5. Press(k) => wire' = s
  <2>1. Press(k) => wire' = <<>> \o s
    BY DEF Press, s
  <2> QED BY <1>2, <1>4, <2>1
<1>6. Repeat(k) => wire' = s
  BY DEF Repeat, s
<1>7. Release(k) => wire' = t
  <2>1. Release(k) => wire' = t \o <<>>
    BY DEF Release, t, UP_FLAG
  <2> QED BY <1>3, <1>4, <2>1
<1> QED BY <1>2, <1>3, <1>5, <1>6, <1>7, Zenon

\* No step leaves the driver with modifiers that are not the keys'.
LEMMA NextMod ==
  ASSUME ModInv, [Next]_vars
  PROVE  ModInv'
<1>0. /\ WireOK /\ OneSided /\ wire \in Seq(1 .. 255) /\ num_lock \in BOOLEAN
      /\ mod_state \subseteq Modifiers /\ Settled
  BY DEF ModInv, WireOK
<1>a. wire = <<>> => CodesIn(wire) = {}
  BY CodesFew
<1>1. ASSUME Press("Up"), "Up" \in Keys
      PROVE  ModInv'
  <2>1. /\ wire = <<>> /\ UNCHANGED <<mod_state, num_lock>> /\ (crossed' <=> crossed)
        /\ down' = down \union {"Up"} /\ "Up" \notin down
    BY <1>1 DEF Press, driver
  <2>2. OneSided' /\ Settled'
    BY <1>0, <1>1, <1>a, <2>1, PressUp DEF OneSided, Settled, WillL, WillR
  <2> QED BY <1>0, <1>1, <2>1, <2>2, PressUp DEF ModInv, WireOK
<1>2. ASSUME Release("Up"), "Up" \in Keys
      PROVE  ModInv'
  <2>1. /\ wire = <<>> /\ UNCHANGED <<mod_state, num_lock>>
        /\ down' = down \ {"Up"} /\ "Up" \in down /\ (crossed' <=> crossed)
    BY <1>2 DEF Release, driver
  <2>2. OneSided' /\ Settled'
    BY <1>0, <1>2, <1>a, <2>1, ReleaseUp DEF OneSided, Settled, WillL, WillR
  <2> QED BY <1>0, <1>2, <2>1, <2>2, ReleaseUp DEF ModInv, WireOK
<1>3. ASSUME NEW k \in Keys, Press(k), k # "Up"
      PROVE  ModInv'
  <2>1. /\ wire = <<>> /\ UNCHANGED <<mod_state, num_lock>>
        /\ down' = down \union {k}
        /\ crossed' = (crossed \/ (k = "RShift" /\ num_lock /\ "Up" \in down))
    BY <1>3 DEF Press, driver
  <2>2. wire' \in Seq(1 .. 255) /\ CodesIn(wire') = {Code[k]}
    BY <1>3, OneCode
  <2>3. OneSided' /\ Settled'
    BY <1>0, <1>3, <1>a, <2>1, <2>2, KeyCodes DEF OneSided, Settled, WillL, WillR
  <2> QED BY <1>0, <2>1, <2>2, <2>3 DEF ModInv, WireOK
<1>4. ASSUME NEW k \in Keys, Release(k), k # "Up"
      PROVE  ModInv'
  <2>1. /\ wire = <<>> /\ UNCHANGED <<mod_state, num_lock>>
        /\ down' = down \ {k} /\ crossed' = (crossed /\ k # "LShift")
    BY <1>4 DEF Release, driver
  <2>2. wire' \in Seq(1 .. 255) /\ CodesIn(wire') = {Code[k] + 128}
    BY <1>4, OneCode
  <2> DEFINE c == Code[k] + 128
  <2>3. /\ c \notin {42, 54} /\ (c = 170 <=> k = "LShift") /\ (c = 182 <=> k = "RShift")
    BY KeyCodes
  <2> HIDE DEF c
  <2>4. CodesIn(wire') = {c}
    BY <2>2 DEF c
  <2>5. OneSided'
    BY <2>3, <2>4 DEF OneSided
  <2>6. /\ WillL' <=> WillL /\ k # "LShift"
        /\ WillR' <=> WillR /\ k # "RShift"
    BY <1>a, <2>1, <2>3, <2>4 DEF WillL, WillR
  <2>7. Settled'
    BY <1>0, <1>4, <2>1, <2>6 DEF Settled
  <2> QED BY <1>0, <2>1, <2>2, <2>5, <2>7 DEF ModInv, WireOK
<1>5. ASSUME NEW k \in Keys, Repeat(k)
      PROVE  ModInv'
  <2>1. wire = <<>> /\ UNCHANGED <<mod_state, num_lock, down, crossed>> /\ k \in down
    BY <1>5 DEF Repeat, driver
  <2>2. /\ wire' \in Seq(1 .. 255)
        /\ CodesIn(wire') = IF k = "Up" THEN {224, 72} ELSE {Code[k]}
    BY <1>5, OneCode, RepeatUp
  <2>3. OneSided' /\ Settled'
    BY <1>0, <1>a, <2>1, <2>2, KeyCodes DEF OneSided, Settled, WillL, WillR
  <2> QED BY <1>0, <2>1, <2>2, <2>3 DEF ModInv, WireOK
<1>6. CASE keyboard_isr
  <2>1. /\ wire # <<>> /\ wire' = Tail(wire) /\ mod_state' = ModAfter(Head(wire))
        /\ UNCHANGED <<down, num_lock, crossed>>
    BY <1>6 DEF keyboard_isr
  <2>2. /\ Tail(wire) \in Seq(1 .. 255)
        /\ CodesIn(wire) = {Head(wire)} \union CodesIn(Tail(wire))
    BY <1>0, <2>1, CodesTail
  <2>3. OneSided'
    BY <1>0, <2>1, <2>2 DEF OneSided
  <2> DEFINE c == Head(wire)
  <2> HIDE DEF c
  <2>4. /\ c = 42 => mod_state' = mod_state \union {"LSHIFT"}
        /\ c = 170 => mod_state' = mod_state \ {"LSHIFT"}
        /\ c = 54 => mod_state' = mod_state \union {"RSHIFT"}
        /\ c = 182 => mod_state' = mod_state \ {"RSHIFT"}
        /\ c \notin {42, 170, 54, 182} => mod_state' = mod_state
    BY <2>1 DEF ModAfter, c
  <2>5. CodesIn(wire) = {c} \union CodesIn(wire')
    BY <2>1, <2>2 DEF c
  <2>6. (WillL' <=> WillL) /\ (WillR' <=> WillR)
    <3>1. c \notin {42, 170, 54, 182} => (WillL' <=> WillL) /\ (WillR' <=> WillR)
      BY <2>4, <2>5 DEF WillL, WillR
    <3>2. c \in {42, 170} => (WillL' <=> WillL) /\ (WillR' <=> WillR)
      BY <1>0, <2>4, <2>5 DEF WillL, WillR, OneSided
    <3>3. c \in {54, 182} => (WillL' <=> WillL) /\ (WillR' <=> WillR)
      BY <1>0, <2>4, <2>5 DEF WillL, WillR, OneSided
    <3> QED BY <3>1, <3>2, <3>3
  <2>7. mod_state' \subseteq Modifiers
    <3>1. {"LSHIFT", "RSHIFT"} \subseteq Modifiers
      BY DEF Modifiers
    <3>2. \A m \in mod_state' : m \in mod_state \union {"LSHIFT", "RSHIFT"}
      BY <2>4
    <3> QED BY <1>0, <3>1, <3>2
  <2>8. Settled'
    BY <1>0, <2>1, <2>6 DEF Settled
  <2> QED BY <1>0, <2>1, <2>2, <2>3, <2>7, <2>8 DEF ModInv, WireOK
<1>7. CASE UNCHANGED <<keyboard, driver>>
  BY <1>0, <1>7 DEF keyboard, driver, ModInv, WireOK, OneSided, Settled, WillL, WillR
<1>8. CASE shell_loop
  BY <1>7, <1>8 DEF shell_loop, PutPrompt, console_flush, GetKey, gets_s, RunCommand
<1>9. CASE UNCHANGED vars
  BY <1>7, <1>9 DEF vars
<1> QED BY <1>1, <1>2, <1>3, <1>4, <1>5, <1>6, <1>8, <1>9 DEF Next

-----------------------------------------------------------------------------
(***************************************************************************)
(* The ring.                                                               *)
(***************************************************************************)
\* Every step is one of the ring's or leaves it alone.
LEMMA StepsOfBuffer ==
  ASSUME [Next]_vars
  PROVE  [BufferNext]_buffervars
<1>1. ASSUME NEW k \in Keys, Press(k) \/ Repeat(k) \/ Release(k)
      PROVE  UNCHANGED buffervars
  BY <1>1 DEF Press, Repeat, Release
<1>2. CASE keyboard_isr
  BY <1>2 DEF keyboard_isr, BufferNext
<1>3. CASE console_flush \/ GetKey
  BY <1>3 DEF console_flush, GetKey, BufferNext
<1>4. CASE PutPrompt \/ gets_s \/ RunCommand
  BY <1>4 DEF PutPrompt, gets_s, RunCommand
<1>5. CASE UNCHANGED vars
  BY <1>5 DEF vars
<1> QED BY <1>1, <1>2, <1>3, <1>4, <1>5 DEF Next, shell_loop

GetSteps == {"load_out", "load_data", "load_size", "store_size",
             "load_head", "store_head", "test_head", "wrap_head"}

\* Where main is in the buffer's calls follows from where the shell is.
PcInv ==
  /\ at \in {"prompt", "flush", "read", "got", "run", "halt"}
  /\ at = "read" => pc = "idle" \/ pc \in GetSteps
  /\ at = "flush" => pc \in {"idle", "clear_in", "clear_out"}
  /\ at \notin {"read", "flush"} => pc = "idle"

LEMMA NextPc ==
  ASSUME PcInv, [Next]_vars
  PROVE  PcInv'
<1>1. ASSUME NEW k \in Keys, Press(k) \/ Repeat(k) \/ Release(k)
      PROVE  UNCHANGED <<at, pc>>
  BY <1>1 DEF Press, Repeat, Release, buffervars, main
<1>2. CASE keyboard_isr
  <2>1. UNCHANGED <<at, pc>>
    BY <1>2 DEF keyboard_isr, KeyStroke, buffervars, main
  <2> QED BY <2>1 DEF PcInv
<1>3. CASE console_flush
  <2>1. /\ at = "flush" /\ at' = IF pc = "clear_out" THEN "read" ELSE "flush"
        /\ \/ pc = "idle" /\ pc' = "clear_in"
           \/ pc = "clear_in" /\ pc' = "clear_out"
           \/ pc = "clear_out" /\ pc' = "idle"
    BY <1>3 DEF console_flush, keyboard_clear_buffer, ClearSize, ClearIn, ClearOut
  <2> QED BY <2>1 DEF PcInv
<1>4. CASE GetKey
  <2>1. /\ at = "read"
        /\ at' = IF pc \in {"test_head", "wrap_head"} /\ pc' = "idle"
                 THEN "got" ELSE "read"
    BY <1>4 DEF GetKey
  <2>2. /\ pc' = "idle" \/ pc' \in GetSteps
        /\ pc' = "idle" => pc \in {"idle", "test_head", "wrap_head"}
    BY <1>4 DEF GetKey, keyboard_get_key, GetEmpty, GetTest, LoadOut, LoadData, LoadSize,
           StoreSize, LoadHead, StoreHead, TestHead, WrapHead, GetSteps, buffervars, main
  <2> QED BY <2>1, <2>2 DEF PcInv
<1>5. CASE PutPrompt \/ gets_s \/ RunCommand
  <2>1. pc' = pc /\ at' \in {"flush", "read", "run", "halt", "prompt"}
        /\ at \in {"prompt", "got", "run"}
    BY <1>5 DEF PutPrompt, gets_s, RunCommand, buffervars, main
  <2> QED BY <2>1 DEF PcInv
<1>6. ASSUME UNCHANGED vars
      PROVE  UNCHANGED <<at, pc>>
  BY <1>6 DEF vars, buffervars, main
<1>7. CASE UNCHANGED <<at, pc>>
  BY <1>7 DEF PcInv
<1> QED BY <1>1, <1>2, <1>3, <1>4, <1>5, <1>6, <1>7 DEF Next, shell_loop

\* Every number in the ring is that of a stroke that was made.
Numbers ==
  /\ text \in Seq(1 .. 255) /\ Len(text) = pressed
  /\ unread \in Seq(1 .. pressed)
  /\ ret \in 0 .. pressed
  /\ data \in [Slots -> 0 .. pressed]

\* What the tables hold, and that a key of the keypad means one thing.
LEMMA Decoded ==
  ASSUME NEW code
  PROVE  /\ code \notin DOMAIN keyboard_map => new_char(code) = 0
         /\ code \in DOMAIN keyboard_map =>
              new_char(code) \in 1 .. 255 /\ Meaning(code) \in 1 .. 255
         /\ code = 72 => new_char(code) = Meaning(code)
<1> DEFINE D == {1, 2, 14, 15, 28, 30, 59, 72}
<1>1. DOMAIN keyboard_map = D
  BY DEF keyboard_map
<1>2. \A c \in D : keyboard_map[c] \in 1 .. 255
  BY DEF keyboard_map, BS, TAB, NL
<1>3. \A c \in D : keyboard_map_shift[c] =
        IF c = 2 THEN 33 ELSE IF c = 30 THEN 65 ELSE keyboard_map[c]
  BY <1>1 DEF keyboard_map_shift
<1>4. \A c \in D : keyboard_map_shift[c] \in 1 .. 255
  BY <1>2, <1>3
<1>5. /\ code \in D => new_char(code) \in {keyboard_map[code], keyboard_map_shift[code]}
      /\ code \notin D => new_char(code) = 0
  BY <1>1 DEF new_char
<1>6. Meaning(code) \in {keyboard_map[code], keyboard_map_shift[code]}
  BY DEF Meaning
<1> QED BY <1>1, <1>2, <1>3, <1>4, <1>5, <1>6

LEMMA NextNumbers ==
  ASSUME Bounds, Numbers, [Next]_vars
  PROVE  Numbers'
<1>0. /\ text \in Seq(1 .. 255) /\ Len(text) = pressed /\ unread \in Seq(1 .. pressed)
      /\ ret \in 0 .. pressed /\ data \in [Slots -> 0 .. pressed]
      /\ pressed \in Nat /\ idx \in Slots /\ in \in Slots
  BY DEF Numbers, Bounds, BufferTypeOK
<1>1. CASE UNCHANGED <<text, pressed, unread, ret, data>>
  BY <1>0, <1>1 DEF Numbers
<1>2. ASSUME NEW k \in Keys, Press(k) \/ Repeat(k) \/ Release(k)
      PROVE  UNCHANGED <<text, pressed, unread, ret, data>>
  BY <1>2 DEF Press, Repeat, Release, buffervars, main, buffer, history
<1>3. CASE keyboard_isr
  <2> DEFINE ch == new_char(Head(wire))
  <2>1. CASE ch = 0
    BY <1>1, <1>3, <2>1 DEF keyboard_isr, buffervars, main, buffer, history
  <2>2. CASE ch # 0
    <3>1. KeyStroke /\ text' = Append(text, ch) /\ ch \in 1 .. 255
      BY <1>3, <2>2, Decoded DEF keyboard_isr
    <3> HIDE DEF ch
    <3>2. /\ pressed' = pressed + 1 /\ ret' = ret
          /\ unread' = Append(unread, pressed + 1)
          /\ data' = [data EXCEPT ![in] = pressed + 1]
      BY <3>1, StrokeFields
    <3>3. text' \in Seq(1 .. 255) /\ Len(text') = pressed'
      BY <1>0, <3>1, <3>2, AppendProperties
    <3>4. unread' \in Seq(1 .. pressed')
      <4>1. unread \in Seq(1 .. pressed + 1) /\ pressed + 1 \in 1 .. pressed + 1
        BY <1>0
      <4> QED BY <3>2, <4>1, AppendProperties
    <3>5. data' \in [Slots -> 0 .. pressed'] /\ ret' \in 0 .. pressed'
      BY <1>0, <3>2
    <3> QED BY <3>3, <3>4, <3>5 DEF Numbers
  <2> QED BY <2>1, <2>2
<1>4. CASE console_flush
  <2>1. /\ UNCHANGED <<text, pressed, ret, data>>
        /\ unread' = <<>> \/ unread' = unread
    BY <1>4 DEF console_flush, keyboard_clear_buffer, ClearSize, ClearIn, ClearOut, history
  <2>2. unread' \in Seq(1 .. pressed)
    BY <1>0, <2>1, EmptySeq
  <2> QED BY <1>0, <2>1, <2>2 DEF Numbers
<1>5. CASE GetKey
  <2>1. /\ UNCHANGED <<text, pressed, data>>
        /\ ret' = ret \/ ret' = data[idx]
        /\ unread' = unread \/ (unread # <<>> /\ unread' = Tail(unread)) \/ unread' = <<>>
    BY <1>5 DEF GetKey, keyboard_get_key, GetEmpty, GetTest, LoadOut, LoadData, LoadSize,
           StoreSize, LoadHead, StoreHead, TestHead, WrapHead, buffervars, main, buffer,
           history
  <2>2. unread' \in Seq(1 .. pressed)
    <3>1. ASSUME unread # <<>>, unread' = Tail(unread)
          PROVE  unread' \in Seq(1 .. pressed)
      BY <1>0, <3>1, HeadTailProperties
    <3>2. ASSUME unread' = <<>>
          PROVE  unread' \in Seq(1 .. pressed)
      BY <3>2
    <3> QED BY <1>0, <2>1, <3>1, <3>2
  <2>3. ret' \in 0 .. pressed
    BY <1>0, <2>1
  <2> QED BY <1>0, <2>1, <2>2, <2>3 DEF Numbers
<1>6. CASE PutPrompt \/ gets_s \/ RunCommand
  BY <1>1, <1>6 DEF PutPrompt, gets_s, RunCommand, buffervars, main, buffer, history
<1>7. CASE UNCHANGED vars
  BY <1>1, <1>7 DEF vars, buffervars, main, buffer, history
<1> QED BY <1>1, <1>2, <1>3, <1>4, <1>5, <1>6, <1>7 DEF Next, shell_loop

-----------------------------------------------------------------------------
(***************************************************************************)
(* The characters of strokes.                                              *)
(***************************************************************************)
CharIn(t, n) == IF n = 0 THEN 0 ELSE t[n]
Chars(t, s) == [n \in DOMAIN s |-> CharIn(t, s[n])]

LEMMA CharsOfIs ==
  ASSUME NEW s
  PROVE  CharsOf(s) = Chars(text, s)
BY DEF CharsOf, Chars, Char, CharIn

LEMMA CharInType ==
  ASSUME NEW t \in Seq(1 .. 255), NEW n \in 0 .. Len(t)
  PROVE  CharIn(t, n) \in 0 .. 255
<1>1. n # 0 => n \in 1 .. Len(t)
  BY LenProperties
<1>2. n # 0 => t[n] \in 1 .. 255
  BY <1>1, ElementOfSeq
<1> QED BY <1>2 DEF CharIn

LEMMA CharsType ==
  ASSUME NEW t \in Seq(1 .. 255), NEW s \in Seq(0 .. Len(t))
  PROVE  /\ Chars(t, s) \in Seq(0 .. 255) /\ Len(Chars(t, s)) = Len(s)
         /\ \A n \in 1 .. Len(s) : Chars(t, s)[n] = CharIn(t, s[n])
<1>1. DOMAIN s = 1 .. Len(s) /\ Len(s) \in Nat /\ \A n \in 1 .. Len(s) : s[n] \in 0 .. Len(t)
  OBVIOUS
<1>2. \A n \in 1 .. Len(s) : CharIn(t, s[n]) \in 0 .. 255
  BY <1>1, CharInType
<1> DEFINE r == [n \in 1 .. Len(s) |-> CharIn(t, s[n])]
<1>3. Chars(t, s) = r
  BY <1>1 DEF Chars
<1>4. r \in Seq(0 .. 255) /\ Len(r) = Len(s)
  <2>1. r \in [1 .. Len(s) -> 0 .. 255]
    BY <1>2
  <2>2. DOMAIN r = 1 .. Len(s)
    OBVIOUS
  <2> HIDE DEF r
  <2>3. r \in Seq(0 .. 255)
    <3>1. \A S, f : (\E n \in Nat : f \in [1 .. n -> S]) => f \in Seq(S)
      BY SeqDef
    <3> QED BY <1>1, <2>1, <3>1, Zenon
  <2>4. Len(r) = Len(s)
    BY <1>1, <2>2, <2>3, LenProperties
  <2> QED BY <2>3, <2>4
<1>5. \A n \in 1 .. Len(s) : r[n] = CharIn(t, s[n])
  OBVIOUS
<1> HIDE DEF r
<1> QED BY <1>3, <1>4, <1>5, Zenon

\* A new stroke changes no earlier one's character.
LEMMA CharsLonger ==
  ASSUME NEW t \in Seq(1 .. 255), NEW c \in 1 .. 255, NEW s \in Seq(0 .. Len(t))
  PROVE  Chars(Append(t, c), s) = Chars(t, s)
<1>1. DOMAIN s = 1 .. Len(s) /\ \A n \in 1 .. Len(s) : s[n] \in 0 .. Len(t)
  OBVIOUS
<1>2. \A n \in 1 .. Len(t) : Append(t, c)[n] = t[n]
  BY AppendProperties
<1>3. \A n \in 1 .. Len(s) : CharIn(Append(t, c), s[n]) = CharIn(t, s[n])
  BY <1>1, <1>2 DEF CharIn
<1> QED BY <1>1, <1>3 DEF Chars

\* The new stroke's character is the last.
LEMMA CharsAppend ==
  ASSUME NEW t \in Seq(1 .. 255), NEW c \in 1 .. 255, NEW s \in Seq(0 .. Len(t))
  PROVE  Chars(Append(t, c), Append(s, Len(t) + 1)) = Append(Chars(t, s), c)
<1> DEFINE u == Append(t, c)
           r == Append(s, Len(t) + 1)
           k == Len(s)
<1>1. /\ u \in Seq(1 .. 255) /\ Len(u) = Len(t) + 1 /\ u[Len(t) + 1] = c
      /\ Len(t) \in Nat /\ k \in Nat
  BY AppendProperties
<1>2. /\ r \in Seq(0 .. Len(t) + 1) /\ Len(r) = k + 1 /\ r[k + 1] = Len(t) + 1
      /\ \A n \in 1 .. k : r[n] = s[n]
  <2>1. s \in Seq(0 .. Len(t) + 1) /\ Len(t) + 1 \in 0 .. Len(t) + 1
    BY <1>1
  <2> QED BY <2>1, AppendProperties
<1>3. Chars(u, s) = Chars(t, s)
  BY CharsLonger
<1> HIDE DEF u, r
<1>4. /\ Chars(t, s) \in Seq(0 .. 255) /\ Len(Chars(t, s)) = k
      /\ \A n \in 1 .. k : Chars(t, s)[n] = CharIn(t, s[n])
  BY CharsType
<1>5. /\ Chars(u, r) \in Seq(0 .. 255) /\ Len(Chars(u, r)) = k + 1
      /\ \A n \in 1 .. k + 1 : Chars(u, r)[n] = CharIn(u, r[n])
  <2>1. u \in Seq(1 .. 255) /\ r \in Seq(0 .. Len(u)) /\ Len(r) = k + 1
    BY <1>1, <1>2
  <2> QED BY <2>1, CharsType
<1>6. \A n \in 1 .. k : CharIn(u, s[n]) = CharIn(t, s[n])
  <2>1. s \in Seq(0 .. Len(u)) /\ u \in Seq(1 .. 255)
    BY <1>1
  <2>2. \A n \in 1 .. k : Chars(u, s)[n] = CharIn(u, s[n])
    BY <2>1, CharsType
  <2> QED BY <1>3, <1>4, <2>2
<1> DEFINE a == Append(Chars(t, s), c)
<1>7. a \in Seq(0 .. 255) /\ Len(a) = k + 1 /\ a[k + 1] = c
      /\ \A n \in 1 .. k : a[n] = Chars(t, s)[n]
  BY <1>4, AppendProperties
<1> HIDE DEF a, k
<1>8. CharIn(u, r[k + 1]) = c
  BY <1>1, <1>2 DEF CharIn
<1>9. ASSUME NEW n \in 1 .. k + 1 PROVE Chars(u, r)[n] = a[n]
  <2>1. CASE n = k + 1
    BY <1>5, <1>7, <1>8, <2>1
  <2>2. CASE n # k + 1
    <3>1. n \in 1 .. k
      BY <1>1, <2>2
    <3> QED BY <1>2, <1>4, <1>5, <1>6, <1>7, <3>1
  <2> QED BY <2>1, <2>2
<1>10. Chars(u, r) = a
  BY <1>5, <1>7, <1>9, SeqEqual
<1> QED BY <1>10 DEF u, r, a

\* The characters behind the first stroke.
LEMMA CharsTail ==
  ASSUME NEW t \in Seq(1 .. 255), NEW s \in Seq(0 .. Len(t)), s # <<>>
  PROVE  /\ Chars(t, s) # <<>> /\ Head(Chars(t, s)) = CharIn(t, Head(s))
         /\ Tail(Chars(t, s)) = Chars(t, Tail(s))
<1> DEFINE c == Chars(t, s)
           d == Chars(t, Tail(s))
<1>1. /\ Len(s) \in Nat \ {0} /\ Tail(s) \in Seq(0 .. Len(t))
      /\ Len(Tail(s)) = Len(s) - 1 /\ Head(s) = s[1]
      /\ \A i \in 1 .. Len(s) - 1 : Tail(s)[i] = s[i + 1]
  <2>1. Len(s) \in Nat \ {0}
    BY EmptySeq
  <2>2. Len(Tail(s)) = Len(s) - 1 /\ \A i \in 1 .. Len(s) - 1 : Tail(s)[i] = s[i + 1]
    BY <2>1
  <2> QED BY <2>1, <2>2, HeadTailProperties
<1>2. c \in Seq(0 .. 255) /\ Len(c) = Len(s) /\ \A n \in 1 .. Len(s) : c[n] = CharIn(t, s[n])
  BY CharsType
<1>3. /\ d \in Seq(0 .. 255) /\ Len(d) = Len(s) - 1
      /\ \A n \in 1 .. Len(s) - 1 : d[n] = CharIn(t, Tail(s)[n])
  BY <1>1, CharsType
<1> HIDE DEF c, d
<1>4. c # <<>>
  BY <1>1, <1>2, EmptySeq
<1>5. /\ Tail(c) \in Seq(0 .. 255) /\ Len(Tail(c)) = Len(s) - 1 /\ Head(c) = c[1]
      /\ \A i \in 1 .. Len(s) - 1 : Tail(c)[i] = c[i + 1]
  <2>1. Len(Tail(c)) = Len(s) - 1 /\ \A i \in 1 .. Len(s) - 1 : Tail(c)[i] = c[i + 1]
    BY <1>1, <1>2
  <2> QED BY <1>2, <1>4, <2>1, HeadTailProperties
<1>6. ASSUME NEW i \in 1 .. Len(s) - 1 PROVE Tail(c)[i] = d[i]
  <2>1. i + 1 \in 1 .. Len(s)
    BY <1>1
  <2> QED BY <1>1, <1>2, <1>3, <1>5, <2>1
<1>7. Tail(c) = d
  <2> DEFINE e == Tail(c)
  <2>1. e \in Seq(0 .. 255) /\ Len(e) = Len(d) /\ \A i \in 1 .. Len(e) : e[i] = d[i]
    BY <1>3, <1>5, <1>6
  <2> HIDE DEF e
  <2>2. d \in Seq(0 .. 255) /\ e \in Seq(0 .. 255) /\ Len(e) = Len(d)
    BY <1>3, <2>1
  <2>3. \A i \in 1 .. Len(e) : e[i] = d[i]
    BY <2>1
  <2> HIDE DEF d
  <2>4. e = d
    BY ONLY <2>2, <2>3, SeqEqual
  <2> QED BY <2>4 DEF e
<1>8. Head(c) = CharIn(t, Head(s))
  <2>1. 1 \in 1 .. Len(s)
    BY <1>1
  <2> QED BY <1>1, <1>2, <1>5, <2>1
<1> QED BY <1>4, <1>7, <1>8 DEF c, d

-----------------------------------------------------------------------------
(***************************************************************************)
(* The line and the history are well formed.                               *)
(***************************************************************************)
Types ==
  /\ str \in Seq(1 .. 255) /\ Len(str) < LineSize
  /\ meant \in Seq(0 .. 255)

\* A line without its last character.
LEMMA FrontFacts ==
  ASSUME NEW s \in Seq(1 .. 255), s # <<>>
  PROVE  /\ Len(s) \in Nat \ {0}
         /\ Sx!Front(s) \in Seq(1 .. 255) /\ Len(Sx!Front(s)) = Len(s) - 1
         /\ \A i \in 1 .. Len(s) - 1 : Sx!Front(s)[i] = s[i]
<1>1. Len(s) \in Nat \ {0}
  BY EmptySeq
<1> DEFINE n == Len(s) - 1
           r == SubSeq(s, 1, n)
<1>2. n \in Nat /\ \A i \in 1 .. n : s[i] \in 1 .. 255
  <2>1. n \in Nat /\ \A i \in 1 .. n : i \in 1 .. Len(s)
    BY <1>1
  <2> QED BY <2>1, ElementOfSeq
<1> HIDE DEF n
<1>3. /\ r \in Seq(1 .. 255)
      /\ Len(r) = IF 1 <= n THEN n - 1 + 1 ELSE 0
      /\ \A i \in 1 .. n - 1 + 1 : r[i] = s[1 + i - 1]
  BY <1>2, SubSeqProperties
<1> HIDE DEF r
<1>4. Len(r) = n /\ \A i \in 1 .. n : r[i] = s[i]
  BY <1>2, <1>3
<1> QED BY <1>1, <1>3, <1>4 DEF n, r, Sx!Front

\* A turn of gets_s stays below the end of the shell's buffer.
LEMMA EditTypes ==
  ASSUME NEW s \in Seq(1 .. 255), Len(s) < LineSize, NEW ch \in 0 .. 255
  PROVE  Edit(s, ch) \in Seq(1 .. 255) /\ Len(Edit(s, ch)) < LineSize
<1> USE LineSizeAssumption
<1>1. CASE Edit(s, ch) = s
  BY <1>1
<1>2. CASE s # <<>> /\ Edit(s, ch) = Sx!Front(s)
  <2>1. /\ Len(s) \in Nat \ {0}
        /\ Sx!Front(s) \in Seq(1 .. 255) /\ Len(Sx!Front(s)) = Len(s) - 1
    BY <1>2, FrontFacts
  <2> QED BY <1>2, <2>1
<1>3. CASE ch # 0 /\ Len(s) < LineSize - 1 /\ Edit(s, ch) = Append(s, ch)
  <2>1. ch \in 1 .. 255 /\ Len(s) \in Nat
    BY <1>3
  <2>2. Append(s, ch) \in Seq(1 .. 255) /\ Len(Append(s, ch)) = Len(s) + 1
    BY <2>1, AppendProperties
  <2> QED BY <1>3, <2>1, <2>2
<1> QED BY <1>1, <1>2, <1>3 DEF Edit

\* The shell's text and what was typed, in the steps that leave them alone.
LEMMA LineUnmoved ==
  ASSUME \/ \E k \in Keys : Press(k) \/ Repeat(k) \/ Release(k)
         \/ keyboard_isr \/ GetKey \/ RunCommand \/ UNCHANGED vars
  PROVE  UNCHANGED <<str, shown, plain>> /\ (keyboard_isr \/ meant' = meant)
BY DEF Press, Repeat, Release, keyboard_isr, GetKey, RunCommand, vars, line

\* The stroke that gets_s looks at has a character.
LEMMA GotChar ==
  ASSUME Numbers
  PROVE  Char(ret) \in 0 .. 255 /\ Char(ret) = CharIn(text, ret)
<1>1. Char(ret) = CharIn(text, ret)
  BY DEF Char, CharIn
<1>2. ret \in 0 .. Len(text) /\ text \in Seq(1 .. 255)
  BY DEF Numbers
<1> QED BY <1>1, <1>2, CharInType

\* No step breaks the line or the history.
LEMMA NextTypes ==
  ASSUME Types, Numbers, [Next]_vars
  PROVE  Types'
<1>0. /\ str \in Seq(1 .. 255) /\ Len(str) < LineSize /\ meant \in Seq(0 .. 255)
  BY DEF Types
<1>1. CASE keyboard_isr
  <2> DEFINE code == Head(wire)
  <2>1. meant' = IF code \in DOMAIN keyboard_map
                 THEN Append(meant, Meaning(code)) ELSE meant
    BY <1>1 DEF keyboard_isr
  <2>2. str' = str
    BY <1>1, LineUnmoved
  <2> HIDE DEF code
  <2>3. code \in DOMAIN keyboard_map => Meaning(code) \in 0 .. 255
    BY Decoded
  <2>4. meant' \in Seq(0 .. 255)
    BY <1>0, <2>1, <2>3, AppendProperties
  <2> QED BY <1>0, <2>2, <2>4 DEF Types
<1>2. CASE console_flush
  <2>1. str' = <<>> /\ (meant' = <<>> \/ meant' = meant)
    BY <1>2 DEF console_flush
  <2>2. meant' \in Seq(0 .. 255)
    BY <1>0, <2>1, EmptySeq
  <2>3. str' \in Seq(1 .. 255) /\ Len(str') = 0
    BY <2>1, EmptySeq
  <2> QED BY <2>2, <2>3, LineSizeAssumption DEF Types
<1>3. CASE gets_s
  <2>1. str' = Edit(str, Char(ret)) /\ meant' = meant
    BY <1>3 DEF gets_s
  <2> QED BY <1>0, <2>1, GotChar, EditTypes DEF Types
<1>4. CASE UNCHANGED <<str, meant>>
  BY <1>0, <1>4 DEF Types
<1>5. CASE PutPrompt
  BY <1>4, <1>5 DEF PutPrompt
<1>6. ASSUME NEW k \in Keys, Press(k) \/ Repeat(k) \/ Release(k)
      PROVE  UNCHANGED <<str, meant>>
  BY <1>6 DEF Press, Repeat, Release, line
<1>7. ASSUME GetKey \/ RunCommand \/ UNCHANGED vars
      PROVE  UNCHANGED <<str, meant>>
  BY <1>7 DEF GetKey, RunCommand, vars, line
<1> QED BY <1>1, <1>2, <1>3, <1>4, <1>5, <1>6, <1>7 DEF Next, shell_loop

(***************************************************************************)
(* The screen.                                                             *)
(***************************************************************************)
\* The prompt is shown when the ring is flushed, and the line behind it.
ScreenInv ==
  /\ at = "flush" => shown = PROMPT
  /\ at \in {"read", "got"} /\ plain => shown = PROMPT \o str

\* Echoing behind the prompt is editing behind the prompt.
LEMMA AfterPrompt ==
  ASSUME NEW s \in Seq(1 .. 255)
  PROVE  /\ \A ch \in 1 .. 255 : Append(PROMPT \o s, ch) = PROMPT \o Append(s, ch)
         /\ PROMPT \o s # <<>>
         /\ s # <<>> => Sx!Front(PROMPT \o s) = PROMPT \o Sx!Front(s)
<1> DEFINE p == PROMPT
<1>1. p \in Seq(1 .. 255) /\ Len(p) = 2
  BY DEF PROMPT
<1> HIDE DEF p
<1> DEFINE q0 == p \o s
<1>2. /\ q0 \in Seq(1 .. 255) /\ Len(q0) = Len(p) + Len(s)
      /\ \A i \in 1 .. Len(p) + Len(s) :
           q0[i] = IF i <= Len(p) THEN p[i] ELSE s[i - Len(p)]
  BY ONLY <1>1, ConcatProperties, s \in Seq(1 .. 255), Zenon
<1>3. Len(s) \in Nat
  OBVIOUS
<1>4. q0 # <<>>
  <2> HIDE DEF q0
  <2> QED BY <1>1, <1>2, <1>3, EmptySeq
<1>5. ASSUME NEW ch \in 1 .. 255
      PROVE  Append(q0, ch) = p \o Append(s, ch)
  <2>1. <<ch>> \in Seq(1 .. 255)
    OBVIOUS
  <2>2. Append(q0, ch) = q0 \o <<ch>> /\ Append(s, ch) = s \o <<ch>>
    BY <1>2, AppendIsConcat, Zenon
  <2>3. (p \o s) \o <<ch>> = p \o (s \o <<ch>>)
    BY <1>1, <2>1, ConcatAssociative
  <2> QED BY <2>2, <2>3, Zenon
<1>6. ASSUME s # <<>>
      PROVE  Sx!Front(q0) = p \o Sx!Front(s)
  <2> DEFINE a == Sx!Front(q0)
             b == Sx!Front(s)
             c == p \o b
  <2> HIDE DEF q0
  <2>1. /\ a \in Seq(1 .. 255) /\ Len(a) = Len(q0) - 1
        /\ \A i \in 1 .. Len(q0) - 1 : a[i] = q0[i]
    BY <1>2, <1>4, FrontFacts
  <2>2. /\ Len(s) \in Nat \ {0}
        /\ b \in Seq(1 .. 255) /\ Len(b) = Len(s) - 1
        /\ \A i \in 1 .. Len(s) - 1 : b[i] = s[i]
    BY <1>6, FrontFacts
  <2> HIDE DEF b
  <2>3. /\ c \in Seq(1 .. 255) /\ Len(c) = Len(p) + Len(b)
        /\ \A i \in 1 .. Len(p) + Len(b) :
             c[i] = IF i <= Len(p) THEN p[i] ELSE b[i - Len(p)]
    <3>1. p \in Seq(1 .. 255) /\ b \in Seq(1 .. 255)
      BY <1>1, <2>2
    <3> QED BY ONLY <3>1, ConcatProperties, Zenon
  <2> HIDE DEF a, c
  <2>4. Len(a) = Len(s) + 1 /\ Len(c) = Len(s) + 1
    BY <1>1, <1>2, <2>1, <2>2, <2>3
  <2>5. ASSUME NEW i \in 1 .. Len(s) + 1
        PROVE  a[i] = c[i]
    <3>1. a[i] = q0[i] /\ q0[i] = IF i <= 2 THEN p[i] ELSE s[i - 2]
      BY <1>1, <1>2, <2>1, <2>2
    <3>2. c[i] = IF i <= 2 THEN p[i] ELSE b[i - 2]
      BY <1>1, <2>2, <2>3
    <3>3. i > 2 => b[i - 2] = s[i - 2]
      BY <2>2
    <3> QED BY <2>2, <3>1, <3>2, <3>3
  <2>6. a = c
    BY <2>1, <2>3, <2>4, <2>5, SeqEqual
  <2> QED BY <2>6 DEF a, b, c
<1> QED BY <1>4, <1>5, <1>6, Zenon DEF p, q0

\* The table of ctype.c has no picture for the keys that edit.
LEMMA NotPrinted ==
  /\ ~isprint(0) /\ ~isprint(BS) /\ ~isprint(TAB) /\ ~isprint(NL)
  /\ ~isspace(BS) /\ ~isspace(0)
<1>1. CTYPE_MAP_ASCII[0] = {"C"}
  BY DEF CTYPE_MAP_ASCII, ASCII
<1>2. CTYPE_MAP_ASCII[BS] = {"C"}
  BY DEF CTYPE_MAP_ASCII, ASCII, BS
<1>3. CTYPE_MAP_ASCII[TAB] = {"C", "S", "B"}
  BY DEF CTYPE_MAP_ASCII, ASCII, TAB
<1>4. CTYPE_MAP_ASCII[NL] = {"C", "S"}
  BY DEF CTYPE_MAP_ASCII, ASCII, NL
<1> QED BY <1>1, <1>2, <1>3, <1>4 DEF isprint, isspace, Has

\* No step makes the screen differ from the line.
LEMMA NextScreen ==
  ASSUME Types, Numbers, ScreenInv, PcInv, [Next]_vars
  PROVE  ScreenInv'
<1>1. CASE PutPrompt
  BY <1>1 DEF PutPrompt, ScreenInv
<1>2. CASE console_flush
  <2>1. PROMPT \o <<>> = PROMPT
    BY DEF PROMPT
  <2>2. at = "flush" /\ at' \in {"flush", "read"} /\ shown' = shown /\ str' = <<>>
    BY <1>2 DEF console_flush
  <2> QED BY <2>1, <2>2 DEF ScreenInv
<1>3. CASE gets_s
  <2> DEFINE ch == Char(ret)
  <2>1. /\ at = "got" /\ at' = IF ch = NL THEN "run" ELSE "read"
        /\ shown' \in Echo(shown, ch) /\ str' = Edit(str, ch)
        /\ plain' => plain /\ (ch \in {0, NL} \/ ~Uneven(ch))
    BY <1>3 DEF gets_s
  <2>2. ch \in 0 .. 255
    BY GotChar
  <2> HIDE DEF ch
  <2>3. SUFFICES ASSUME plain', ch # NL
                 PROVE  shown' = PROMPT \o str'
    BY <2>1 DEF ScreenInv
  <2>4. shown = PROMPT \o str /\ (ch = 0 \/ ~Uneven(ch)) /\ str \in Seq(1 .. 255)
    BY <2>1, <2>3 DEF ScreenInv, Types
  <2>5. CASE ch = BS
    <3>1. str # <<>> /\ str' = Sx!Front(str)
      BY <2>1, <2>4, <2>5 DEF Uneven, Edit, BS
    <3>2. Echo(shown, BS) = {Sx!Front(shown)}
      <4>1. BS \in ASCII /\ BS # NL
        BY DEF BS, NL, ASCII
      <4>2. shown # <<>>
        BY <2>4, AfterPrompt
      <4> QED BY <4>1, <4>2, NotPrinted DEF Echo
    <3> QED BY <2>1, <2>4, <2>5, <3>1, <3>2, AfterPrompt
  <2>6. CASE ch = 0
    <3>1. Echo(shown, 0) = {shown} /\ Edit(str, 0) = str
      <4>1. 0 \in ASCII /\ 0 # NL /\ 0 # BS
        BY DEF BS, NL, ASCII
      <4> QED BY <4>1, NotPrinted DEF Echo, Edit
    <3> QED BY <2>1, <2>4, <2>6, <3>1
  <2>7. CASE ch \notin {BS, 0}
    <3>1. ch \in ASCII /\ isprint(ch) /\ Len(str) < LineSize - 1
      <4>1. Len(str) \in Nat
        BY <2>4
      <4> QED BY <2>4, <2>7, <4>1, LineSizeAssumption DEF Uneven
    <3>2. ch \notin {0, TAB, NL}
      BY <3>1, NotPrinted
    <3>3. str' = Append(str, ch)
      BY <2>1, <2>7, <3>1, <3>2 DEF Edit
    <3>4. shown' = Append(shown, ch)
      BY <2>1, <2>7, <3>1, <3>2 DEF Echo
    <3>5. ch \in 1 .. 255
      BY <2>2, <3>2
    <3> QED BY <2>4, <3>3, <3>4, <3>5, AfterPrompt
  <2> QED BY <2>5, <2>6, <2>7
<1>4. CASE RunCommand
  <2>1. at' \notin {"flush", "read", "got"}
    BY <1>4 DEF RunCommand
  <2> QED BY <2>1 DEF ScreenInv
<1>5. CASE UNCHANGED <<at, line>>
  BY <1>5 DEF line, ScreenInv
<1>6. CASE GetKey
  <2>1. at = "read" /\ at' \in {"read", "got"} /\ UNCHANGED line
    BY <1>6 DEF GetKey
  <2> QED BY <2>1 DEF ScreenInv, line
<1>7. ASSUME NEW k \in Keys, Press(k) \/ Repeat(k) \/ Release(k)
      PROVE  UNCHANGED <<at, line>>
  BY <1>7 DEF Press, Repeat, Release
<1>8. ASSUME keyboard_isr \/ UNCHANGED vars
      PROVE  UNCHANGED <<at, line>>
  BY <1>8 DEF keyboard_isr, vars
<1> QED BY <1>1, <1>2, <1>3, <1>4, <1>5, <1>6, <1>7, <1>8 DEF Next, shell_loop

-----------------------------------------------------------------------------
(***************************************************************************)
(* The line.                                                               *)
(***************************************************************************)
\* A code that is not a prefixed key's or one of the keyboard's own shifts is
\* the only one of its key.
Alone == CodesIn(wire) \subseteq Keypad \/ Len(wire) = 1

\* Caps Lock: the driver's light changes at the code that the key sends last.
CapsInv ==
  /\ caps \in BOOLEAN
  /\ ("CAPS" \in led_state <=> caps) <=> 186 \notin CodesIn(wire)

\* The first code and the others.
LEMMA NextCode ==
  ASSUME WireOK, keyboard_isr
  PROVE  /\ wire # <<>> /\ wire' = Tail(wire) /\ Len(wire) \in Nat
         /\ CodesIn(wire) = {Head(wire)} \union CodesIn(wire')
         /\ Len(wire) = 1 => CodesIn(wire') = {}
<1>1. wire # <<>> /\ wire' = Tail(wire) /\ wire \in Seq(1 .. 255) /\ Len(wire) \in Nat
  BY DEF keyboard_isr, WireOK
<1>2. CodesIn(wire) = {Head(wire)} \union CodesIn(wire')
  BY <1>1, CodesTail
<1>3. ASSUME Len(wire) = 1 PROVE CodesIn(wire') = {}
  <2>1. wire' \in Seq(1 .. 255) /\ Len(wire') = 0
    BY <1>1, <1>3, HeadTailProperties
  <2> QED BY <2>1 DEF CodesIn
<1> QED BY <1>1, <1>2, <1>3

\* A key sends all its codes before another key is taken.
LEMMA NextAlone ==
  ASSUME ModInv, Alone, [Next]_vars
  PROVE  Alone'
<1>0. num_lock \in BOOLEAN /\ WireOK
  BY DEF ModInv
<1>1. ASSUME NEW k \in Keys, Press(k) \/ Repeat(k) \/ Release(k)
      PROVE  Alone'
  <2>1. CASE k # "Up"
    <3>1. \E c : wire' = <<c>>
      BY <1>1, <2>1, OneCode
    <3> QED BY <3>1 DEF Alone
  <2>2. CASE k = "Up"
    <3>1. CodesIn(wire') \subseteq Keypad
      <4>1. {224, 72} \subseteq Keypad
        BY DEF Keypad
      <4> QED BY <1>0, <1>1, <2>2, <4>1, PressUp, ReleaseUp, RepeatUp
    <3> QED BY <3>1 DEF Alone
  <2> QED BY <2>1, <2>2
<1>2. CASE keyboard_isr
  BY <1>0, <1>2, NextCode DEF Alone
<1>3. ASSUME shell_loop \/ UNCHANGED vars
      PROVE  wire' = wire
  BY <1>3 DEF shell_loop, PutPrompt, console_flush, GetKey, gets_s, RunCommand, keyboard, vars
<1>4. CASE wire' = wire
  BY <1>4 DEF Alone
<1> QED BY <1>1, <1>2, <1>3, <1>4 DEF Next

\* No step parts the light from the key.
LEMMA NextCaps ==
  ASSUME ModInv, Alone, CapsInv, [Next]_vars
  PROVE  CapsInv'
<1>0. num_lock \in BOOLEAN /\ WireOK
  BY DEF ModInv
<1>a. wire = <<>> => 186 \notin CodesIn(wire)
  BY CodesFew
<1>1. ASSUME NEW k \in Keys, Press(k) \/ Repeat(k)
      PROVE  CapsInv'
  <2>1. wire = <<>> /\ UNCHANGED <<led_state, caps>>
    BY <1>1 DEF Press, Repeat, driver
  <2>2. 186 \notin CodesIn(wire')
    <3>1. CASE k # "Up"
      <4>1. CodesIn(wire') = {Code[k]} /\ Code[k] # 186
        BY <1>1, <3>1, OneCode, KeyCodes
      <4> QED BY <4>1
    <3>2. CASE k = "Up"
      <4>1. CodesIn(wire') \subseteq Keypad
        <5>1. {224, 72} \subseteq Keypad
          BY DEF Keypad
        <5> QED BY <1>0, <1>1, <3>2, <5>1, PressUp, RepeatUp
      <4> QED BY <4>1 DEF Keypad
    <3> QED BY <3>1, <3>2
  <2> QED BY <1>a, <2>1, <2>2 DEF CapsInv
<1>2. ASSUME NEW k \in Keys, Release(k)
      PROVE  CapsInv'
  <2>1. wire = <<>> /\ UNCHANGED led_state /\ caps' = IF k = "Caps" THEN ~caps ELSE caps
    BY <1>2 DEF Release, driver
  <2>2. 186 \in CodesIn(wire') <=> k = "Caps"
    <3>1. CASE k # "Up"
      <4>1. CodesIn(wire') = {Code[k] + 128}
        BY <1>2, <3>1, OneCode
      <4>2. Code[k] + 128 = 186 <=> k = "Caps"
        BY KeyCodes
      <4> QED BY <4>1, <4>2
    <3>2. CASE k = "Up"
      <4>1. CodesIn(wire') \subseteq Keypad
        BY <1>0, <1>2, <3>2, ReleaseUp
      <4> QED BY <3>2, <4>1 DEF Keypad
    <3> QED BY <3>1, <3>2
  <2>3. caps \in BOOLEAN /\ ("CAPS" \in led_state <=> caps)
    BY <1>a, <2>1 DEF CapsInv
  <2> QED BY <2>1, <2>2, <2>3 DEF CapsInv
<1>3. CASE keyboard_isr
  <2> DEFINE c == Head(wire)
  <2>1. caps' = caps /\ led_state' = LedAfter(c)
    BY <1>3 DEF keyboard_isr
  <2>2. /\ CodesIn(wire) = {c} \union CodesIn(wire')
        /\ Len(wire) = 1 => CodesIn(wire') = {}
    BY <1>0, <1>3, NextCode
  <2> HIDE DEF c
  <2>3. c = 186 => "CAPS" \in led_state' <=> "CAPS" \notin led_state
    BY <2>1 DEF LedAfter, Toggle
  <2>4. c # 186 => "CAPS" \in led_state' <=> "CAPS" \in led_state
    BY <2>1 DEF LedAfter, Toggle
  <2>5. c = 186 => 186 \notin CodesIn(wire')
    <3>1. 186 \notin Keypad
      BY DEF Keypad
    <3> QED BY <2>2, <3>1 DEF Alone
  <2> QED BY <2>1, <2>2, <2>3, <2>4, <2>5 DEF CapsInv
<1>4. ASSUME shell_loop \/ UNCHANGED vars
      PROVE  UNCHANGED <<wire, caps, led_state>>
  BY <1>4 DEF shell_loop, PutPrompt, console_flush, GetKey, gets_s, RunCommand,
              keyboard, driver, vars
<1>5. CASE UNCHANGED <<wire, caps, led_state>>
  BY <1>5 DEF CapsInv
<1> QED BY <1>1, <1>2, <1>3, <1>4, <1>5 DEF Next

\* What the driver stores is what the user means.
LEMMA StoresMeaning ==
  ASSUME ModInv, Alone, CapsInv, wire # <<>>, Head(wire) \in DOMAIN keyboard_map,
         Head(wire) = 72 \/ ("Up" \notin down /\ ~crossed)
  PROVE  new_char(Head(wire)) = Meaning(Head(wire))
<1> DEFINE code == Head(wire)
<1>1. CASE code = 72
  BY <1>1, Decoded
<1>2. CASE code # 72
  <2>1. code \in {1, 2, 14, 15, 28, 30, 59}
    BY <1>2 DEF keyboard_map
  <2>2. wire \in Seq(1 .. 255) /\ Len(wire) \in Nat \ {0}
    BY EmptySeq DEF ModInv, WireOK
  <2>3. CodesIn(wire) = {code} \union CodesIn(Tail(wire))
    BY <2>2, CodesTail
  <2>4. Len(wire) = 1
    <3>1. code \notin Keypad
      BY <2>1 DEF Keypad
    <3> QED BY <2>3, <3>1 DEF Alone
  <2>5. CodesIn(Tail(wire)) = {}
    <3>1. Len(Tail(wire)) = Len(wire) - 1
      BY <2>2, HeadTailProperties
    <3>2. Len(Tail(wire)) = 0
      BY <2>4, <3>1
    <3> QED BY <3>2, NoCodes
  <2>6. CodesIn(wire) = {code}
    BY <2>3, <2>5
  <2> HIDE DEF code
  <2>7. /\ 42 \notin CodesIn(wire) /\ 170 \notin CodesIn(wire)
        /\ 54 \notin CodesIn(wire) /\ 182 \notin CodesIn(wire)
        /\ 186 \notin CodesIn(wire)
    BY <2>1, <2>6
  <2>8. "Up" \notin down /\ ~crossed
    BY <1>2 DEF code
  <2>9. ("LSHIFT" \in mod_state <=> "LShift" \in down)
        /\ ("RSHIFT" \in mod_state <=> "RShift" \in down)
    BY <2>7, <2>8 DEF ModInv, Settled, WillL, WillR
  <2>10. mod_state = {} <=> down \intersect Shifts = {}
    <3>1. mod_state \subseteq {"LSHIFT", "RSHIFT"}
      BY DEF ModInv, Modifiers
    <3>2. mod_state = {} <=> "LSHIFT" \notin mod_state /\ "RSHIFT" \notin mod_state
      BY <3>1
    <3>3. down \intersect Shifts = {} <=> "LShift" \notin down /\ "RShift" \notin down
      BY DEF Shifts
    <3> QED BY <2>9, <3>2, <3>3
  <2>11. caps \in BOOLEAN /\ ("CAPS" \in led_state <=> caps)
    BY <2>7 DEF CapsInv
  <2>12. new_char(code) = IF (mod_state = {}) # ("CAPS" \notin led_state)
                          THEN keyboard_map_shift[code] ELSE keyboard_map[code]
    BY DEF new_char, code
  <2>13. ((mod_state = {}) # ("CAPS" \notin led_state))
           <=> ((down \intersect Shifts # {}) # caps)
    BY <2>10, <2>11
  <2> QED BY <2>12, <2>13, Zenon DEF Meaning, code
<1> QED BY <1>1, <1>2

\* The keys of t hold an Enter.
HasEnter(t) == Ended(t, Len(t))

\* An Enter is in the history when it was there or is the new key.
LEMMA EnterAppended ==
  ASSUME NEW t \in Seq(0 .. 255), NEW c \in 0 .. 255
  PROVE  HasEnter(Append(t, c)) <=> HasEnter(t) \/ c = NL
BY AppendProperties DEF HasEnter, Ended

\* An Enter is in the ring when it is in front or behind the front.
LEMMA EnterTaken ==
  ASSUME NEW t \in Seq(0 .. 255), t # <<>>
  PROVE  HasEnter(t) <=> Head(t) = NL \/ HasEnter(Tail(t))
<1>1. /\ Len(t) \in Nat \ {0} /\ Len(Tail(t)) = Len(t) - 1 /\ Head(t) = t[1]
      /\ \A i \in 1 .. Len(t) - 1 : Tail(t)[i] = t[i + 1]
  <2>1. Len(t) \in Nat \ {0}
    BY EmptySeq
  <2> QED BY <2>1, HeadTailProperties
<1>2. ASSUME HasEnter(t), Head(t) # NL
      PROVE  HasEnter(Tail(t))
  <2>1. PICK i \in 1 .. Len(t) : t[i] = NL
    BY <1>2 DEF HasEnter, Ended
  <2>2. i - 1 \in 1 .. Len(t) - 1 /\ (i - 1) + 1 = i
    BY <1>1, <1>2, <2>1
  <2>3. Tail(t)[i - 1] = NL
    BY <1>1, <2>1, <2>2
  <2> QED BY <1>1, <2>2, <2>3 DEF HasEnter, Ended
<1>3. ASSUME Head(t) = NL
      PROVE  HasEnter(t)
  BY <1>1, <1>3 DEF HasEnter, Ended
<1>4. ASSUME HasEnter(Tail(t))
      PROVE  HasEnter(t)
  <2>1. PICK i \in 1 .. Len(t) - 1 : Tail(t)[i] = NL
    BY <1>1, <1>4 DEF HasEnter, Ended
  <2>2. i + 1 \in 1 .. Len(t) /\ t[i + 1] = NL
    BY <1>1, <2>1
  <2> QED BY <2>2 DEF HasEnter, Ended
<1> QED BY <1>2, <1>3, <1>4

(***************************************************************************)
(* What was typed and what the shell has.  The characters not yet in the   *)
(* line are those of Coming; while the flush runs, of the ring alone.      *)
(***************************************************************************)
LineInv ==
  ~lost =>
    /\ at \in {"read", "got"} =>
         /\ EditAll(str, Chars(text, Coming)) = EditAll(<<>>, meant)
         /\ HasEnter(Chars(text, Coming)) <=> HasEnter(meant)
    /\ at = "run" => str = EditAll(<<>>, meant) /\ HasEnter(meant)
    /\ at = "flush" /\ pc # "idle" => str = <<>> /\ Chars(text, unread) = meant

\* The strokes that are coming have characters.
LEMMA ComingType ==
  ASSUME Bounds, Numbers
  PROVE  /\ text \in Seq(1 .. 255) /\ unread \in Seq(0 .. Len(text))
         /\ Coming \in Seq(0 .. Len(text))
<1>1. /\ text \in Seq(1 .. 255) /\ Len(text) = pressed /\ unread \in Seq(1 .. pressed)
      /\ ret \in 0 .. pressed /\ pressed \in Nat
  BY DEF Numbers, Bounds, BufferTypeOK
<1>2. unread \in Seq(0 .. Len(text))
  BY <1>1
<1>3. <<ret>> \in Seq(0 .. Len(text))
  BY <1>1
<1>4. <<ret>> \o unread \in Seq(0 .. Len(text))
  BY <1>2, <1>3, ConcatProperties
<1> QED BY <1>1, <1>2, <1>4 DEF Coming

\* The stroke in dequeue's hands comes first.
LEMMA FirstComing ==
  ASSUME NEW n, NEW V, n \in V, NEW s \in Seq(V)
  PROVE  /\ <<n>> \o s \in Seq(V) /\ <<n>> \o s # <<>>
         /\ Head(<<n>> \o s) = n /\ Tail(<<n>> \o s) = s
<1> DEFINE r == <<n>>
           t == r \o s
<1>1. r \in Seq(V) /\ Len(r) = 1 /\ r[1] = n
  OBVIOUS
<1> HIDE DEF r
<1>2. /\ t \in Seq(V) /\ Len(t) = 1 + Len(s)
      /\ \A i \in 1 .. 1 + Len(s) : t[i] = IF i <= 1 THEN r[i] ELSE s[i - 1]
  <2>1. /\ t \in Seq(V) /\ Len(t) = Len(r) + Len(s)
        /\ \A i \in 1 .. Len(r) + Len(s) : t[i] = IF i <= Len(r) THEN r[i] ELSE s[i - Len(r)]
    BY ONLY <1>1, ConcatProperties, s \in Seq(V), Zenon
  <2> HIDE DEF t
  <2> QED BY <1>1, <2>1
<1> HIDE DEF t
<1>3. Len(s) \in Nat
  OBVIOUS
<1>4. t # <<>> /\ Head(t) = t[1] /\ t[1] = n
  <2>1. 1 \in 1 .. 1 + Len(s) /\ Len(t) # 0
    BY <1>2, <1>3
  <2>2. t # <<>>
    BY <1>2, <2>1, EmptySeq
  <2> QED BY <1>1, <1>2, <2>1, <2>2, HeadTailProperties
<1>5. /\ Tail(t) \in Seq(V) /\ Len(Tail(t)) = Len(s)
      /\ \A i \in 1 .. Len(s) : Tail(t)[i] = s[i]
  <2>1. Len(Tail(t)) = Len(s) /\ \A i \in 1 .. Len(s) : Tail(t)[i] = t[i + 1]
    BY <1>2, <1>3, <1>4, HeadTailProperties
  <2>2. \A i \in 1 .. Len(s) : t[i + 1] = s[i]
    BY <1>2, <1>3
  <2> QED BY <1>2, <1>4, <2>1, <2>2, HeadTailProperties
<1>6. Tail(t) = s
  <2> DEFINE e == Tail(t)
  <2>1. e \in Seq(V) /\ Len(e) = Len(s) /\ \A i \in 1 .. Len(e) : e[i] = s[i]
    BY <1>5
  <2> HIDE DEF e
  <2>2. e = s
    BY <2>1, SeqEqual
  <2> QED BY <2>2 DEF e
<1> QED BY <1>2, <1>4, <1>6 DEF t, r

LEMMA AppendBehind ==
  ASSUME NEW V, NEW n \in V, NEW s \in Seq(V), NEW x \in V
  PROVE  Append(<<n>> \o s, x) = <<n>> \o Append(s, x)
<1> DEFINE r == <<n>>
           e == <<x>>
<1>1. r \in Seq(V) /\ e \in Seq(V)
  OBVIOUS
<1> HIDE DEF r
<1>2. r \o s \in Seq(V)
  BY ONLY <1>1, ConcatProperties, s \in Seq(V), Zenon
<1>3. Append(r \o s, x) = (r \o s) \o e
  BY <1>2, AppendIsConcat, Zenon
<1>4. Append(s, x) = s \o e
  BY AppendIsConcat, Zenon
<1> HIDE DEF e
<1>5. (r \o s) \o e = r \o (s \o e)
  BY ONLY <1>1, ConcatAssociative, s \in Seq(V), SMTT(30)
<1> QED BY <1>3, <1>4, <1>5, Zenon DEF r

LEMMA FirstAndRest ==
  ASSUME NEW V, NEW s \in Seq(V), s # <<>>
  PROVE  <<Head(s)>> \o Tail(s) = s
<1> DEFINE r == <<Head(s)>>
           t == Tail(s)
           u == r \o t
<1>1. /\ Head(s) \in V /\ t \in Seq(V) /\ Len(t) = Len(s) - 1
      /\ \A i \in 1 .. Len(t) : t[i] = s[i + 1]
  BY HeadTailProperties
<1>2. Len(s) \in Nat \ {0} /\ Head(s) = s[1]
  BY EmptySeq
<1>3. r \in Seq(V) /\ Len(r) = 1 /\ r[1] = s[1]
  BY <1>1, <1>2
<1> HIDE DEF r, t
<1>4. /\ u \in Seq(V) /\ Len(u) = Len(r) + Len(t)
      /\ \A i \in 1 .. Len(r) + Len(t) : u[i] = IF i <= Len(r) THEN r[i] ELSE t[i - Len(r)]
  <2>1. r \in Seq(V) /\ t \in Seq(V)
    BY <1>1, <1>3
  <2> QED BY ONLY <2>1, ConcatProperties, Zenon
<1> HIDE DEF u
<1>5. Len(u) = Len(s)
  BY <1>1, <1>2, <1>3, <1>4
<1>6. ASSUME NEW i \in 1 .. Len(u) PROVE u[i] = s[i]
  <2>1. u[i] = IF i <= 1 THEN r[i] ELSE t[i - 1]
    BY <1>3, <1>4
  <2>2. i > 1 => t[i - 1] = s[(i - 1) + 1] /\ (i - 1) + 1 = i
    BY <1>1, <1>2, <1>5
  <2>3. i = 1 \/ i > 1
    BY <1>2, <1>5
  <2> QED BY <1>3, <2>1, <2>2, <2>3
<1>7. u = s
  BY ONLY <1>4, <1>5, <1>6, s \in Seq(V), SeqEqual
<1> QED BY <1>7 DEF u, r, t

\* A step that keeps what is coming, and where the shell is, keeps the line.
LEMMA LineStands ==
  ASSUME LineInv, UNCHANGED <<text, str, meant, unread>>, lost' <=> lost,
         \/ UNCHANGED <<at, Coming>> /\ (at # "flush" \/ pc # "idle" \/ pc' = "idle")
         \/ /\ at \in {"read", "got"} /\ at' \in {"read", "got"} /\ Coming' = Coming
  PROVE  LineInv'
BY DEF LineInv

\* The handler's stroke joins those that are coming and those that were typed.
LEMMA IsrLine ==
  ASSUME Bounds, PcInv, Numbers, Types, ModInv, Alone, CapsInv, LineInv, keyboard_isr
  PROVE  LineInv'
<1> DEFINE code == Head(wire)
           ch == new_char(code)
<1>0. /\ text \in Seq(1 .. 255) /\ Coming \in Seq(0 .. Len(text))
      /\ unread \in Seq(0 .. Len(text))
      /\ str \in Seq(1 .. 255) /\ meant \in Seq(0 .. 255) /\ Len(text) = pressed
  BY ComingType DEF Types, Numbers
<1>1. /\ wire # <<>> /\ UNCHANGED <<down, crossed, at, str>>
      /\ IF ch # 0 THEN KeyStroke /\ text' = Append(text, ch)
                   ELSE UNCHANGED <<buffervars, text>>
      /\ meant' = IF code \in DOMAIN keyboard_map
                  THEN Append(meant, Meaning(code)) ELSE meant
      /\ blurred' = (blurred \/ (/\ code \in DOMAIN keyboard_map
                                 /\ code # Code.Up
                                 /\ "Up" \in down \/ crossed))
  BY DEF keyboard_isr, line
<1>2. Code.Up = 72
  BY DEF Code
<1>3. CASE code \notin DOMAIN keyboard_map
  <2>1. ch = 0
    BY <1>3, Decoded
  <2>2. UNCHANGED <<buffervars, text, meant, at, str>> /\ (blurred' <=> blurred)
    BY <1>1, <1>3, <2>1
  <2>3. UNCHANGED <<unread, pc, ret, overflow, raced>>
    BY <2>2 DEF buffervars, main, history
  <2>4. (lost' <=> lost) /\ Coming' = Coming
    BY <2>2, <2>3 DEF lost, Coming
  <2> QED BY <2>2, <2>3, <2>4, LineStands
<1>4. CASE code \in DOMAIN keyboard_map
  <2> SUFFICES ASSUME ~lost'
               PROVE  LineInv'
    BY DEF LineInv
  <2>1. ch \in 1 .. 255 /\ ch \in 0 .. 255 /\ ch # 0
    <3>1. ch \in 1 .. 255
      BY <1>4, Decoded
    <3> QED BY <3>1
  <2>2. KeyStroke /\ text' = Append(text, ch)
    BY <1>1, <2>1
  <2>3. /\ unread' = Append(unread, pressed + 1) /\ UNCHANGED <<pc, ret>>
        /\ ~overflow /\ ~raced /\ pc # "clear_in"
    BY <2>2 DEF KeyStroke, main, lost
  <2>4. ~lost /\ (code = 72 \/ ("Up" \notin down /\ ~crossed))
    <3>1. ~blurred'
      BY DEF lost
    <3> QED BY <1>1, <1>2, <1>4, <2>3, <3>1 DEF lost
  <2>5. ch = Meaning(code)
    BY <1>1, <1>4, <2>4, StoresMeaning
  <2>6. meant' = Append(meant, ch)
    BY <1>1, <1>4, <2>5
  <2> HIDE DEF ch, code
  <2>7. Coming' = Append(Coming, pressed + 1)
    <3>1. CASE at = "got" \/ pc \in {"load_head", "store_head", "test_head", "wrap_head"}
      <4> DEFINE V == 0 .. pressed + 1
                 x == pressed + 1
      <4>1. ret \in V /\ x \in V /\ unread \in Seq(V)
        BY DEF Numbers, Bounds, BufferTypeOK
      <4> HIDE DEF V, x
      <4>2. Append(<<ret>> \o unread, x) = <<ret>> \o Append(unread, x)
        BY <4>1, AppendBehind
      <4>3. Coming = <<ret>> \o unread /\ Coming' = <<ret>> \o Append(unread, x)
        BY <1>1, <2>3, <3>1 DEF Coming, x
      <4> QED BY <4>2, <4>3 DEF x
    <3>2. CASE ~(at = "got" \/ pc \in {"load_head", "store_head", "test_head", "wrap_head"})
      BY <1>1, <2>3, <3>2 DEF Coming
    <3> QED BY <3>1, <3>2
  <2> DEFINE chars == Chars(text, Coming)
  <2>8. chars \in Seq(0 .. 255) /\ Chars(text', Coming') = Append(chars, ch)
    <3>1. chars \in Seq(0 .. 255)
      BY <1>0, CharsType
    <3>2. Chars(Append(text, ch), Append(Coming, Len(text) + 1)) = Append(chars, ch)
      BY <1>0, <2>1, CharsAppend
    <3> QED BY <1>0, <2>2, <2>7, <3>1, <3>2
  <2>9. Chars(text', unread') = Append(Chars(text, unread), ch)
    <3>1. Chars(Append(text, ch), Append(unread, Len(text) + 1))
            = Append(Chars(text, unread), ch)
      BY <1>0, <2>1, CharsAppend
    <3> QED BY <1>0, <2>2, <2>3, <3>1
  <2> HIDE DEF chars
  <2>10. /\ EditAll(str, Append(chars, ch)) =
               IF HasEnter(chars) \/ ch = NL THEN EditAll(str, chars)
               ELSE Edit(EditAll(str, chars), ch)
         /\ EditAll(<<>>, Append(meant, ch)) =
               IF HasEnter(meant) \/ ch = NL THEN EditAll(<<>>, meant)
               ELSE Edit(EditAll(<<>>, meant), ch)
    BY <1>0, <2>1, <2>8, EditAllAppend DEF HasEnter
  <2>11. /\ HasEnter(Append(chars, ch)) <=> HasEnter(chars) \/ ch = NL
         /\ HasEnter(Append(meant, ch)) <=> HasEnter(meant) \/ ch = NL
    BY <1>0, <2>1, <2>8, EnterAppended
  <2>12. ASSUME at' \in {"read", "got"}
         PROVE  /\ EditAll(str', Chars(text', Coming')) = EditAll(<<>>, meant')
                /\ HasEnter(Chars(text', Coming')) <=> HasEnter(meant')
    <3>1. at \in {"read", "got"}
      BY <1>1, <2>12
    <3>2. /\ EditAll(str, chars) = EditAll(<<>>, meant)
          /\ HasEnter(chars) <=> HasEnter(meant)
      BY <2>4, <3>1 DEF LineInv, chars
    <3>3. str' = str
      BY <1>1
    <3> QED BY <2>6, <2>8, <2>10, <2>11, <3>2, <3>3, Zenon
  <2>13. ASSUME at' = "run"
         PROVE  str' = EditAll(<<>>, meant') /\ HasEnter(meant')
    BY <1>1, <2>4, <2>6, <2>10, <2>11, <2>13 DEF LineInv
  <2>14. ASSUME at' = "flush", pc' # "idle"
         PROVE  str' = <<>> /\ Chars(text', unread') = meant'
    BY <1>1, <2>3, <2>4, <2>6, <2>9, <2>14 DEF LineInv
  <2> QED BY <2>12, <2>13, <2>14 DEF LineInv
<1> QED BY <1>3, <1>4

\* A step of dequeue moves the oldest stroke from the ring into its hands.
LEMMA GetLine ==
  ASSUME KeyInv, PcInv, LineInv, GetKey
  PROVE  LineInv'
<1>1. /\ at = "read" /\ UNCHANGED <<text, str, meant, blurred>>
      /\ at' = IF pc \in {"test_head", "wrap_head"} /\ pc' = "idle" THEN "got" ELSE "read"
  BY DEF GetKey, line
<1>2. pc = "idle" \/ pc \in GetSteps
  BY <1>1 DEF PcInv
<1>3. CASE StoreSize
  <2>1. /\ pc = "store_size" /\ pc' = "load_head" /\ UNCHANGED <<ret, overflow, raced>>
        /\ unread' = IF unread = <<>> THEN <<>> ELSE Tail(unread)
        /\ last' = ret
    BY <1>3 DEF StoreSize
  <2>2. lost' <=> lost
    BY <1>1, <2>1 DEF lost
  <2> SUFFICES ASSUME ~lost
               PROVE  LineInv'
    BY <2>2 DEF LineInv
  <2>3. unread # <<>> /\ ret = Head(unread)
    <3>1. Bounds /\ Ring
      BY DEF KeyInv, Clean, lost
    <3> QED BY <1>3, <2>1, <3>1, TakeRing
  <2>4. Coming' = <<ret>> \o Tail(unread) /\ Coming = unread
    BY <1>1, <2>1, <2>3 DEF Coming
  <2>5. <<Head(unread)>> \o Tail(unread) = unread
    <3>1. unread \in Seq(Strokes)
      BY DEF KeyInv, Bounds, BufferTypeOK
    <3> QED BY <2>3, <3>1, FirstAndRest
  <2>6. Coming' = Coming /\ at' = "read"
    BY <1>1, <2>1, <2>3, <2>4, <2>5
  <2> QED BY <1>1, <2>2, <2>6 DEF LineInv
<1>4. CASE ~StoreSize
  <2>1. /\ UNCHANGED <<unread, overflow, raced>>
        /\ \/ pc \in {"idle", "load_out", "load_data", "load_size"}
              /\ pc' \in {"idle", "load_out", "load_data", "load_size", "store_size"}
              /\ (pc' = "idle" => pc = "idle")
           \/ ret' = ret /\ pc = "load_head" /\ pc' = "store_head"
           \/ ret' = ret /\ pc = "store_head" /\ pc' = "test_head"
           \/ ret' = ret /\ pc = "test_head" /\ pc' \in {"wrap_head", "idle"}
           \/ ret' = ret /\ pc = "wrap_head" /\ pc' = "idle"
    <3>1. CASE GetEmpty
      BY <3>1 DEF GetEmpty, buffervars, main, history
    <3>2. CASE GetTest \/ LoadOut \/ LoadData \/ LoadSize
      BY <3>2 DEF GetTest, LoadOut, LoadData, LoadSize, history
    <3>3. CASE LoadHead \/ StoreHead \/ TestHead \/ WrapHead
      BY <3>3 DEF LoadHead, StoreHead, TestHead, WrapHead, history
    <3> QED BY <1>4, <3>1, <3>2, <3>3 DEF GetKey, keyboard_get_key
  <2>2. lost' <=> lost
    BY <1>1, <2>1 DEF lost
  <2>3. Coming' = Coming /\ at' \in {"read", "got"}
    <3>1. CASE pc \in {"idle", "load_out", "load_data", "load_size"}
      <4>1. /\ pc' \in {"idle", "load_out", "load_data", "load_size", "store_size"}
            /\ at' = "read"
        BY <1>1, <2>1, <3>1
      <4> QED BY <1>1, <2>1, <3>1, <4>1 DEF Coming
    <3>2. CASE pc \notin {"idle", "load_out", "load_data", "load_size"}
      <4>1. /\ ret' = ret /\ pc \in {"load_head", "store_head", "test_head", "wrap_head"}
            /\ \/ pc' \in {"store_head", "test_head", "wrap_head"}
               \/ pc' = "idle" /\ at' = "got"
        BY <1>1, <2>1, <3>2
      <4> QED BY <1>1, <2>1, <4>1 DEF Coming
    <3> QED BY <3>1, <3>2
  <2> QED BY <1>1, <2>1, <2>2, <2>3, LineStands
<1> QED BY <1>3, <1>4

\* The flush starts the line and the history over.
LEMMA FlushLine ==
  ASSUME Numbers, LineInv, console_flush
  PROVE  LineInv'
<1>1. /\ at = "flush" /\ at' = IF pc = "clear_out" THEN "read" ELSE "flush"
      /\ str' = <<>> /\ text' = text
      /\ IF pc = "idle" THEN meant' = <<>> /\ blurred' = FALSE
                        ELSE UNCHANGED <<meant, blurred>>
  BY DEF console_flush
<1>2. CASE ClearSize
  <2>1. pc = "idle" /\ pc' = "clear_in" /\ unread' = <<>>
    BY <1>2 DEF ClearSize
  <2>2. Chars(text, <<>>) = <<>>
    <3>1. text \in Seq(1 .. 255) /\ <<>> \in Seq(0 .. Len(text))
      BY DEF Numbers
    <3>2. Chars(text, <<>>) \in Seq(0 .. 255) /\ Len(Chars(text, <<>>)) = Len(<<>>)
      BY <3>1, CharsType
    <3> QED BY <3>2, EmptySeq
  <2> QED BY <1>1, <2>1, <2>2 DEF LineInv
<1>3. CASE ClearIn
  <2>1. pc = "clear_in" /\ pc' = "clear_out" /\ UNCHANGED <<unread, overflow, raced>>
    BY <1>3 DEF ClearIn, history
  <2>2. at' = "flush" /\ UNCHANGED <<meant, blurred>>
    BY <1>1, <2>1
  <2>3. lost' <=> lost
    BY <2>1, <2>2 DEF lost
  <2> QED BY <1>1, <2>1, <2>2, <2>3 DEF LineInv
<1>4. CASE ClearOut
  <2>1. pc = "clear_out" /\ pc' = "idle" /\ UNCHANGED <<unread, overflow, raced>>
    BY <1>4 DEF ClearOut, history
  <2>2. at' = "read" /\ UNCHANGED <<meant, blurred>>
    BY <1>1, <2>1
  <2>3. (lost' <=> lost) /\ Coming' = unread
    BY <2>1, <2>2 DEF lost, Coming
  <2>4. EditAll(<<>>, Chars(text, unread)) = EditAll(<<>>, Chars(text, unread))
    OBVIOUS
  <2> QED BY <1>1, <2>1, <2>2, <2>3 DEF LineInv
<1> QED BY <1>2, <1>3, <1>4 DEF console_flush, keyboard_clear_buffer

\* A turn of gets_s edits the line by the first of the characters coming.
LEMMA TurnLine ==
  ASSUME Bounds, PcInv, Numbers, Types, LineInv, gets_s
  PROVE  LineInv'
<1> DEFINE ch == Char(ret)
           chars == Chars(text, Coming)
<1>1. /\ at = "got" /\ at' = IF ch = NL THEN "run" ELSE "read"
      /\ str' = Edit(str, ch) /\ UNCHANGED <<meant, text, blurred, unread, pc, overflow, raced>>
  BY DEF gets_s, buffervars, main, history
<1>2. (lost' <=> lost) /\ pc = "idle"
  BY <1>1 DEF lost, PcInv
<1>3. Coming = <<ret>> \o unread /\ Coming' = unread
  BY <1>1, <1>2 DEF Coming
<1>4. /\ text \in Seq(1 .. 255) /\ Coming \in Seq(0 .. Len(text))
      /\ unread \in Seq(0 .. Len(text)) /\ ret \in 0 .. Len(text)
  BY ComingType DEF Numbers
<1>5. Coming # <<>> /\ Head(Coming) = ret /\ Tail(Coming) = unread
  BY <1>3, <1>4, FirstComing
<1>6. /\ chars \in Seq(0 .. 255) /\ chars # <<>>
      /\ Head(chars) = ch /\ Tail(chars) = Chars(text, unread)
  <2>1. chars \in Seq(0 .. 255)
    BY <1>4, CharsType
  <2>2. /\ chars # <<>> /\ Head(chars) = CharIn(text, Head(Coming))
        /\ Tail(chars) = Chars(text, Tail(Coming))
    BY <1>4, <1>5, CharsTail
  <2> QED BY <1>5, <2>1, <2>2, GotChar
<1> SUFFICES ASSUME ~lost
             PROVE  LineInv'
  BY <1>2 DEF LineInv
<1>7. /\ EditAll(str, chars) = EditAll(<<>>, meant)
      /\ HasEnter(chars) <=> HasEnter(meant)
  BY <1>1 DEF LineInv
<1> HIDE DEF chars, ch
<1>8. /\ EditAll(str, chars) = IF ch = NL THEN str ELSE EditAll(Edit(str, ch), Tail(chars))
      /\ HasEnter(chars) <=> ch = NL \/ HasEnter(Tail(chars))
  BY <1>6, EditAllHead, EnterTaken
<1>9. ch = NL => Edit(str, ch) = str
  BY DEF Edit, NL, BS
<1>10. CASE ch = NL
  BY <1>1, <1>7, <1>8, <1>9, <1>10 DEF LineInv
<1>11. CASE ch # NL
  BY <1>1, <1>3, <1>6, <1>7, <1>8, <1>11 DEF LineInv
<1> QED BY <1>10, <1>11

\* No step loses, doubles, reorders or changes a stroke.
LEMMA NextLine ==
  ASSUME KeyInv, PcInv, Numbers, Types, ModInv, Alone, CapsInv, LineInv, [Next]_vars
  PROVE  LineInv'
<1>0. Bounds
  BY DEF KeyInv
<1>1. CASE PutPrompt
  <2>1. at' = "flush" /\ pc' = "idle"
    BY <1>1 DEF PutPrompt, PcInv, buffervars, main
  <2> QED BY <2>1 DEF LineInv
<1>2. CASE RunCommand
  <2>1. at' \in {"halt", "prompt"}
    BY <1>2 DEF RunCommand
  <2> QED BY <2>1 DEF LineInv
<1>3. CASE UNCHANGED <<buffervars, at, str, text, meant, blurred>>
  <2>1. UNCHANGED <<unread, pc, ret, overflow, raced, at, str, text, meant, blurred>>
    BY <1>3 DEF buffervars, main, history
  <2>2. (lost' <=> lost) /\ Coming' = Coming
    BY <2>1 DEF lost, Coming
  <2> QED BY <2>1, <2>2, LineStands
<1>4. ASSUME NEW k \in Keys, Press(k) \/ Repeat(k) \/ Release(k)
      PROVE  UNCHANGED <<buffervars, at, str, text, meant, blurred>>
  BY <1>4 DEF Press, Repeat, Release, line
<1>5. ASSUME UNCHANGED vars
      PROVE  UNCHANGED <<buffervars, at, str, text, meant, blurred>>
  BY <1>5 DEF vars, line
<1> QED BY <1>0, <1>1, <1>2, <1>3, <1>4, <1>5, IsrLine, GetLine, FlushLine, TurnLine
        DEF Next, shell_loop

-----------------------------------------------------------------------------
\* The inductive invariant: what the ring holds wherever the handler finds
\* main, what the codes under way will do to the modifiers and to the Caps Lock
\* light, what the strokes under way will do to the line, and what the screen
\* shows of it.
KeyboardInv ==
  /\ KeyInv /\ PcInv /\ Numbers
  /\ ModInv /\ Alone /\ CapsInv
  /\ Types /\ ScreenInv /\ LineInv

\* The program starts with an empty ring, screen and history.
LEMMA InitKeyboard == Init => KeyboardInv
<1> SUFFICES ASSUME Init PROVE KeyboardInv
  OBVIOUS
<1> USE DEF Init
<1>1. KeyInv
  BY InitBounds, InitRing DEF KeyInv
<1>2. PcInv
  BY DEF PcInv, BufferInit
<1>3. Numbers
  BY EmptySeq DEF Numbers, BufferInit
<1>4. ModInv
  BY CodesFew, EmptySeq DEF ModInv, WireOK, OneSided, Settled, WillL, WillR
<1>5. Alone /\ CapsInv
  BY CodesFew DEF Alone, CapsInv
<1>6. Types
  BY LineSizeAssumption, EmptySeq DEF Types
<1>7. ScreenInv /\ LineInv
  BY DEF ScreenInv, LineInv
<1> QED BY <1>1, <1>2, <1>3, <1>4, <1>5, <1>6, <1>7 DEF KeyboardInv

\* With no prefixed key held and every code taken, mod_state is what the keys
\* held say, or a right shift crossed the keyboard's own left one; wherever the
\* handler interrupts dequeue and the flush, the line of gets_s with the strokes
\* still coming is the line typed, as long as no stroke was dropped or typed
\* under the wrong shifts; and while echo and gets_s agree on every key the
\* screen shows that line (keyboard_isr, dequeue, clear_queue, console_read,
\* gets_s).
THEOREM KeyboardSafe ==
  Spec => [](ModifiersFollowKeys /\ LineIsTyped /\ ScreenShowsLine)
<1>1. Init => KeyboardInv
  BY InitKeyboard
<1>2. KeyboardInv /\ [Next]_vars => KeyboardInv'
  <2> SUFFICES ASSUME KeyboardInv, [Next]_vars
               PROVE  KeyboardInv'
    OBVIOUS
  <2>0. Bounds
    BY DEF KeyboardInv, KeyInv
  <2>1. KeyInv'
    BY StepsOfBuffer, NextKeyInv DEF KeyboardInv
  <2>2. PcInv' /\ Numbers'
    BY <2>0, NextPc, NextNumbers DEF KeyboardInv
  <2>3. ModInv' /\ Alone' /\ CapsInv'
    BY NextMod, NextAlone, NextCaps DEF KeyboardInv
  <2>4. Types' /\ ScreenInv'
    BY NextTypes, NextScreen DEF KeyboardInv
  <2>5. LineInv'
    BY NextLine DEF KeyboardInv
  <2> QED BY <2>1, <2>2, <2>3, <2>4, <2>5 DEF KeyboardInv
<1>3. KeyboardInv => ModifiersFollowKeys
  <2> SUFFICES ASSUME KeyboardInv, wire = <<>>, "Up" \notin down
               PROVE  ModifiersFollowKeys
    BY DEF ModifiersFollowKeys
  <2>1. CodesIn(wire) = {}
    BY CodesFew
  <2>2. /\ ("RSHIFT" \in mod_state <=> "RShift" \in down)
        /\ ("LShift" \in down => "LSHIFT" \in mod_state)
        /\ ("LSHIFT" \in mod_state => "LShift" \in down \/ crossed)
    BY <2>1 DEF KeyboardInv, ModInv, Settled, WillL, WillR
  <2>3. mod_state \subseteq {"LSHIFT", "RSHIFT"}
    BY DEF KeyboardInv, ModInv, Modifiers
  <2> DEFINE keys == {m \in Modifiers : \/ m = "LSHIFT" /\ "LShift" \in down
                                        \/ m = "RSHIFT" /\ "RShift" \in down}
  <2>4. /\ "LSHIFT" \in keys <=> "LShift" \in down
        /\ "RSHIFT" \in keys <=> "RShift" \in down
        /\ keys \subseteq {"LSHIFT", "RSHIFT"}
    BY DEF Modifiers
  <2> HIDE DEF keys
  <2>5. mod_state = keys \/ (crossed /\ mod_state = keys \union {"LSHIFT"})
    <3>1. CASE "LSHIFT" \in mod_state <=> "LSHIFT" \in keys
      <4>1. "RSHIFT" \in mod_state <=> "RSHIFT" \in keys
        BY <2>2, <2>4
      <4>2. \A m : m \in mod_state <=> m \in keys
        BY <2>3, <2>4, <3>1, <4>1
      <4>3. mod_state = keys
        BY <4>2, Zenon
      <4> QED BY <4>3
    <3>2. CASE ~("LSHIFT" \in mod_state <=> "LSHIFT" \in keys)
      <4>1. crossed /\ "LSHIFT" \in mod_state
        BY <2>2, <2>4, <3>2
      <4>2. "RSHIFT" \in mod_state <=> "RSHIFT" \in keys
        BY <2>2, <2>4
      <4>3. \A m : m \in mod_state <=> m \in keys \union {"LSHIFT"}
        BY <2>3, <2>4, <4>1, <4>2
      <4>4. mod_state = keys \union {"LSHIFT"}
        BY <4>3, Zenon
      <4> QED BY <4>1, <4>4
    <3> QED BY <3>1, <3>2
  <2> QED BY <2>5 DEF ModifiersFollowKeys, keys
<1>4. KeyboardInv => LineIsTyped /\ ScreenShowsLine
  <2> SUFFICES ASSUME KeyboardInv
               PROVE  LineIsTyped /\ ScreenShowsLine
    OBVIOUS
  <2>1. CharsOf(Coming) = Chars(text, Coming)
    BY CharsOfIs
  <2> QED BY <2>1 DEF KeyboardInv, LineInv, LineIsTyped, ScreenInv, ScreenShowsLine
<1> QED BY <1>1, <1>2, <1>3, <1>4, PTL DEF Spec
=============================================================================
