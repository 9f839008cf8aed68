------------------------------- MODULE Format -------------------------------
(***************************************************************************)
(* printf's conversions of integers and the functions of lib/std/stdio.c   *)
(* that print a number, without digit and group separators, which no       *)
(* caller asks for, and for bases below 36.  A character is its digit's    *)
(* value or one of the negative numbers below; what is printed is a        *)
(* sequence of them, whose length is the count that is returned.           *)
(***************************************************************************)
EXTENDS Integers, Sequences

CONSTANTS
  HighBit,       \* of an int: 2^31
  Bases,         \* those that numbers are printed in
  MaxLength,     \* bound on the width asked for
  WidthDigits,   \* digits between % and the conversion's letter
  StarWidths,    \* widths given as an argument, for a *
  MaxFlags,      \* bound on the characters there
  Befores        \* characters a call printed before its conversion

ASSUME FormatAssumption ==
  /\ HighBit \in Nat \ {0} /\ MaxLength \in Nat /\ MaxFlags \in Nat
  /\ Bases \subseteq 2 .. 35 /\ {2, 8, 10, 16} \subseteq Bases
  /\ WidthDigits \subseteq 0 .. 9 /\ StarWidths \subseteq Nat /\ Befores \subseteq Nat

\* The characters that are not digits, and a pad of 0.
Minus == -1
Plus == -2
Space == -3
NoPad == -4
Radix == -5      \* the x of 0x
Hash == -6
Dot == -7
Star(width) == -8 - width      \* a * with its argument

Ints == -HighBit .. HighBit - 1
Unsigned(n) == n % (2 * HighBit)

VARIABLE num     \* the number to print, any there is

FormatInit == num \in Ints
FormatSpec == FormatInit /\ [][FALSE]_num

-----------------------------------------------------------------------------
Leads(neg) == neg \in {"NLEAD", "PLEAD"}
Embeds(neg) == neg \in {"NEMBED", "PEMBED"}

\* Before the digits: the padding of the deepest call, a sign embedded in its
\* last place or, when it has none, in front of the first digit.
Padding(length, pad, neg, depth, sign) ==
  LET embedded == IF sign /\ Embeds(neg) THEN Minus
                  ELSE IF ~sign /\ neg = "PEMBED" THEN Plus ELSE pad
      full == IF sign /\ neg = "NEMBED" THEN <<Minus>>
              ELSE IF ~sign /\ Embeds(neg) THEN <<Plus>> ELSE <<>>
  IN  IF pad = NoPad \/ length = depth + 1 THEN <<>>
      ELSE IF length <= depth THEN full
      ELSE [i \in 1 .. length - depth - 1 |-> IF i = length - depth - 1 THEN embedded ELSE pad]

\* Mutant of SignDepth: a sign in front does not count as a place.
SignDepth_Zero(front) == 0

SignDepth(front) == Len(front)

\* The last digit is printed behind the digits of the quotient, by a call of
\* its own for each.
Digits(base) ==
  LET digits[n \in 0 .. 2 * HighBit - 1] ==
        Append(IF n \div base # 0 THEN digits[n \div base] ELSE <<>>, n % base)
  IN  digits

\* The first call finds the sign; a quotient is not negative and has a depth.
\* The deepest call is the one for the first digit.
putnum(n, base, length, pad, neg) ==
  LET negative == neg # "NONE" /\ n < 0
      front == IF negative /\ Leads(neg) THEN <<Minus>>
               ELSE IF ~negative /\ neg = "PLEAD" THEN <<Plus>> ELSE <<>>
      digits == Digits(base)[Unsigned(IF negative THEN -n ELSE n)]
      depth == SignDepth(front) + Len(digits) - 1
  IN  (front \o Padding(length, pad, neg, depth, negative)) \o digits

putbin(n) == putnum(n, 2, 0, NoPad, "NONE")
putoct(n) == putnum(n, 8, 0, NoPad, "NONE")
putint(n) == putnum(n, 10, 0, NoPad, "NEMBED")
puthex(n) == putnum(n, 16, 0, NoPad, "NONE")

-----------------------------------------------------------------------------
Directive == [left |-> FALSE, radix |-> FALSE, sign |-> "NLEAD", pad |-> Space,
              width |-> 0, dot |-> FALSE]

\* One character between % and the letter.  Behind a dot digits and * are the
\* precision, which only %f uses.
Flag(d, flag) ==
  IF flag = Minus THEN [d EXCEPT !.left = TRUE]
  ELSE IF flag = Plus THEN [d EXCEPT !.sign = "PLEAD"]
  ELSE IF flag = Hash THEN [d EXCEPT !.radix = TRUE]
  ELSE IF flag = Dot THEN [d EXCEPT !.dot = TRUE]
  ELSE IF flag = 0 /\ (d.width = 0 \/ d.dot) THEN [d EXCEPT !.pad = 0]
  ELSE IF d.dot THEN d
  ELSE IF flag >= 0 THEN [d EXCEPT !.width = Unsigned(10 * @ + flag)]
  ELSE [d EXCEPT !.width = Star(0) - flag]

Parse(flags) ==
  LET parse[k \in 0 .. Len(flags)] ==
        IF k = 0 THEN Directive ELSE Flag(parse[k - 1], flags[k])
  IN  parse[Len(flags)]

Base(type) == IF type \in {"d", "u"} THEN 10 ELSE IF type = "o" THEN 8 ELSE 16

\* The 0x of %p and what # puts in front.
Prefix(type, d) ==
  (IF type = "p" THEN <<0, Radix>> ELSE <<>>)
  \o (IF ~d.radix \/ type \in {"d", "u"} THEN <<>>
      ELSE IF type = "o" THEN <<0>> ELSE <<0, Radix>>)

\* One conversion, and what the call printed before it.  For - , spaces follow
\* a number that is longer than the width, as many as all up to the width.
printf(flags, type, n, before) ==
  LET d == Parse(flags)
      width == IF type = "p" THEN 8 ELSE d.width
      sign == IF type \in {"d", "u"} THEN d.sign ELSE "NONE"
      out == Prefix(type, d) \o putnum(n, Base(type), width, d.pad, sign)
  IN  out \o (IF d.left /\ width < Len(out) THEN [i \in 1 .. before + width |-> Space] ELSE <<>>)

-----------------------------------------------------------------------------
\* What a reader makes of the characters: the value of the digits and a sign.
Value(out, base) ==
  LET value[i \in 0 .. Len(out)] ==
        IF i = 0 THEN 0
        ELSE LET v == value[i - 1] IN IF out[i] >= 0 THEN base * v + out[i] ELSE v
  IN  value[Len(out)]

Negative(out) == \E i \in DOMAIN out : out[i] = Minus

Reads(out, base) == IF Negative(out) THEN -Value(out, base) ELSE Value(out, base)

\* A number without padding.
Plain(n, base, neg) == putnum(n, base, 0, NoPad, neg)

\* Nothing but digits and no 0 in front, unless it is all.
IsNumeral(out, base) ==
  /\ out # <<>> /\ \A i \in DOMAIN out : out[i] \in 0 .. base - 1
  /\ out[1] = 0 => Len(out) = 1

Magnitude == IF num < 0 THEN -num ELSE num
Bigger(a, b) == IF a < b THEN b ELSE a

\* A sign in front: the output reads back as the number, and fills its width
\* or what the number and the sign need.  A negative sign embedded in the
\* padding is shown, and a positive one is not.  Left out is what the code does
\* against the comment on PUTNUM_SIGN_NEMBED: a minus is lost without a pad and
\* when the digits fill the width to the last place, and a plus is printed when
\* they exceed it.
PutsNumber ==
  \A base \in Bases, width \in 0 .. MaxLength, pad \in {NoPad, Space, 0} :
    LET prints(neg) == putnum(num, base, width, pad, neg)
        plain(neg) == Plain(num, base, neg)
        digits == Digits(base)[Magnitude]
        fills(neg) == Len(prints(neg)) =
                        IF pad = NoPad THEN Len(plain(neg)) ELSE Bigger(Len(plain(neg)), width)
    IN  /\ IsNumeral(digits, base) /\ Value(digits, base) = Magnitude
        /\ plain("NLEAD") = (IF num < 0 THEN <<Minus>> ELSE <<>>) \o digits
        /\ plain("PLEAD") = (IF num < 0 THEN <<Minus>> ELSE <<Plus>>) \o digits
        /\ \A neg \in {"NLEAD", "PLEAD"} : Reads(prints(neg), base) = num /\ fills(neg)
        /\ Reads(prints("NONE"), base) = Unsigned(num) /\ fills("NONE")
        /\ IsNumeral(plain("NONE"), base)
        /\ num < 0 /\ pad # NoPad /\ width # Len(digits) => Reads(prints("NEMBED"), base) = num
        /\ num >= 0 /\ (pad = NoPad \/ width >= Len(digits)) => prints("NEMBED") = prints("NONE")

\* The functions above putnum.  putint of a negative number, which prints it
\* without its sign, is left out.
PutsInt ==
  /\ Unsigned(num) = Reads(putbin(num), 2)
  /\ Unsigned(num) = Reads(putoct(num), 8)
  /\ Unsigned(num) = Reads(puthex(num), 16)
  /\ num >= 0 => Reads(putint(num), 10) = num

FlagChars == {Minus, Plus, Hash, Dot} \union WidthDigits \union {Star(width) : width \in StarWidths}
Flags == UNION {[1 .. n -> FlagChars] : n \in 0 .. MaxFlags}

\* Whatever flags there are in whatever order, and whatever the call printed
\* before, the number is not lost; without - it fills its width or what it
\* needs.  Left out are %u of a number with the highest bit, which is printed as
\* a negative one, and the length with - , which pads behind a number that is
\* longer than its width.
PrintfNumber ==
  \A flags \in Flags, type \in {"d", "u", "x", "o", "p"}, before \in Befores :
    LET d == Parse(flags)
        out == printf(flags, type, num, before)
        decimal == type = "d" \/ (type = "u" /\ num >= 0)
    IN  /\ type \notin {"d", "u"} => Reads(out, Base(type)) = Unsigned(num)
        /\ decimal => Reads(out, 10) = num
        /\ decimal /\ ~d.left => Len(out) = Bigger(Len(Plain(num, 10, d.sign)), d.width)

\* The numbers printed are the numbers given, in the calls that the three parts
\* do not leave out.
FormatRight == num \in Ints => PutsNumber /\ PutsInt /\ PrintfNumber
=============================================================================
