------------------------------ MODULE Strings ------------------------------
(***************************************************************************)
(* lib/std/string.c over a small memory of bytes.  A function's loop is a  *)
(* recursive function of the passes it has made, or of those it can still  *)
(* make.  What lies outside the memory is not modelled: the passes end at  *)
(* its ends, and the arguments that would lead there are left out of the   *)
(* reference.                                                              *)
(***************************************************************************)
EXTENDS Integers

CONSTANTS
  MemSize,       \* bytes of memory
  ByteValues,    \* what a byte holds
  ByteRange      \* 256

ASSUME MemoryAssumption == MemSize \in Nat

ASSUME ByteAssumption ==
  /\ ByteRange \in Nat /\ ByteRange >= 2
  /\ ByteValues \subseteq 0 .. ByteRange - 1 /\ 0 \in ByteValues

VARIABLE mem     \* the memory a function is called with, any there is

Address == 0 .. MemSize - 1
NULL == -1

StringsInit == mem \in [Address -> ByteValues]
StringsSpec == StringsInit /\ [][FALSE]_mem

\* A byte read through a char pointer.
Char(byte) == IF byte < ByteRange \div 2 THEN byte ELSE byte - ByteRange

-----------------------------------------------------------------------------
\* Copies n bytes one at a time, upwards or downwards.
Copy(m, dest, src, n, step) ==
  LET after[k \in 0 .. n] ==
        IF k = 0 THEN m
        ELSE LET p == after[k - 1]
                 i == (k - 1) * step
             IN  [p EXCEPT ![dest + i] = p[src + i]]
  IN  after[n]

\* Mutant of memmove: always upwards.
memmove_Upwards(m, dest, src, n) == Copy(m, dest, src, n, 1)

memmove(m, dest, src, n) ==
  IF dest < src THEN Copy(m, dest, src, n, 1)
  ELSE IF dest > src THEN Copy(m, dest + n - 1, src + n - 1, n, -1)
  ELSE m

\* The copy that stops behind the first c it meets, in the direction it goes:
\* where it stopped and whether it met c.
CopyUntil(m, dest, src, c, n, step) ==
  LET after[k \in 0 .. n] ==
        IF k = 0 THEN [mem |-> m, ret |-> NULL]
        ELSE LET p == after[k - 1]
                 i == (k - 1) * step
             IN  IF p.ret # NULL THEN p
                 ELSE [mem |-> [p.mem EXCEPT ![dest + i] = p.mem[src + i]],
                       ret |-> IF p.mem[src + i] = c THEN dest + i + step ELSE NULL]
  IN  after[n]

memccpy(m, dest, src, c, n) ==
  IF dest > src THEN CopyUntil(m, dest + n - 1, src + n - 1, c, n, -1)
  ELSE CopyUntil(m, dest, src, c, n, 1)

memset(m, dest, c, n) == [a \in Address |-> IF a \in dest .. dest + n - 1 THEN c ELSE m[a]]

\* The bytes are read unsigned and compared with a signed char.
memchr(m, src, c, n) ==
  LET found[k \in 0 .. n] ==
        IF k = 0 THEN NULL
        ELSE IF m[src + n - k] = Char(c) THEN src + n - k ELSE found[k - 1]
  IN  found[n]

memcmp(m, s1, s2, n) ==
  LET cmp[k \in 0 .. n] ==
        IF k = 0 THEN 0
        ELSE LET i == n - k
             IN  IF m[s1 + i] # m[s2 + i] THEN m[s1 + i] - m[s2 + i] ELSE cmp[k - 1]
  IN  cmp[n]

strlen(m, str) ==
  LET n == MemSize - str
      len[k \in 0 .. n] ==
        IF k = 0 THEN n ELSE IF m[str + n - k] = 0 THEN n - k ELSE len[k - 1]
  IN  len[n]

strncmp(m, s1, s2, max) ==
  LET cmp[k \in 0 .. max] ==
        IF k = 0 THEN 0
        ELSE LET i == max - k
             IN  IF m[s1 + i] # m[s2 + i] THEN Char(m[s1 + i]) - Char(m[s2 + i])
                 ELSE IF m[s1 + i] = 0 THEN 0 ELSE cmp[k - 1]
  IN  cmp[max]

\* Without an end, which is the memory's.
strcmp(m, s1, s2) == strncmp(m, s1, s2, MemSize)

\* Copies up to a 0, which is not copied, in at most n passes: the memory and
\* the bytes copied.
CopyText(m, dest, src, n, step) ==
  LET after[k \in 0 .. n] ==
        IF k = 0 THEN [mem |-> m, len |-> 0]
        ELSE LET p == after[k - 1]
                 i == (k - 1) * step
             IN  IF p.len < k - 1 \/ p.mem[src + i] = 0 THEN p
                 ELSE [mem |-> [p.mem EXCEPT ![dest + i] = p.mem[src + i]], len |-> k]
  IN  after[n]

strcat(m, dest, src) ==
  LET d == strlen(m, dest)
      copied == CopyText(m, dest + d, src, MemSize - src, 1)
  IN  [copied.mem EXCEPT ![dest + d + copied.len] = 0]

\* The terminator is not copied.  Downwards the copy does not count and goes on
\* until it meets a 0 below the source; below the memory there is one.
strcpy(m, dest, src) ==
  LET n == strlen(m, src)
  IN  IF dest < src THEN CopyText(m, dest, src, MemSize - src, 1).mem
      ELSE IF dest > src THEN CopyText(m, dest + n - 1, src + n - 1, src + n, -1).mem
      ELSE m

-----------------------------------------------------------------------------
Block(a, n) == a .. a + n - 1
Apart(a, b, n) == Block(a, n) \intersect Block(b, n) = {}
IsString(str) == \E a \in str .. MemSize - 1 : mem[a] = 0
Sign(i) == IF i < 0 THEN -1 ELSE IF i = 0 THEN 0 ELSE 1

Lowest(S) == {i \in S : \A j \in S : i <= j}

\* Where the bytes at a and b differ.
Differ(a, b, n) == {i \in 0 .. n - 1 : mem[a + i] # mem[b + i]}

\* The memory after dest's n bytes have become those at src.
Moved(dest, src, n) ==
  [a \in Address |-> IF a \in Block(dest, n) THEN mem[src + a - dest] ELSE mem[a]]

\* memmove copies blocks that overlap, and so does memccpy, up to the first c.
\* Where the destination is above the source memccpy copies from the end and
\* stops at the last c instead, against its comment: left out.
CopiesBlocks ==
  \A dest, src \in Address, n \in 0 .. MemSize :
    dest + n <= MemSize /\ src + n <= MemSize =>
      /\ memmove(mem, dest, src, n) = Moved(dest, src, n)
      /\ \A c \in ByteValues :
           LET hits == {i \in 0 .. n - 1 : mem[src + i] = c}
               result == memccpy(mem, dest, src, c, n)
           IN  /\ hits = {} => result = [mem |-> Moved(dest, src, n), ret |-> NULL]
               /\ dest <= src => \A i \in Lowest(hits) :
                    result = [mem |-> Moved(dest, src, i + 1), ret |-> dest + i + 1]

\* memcmp and strncmp decide at the first difference, bytes unsigned and
\* characters signed.  memchr finds the first byte equal to c; a negative c it
\* never finds, against its comment: left out.
ComparesBytes ==
  \A a, b \in Address, n \in 0 .. MemSize :
    a + n <= MemSize /\ b + n <= MemSize =>
      LET diff == Differ(a, b, n)
          ends == {i \in 0 .. n - 1 : mem[a + i] = 0 /\ mem[b + i] = 0}
      IN  /\ diff = {} => memcmp(mem, a, b, n) = 0 /\ strncmp(mem, a, b, n) = 0
          /\ \A i \in Lowest(diff) :
               /\ Sign(memcmp(mem, a, b, n)) = Sign(mem[a + i] - mem[b + i])
               /\ Sign(strncmp(mem, a, b, n)) =
                    IF \E j \in ends : j < i THEN 0
                    ELSE Sign(Char(mem[a + i]) - Char(mem[b + i]))
          /\ \A c \in ByteValues :
               LET hits == {i \in 0 .. n - 1 : mem[a + i] = c}
               IN  /\ n > 0 /\ Char(c) >= 0 => memchr(memset(mem, a, c, n), a, c, n) = a
                   /\ hits = {} => memchr(mem, a, c, n) = NULL
                   /\ Char(c) >= 0 => \A i \in Lowest(hits) : memchr(mem, a, c, n) = a + i

\* strcmp tells strings apart by their text; strcat leaves their concatenation.
\* strcpy copies the text and disturbs nothing else.  Whether a string ends
\* there is left out: the 0 is not copied, against the comment, so it does
\* where dest had one already.  Left out too are the copies downwards without
\* a 0 below the source, which take along what lies there.
HandlesStrings ==
  \A dest, src \in {a \in Address : IsString(a)} :
    LET d == strlen(mem, dest)
        s == strlen(mem, src)
        equal == s = d /\ Differ(dest, src, s) = {}
        joined == strcat(mem, dest, src)
        copied == strcpy(mem, dest, src)
    IN  /\ (strcmp(mem, dest, src) = 0) <=> equal
        /\ Apart(dest, src, d + s + 1) /\ dest + d + s < MemSize =>
             joined = [Moved(dest + d, src, s) EXCEPT ![dest + d + s] = 0]
        /\ /\ Apart(dest, src, s + 1) /\ dest + s < MemSize
           /\ dest < src \/ src = 0 \/ mem[src - 1] = 0
           =>
               /\ \A a \in Address \ {dest + s} : copied[a] = Moved(dest, src, s)[a]
               /\ mem[dest + s] = 0 => strcmp(copied, dest, src) = 0

\* The functions do what string.c's comments promise, whatever memory there is,
\* in the calls that the three parts do not leave out.
StringsAgree ==
  mem \in [Address -> ByteValues] => CopiesBlocks /\ ComparesBytes /\ HandlesStrings
=============================================================================
