-------------------------------- MODULE Heap --------------------------------
(***************************************************************************)
(* heap_init, malloc and free of lib/std/stdlib.c on one heap space.       *)
(* Addresses and sizes count words; a block is a pointer to the block      *)
(* before it, its size with the used flag, and the words of its user.      *)
(***************************************************************************)
EXTENDS Integers, FiniteSets

CONSTANTS
  HeapSize,      \* words of the heap space, which starts at HeapStart
  Requests,      \* the sizes in bytes that users ask for
  UserWords,     \* what users write, and what memory holds before
  MaxMallocs     \* bound on calls of malloc

HEAP_BLOCK_USED == 1024          \* a bit above every size

ASSUME HeapAssumption ==
  /\ HeapSize \in 4 .. HEAP_BLOCK_USED - 2
  /\ Requests \subseteq Nat /\ UserWords \subseteq Nat

VARIABLES
  heap,          \* the words, those just past the end included
  used, free_count,
  live,          \* history: the words each user asked for and fills, by pointer
  mallocs,       \* bound
  misjoined      \* history: free joined a block to what is not a free block

hvars == <<heap, used, free_count, live, mallocs, misjoined>>

HeapStart == 1
HEAP_HEAD_SIZE == 2
HEAP_ALIGN == 4
HeapEnd == HeapStart + HeapSize
Words == HeapStart .. HeapEnd + 2

Wrapped(word) == word % (2 * HEAP_BLOCK_USED)     \* the word's width
Size(block) == heap[block + 1] % HEAP_BLOCK_USED
IsUsed(block) == heap[block + 1] >= HEAP_BLOCK_USED

-----------------------------------------------------------------------------
First == HeapStart + HEAP_HEAD_SIZE

\* heap_init: no other space, the space's size, its last word 0, one free block.
\* The block's size is one too large, so its last word is the one at HeapEnd.
\* The other words, those past the end included, hold whatever they held.
HeapInit ==
  /\ \E word \in UserWords :
       heap = [a \in Words |-> IF a = HeapStart + 1 THEN HeapSize
                              ELSE IF a = First + 1 THEN HeapSize - HEAP_HEAD_SIZE + 1
                              ELSE IF a \in {HeapStart, First, HeapEnd - 1} THEN 0
                              ELSE word]
  /\ used = 0 /\ free_count = HeapSize
  /\ live = <<>> /\ mallocs = 0 /\ misjoined = FALSE

\* Mutant of Need: not rounded up.
Need_Down(bytes) == (bytes \div HEAP_ALIGN) + HEAP_HEAD_SIZE

\* Rounded up, always by at least a byte, and with its header.
Need(bytes) == (bytes + HEAP_ALIGN - (bytes % HEAP_ALIGN)) \div HEAP_ALIGN + HEAP_HEAD_SIZE

\* The blocks that malloc's walk passes: each starts where the one before ends.
Blocks ==
  LET walked[n \in 0 .. HeapSize] ==
        IF n = 0 THEN {First}
        ELSE LET passed == walked[n - 1] IN
             passed \union {b + Size(b) : b \in {c \in passed : c < HeapEnd}}
  IN  {b \in walked[HeapSize] : b < HeapEnd}

Fits(b, size) == ~IsUsed(b) /\ Size(b) >= size

Splits(block, size) == Size(block) - size >= HEAP_HEAD_SIZE

\* The first block that fits is split when a header fits into the rest.
malloc(bytes) ==
  /\ mallocs < MaxMallocs
  /\ mallocs' = mallocs + 1
  /\ LET fits == {b \in Blocks : Fits(b, Need(bytes))} IN
     IF fits = {} THEN UNCHANGED <<heap, used, free_count, live>>
     ELSE LET block == CHOOSE b \in fits : \A c \in fits : b <= c
              splits == Splits(block, Need(bytes))
              size == IF splits THEN Need(bytes) ELSE Size(block)
              next == block + size
              ptr == block + HEAP_HEAD_SIZE
              area == ptr .. ptr + ((bytes + HEAP_ALIGN - 1) \div HEAP_ALIGN) - 1
          IN  \E word \in UserWords :
              /\ heap' = [a \in Words |->
                   IF a = block + 1 THEN size + HEAP_BLOCK_USED
                   ELSE IF splits /\ a = next THEN block
                   ELSE IF splits /\ a = next + 1 THEN Size(block) - size
                   ELSE IF a \in area THEN word
                   ELSE heap[a]]
              /\ free_count' = free_count - size /\ used' = used + size
              /\ live' = [p \in DOMAIN live \union {ptr} |-> IF p = ptr THEN area ELSE live[p]]
  /\ UNCHANGED misjoined

\* The sizes of neighbours are added, flags and all, whether they are used, and
\* behind the last block whatever the word there holds.
\* (Where next starts is found before the flag is cleared; it is bit 31 of a
\* count of 4-byte words, which a 32-bit address does not have room for.)
free(ptr) ==
  LET block == ptr - HEAP_HEAD_SIZE
      prev == heap[block]
      next == block + Size(block)
      joins == prev # 0 /\ Size(prev) # 0
      first == IF joins THEN prev ELSE block
      size == IF joins THEN heap[prev + 1] + Size(block) ELSE Size(block)
  IN  /\ ptr \in DOMAIN live
      /\ heap' = [heap EXCEPT
           ![block + 1] = Size(block),
           ![first + 1] = Wrapped(IF Size(next) # 0 THEN size + heap[next + 1] ELSE size)]
      /\ free_count' = free_count + Size(block) /\ used' = used - Size(block)
      /\ live' = [p \in DOMAIN live \ {ptr} |-> live[p]]
      /\ misjoined' = \/ joins /\ IsUsed(prev)
                      \/ Size(next) # 0 /\ (IsUsed(next) \/ next \notin Blocks)
      /\ UNCHANGED mallocs

\* A heap whose headers are wrong is not followed any further.
HeapNext ==
  /\ ~misjoined
  /\ \/ \E bytes \in Requests : malloc(bytes)
     \/ \E ptr \in DOMAIN live : free(ptr)

HeapSpec == HeapInit /\ [][HeapNext]_hvars

-----------------------------------------------------------------------------
\* However many blocks malloc cuts off and free gives back, every user's words
\* are his own, inside a used block of which the walk knows, and the counters
\* add up.  Left out is what follows once free has joined a block to one that is
\* used or to what lies behind the last: it looks at a neighbour's size and not
\* at its flag, so only a block that no other user is left beside goes back
\* unharmed.  Nor does it say that the last block ends where the space does.
HeapSound ==
  ~misjoined =>
    /\ \A ptr \in DOMAIN live :
         LET block == ptr - HEAP_HEAD_SIZE IN
         /\ block \in Blocks /\ IsUsed(block)
         /\ live[ptr] \subseteq ptr .. block + Size(block) - 1
    /\ \A b, c \in Blocks : b < c => b + Size(b) <= c
    /\ used = Cardinality(UNION {b .. b + Size(b) - 1 : b \in {c \in Blocks : IsUsed(c)}})
    /\ used + free_count = HeapSize

\* What stdlib.c:117 and 125 say, that free checks whether its neighbours are
\* free: a block whose user has not freed it stays marked as used.
LiveStaysUsed == \A ptr \in DOMAIN live : IsUsed(ptr - HEAP_HEAD_SIZE)
=============================================================================
