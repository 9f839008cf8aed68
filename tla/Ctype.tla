------------------------------- MODULE Ctype -------------------------------
(***************************************************************************)
(* The character classes of include/ctype.h.  A class is a bit of the      *)
(* table's entry; here an entry is the set of its bits, by the letters of  *)
(* the comment over the table: C U L D X P S B.  A character is its code.  *)
(***************************************************************************)
EXTENDS Integers

ASCII == 0 .. 127

\* The table itself, by runs of equal entries.
CTYPE_MAP_ASCII == [c \in ASCII |->
  CASE c = 9                                   -> {"C", "S", "B"}
    [] c \in 10 .. 13                          -> {"C", "S"}
    [] c \in (0 .. 8) \union (14 .. 31) \union {127} -> {"C"}
    [] c = 32                                  -> {"S", "B"}
    [] c \in (33 .. 47) \union (91 .. 96)      -> {"P"}
    [] c \in 48 .. 57                          -> {"D", "X"}
    [] c \in 65 .. 70                          -> {"U", "X"}
    [] c \in 97 .. 102                         -> {"L", "X"}
    [] c \in 103 .. 122                        -> {"L"}
    [] c \in {58, 59, 60, 61, 62, 63, 64} \union (71 .. 90)
             \union (123 .. 126)               -> {"U"}]

Has(c, bits) == CTYPE_MAP_ASCII[c] \intersect bits # {}

islower(c) == Has(c, {"L"})
isupper(c) == Has(c, {"U"})
isalpha(c) == Has(c, {"U", "L"})
isdigit(c) == Has(c, {"D"})
isalnum(c) == Has(c, {"U", "L", "D"})
isspace(c) == Has(c, {"S"})
isprint(c) == ~Has(c, {"C"})
isgraph(c) == Has(c, {"U", "L", "D", "P"})
isxdigit(c) == Has(c, {"X"})

\* | 0x20 and & ~0x20.
tolower(c) == IF isalpha(c) THEN IF (c \div 32) % 2 = 1 THEN c ELSE c + 32 ELSE c
toupper(c) == IF isalpha(c) THEN IF (c \div 32) % 2 = 1 THEN c - 32 ELSE c ELSE c
=============================================================================
