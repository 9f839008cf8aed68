-------------------------------- MODULE Sdt --------------------------------
(***************************************************************************)
(* sdt_init's search for the root system description pointer: a slot is 16 *)
(* bytes, of which the firmware's data area has EbdaSlots, followed by the *)
(* BiosSlots of the firmware itself.                                       *)
(***************************************************************************)
EXTENDS Integers, FiniteSets

CONSTANTS
  EbdaSlots, BiosSlots,
  MaxPointers           \* bound: the slots that hold the signature

ASSUME SlotsAssumption == EbdaSlots \in Nat /\ BiosSlots \in Nat

VARIABLES
  tables,      \* the slots that hold the signature, with sums and revision
  scan, end,   \* the slot being looked at, and the end of the area
  found,
  rsdt, xsdt,  \* the slot of the pointer that each was taken from, or NoSlot
  result

tvars == <<tables, scan, end, found, rsdt, xsdt, result>>

Area == 0 .. EbdaSlots + BiosSlots - 1
NoSlot == -1

\* Whether the bytes of the first version, and of the second, add up to 0.
Pointer == [sum : BOOLEAN, xsum : BOOLEAN, revision : 0 .. 2]

SdtInit ==
  /\ \E slots \in {s \in SUBSET Area : Cardinality(s) <= MaxPointers} :
       tables \in [slots -> Pointer]
  /\ scan = 0 /\ end = EbdaSlots
  /\ found = FALSE /\ rsdt = NoSlot /\ xsdt = NoSlot /\ result = "none"

Searching == ~found /\ result = "none"

Match ==
  /\ Searching /\ scan < end /\ scan \in DOMAIN tables
  /\ found' = TRUE
  /\ UNCHANGED <<tables, scan, end, rsdt, xsdt, result>>

\* Mutant of Skip: a whole area is not looked at.
Skip_Area ==
  /\ Searching /\ scan < end /\ scan \notin DOMAIN tables
  /\ scan' = end
  /\ UNCHANGED <<tables, end, found, rsdt, xsdt, result>>

\* scan += 2: the next slot is left out.
Skip ==
  /\ Searching /\ scan < end /\ scan \notin DOMAIN tables
  /\ scan' = scan + 2
  /\ UNCHANGED <<tables, end, found, rsdt, xsdt, result>>

SecondArea ==
  /\ Searching /\ scan >= end /\ end = EbdaSlots
  /\ scan' = EbdaSlots /\ end' = EbdaSlots + BiosSlots
  /\ UNCHANGED <<tables, found, rsdt, xsdt, result>>

NotFound ==
  /\ Searching /\ scan >= end /\ end # EbdaSlots
  /\ result' = "ENXIO"
  /\ UNCHANGED <<tables, scan, end, found, rsdt, xsdt>>

\* Both sums, the second only of a pointer that has one.
Good(p) == p.sum /\ (p.revision > 0 => p.xsum)

Validate ==
  /\ found /\ result = "none"
  /\ LET p == tables[scan]
     IN  /\ result' = IF Good(p) THEN "EOK" ELSE "EFAULT"
         /\ rsdt' = IF p.sum THEN scan ELSE rsdt
         /\ xsdt' = IF p.sum /\ p.revision > 0 /\ p.xsum THEN scan ELSE xsdt
  /\ UNCHANGED <<tables, scan, end, found>>

SdtNext == Match \/ Skip \/ SecondArea \/ NotFound \/ Validate

SdtSpec == SdtInit /\ [][SdtNext]_tvars

-----------------------------------------------------------------------------
\* The slots that the search looks at: every other one of each area.
Seen(slot) ==
  IF slot < EbdaSlots THEN slot % 2 = 0 ELSE (slot - EbdaSlots) % 2 = 0

\* While every pointer lies where the search looks (it may lie in any slot:
\* see PointerFound), the search finds one if there is one, the data area's
\* before the firmware's, and only the first is ever validated: a bad sum is
\* not passed over for a good pointer further on, and the tables that sdt_read
\* goes through on success are the first pointer's, of its revision.
FirstPointerDecides ==
  result # "none" /\ (\A slot \in DOMAIN tables : Seen(slot)) =>
    IF DOMAIN tables = {} THEN result = "ENXIO"
    ELSE /\ scan \in DOMAIN tables /\ \A slot \in DOMAIN tables : scan <= slot
         /\ (result = "EOK") <=> Good(tables[scan])
         /\ result = "EOK" =>
              /\ rsdt = scan
              /\ xsdt = IF tables[scan].revision > 0 THEN scan ELSE NoSlot

\* sdt.c: the signature "is garunteed to be on a 16byte boundry", and so in any
\* slot: the search fails only where no slot holds one.
PointerFound == result = "ENXIO" => DOMAIN tables = {}
=============================================================================
