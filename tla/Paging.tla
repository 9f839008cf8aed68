------------------------------- MODULE Paging -------------------------------
(***************************************************************************)
(* The page tables of sys/paging.c: the first 2 MiB mapped to themselves,  *)
(* and a fault handler that maps the page it is called for through two     *)
(* tables that all faults share.  A table has Entries entries instead of   *)
(* 512; an address is the three indices that the handler takes from it.    *)
(* The handler reports each fault on the console, as a message of any      *)
(* handler's (module Console), and the processor's cache of translations,  *)
(* which the kernel never invalidates, is not modelled.                    *)
(***************************************************************************)
EXTENDS Integers

CONSTANT Entries     \* entries of a page directory and of a page table

ASSUME EntriesAssumption == Entries \in Nat \ {0, 1}

VARIABLES
  pdpt, pdt, pt, pdttemp, pttemp,
  cr3,           \* the processor's copy of pdpt, taken when cr3 is loaded
  faulted,       \* the page of the last fault with each table index
  wanted,        \* the page whose access is being restarted, or NoPage
  panicked

ptables == <<pdpt, pdt, pt, pdttemp, pttemp, cr3>>
gvars == <<ptables, faulted, wanted, panicked>>

Index == 0 .. Entries - 1
Page == [pdpt : 0 .. 1, pdt : Index, pt : Index]
None == "none"                                    \* an entry not present
NoPage == [pdpt |-> -1, pdt |-> -1, pt |-> -1]

\* The first 2 MiB, which hold the kernel.
KernelPage(p) == p.pdpt = 0 /\ p.pdt = 0

\* The processor's walk: an entry names a table, or the page it maps.
Table(entry) == CASE entry = "pt" -> pt [] entry = "pttemp" -> pttemp
Directory(entry) == CASE entry = "pdt" -> pdt [] entry = "pdttemp" -> pdttemp

Walk(p) ==
  IF cr3[p.pdpt] = None THEN NoPage
  ELSE LET entry == Directory(cr3[p.pdpt])[p.pdt]
       IN  IF entry = None THEN NoPage ELSE Table(entry)[p.pt]

PagingInit ==
  /\ pt = [i \in Index |-> [pdpt |-> 0, pdt |-> 0, pt |-> i]]
  /\ pdt = [i \in Index |-> IF i = 0 THEN "pt" ELSE None]
  /\ pdpt = [i \in 0 .. 1 |-> IF i = 0 THEN "pdt" ELSE None]
  /\ pdttemp = [i \in Index |-> None]
  /\ pttemp = [i \in Index |-> NoPage]
  /\ cr3 = pdpt
  /\ faulted = pttemp /\ wanted = NoPage /\ panicked = FALSE

\* Mutant of MapLow: the page goes into the kernel's own table.
MapLow_Pt(p) ==
  /\ pdt' = [pdt EXCEPT ![p.pdt] = "pt"]
  /\ pt' = [pt EXCEPT ![p.pt] = p]
  /\ UNCHANGED <<pdpt, pdttemp, pttemp>>

\* Below 1 GiB: the page directory entry is given the shared table.
MapLow(p) ==
  /\ pdt' = [pdt EXCEPT ![p.pdt] = "pttemp"]
  /\ pttemp' = [pttemp EXCEPT ![p.pt] = p]
  /\ UNCHANGED <<pdpt, pt, pdttemp>>

\* Above: a directory of its own, in the table of which the processor keeps
\* its copy.
MapHigh(p) ==
  /\ pdpt' = [pdpt EXCEPT ![p.pdpt] = "pdttemp"]
  /\ pdttemp' = [pdttemp EXCEPT ![p.pdt] = "pttemp"]
  /\ pttemp' = [pttemp EXCEPT ![p.pt] = p]
  /\ UNCHANGED <<pdt, pt>>

\* An access to a page without a mapping, after which the instruction is
\* restarted; or a fault at a page that has one, which the processor raises for
\* rights and reserved bits that are not modelled.
paging_isr(p, present) ==
  /\ ~panicked /\ wanted \in {NoPage, p}
  /\ present = (Walk(p) # NoPage)
  /\ IF present
     THEN /\ panicked' = TRUE
          /\ UNCHANGED <<ptables, faulted, wanted>>
     ELSE /\ IF p.pdpt = 0 THEN MapLow(p) ELSE MapHigh(p)
          /\ faulted' = [faulted EXCEPT ![p.pt] = p]
          /\ wanted' = p
          /\ UNCHANGED <<cr3, panicked>>

Access(p) ==
  /\ ~panicked /\ wanted = p /\ Walk(p) # NoPage
  /\ wanted' = NoPage
  /\ UNCHANGED <<ptables, faulted, panicked>>

PagingNext ==
  \E p \in Page : Access(p) \/ \E present \in BOOLEAN : paging_isr(p, present)

PagingSpec == PagingInit /\ [][PagingNext]_gvars

-----------------------------------------------------------------------------
\* The kernel's pages keep their mapping whatever faults there are.  A page
\* below 1 GiB whose access is restarted is mapped to itself.  Any other that
\* is mapped leads to the page of the last fault with the same table index, its
\* own or not: an earlier page's mapping changes with a later fault.
MapsLastFault ==
  /\ \A p \in Page :
       CASE KernelPage(p) -> Walk(p) = p
         [] OTHER -> Walk(p) \in {NoPage, faulted[p.pt]}
  /\ wanted # NoPage /\ wanted.pdpt = 0 => Walk(wanted) = wanted
=============================================================================
