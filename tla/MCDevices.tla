----------------------------- MODULE MCDevices -----------------------------
(***************************************************************************)
(* The drivers and tables that share no state, side by side: a behaviour   *)
(* is one of Mouse, of Serial, of Paging or of Sdt, as `part` says.        *)
(***************************************************************************)
EXTENDS Mouse, Serial, Paging, Sdt

VARIABLE part

\* One setting that com_open accepts, with even parity, and two it refuses.
Requests == {[baud |-> 115200, data |-> 8, stop |-> 1, parity |-> 24],
             [baud |-> 9600, data |-> 5, stop |-> 2, parity |-> 0],
             [baud |-> 9600, data |-> 4, stop |-> 1, parity |-> 0],
             [baud |-> 9600, data |-> 8, stop |-> 0, parity |-> 0]}

Parts == {"mouse", "serial", "paging", "sdt"}

\* The parts that do not run start in any one of their initial states.
Init ==
  /\ part \in Parts
  /\ MouseInit /\ ComInit /\ PagingInit
  /\ IF part = "sdt" THEN SdtInit
     ELSE /\ tables = <<>> /\ scan = 0 /\ end = EbdaSlots /\ found = FALSE
          /\ rsdt = NoSlot /\ xsdt = NoSlot /\ result = "none"

Next ==
  \/ part = "mouse" /\ MouseNext /\ UNCHANGED <<part, svars, gvars, tvars>>
  \/ part = "serial" /\ SerialNext /\ UNCHANGED <<part, mvars, gvars, tvars>>
  \/ part = "paging" /\ PagingNext /\ UNCHANGED <<part, mvars, svars, tvars>>
  \/ part = "sdt" /\ SdtNext /\ UNCHANGED <<part, mvars, svars, gvars>>

Spec == Init /\ [][Next]_<<part, mvars, svars, gvars, tvars>>
=============================================================================
