----------------------------- MODULE MCLibrary -----------------------------
(***************************************************************************)
(* The parts of the library that share no state, side by side: a behaviour *)
(* is one of Queue, Heap, Signals or Calendar, or a call of Strings or     *)
(* Format, as `part` says.                                                 *)
(***************************************************************************)
EXTENDS Queue, Heap, Signals, Calendar, Strings, Format

VARIABLE part

others == <<mem, num>>

\* The parts that do not run start in any one of their initial states.
Init ==
  /\ part \in {"queue", "heap", "signals", "calendar", "strings", "format"}
  /\ QueueInit /\ HeapInit /\ SignalsInit /\ CalendarInit
  /\ IF part = "strings" THEN StringsInit ELSE mem = <<>>
  /\ IF part = "format" THEN FormatInit ELSE num = HighBit

Next ==
  /\ UNCHANGED <<part, others>>
  /\ \/ part = "queue" /\ QueueNext /\ UNCHANGED <<hvars, sigvars, calvars>>
     \/ part = "heap" /\ HeapNext /\ UNCHANGED <<queuevars, sigvars, calvars>>
     \/ part = "signals" /\ SignalsNext /\ UNCHANGED <<queuevars, hvars, calvars>>
     \/ part = "calendar" /\ Midnight /\ UNCHANGED <<queuevars, hvars, sigvars>>

Spec == Init /\ [][Next]_<<part, queuevars, hvars, sigvars, calvars, others>>

=============================================================================
