------------------------------ MODULE MCClock ------------------------------
(* Two interrupts a second, minutes of two seconds. *)
EXTENDS Clock

TwoPlaces == {[lo |-> 1, hi |-> 2], [lo |-> 3, hi |-> 4]}
Top == [lo |-> 5, hi |-> 0]
=============================================================================
