--------------------------- MODULE AbstractMutex ---------------------------
(***************************************************************************)
(* What include/pthread.h promises of a mutex: it is locked by at most one *)
(* thread, and only that thread unlocks it.                                *)
(***************************************************************************)
CONSTANT Threads

VARIABLE owners   \* the threads that have the mutex locked

Init == owners = {}

Lock(t) == owners = {} /\ owners' = {t}

Unlock(t) == owners = {t} /\ owners' = {}

Next == \E t \in Threads : Lock(t) \/ Unlock(t)

Spec == Init /\ [][Next]_owners
=============================================================================
