------------------------------ MODULE MCMutex ------------------------------
(* The instance of Mutex for TLC: the threads are given in MCMutex.cfg.    *)
EXTENDS Mutex
=============================================================================
