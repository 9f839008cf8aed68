------------------------------- MODULE Mutex -------------------------------
(***************************************************************************)
(* pthread_mutex_t of lib/std/pthread.c: trylock, lock and unlock of one   *)
(* initialised mutex by a set of threads.  A step of a thread is one       *)
(* access to the mutex.  The xchg of test_and_set is atomic; the fields    *)
(* are volatile, so --mutex->count and ++mutex->count are a load and a     *)
(* later store.  The attributes are stored by pthread_mutex_init and never *)
(* read, and are left out.                                                 *)
(*                                                                         *)
(* A thread unlocks only a mutex it has locked and does not wait for one   *)
(* it has locked: the code checks neither.                                 *)
(***************************************************************************)
EXTENDS Integers, FiniteSets

CONSTANT Threads

VARIABLES
  lock,    \* mutex->lock: guards count
  count,   \* mutex->count: 1 when the mutex is free
  pc,      \* the next access of each thread
  op,      \* the function each thread is in, or was in last
  reg,     \* the operand of a thread's increment or decrement
  ret,     \* the local `ret` of pthread_mutex_trylock
  holds    \* the threads whose last lock or trylock returned EOK

vars == <<lock, count, pc, op, reg, ret, holds>>

Init ==
  /\ lock = 0
  /\ count = 1
  /\ pc = [t \in Threads |-> "idle"]
  /\ op = [t \in Threads |-> "none"]
  /\ reg = [t \in Threads |-> 0]
  /\ ret = [t \in Threads |-> "EBUSY"]
  /\ holds = {}

\* Thread t goes from one access to the next.
Goto(t, from, to) ==
  /\ pc[t] = from
  /\ pc' = [pc EXCEPT ![t] = to]

(***************************************************************************)
(* pthread_mutex_trylock and the loop of pthread_mutex_lock around it.     *)
(***************************************************************************)
CallTrylock(t) ==
  /\ Goto(t, "idle", "tas")
  /\ op' = [op EXCEPT ![t] = "trylock"]
  /\ ret' = [ret EXCEPT ![t] = "EBUSY"]
  /\ UNCHANGED <<lock, count, reg, holds>>

CallLock(t) ==
  /\ t \notin holds
  /\ Goto(t, "idle", "tas")
  /\ op' = [op EXCEPT ![t] = "lock"]
  /\ ret' = [ret EXCEPT ![t] = "EBUSY"]
  /\ UNCHANGED <<lock, count, reg, holds>>

\* Mutant of TasWins: the lock word is not looked at.
TasWins_Blind(t) ==
  /\ lock' = 1
  /\ Goto(t, "tas", "dec_load")
  /\ UNCHANGED <<count, op, reg, ret, holds>>

\* test_and_set finds the lock word clear and sets it.
TasWins(t) ==
  /\ lock = 0
  /\ lock' = 1
  /\ Goto(t, "tas", "dec_load")
  /\ UNCHANGED <<count, op, reg, ret, holds>>

\* It finds the lock word set: trylock returns EBUSY, lock tries again.
TasLoses(t) ==
  /\ lock = 1
  /\ Goto(t, "tas", IF op[t] = "lock" THEN "tas" ELSE "idle")
  /\ UNCHANGED <<lock, count, op, reg, ret, holds>>

DecLoad(t) ==
  /\ Goto(t, "dec_load", "dec_store")
  /\ reg' = [reg EXCEPT ![t] = count]
  /\ UNCHANGED <<lock, count, op, ret, holds>>

DecStore(t) ==
  /\ Goto(t, "dec_store", "test")
  /\ count' = reg[t] - 1
  /\ UNCHANGED <<lock, op, reg, ret, holds>>

\* Mutant of TestFree: the comparison is off by one.
TestFree_OffByOne(t) ==
  /\ count >= -1
  /\ Goto(t, "test", "release")
  /\ ret' = [ret EXCEPT ![t] = "EOK"]
  /\ UNCHANGED <<lock, count, op, reg, holds>>

TestFree(t) ==
  /\ count >= 0
  /\ Goto(t, "test", "release")
  /\ ret' = [ret EXCEPT ![t] = "EOK"]
  /\ UNCHANGED <<lock, count, op, reg, holds>>

\* Mutant of TestHeld: the decrement is not undone.
TestHeld_NoUndo(t) ==
  /\ count < 0
  /\ Goto(t, "test", "release")
  /\ UNCHANGED <<lock, count, op, reg, ret, holds>>

TestHeld(t) ==
  /\ count < 0
  /\ Goto(t, "test", "undo_load")
  /\ UNCHANGED <<lock, count, op, reg, ret, holds>>

UndoLoad(t) ==
  /\ Goto(t, "undo_load", "undo_store")
  /\ reg' = [reg EXCEPT ![t] = count]
  /\ UNCHANGED <<lock, count, op, ret, holds>>

UndoStore(t) ==
  /\ Goto(t, "undo_store", "release")
  /\ count' = reg[t] + 1
  /\ UNCHANGED <<lock, op, reg, ret, holds>>

\* mutex->lock = 0; trylock returns, and lock goes round its loop on EBUSY.
Release(t) ==
  /\ lock' = 0
  /\ Goto(t, "release",
          IF op[t] = "lock" /\ ret[t] = "EBUSY" THEN "tas" ELSE "idle")
  /\ holds' = IF ret[t] = "EOK" THEN holds \union {t} ELSE holds
  /\ UNCHANGED <<count, op, reg, ret>>

(***************************************************************************)
(* pthread_mutex_unlock.                                                   *)
(***************************************************************************)
CallUnlock(t) ==
  /\ t \in holds
  /\ Goto(t, "idle", "u_tas")
  /\ op' = [op EXCEPT ![t] = "unlock"]
  /\ holds' = holds \ {t}
  /\ UNCHANGED <<lock, count, reg, ret>>

\* Mutant of UnlockTasWins: unlock does not wait for the lock word.
UnlockTasWins_Blind(t) ==
  /\ Goto(t, "u_tas", "inc_load")
  /\ UNCHANGED <<lock, count, op, reg, ret, holds>>

UnlockTasWins(t) ==
  /\ lock = 0
  /\ lock' = 1
  /\ Goto(t, "u_tas", "inc_load")
  /\ UNCHANGED <<count, op, reg, ret, holds>>

UnlockTasLoses(t) ==
  /\ lock = 1
  /\ Goto(t, "u_tas", "u_tas")
  /\ UNCHANGED <<lock, count, op, reg, ret, holds>>

IncLoad(t) ==
  /\ Goto(t, "inc_load", "inc_store")
  /\ reg' = [reg EXCEPT ![t] = count]
  /\ UNCHANGED <<lock, count, op, ret, holds>>

IncStore(t) ==
  /\ Goto(t, "inc_store", "u_release")
  /\ count' = reg[t] + 1
  /\ UNCHANGED <<lock, op, reg, ret, holds>>

\* Mutant of UnlockRelease: the lock word stays set.
UnlockRelease_KeepsLock(t) ==
  /\ Goto(t, "u_release", "idle")
  /\ UNCHANGED <<lock, count, op, reg, ret, holds>>

UnlockRelease(t) ==
  /\ lock' = 0
  /\ Goto(t, "u_release", "idle")
  /\ UNCHANGED <<count, op, reg, ret, holds>>

-----------------------------------------------------------------------------

Call(t) == CallTrylock(t) \/ CallLock(t) \/ CallUnlock(t)

\* A step inside a call.
Step(t) ==
  \/ TasWins(t) \/ TasLoses(t) \/ DecLoad(t) \/ DecStore(t)
  \/ TestFree(t) \/ TestHeld(t) \/ UndoLoad(t) \/ UndoStore(t) \/ Release(t)
  \/ UnlockTasWins(t) \/ UnlockTasLoses(t) \/ IncLoad(t) \/ IncStore(t)
  \/ UnlockRelease(t)

Next == \E t \in Threads : Call(t) \/ Step(t)

Spec == Init /\ [][Next]_vars

\* A thread inside a call keeps running; no thread has to make a call.
FairSpec == Spec /\ \A t \in Threads : WF_vars(Step(t))

-----------------------------------------------------------------------------
TypeOK ==
  /\ lock \in {0, 1}
  /\ count \in {-1, 0, 1}
  /\ pc \in [Threads -> {"idle", "tas", "dec_load", "dec_store", "test",
                         "undo_load", "undo_store", "release", "u_tas",
                         "inc_load", "inc_store", "u_release"}]
  /\ op \in [Threads -> {"none", "trylock", "lock", "unlock"}]
  /\ reg \in [Threads -> {-1, 0, 1}]
  /\ ret \in [Threads -> {"EBUSY", "EOK"}]
  /\ holds \subseteq Threads

\* The threads between a test_and_set that won and the store that clears the
\* lock word again.
Guarded ==
  {t \in Threads : pc[t] \in {"dec_load", "dec_store", "test", "undo_load",
                              "undo_store", "release", "inc_load",
                              "inc_store", "u_release"}}

\* The lock word serialises the accesses to mutex->count: one thread at most
\* is past its test_and_set, and then the word is set.
CountGuarded ==
  /\ \A s, t \in Guarded : s = t
  /\ (lock = 1) <=> (Guarded # {})

\* The threads that have taken the mutex and not given it back: from the test
\* that succeeds in pthread_mutex_trylock to the increment in
\* pthread_mutex_unlock.
Owners ==
  {t \in Threads : \/ t \in holds
                   \/ pc[t] = "release" /\ ret[t] = "EOK"
                   \/ pc[t] \in {"u_tas", "inc_load", "inc_store"}}

\* Mutual exclusion: two threads never both have EOK from lock or trylock
\* without an unlock in between.
MutualExclusion == \A s, t \in holds : s = t

\* pthread.h: the mutex is an abstract lock, taken only when free and freed
\* only by its owner, however trylock's decrement and its undoing overlap with
\* other calls.
Abstract == INSTANCE AbstractMutex WITH owners <- Owners
ImplementsMutex == Abstract!Spec

\* A free mutex that some thread waits for in pthread_mutex_lock is taken:
\* spinning threads do not keep each other out for ever.
FreeMutexTaken ==
  (Owners = {} /\ \E t \in Threads : op[t] = "lock" /\ pc[t] = "tas")
    ~> (Owners # {})
=============================================================================
