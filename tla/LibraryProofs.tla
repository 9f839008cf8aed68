---------------------------- MODULE LibraryProofs ----------------------------
(***************************************************************************)
(* Proofs about the library: the mutex for every set of threads, the       *)
(* signals for every set of signals and handlers, the calendar for every   *)
(* year of the chip's century at which its walk may end, the heap for      *)
(* every size of its space and whatever its users ask for and write, the   *)
(* strings for every size of a memory and whatever bytes it holds, numbers *)
(* for every width of an int, base, width of the output and flags.         *)
(***************************************************************************)
EXTENDS Mutex, Signals, Calendar, Heap, Strings, Format, FiniteSetTheorems, CommonLemmas

(***************************************************************************)
(* The mutex.                                                              *)
(***************************************************************************)
\* The threads that have decremented mutex->count and not yet decided, or not
\* yet undone it.
Pending == {t \in Threads : pc[t] \in {"test", "undo_load", "undo_store"}}

OneOwner == \A s, t \in Owners : s = t

\* mutex->count is 1 for a free mutex and 0 for a locked one, less 1 while a
\* trylock is pending.
Balance ==
  count = (IF Owners = {} THEN 1 ELSE 0) - (IF Pending = {} THEN 0 ELSE 1)

\* What a thread knows at each of its steps.
Local(t) ==
  /\ pc[t] \in {"dec_store", "undo_store", "inc_store"} => reg[t] = count
  /\ pc[t] \in {"tas", "dec_load", "dec_store", "test", "undo_load",
               "undo_store"} => ret[t] = "EBUSY"
  /\ pc[t] \in {"undo_load", "undo_store"} => Owners # {}
  /\ pc[t] \in {"u_tas", "inc_load", "inc_store", "u_release"} => t \notin holds

MutexInv ==
  /\ TypeOK
  /\ CountGuarded
  /\ OneOwner
  /\ Balance
  /\ \A t \in Threads : Local(t)

-----------------------------------------------------------------------------

\* No thread has called.
LEMMA InitMutexInv ==
  ASSUME Init
  PROVE  MutexInv
<1>1. Guarded = {} /\ Owners = {} /\ Pending = {}
  BY DEF Init, Guarded, Owners, Pending
<1>2. TypeOK
  BY DEF Init, TypeOK
<1> QED
  BY <1>1, <1>2 DEF Init, MutexInv, CountGuarded, OneOwner, Balance, Local

\* Calls touch neither the count nor the lock word.
LEMMA CallMutexInv ==
  ASSUME MutexInv, NEW t \in Threads, Call(t)
  PROVE  MutexInv' /\ Owners' = Owners
<1> USE DEF Goto
<1>1. CASE CallTrylock(t) \/ CallLock(t)
  <2>1. Guarded' = Guarded /\ Owners' = Owners /\ Pending' = Pending
    BY <1>1 DEF CallTrylock, CallLock, Guarded, Owners, Pending, MutexInv, TypeOK
  <2>2. TypeOK'
    BY <1>1 DEF CallTrylock, CallLock, MutexInv, TypeOK
  <2> QED
    BY <1>1, <2>1, <2>2
    DEF CallTrylock, CallLock, MutexInv, TypeOK, CountGuarded, OneOwner,
        Balance, Local
<1>2. CASE CallUnlock(t)
  <2>1. Guarded' = Guarded /\ Owners' = Owners /\ Pending' = Pending
    BY <1>2 DEF CallUnlock, Guarded, Owners, Pending, MutexInv, TypeOK
  <2>2. TypeOK'
    BY <1>2 DEF CallUnlock, MutexInv, TypeOK
  <2> QED
    BY <1>2, <2>1, <2>2
    DEF CallUnlock, MutexInv, TypeOK, CountGuarded, OneOwner, Balance, Local
<1> QED BY <1>1, <1>2 DEF Call

\* Winning the lock word: nobody else is past test_and_set.
LEMMA WinMutexInv ==
  ASSUME MutexInv, NEW t \in Threads, TasWins(t) \/ UnlockTasWins(t)
  PROVE  MutexInv' /\ Owners' = Owners
<1> USE DEF Goto
<1>1. Guarded = {}
  BY DEF MutexInv, CountGuarded, TasWins, UnlockTasWins
<1>2. Guarded' = {t}
  BY <1>1 DEF TasWins, UnlockTasWins, Guarded, MutexInv, TypeOK
<1>3. Owners' = Owners /\ Pending' = Pending
  BY DEF TasWins, UnlockTasWins, Owners, Pending, MutexInv, TypeOK
<1>4. TypeOK'
  BY DEF TasWins, UnlockTasWins, MutexInv, TypeOK
<1>5. CountGuarded'
  BY <1>2 DEF TasWins, UnlockTasWins, CountGuarded
<1> QED
  BY <1>3, <1>4, <1>5
  DEF TasWins, UnlockTasWins, MutexInv, TypeOK, OneOwner, Balance, Local

\* Losing it changes at most where the thread is.
LEMMA LoseMutexInv ==
  ASSUME MutexInv, NEW t \in Threads, TasLoses(t) \/ UnlockTasLoses(t)
  PROVE  MutexInv' /\ Owners' = Owners
<1> USE DEF Goto
<1>1. Guarded' = Guarded /\ Owners' = Owners /\ Pending' = Pending
  BY DEF TasLoses, UnlockTasLoses, Guarded, Owners, Pending, MutexInv, TypeOK
<1>2. TypeOK'
  BY DEF TasLoses, UnlockTasLoses, MutexInv, TypeOK
<1> QED
  BY <1>1, <1>2
  DEF TasLoses, UnlockTasLoses, MutexInv, TypeOK, CountGuarded, OneOwner,
      Balance, Local

\* Loading the count leaves it alone.
LEMMA LoadMutexInv ==
  ASSUME MutexInv, NEW t \in Threads, DecLoad(t) \/ UndoLoad(t) \/ IncLoad(t)
  PROVE  MutexInv' /\ Owners' = Owners
<1> USE DEF Goto
<1>1. Guarded' = Guarded /\ Owners' = Owners /\ Pending' = Pending
  BY DEF DecLoad, UndoLoad, IncLoad, Guarded, Owners, Pending, MutexInv, TypeOK
<1>2. TypeOK'
  BY DEF DecLoad, UndoLoad, IncLoad, MutexInv, TypeOK
<1>3. CountGuarded' /\ OneOwner' /\ Balance'
  BY <1>1
  DEF DecLoad, UndoLoad, IncLoad, MutexInv, CountGuarded, OneOwner, Balance
<1>4. ASSUME NEW s \in Threads PROVE Local(s)'
  BY <1>1 DEF DecLoad, UndoLoad, IncLoad, MutexInv, TypeOK, Local
<1> QED BY <1>1, <1>2, <1>3, <1>4 DEF MutexInv

\* A thread past its test_and_set is the only one there.
LEMMA Alone ==
  ASSUME MutexInv, NEW t \in Guarded
  PROVE  /\ Guarded = {t} /\ lock = 1
         /\ Pending \subseteq {t}
         /\ \A s \in Threads : s # t => pc[s] \in {"idle", "tas", "u_tas"}
BY DEF MutexInv, CountGuarded, Guarded, Pending, TypeOK

\* The decrement is stored while no other thread is past its test_and_set.
LEMMA DecStoreMutexInv ==
  ASSUME MutexInv, NEW t \in Threads, DecStore(t)
  PROVE  MutexInv' /\ Owners' = Owners
<1> USE DEF Goto
<1>1. t \in Guarded
  BY DEF DecStore, Guarded
<1>2. Pending = {} /\ Pending' = {t}
  BY <1>1, Alone DEF DecStore, Pending, MutexInv, TypeOK
<1>3. Guarded' = Guarded /\ Owners' = Owners
  BY DEF DecStore, Guarded, Owners, MutexInv, TypeOK
<1>4. reg[t] = count /\ count' = count - 1 /\ count \in {0, 1}
  BY <1>2 DEF DecStore, MutexInv, Local, Balance
<1>5. TypeOK'
  BY <1>4 DEF DecStore, MutexInv, TypeOK
<1>6. CountGuarded' /\ OneOwner' /\ Balance'
  BY <1>2, <1>3, <1>4 DEF DecStore, MutexInv, CountGuarded, OneOwner, Balance
<1>7. ASSUME NEW s \in Threads PROVE Local(s)'
  BY <1>1, <1>3, Alone DEF DecStore, MutexInv, TypeOK, Local
<1> QED BY <1>3, <1>5, <1>6, <1>7 DEF MutexInv

\* The decrement left 0: the mutex was free and is the thread's from here on.
LEMMA TestFreeMutexInv ==
  ASSUME MutexInv, NEW t \in Threads, TestFree(t)
  PROVE  MutexInv' /\ Owners = {} /\ Owners' = {t}
<1> USE DEF Goto
<1>1. t \in Guarded /\ t \in Pending
  BY DEF TestFree, Guarded, Pending
<1>2. Pending' = {}
  BY <1>1, Alone DEF TestFree, Pending, MutexInv, TypeOK
<1>3. Owners = {}
  BY <1>1 DEF TestFree, MutexInv, Balance
<1>4. Owners' = {t}
  BY <1>3 DEF TestFree, Owners, MutexInv, TypeOK
<1>5. Guarded' = Guarded
  BY DEF TestFree, Guarded, MutexInv, TypeOK
<1>6. TypeOK'
  BY DEF TestFree, MutexInv, TypeOK
<1>7. CountGuarded' /\ OneOwner' /\ Balance'
  BY <1>1, <1>2, <1>3, <1>4, <1>5
  DEF TestFree, MutexInv, CountGuarded, OneOwner, Balance
<1>8. ASSUME NEW s \in Threads PROVE Local(s)'
  BY <1>4 DEF TestFree, MutexInv, TypeOK, Local
<1> QED BY <1>3, <1>4, <1>6, <1>7, <1>8 DEF MutexInv

\* The decrement left -1: somebody has the mutex.
LEMMA TestHeldMutexInv ==
  ASSUME MutexInv, NEW t \in Threads, TestHeld(t)
  PROVE  MutexInv' /\ Owners' = Owners
<1> USE DEF Goto
<1>1. Guarded' = Guarded /\ Owners' = Owners /\ Pending' = Pending
  BY DEF TestHeld, Guarded, Owners, Pending, MutexInv, TypeOK
<1>2. Owners # {}
  BY DEF TestHeld, MutexInv, Balance
<1>3. TypeOK'
  BY DEF TestHeld, MutexInv, TypeOK
<1> QED
  BY <1>1, <1>2, <1>3
  DEF TestHeld, MutexInv, TypeOK, CountGuarded, OneOwner, Balance, Local

\* A trylock that failed has undone its decrement.
LEMMA UndoStoreMutexInv ==
  ASSUME MutexInv, NEW t \in Threads, UndoStore(t)
  PROVE  MutexInv' /\ Owners' = Owners
<1> USE DEF Goto
<1>1. t \in Guarded /\ t \in Pending
  BY DEF UndoStore, Guarded, Pending
<1>2. Pending' = {}
  BY <1>1, Alone DEF UndoStore, Pending, MutexInv, TypeOK
<1>3. Owners # {} /\ ret[t] = "EBUSY" /\ reg[t] = count
  BY DEF UndoStore, MutexInv, Local
<1>4. Guarded' = Guarded /\ Owners' = Owners
  BY <1>3 DEF UndoStore, Guarded, Owners, MutexInv, TypeOK
<1>5. count = -1 /\ count' = 0
  BY <1>1, <1>3 DEF UndoStore, MutexInv, Balance
<1>6. TypeOK'
  BY <1>5 DEF UndoStore, MutexInv, TypeOK
<1>7. CountGuarded' /\ OneOwner' /\ Balance'
  BY <1>2, <1>3, <1>4, <1>5
  DEF UndoStore, MutexInv, CountGuarded, OneOwner, Balance
<1>8. ASSUME NEW s \in Threads PROVE Local(s)'
  BY <1>1, <1>4, Alone DEF UndoStore, MutexInv, TypeOK, Local
<1> QED BY <1>4, <1>6, <1>7, <1>8 DEF MutexInv

\* Clearing the lock word at the end of trylock or unlock.
LEMMA ReleaseMutexInv ==
  ASSUME MutexInv, NEW t \in Threads, Release(t) \/ UnlockRelease(t)
  PROVE  MutexInv' /\ Owners' = Owners
<1> USE DEF Goto
<1>1. t \in Guarded
  BY DEF Release, UnlockRelease, Guarded
<1>2. Guarded' = {}
  BY <1>1, Alone DEF Release, UnlockRelease, Guarded, MutexInv, TypeOK
<1>3. Owners' = Owners /\ Pending' = Pending
  BY DEF Release, UnlockRelease, Owners, Pending, MutexInv, TypeOK
<1>4. TypeOK'
  BY DEF Release, UnlockRelease, MutexInv, TypeOK
<1>5. CountGuarded' /\ OneOwner' /\ Balance'
  BY <1>2, <1>3
  DEF Release, UnlockRelease, MutexInv, CountGuarded, OneOwner, Balance
<1>6. ASSUME NEW s \in Threads PROVE Local(s)'
  BY <1>3 DEF Release, UnlockRelease, MutexInv, TypeOK, Local
<1> QED BY <1>3, <1>4, <1>5, <1>6 DEF MutexInv

\* Storing the incremented count frees the mutex.
LEMMA IncStoreMutexInv ==
  ASSUME MutexInv, NEW t \in Threads, IncStore(t)
  PROVE  MutexInv' /\ Owners = {t} /\ Owners' = {}
<1> USE DEF Goto
<1>1. t \in Guarded /\ t \in Owners
  BY DEF IncStore, Guarded, Owners
<1>2. Owners = {t}
  BY <1>1 DEF MutexInv, OneOwner
<1>3. Pending = {} /\ Pending' = {}
  BY <1>1, Alone DEF IncStore, Pending, MutexInv, TypeOK
<1>4. t \notin holds /\ reg[t] = count
  BY DEF IncStore, MutexInv, Local
<1>5. Owners' = {}
  BY <1>2, <1>4 DEF IncStore, Owners, MutexInv, TypeOK
<1>6. Guarded' = Guarded
  BY DEF IncStore, Guarded, MutexInv, TypeOK
<1>7. count = 0 /\ count' = 1
  BY <1>2, <1>3, <1>4 DEF IncStore, MutexInv, Balance
<1>8. TypeOK'
  BY <1>7 DEF IncStore, MutexInv, TypeOK
<1>9. CountGuarded' /\ OneOwner' /\ Balance'
  BY <1>3, <1>5, <1>6, <1>7
  DEF IncStore, MutexInv, CountGuarded, OneOwner, Balance
<1>10. ASSUME NEW s \in Threads PROVE Local(s)'
  BY <1>1, Alone DEF IncStore, MutexInv, TypeOK, Local
<1> QED BY <1>2, <1>5, <1>8, <1>9, <1>10 DEF MutexInv

\* Every step keeps the invariant and is a step of the abstract mutex or
\* leaves its state alone.
LEMMA NextMutexInv ==
  ASSUME MutexInv, [Next]_vars
  PROVE  MutexInv' /\ [Abstract!Next]_Owners
<1>1. CASE UNCHANGED vars
  BY <1>1 DEF vars, MutexInv, TypeOK, CountGuarded, OneOwner, Balance, Local,
              Guarded, Owners, Pending
<1>2. ASSUME NEW t \in Threads, Call(t)
      PROVE  MutexInv' /\ Owners' = Owners
  BY <1>2, CallMutexInv
<1>3. ASSUME NEW t \in Threads, Step(t)
      PROVE  MutexInv' /\ [Abstract!Next]_Owners
  <2>1. CASE TestFree(t)
    BY <2>1, TestFreeMutexInv DEF Abstract!Next, Abstract!Lock
  <2>2. CASE IncStore(t)
    BY <2>2, IncStoreMutexInv DEF Abstract!Next, Abstract!Unlock
  <2> QED
    BY <1>3, <2>1, <2>2, WinMutexInv, LoseMutexInv, LoadMutexInv,
       DecStoreMutexInv, TestHeldMutexInv, UndoStoreMutexInv, ReleaseMutexInv
    DEF Step
<1> QED BY <1>1, <1>2, <1>3 DEF Next

\* The lock word serialises the accesses to the count, and no two threads hold
\* the mutex, for any number of threads.
THEOREM MutexSafe == Spec => [](TypeOK /\ CountGuarded /\ MutualExclusion)
<1>1. Init => MutexInv
  BY InitMutexInv
<1>2. MutexInv /\ [Next]_vars => MutexInv'
  BY NextMutexInv
<1>3. MutexInv => TypeOK /\ CountGuarded /\ MutualExclusion
  BY DEF MutexInv, TypeOK, OneOwner, Owners, MutualExclusion
<1> QED BY <1>1, <1>2, <1>3, PTL DEF Spec

\* The mutex of pthread.c implements the abstract mutex, for any number of
\* threads.
THEOREM MutexImplementsAbstract == Spec => ImplementsMutex
<1>1. Init => MutexInv /\ Abstract!Init
  BY InitMutexInv DEF Init, Owners, Abstract!Init
<1>2. MutexInv /\ [Next]_vars => MutexInv' /\ [Abstract!Next]_Owners
  BY NextMutexInv
<1> QED BY <1>1, <1>2, PTL DEF Spec, ImplementsMutex, Abstract!Spec

-----------------------------------------------------------------------------
(***************************************************************************)
(* Signals.                                                                *)
(***************************************************************************)
\* What is held and handled, and what was asked of SIGABRT last, agree.
SignalsInv ==
  /\ sighandler \in [Signums -> Handlers] /\ sigmask \subseteq Signums
  /\ asked \in [held : BOOLEAN, caught : BOOLEAN]
  /\ "SIGABRT" \in sigmask <=> asked.held
  /\ sighandler["SIGABRT"] # "SIG_DFL" <=> asked.caught
  /\ ~escaped

\* Nothing is held or handled at first.
LEMMA InitSignals ==
  ASSUME SignalsInit
  PROVE  SignalsInv
BY SignumsAssumption DEF SignalsInit, SignalsInv, Handlers

\* raise leaves the dispositions alone, and abort by it returns only as asked.
LEMMA RaisedSignals ==
  ASSUME SignalsInv, NEW sig \in Signums, NEW caller, Raised(sig, caller),
         caller = "abort" => sig = "SIGABRT"
  PROVE  SignalsInv'
<1>1. escaped' = (escaped \/ (caller = "abort" /\ ~panicked' /\ ~asked.held /\ ~asked.caught))
  BY DEF Raised
<1>2. ASSUME caller = "abort", ~asked.held, ~asked.caught PROVE panicked'
  BY <1>2 DEF Raised, SignalsInv, Fatal
<1>3. ~escaped'
  BY <1>1, <1>2 DEF SignalsInv
<1> QED BY <1>3 DEF Raised, SignalsInv

\* What signal makes of the handlers and the mask.
LEMMA SetTo ==
  ASSUME SignalsInv, NEW sig \in Signums, NEW handler \in Handlers \union {"SIG_HOLD"}
  PROVE  /\ After(Dispositions, sig, handler).handlers
              = IF handler = "SIG_HOLD" THEN sighandler
                ELSE [sighandler EXCEPT ![sig] = handler]
         /\ After(Dispositions, sig, handler).mask
              = IF handler = "SIG_HOLD" THEN sigaddset(sigmask, sig)
                ELSE sigdelset(sigmask, sig)
BY DEF After, Dispositions

\* signal of SIGABRT is what was asked of it last.
LEMMA SignalSignals ==
  ASSUME SignalsInv, NEW sig \in Signums, NEW handler \in Handlers \union {"SIG_HOLD"},
         signal(sig, handler)
  PROVE  SignalsInv'
<1> USE SignumsAssumption
<1>1. CASE handler = "SIG_HOLD"
  <2>1. sighandler' = sighandler /\ sigmask' = sigaddset(sigmask, sig)
    BY <1>1, SetTo DEF signal
  <2>2. asked' = IF sig = "SIGABRT" THEN [asked EXCEPT !.held = TRUE] ELSE asked
    BY <1>1 DEF signal
  <2> QED BY <2>1, <2>2 DEF signal, SignalsInv, sigaddset
<1>2. CASE handler # "SIG_HOLD"
  <2>1. sighandler' = [sighandler EXCEPT ![sig] = handler] /\ sigmask' = sigdelset(sigmask, sig)
    BY <1>2, SetTo DEF signal
  <2>2. asked' = IF sig = "SIGABRT" THEN [held |-> FALSE, caught |-> handler # "SIG_DFL"]
                 ELSE asked
    BY <1>2 DEF signal
  <2>3. handler \in Handlers
    BY <1>2
  <2>4. CASE sig = "SIGABRT"
    <3>1. asked'.held = FALSE /\ asked'.caught = (handler # "SIG_DFL")
      BY <2>2, <2>4
    <3>2. asked' \in [held : BOOLEAN, caught : BOOLEAN]
      BY <2>2, <2>4
    <3>3. "SIGABRT" \notin sigmask' /\ sigmask' \subseteq Signums
      BY <2>1, <2>4 DEF SignalsInv, sigdelset
    <3>4. sighandler' \in [Signums -> Handlers] /\ sighandler'["SIGABRT"] = handler
      BY <2>1, <2>3, <2>4 DEF SignalsInv
    <3> QED BY <3>1, <3>2, <3>3, <3>4 DEF signal, SignalsInv
  <2>5. CASE sig # "SIGABRT"
    BY <2>1, <2>2, <2>3, <2>5 DEF signal, SignalsInv, sigdelset
  <2> QED BY <2>4, <2>5
<1> QED BY <1>1, <1>2

\* Every call keeps the two in agreement.
LEMMA NextSignals ==
  ASSUME SignalsInv, [SignalsNext]_sigvars
  PROVE  SignalsInv'
<1> USE SignumsAssumption
<1>1. ASSUME NEW sig \in Signums, raise(sig) PROVE SignalsInv'
  BY <1>1, RaisedSignals DEF raise
<1>2. CASE abort
  BY <1>2, RaisedSignals DEF abort
<1>3. ASSUME NEW sig \in Signums, sighold(sig) PROVE SignalsInv'
  BY <1>3 DEF sighold, sigaddset, SignalsInv
<1>4. ASSUME NEW sig \in Signums, sigrelse(sig) PROVE SignalsInv'
  BY <1>4 DEF sigrelse, sigdelset, SignalsInv
<1>5. ASSUME NEW sig \in Signums, sigignore(sig) PROVE SignalsInv'
  BY <1>5, SignalSignals DEF sigignore, Handlers
<1>6. ASSUME NEW handler, set_constraint_handler_s(handler) PROVE SignalsInv'
  BY <1>6 DEF set_constraint_handler_s, SignalsInv
<1>7. CASE constraint
  <2>1. \/ Raised("SIGABRT", "abort")
        \/ UNCHANGED <<sighandler, sigmask, asked, escaped>>
    BY <1>7 DEF constraint
  <2> QED BY <2>1, RaisedSignals DEF SignalsInv
<1>8. CASE Return
  BY <1>8 DEF Return, SignalsInv
<1>9. CASE UNCHANGED sigvars
  BY <1>9 DEF sigvars, SignalsInv
<1> QED
  BY <1>1, <1>2, <1>3, <1>4, <1>5, <1>6, <1>7, <1>8, <1>9, SignalSignals DEF SignalsNext

\* signal, asked for what it returned, undoes what it did.
LEMMA Undone ==
  ASSUME SignalsInv, NEW sig \in Signums, NEW handler \in Handlers \union {"SIG_HOLD"},
         sig \notin sigmask
  PROVE  After(After(Dispositions, sig, handler), sig, Old(Dispositions, sig, handler))
           = Dispositions
<1> DEFINE d == After(Dispositions, sig, handler)
           old == sighandler[sig]
<1>1. Old(Dispositions, sig, handler) = old
  BY DEF Old, Dispositions
<1>2. old \in Handlers /\ old # "SIG_HOLD"
  BY DEF SignalsInv, Handlers
<1>3. After(d, sig, old)
        = [handlers |-> [d.handlers EXCEPT ![sig] = old], mask |-> sigdelset(d.mask, sig)]
  BY <1>2 DEF After
<1>4. d.handlers \in {sighandler, [sighandler EXCEPT ![sig] = handler]}
  BY SetTo
<1>5. d.mask \in {sigaddset(sigmask, sig), sigdelset(sigmask, sig)}
  BY SetTo
<1> HIDE DEF d
<1>6. [d.handlers EXCEPT ![sig] = old] = sighandler
  BY <1>4 DEF SignalsInv
<1>7. sigdelset(d.mask, sig) = sigmask
  BY <1>5 DEF sigaddset, sigdelset
<1> HIDE DEF old
<1> QED BY <1>1, <1>3, <1>6, <1>7 DEF Dispositions, d

\* Whatever is held, released, handled and raised, for every set of signals and
\* handlers to any depth: abort returns only if that was asked for, and signal
\* gives back what it replaced.
THEOREM SignalsSafe == SignalsSpec => []AbortEnds
<1>1. SignalsInit => SignalsInv
  BY InitSignals
<1>2. SignalsInv /\ [SignalsNext]_sigvars => SignalsInv'
  BY NextSignals
<1>3. SignalsInv => AbortEnds
  <2> SUFFICES ASSUME SignalsInv PROVE AbortEnds
    OBVIOUS
  <2>1. ~escaped
    BY DEF SignalsInv
  <2> QED BY <2>1, Undone DEF AbortEnds
<1> QED BY <1>1, <1>2, <1>3, PTL DEF SignalsSpec

-----------------------------------------------------------------------------
(***************************************************************************)
(* The calendar.                                                           *)
(***************************************************************************)
\* The date is one of the calendar's and the formula gives its weekday.
CalendarInv ==
  /\ year \in 2000 .. 2099 /\ month \in 1 .. 12 /\ day \in 1 .. Days
  /\ weekday = day_of_week(year, month, day)

\* How long months are.
LEMMA DaysRange == month \in Int => Days \in {28, 29, 30, 31}
BY DEF Days

\* 1 January 2000 was a Saturday.
LEMMA InitCalendar ==
  ASSUME CalendarInit
  PROVE  CalendarInv
BY DEF CalendarInit, CalendarInv, Days, day_of_week, RTC_YEAR_BASE

\* The formula gives a day of the week.
LEMMA Weekday ==
  ASSUME NEW y \in Int, NEW m \in Int, NEW d \in Int
  PROVE  day_of_week(y, m, d) \in 0 .. 6
BY DEF day_of_week

\* The formula counts on from the last of a month to the first of the next, ...
LEMMA NextMonth ==
  ASSUME CalendarInv, month < 12
  PROVE  day_of_week(year, month + 1, 1) = (day_of_week(year, month, Days) + 1) % 7
<1>1. year \in 2000 .. 2099 /\ month \in 1 .. 12
  BY DEF CalendarInv
<1>2. CASE month = 1
  BY <1>1, <1>2 DEF Days, day_of_week
<1>3. CASE month = 2
  BY <1>1, <1>3 DEF Days, day_of_week, date_leap_year
<1>4. CASE month \in {3, 5, 7, 8, 10}
  BY SMTT(20), <1>1, <1>4 DEF Days, day_of_week
<1>5. CASE month \in {4, 6, 9, 11}
  BY SMTT(20), <1>1, <1>5 DEF Days, day_of_week
<1> QED BY <1>1, <1>2, <1>3, <1>4, <1>5

\* ... and from the last of a year to the first of the next.
LEMMA NextYear ==
  ASSUME CalendarInv, month = 12
  PROVE  day_of_week(year + 1, 1, 1) = (day_of_week(year, 12, 31) + 1) % 7
BY DEF CalendarInv, day_of_week

\* Midnight moves the date and the weekday on together.
LEMMA NextCalendar ==
  ASSUME CalendarInv, [Midnight]_calvars
  PROVE  CalendarInv'
<1>1. year \in 2000 .. 2099 /\ month \in 1 .. 12 /\ day \in 1 .. Days /\ LastYear \in 2000 .. 2099
      /\ weekday = day_of_week(year, month, day)
  BY LastYearAssumption DEF CalendarInv
<1>2. CASE UNCHANGED calvars
  BY <1>1, <1>2 DEF calvars, CalendarInv, Days
<1>3. CASE Midnight
  <2>1. weekday' = (day_of_week(year, month, day) + 1) % 7
    BY <1>1, <1>3 DEF Midnight
  <2>2. Days \in 28 .. 31
    BY <1>1, DaysRange
  <2>3. CASE day < Days /\ day' = day + 1 /\ UNCHANGED <<year, month>>
    <3>1. Days' = Days
      BY <2>3 DEF Days
    <3>2. day \in 1 .. 31 /\ day_of_week(year, month, day) \in 0 .. 6
      BY <1>1, <2>2, Weekday
    <3>3. day_of_week(year, month, day + 1) = (day_of_week(year, month, day) + 1) % 7
      BY <1>1, <3>2 DEF day_of_week
    <3>4. weekday' = day_of_week(year, month, day + 1)
      BY <2>1, <3>3
    <3> QED BY <1>1, <2>2, <2>3, <3>1, <3>4 DEF CalendarInv
  <2>4. CASE day = Days /\ month < 12 /\ day' = 1 /\ month' = month + 1 /\ UNCHANGED year
    <3>1. weekday' = day_of_week(year', month', day')
      BY <2>1, <2>4, NextMonth
    <3>2. month' \in 1 .. 12
      BY <1>1, <2>4
    <3>3. Days' \in {28, 29, 30, 31}
      BY <3>2 DEF Days
    <3> QED BY <1>1, <2>4, <3>1, <3>2, <3>3 DEF CalendarInv
  <2>5. CASE /\ day = Days /\ month = 12 /\ year < LastYear
             /\ day' = 1 /\ month' = 1 /\ year' = year + 1
    <3>1. Days = 31 /\ Days' = 31
      BY <2>5 DEF Days
    <3>2. weekday' = day_of_week(year', month', day')
      BY <2>1, <2>5, <3>1, NextYear
    <3> QED BY <1>1, <2>5, <3>1, <3>2 DEF CalendarInv
  <2> QED BY <1>3, <2>3, <2>4, <2>5 DEF Midnight
<1> QED BY <1>2, <1>3

\* What the chip holds in BCD comes back as it was.
LEMMA BcdBack == \A n \in 0 .. 99 : bcd_to_int(int_to_bcd(n)) = n
BY DEF bcd_to_int, int_to_bcd

\* What the chip holds of a number, and what rtc_time makes of it.
Put(n, bcd) == IF bcd THEN int_to_bcd(n) ELSE n
Stated(n, port0) == IF port0 = 0 THEN bcd_to_int(n) ELSE n

LEMMA PutBack ==
  ASSUME NEW n \in 0 .. 99, NEW bcd \in BOOLEAN, NEW port0, (port0 = 0) <=> bcd
  PROVE  Stated(Put(n, bcd), port0) = n
BY BcdBack DEF Stated, Put

\* An hour that the chip counts to 12 goes through BCD in the morning; up to 12
\* it makes no difference whether it was in BCD.
LEMMA PutHour ==
  ASSUME NEW n \in 0 .. 12, NEW bcd \in BOOLEAN
  PROVE  Put(n, bcd) \in 0 .. 18 /\ bcd_to_int(Put(n, bcd)) = n
BY DEF Put, bcd_to_int, int_to_bcd

\* The hour, in the morning if the chip counts to 12.
LEMMA HourMorning ==
  ASSUME NEW register \in 0 .. RTC_FLAG_PM - 1, NEW port0, NEW port2, port2 = 0
  PROVE  Hour(register, port0, port2) = bcd_to_int(register)
BY DEF Hour, RTC_FLAG_PM

\* After noon, on such a chip.
LEMMA HourAfternoon ==
  ASSUME NEW n \in Nat, NEW port0, NEW port2, port2 = 0
  PROVE  Hour(n + RTC_FLAG_PM, port0, port2)
           = IF (Stated(n, port0) + 12) % 256 = 12 THEN 0 ELSE (Stated(n, port0) + 12) % 256
<1> DEFINE register == n + RTC_FLAG_PM
<1>1. register \in Int /\ ~(register < RTC_FLAG_PM) /\ register - RTC_FLAG_PM = n
  BY DEF RTC_FLAG_PM
<1> HIDE DEF register
<1> QED BY <1>1 DEF Hour, Stated, register

\* Every hour comes back, 12 am and 12 pm of a chip that counts to 12 apart.
LEMMA HourBack ==
  ASSUME NEW hour \in 0 .. 23, NEW min, NEW bcd \in BOOLEAN, NEW day24 \in BOOLEAN,
         NEW port0, NEW port2, PortsFit(port0, port2, bcd, day24),
         day24 \/ hour % 12 # 0
  PROVE  Hour(Registered(hour, min, bcd, day24).hour, port0, port2) = hour
<1> DEFINE h12 == ((hour + 11) % 12) + 1
           register == Registered(hour, min, bcd, day24).hour
<1>1. register = IF day24 THEN Put(hour, bcd)
                 ELSE Put(h12, bcd) + (IF hour >= 12 THEN RTC_FLAG_PM ELSE 0)
  BY DEF Registered, Put
<1>2. h12 \in 0 .. 12
  OBVIOUS
<1>3. ((port0 = 0) <=> bcd) /\ ((port2 = 0) <=> (bcd \/ ~day24))
  BY DEF PortsFit
<1> SUFFICES Hour(register, port0, port2) = hour
  OBVIOUS
<1> HIDE DEF register
<1>4. CASE day24 /\ bcd
  <2>1. register = int_to_bcd(hour) /\ register \in 0 .. RTC_FLAG_PM - 1
    BY <1>1, <1>4 DEF Put, int_to_bcd, RTC_FLAG_PM
  <2> QED BY <2>1, <1>3, <1>4, BcdBack, HourMorning
<1>5. CASE day24 /\ ~bcd
  <2>1. register = hour /\ port2 # 0
    BY <1>1, <1>3, <1>5 DEF Put
  <2> QED BY <2>1 DEF Hour
<1>6. CASE ~day24 /\ hour < 12
  <2>1. h12 = hour
    BY <1>6
  <2> HIDE DEF h12
  <2>2. register = Put(h12, bcd)
    BY <1>1, <1>2, <1>6, PutHour
  <2>3. register \in 0 .. RTC_FLAG_PM - 1 /\ bcd_to_int(register) = hour
    BY <1>2, <2>1, <2>2, PutHour DEF RTC_FLAG_PM
  <2> QED BY <1>3, <1>6, <2>3, HourMorning
<1>7. CASE ~day24 /\ hour >= 12
  <2>1. h12 + 12 = hour
    BY <1>7
  <2>2. register = Put(h12, bcd) + RTC_FLAG_PM
    BY <1>1, <1>7
  <2> HIDE DEF h12
  <2>3. Put(h12, bcd) \in Nat /\ Stated(Put(h12, bcd), port0) = h12
    BY <1>2, <1>3, PutHour, PutBack
  <2>4. Hour(register, port0, port2) = IF (h12 + 12) % 256 = 12 THEN 0 ELSE (h12 + 12) % 256
    BY <1>3, <1>7, <2>2, <2>3, HourAfternoon
  <2>5. (h12 + 12) % 256 = hour /\ hour # 12
    BY <1>2, <1>7, <2>1
  <2> QED BY <2>4, <2>5
<1> QED BY <1>4, <1>5, <1>6, <1>7

\* What rtc_time makes of the registers.
LEMMA Converted ==
  ASSUME CalendarInv
  PROVE  DateConverted
<1>1. ASSUME NEW hour \in 0 .. 23, NEW min \in {0, 9, 10, 59}, NEW bcd \in BOOLEAN,
             NEW day24 \in BOOLEAN, NEW port0 \in {0, 1}, NEW port2 \in {0, 1},
             PortsFit(port0, port2, bcd, day24)
      PROVE  LET dt == Convert(Registered(hour, min, bcd, day24), port0, port2) IN
             /\ day24 \/ hour % 12 # 0 => dt.tm_hour = hour
             /\ dt.tm_min = min /\ dt.tm_sec = min
             /\ dt.tm_mday = day /\ dt.tm_mon = month - 1 /\ dt.tm_year = year - 1900
             /\ dt.tm_wday = weekday
  <2> DEFINE dt == Convert(Registered(hour, min, bcd, day24), port0, port2)
             r == Registered(hour, min, bcd, day24)
             y == Stated(r.year, port0) + RTC_YEAR_BASE - 1900
             mon == Stated(r.month, port0) - 1
  <2>0. min \in 0 .. 59 /\ ((port0 = 0) <=> bcd)
    BY <1>1 DEF PortsFit
  <2>1. /\ r.sec = Put(min, bcd) /\ r.min = Put(min, bcd) /\ r.day = Put(day, bcd)
        /\ r.month = Put(month, bcd) /\ r.year = Put(year - 2000, bcd)
    BY DEF Registered, Put
  <2>2. year \in 2000 .. 2099 /\ month \in 1 .. 12 /\ day \in 1 .. 31
        /\ weekday = day_of_week(year, month, day)
    BY DaysRange DEF CalendarInv
  <2>3. dt = Convert(r, port0, port2)
    OBVIOUS
  <2> HIDE DEF dt
  <2>4. day24 \/ hour % 12 # 0 => Hour(r.hour, port0, port2) = hour
    BY <1>1, HourBack
  <2> HIDE DEF r
  <2>5. /\ Stated(r.sec, port0) = min /\ Stated(r.min, port0) = min /\ Stated(r.day, port0) = day
        /\ Stated(r.month, port0) = month /\ Stated(r.year, port0) = year - 2000
    BY <2>0, <2>1, <2>2, PutBack
  <2>6. mon = month - 1 /\ y = year - 1900 /\ mon + 1 = month /\ y + 1900 = year
    BY <2>2, <2>5 DEF RTC_YEAR_BASE
  <2>7. /\ dt.tm_sec = Stated(r.sec, port0) /\ dt.tm_min = Stated(r.min, port0)
        /\ dt.tm_mday = Stated(r.day, port0) /\ dt.tm_mon = mon /\ dt.tm_year = y
        /\ dt.tm_hour = Hour(r.hour, port0, port2)
        /\ dt.tm_wday = day_of_week(y + 1900, mon + 1, Stated(r.day, port0))
    BY <2>3 DEF Convert, Stated
  <2>8. day_of_week(y + 1900, mon + 1, Stated(r.day, port0)) = weekday
    BY <2>2, <2>5, <2>6
  <2> HIDE DEF y, mon
  <2>9. /\ dt.tm_sec = min /\ dt.tm_min = min /\ dt.tm_mday = day
        /\ dt.tm_mon = month - 1 /\ dt.tm_year = year - 1900 /\ dt.tm_wday = weekday
    BY <2>5, <2>6, <2>7, <2>8
  <2>10. day24 \/ hour % 12 # 0 => dt.tm_hour = hour
    BY <2>4, <2>7
  <2> QED BY <2>9, <2>10 DEF dt
<1> QED BY <1>1, Zenon DEF DateConverted

\* On every day of the century, to whatever year the walk goes, a chip in any of
\* its modes is told rightly while the ports fit, 12 am and 12 pm of a chip that
\* counts to 12 apart.
THEOREM CalendarRight == CalendarSpec => []DateConverted
<1>1. CalendarInit => CalendarInv
  BY InitCalendar
<1>2. CalendarInv /\ [Midnight]_calvars => CalendarInv'
  BY NextCalendar
<1>3. CalendarInv => DateConverted
  BY Converted
<1> QED BY <1>1, <1>2, <1>3, PTL DEF CalendarSpec

-----------------------------------------------------------------------------
(***************************************************************************)
(* The heap: malloc's walk.                                                *)
(***************************************************************************)
\* A block's size and flag among the words h.
SizeIn(h, b) == h[b + 1] % HEAP_BLOCK_USED
UsedIn(h, b) == h[b + 1] >= HEAP_BLOCK_USED

\* Where the walk has been after n steps, from where it was before.
Passed(walked, h, n) ==
  IF n = 0 THEN {First}
  ELSE walked[n - 1] \union {b + SizeIn(h, b) : b \in {c \in walked[n - 1] : c < HeapEnd}}

IsWalk(walked, h, N) == walked = [n \in 0 .. N |-> Passed(walked, h, n)]

WalkOf(h) == CHOOSE walked : IsWalk(walked, h, HeapSize)

BlocksOf(h) == {b \in WalkOf(h)[HeapSize] : b < HeapEnd}

\* The blocks, now and after a step.
LEMMA BlocksAre == Blocks = BlocksOf(heap) /\ Blocks' = BlocksOf(heap')
BY DEF Blocks, BlocksOf, WalkOf, IsWalk, Passed, Size, SizeIn

\* There is a walk of every length, by induction on it.
LEMMA WalkExists ==
  ASSUME NEW h
  PROVE  \A N \in Nat : \E walked : IsWalk(walked, h, N)
<1> DEFINE T == {N \in Nat : \E walked : IsWalk(walked, h, N)}
<1>1. 0 \in T
  <2> DEFINE f == [n \in 0 .. 0 |-> {First}]
  <2>1. f = [n \in 0 .. 0 |-> Passed(f, h, n)]
    BY DEF Passed
  <2> QED BY <2>1 DEF IsWalk
<1>2. ASSUME NEW N \in Nat, N \in T
      PROVE  N + 1 \in T
  <2>1. PICK f : IsWalk(f, h, N)
    BY <1>2
  <2> DEFINE g == [n \in 0 .. N + 1 |-> IF n <= N THEN f[n] ELSE Passed(f, h, n)]
  <2>2. \A n \in 0 .. N : g[n] = f[n]
    OBVIOUS
  <2>3. \A n \in 0 .. N + 1 : g[n] = Passed(f, h, n)
    BY <2>1 DEF IsWalk
  <2>4. \A n \in 0 .. N + 1 : n # 0 => n - 1 \in 0 .. N
    OBVIOUS
  <2>5. \A n \in 0 .. N + 1 : Passed(g, h, n) = Passed(f, h, n)
    <3> HIDE DEF g
    <3> QED BY <2>2, <2>4 DEF Passed
  <2>6. g = [n \in 0 .. N + 1 |-> Passed(g, h, n)]
    <3>1. g = [n \in 0 .. N + 1 |-> g[n]]
      OBVIOUS
    <3> HIDE DEF g
    <3>2. \A n \in 0 .. N + 1 : g[n] = Passed(g, h, n)
      BY <2>3, <2>5
    <3> QED BY <3>1, <3>2
  <2>7. IsWalk(g, h, N + 1)
    BY <2>6 DEF IsWalk
  <2> HIDE DEF g
  <2> QED BY <2>7
<1> HIDE DEF T
<1>3. \A N \in Nat : N \in T
  BY <1>1, <1>2, Induction
<1> QED BY <1>3 DEF T

\* The walk passes the blocks of B when B holds the first block, with each the
\* one after it, and a block before each but the first.
LEMMA WalkPasses ==
  ASSUME NEW h, NEW B, B \subseteq First .. HeapEnd - 1, First \in B,
         \A b \in B : SizeIn(h, b) \in Nat,
         \A b \in B : b + SizeIn(h, b) \in B \/ b + SizeIn(h, b) >= HeapEnd,
         \A b \in B \ {First} : \E c \in B : c < b /\ c + SizeIn(h, c) = b
  PROVE  BlocksOf(h) = B
<1> DEFINE w == WalkOf(h)
<1>0. HeapSize \in Nat /\ HeapEnd = HeapSize + 1 /\ First = 3
  BY HeapAssumption DEF HeapEnd, HeapStart, First, HEAP_HEAD_SIZE, HEAP_BLOCK_USED
<1>1. IsWalk(w, h, HeapSize)
  BY <1>0, WalkExists DEF WalkOf
<1> HIDE DEF w
<1>2. w[0] = {First}
  BY <1>0, <1>1 DEF IsWalk, Passed
<1>3. ASSUME NEW n \in Nat, n + 1 <= HeapSize
      PROVE  w[n + 1] = w[n] \union {b + SizeIn(h, b) : b \in {c \in w[n] : c < HeapEnd}}
  <2>1. n + 1 \in 0 .. HeapSize /\ n + 1 # 0 /\ (n + 1) - 1 = n
    BY <1>0, <1>3
  <2> QED BY <1>1, <2>1 DEF IsWalk, Passed
<1> DEFINE T == {n \in Nat : n <= HeapSize =>
                    /\ \A b \in w[n] : b < HeapEnd => b \in B
                    /\ \A b \in B : b <= First + n => b \in w[n]}
<1>4. 0 \in T
  BY <1>0, <1>2
<1>5. ASSUME NEW n \in Nat, n \in T
      PROVE  n + 1 \in T
  <2> SUFFICES ASSUME n + 1 <= HeapSize
               PROVE  /\ \A b \in w[n + 1] : b < HeapEnd => b \in B
                      /\ \A b \in B : b <= First + (n + 1) => b \in w[n + 1]
    OBVIOUS
  <2>1. /\ \A b \in w[n] : b < HeapEnd => b \in B
        /\ \A b \in B : b <= First + n => b \in w[n]
    BY <1>0, <1>5
  <2>2. ASSUME NEW b \in w[n + 1], b < HeapEnd PROVE b \in B
    <3>1. b \in w[n] \/ \E c \in w[n] : c < HeapEnd /\ b = c + SizeIn(h, c)
      BY <1>3
    <3>2. CASE b \in w[n]
      BY <2>1, <2>2, <3>2
    <3>3. ASSUME NEW c \in w[n], c < HeapEnd, b = c + SizeIn(h, c) PROVE b \in B
      <4>1. c \in B
        BY <2>1, <3>3
      <4>2. b \in Int /\ ~(b >= HeapEnd)
        BY <1>0, <2>2, <3>3, <4>1
      <4> QED BY <3>3, <4>1, <4>2
    <3> QED BY <3>1, <3>2, <3>3
  <2>3. ASSUME NEW b \in B, b <= First + (n + 1) PROVE b \in w[n + 1]
    <3>1. CASE b = First
      BY <1>0, <1>3, <2>1, <3>1
    <3>2. CASE b # First
      <4>1. PICK c \in B : c < b /\ c + SizeIn(h, c) = b
        BY <3>2
      <4>2. c \in w[n] /\ c < HeapEnd
        BY <1>0, <2>1, <2>3, <4>1
      <4> QED BY <1>3, <4>1, <4>2
    <3> QED BY <3>1, <3>2
  <2> QED BY <2>2, <2>3
<1> HIDE DEF T
<1>6. \A n \in Nat : n \in T
  BY <1>4, <1>5, Induction
<1>7. /\ \A b \in w[HeapSize] : b < HeapEnd => b \in B
      /\ \A b \in B : b <= First + HeapSize => b \in w[HeapSize]
  BY <1>0, <1>6 DEF T
<1>8. BlocksOf(h) = {b \in w[HeapSize] : b < HeapEnd}
  BY DEF BlocksOf, w
<1>9. \A b \in B : b < HeapEnd /\ b <= First + HeapSize
  BY <1>0
<1> QED BY <1>7, <1>8, <1>9

-----------------------------------------------------------------------------
(***************************************************************************)
(* The chain of blocks.                                                    *)
(***************************************************************************)
\* The word at which the last block ends, one past the end of the space.
Beyond == HeapEnd + 1

\* The blocks B among the words h: one ends where the next begins, each knows
\* the one before it, and only the last is free.
Chain(B, h) ==
  /\ h \in [Words -> Nat]
  /\ B \subseteq First .. HeapEnd - 1 /\ First \in B
  /\ h[First] = 0
  /\ \A b \in B :
       /\ SizeIn(h, b) >= HEAP_HEAD_SIZE
       /\ b + SizeIn(h, b) \in B \union {Beyond}
       /\ ~UsedIn(h, b) => b + SizeIn(h, b) = Beyond
       /\ b # First => h[b] \in B /\ h[b] + SizeIn(h, h[b]) = b
  /\ \A b, c \in B : b < c => b + SizeIn(h, b) <= c

\* The space has room for a header and is smaller than the flag.
LEMMA Room == HeapSize \in 4 .. 1022
BY HeapAssumption DEF HEAP_BLOCK_USED

\* Where everything is.
LEMMA Layout ==
  /\ HeapSize \in 4 .. 1022 /\ HEAP_BLOCK_USED = 1024 /\ HEAP_HEAD_SIZE = 2 /\ HEAP_ALIGN = 4
  /\ HeapStart = 1 /\ First = 3 /\ HeapEnd = HeapSize + 1 /\ Beyond = HeapSize + 2
  /\ Words = 1 .. HeapSize + 3
BY HeapAssumption
DEF HEAP_BLOCK_USED, HEAP_HEAD_SIZE, HEAP_ALIGN, HeapStart, First, HeapEnd, Beyond, Words

\* A word as a size and a flag.
LEMMA Header ==
  ASSUME NEW h, NEW b, h[b + 1] \in Nat
  PROVE  /\ SizeIn(h, b) \in 0 .. 1023
         /\ h[b + 1] < 1024 => SizeIn(h, b) = h[b + 1] /\ ~UsedIn(h, b)
         /\ ~UsedIn(h, b) => h[b + 1] < 1024
         /\ h[b + 1] \in 1024 .. 2047 => SizeIn(h, b) = h[b + 1] - 1024 /\ UsedIn(h, b)
<1> DEFINE word == h[b + 1]
<1>1. word \in Nat /\ SizeIn(h, b) = word % 1024 /\ (UsedIn(h, b) <=> word >= 1024)
  BY DEF SizeIn, UsedIn, HEAP_BLOCK_USED
<1> HIDE DEF word
<1>2. /\ SizeIn(h, b) \in 0 .. 1023
      /\ word < 1024 => SizeIn(h, b) = word /\ ~UsedIn(h, b)
      /\ ~UsedIn(h, b) => word < 1024
      /\ word \in 1024 .. 2047 => SizeIn(h, b) = word - 1024 /\ UsedIn(h, b)
  BY <1>1
<1> QED BY <1>2 DEF word

\* What the words say of a block.
LEMMA ABlock ==
  ASSUME NEW h, NEW B, Chain(B, h), NEW b \in B
  PROVE  /\ b \in 3 .. HeapSize
         /\ h[b] \in Nat /\ h[b + 1] \in Nat
         /\ SizeIn(h, b) \in 2 .. 1023
         /\ b + SizeIn(h, b) \in B \/ b + SizeIn(h, b) = Beyond
         /\ b + SizeIn(h, b) <= HeapSize + 2
         /\ ~UsedIn(h, b) => h[b + 1] = SizeIn(h, b) /\ b + SizeIn(h, b) = Beyond
<1>1. b \in 3 .. HeapSize /\ b \in Words /\ b + 1 \in Words
  BY Layout DEF Chain
<1>2. h[b + 1] \in Nat /\ h[b] \in Nat
  BY <1>1 DEF Chain
<1>3. SizeIn(h, b) \in 0 .. 1023 /\ (~UsedIn(h, b) => h[b + 1] = SizeIn(h, b))
  BY <1>2, Header
<1>4. /\ SizeIn(h, b) >= HEAP_HEAD_SIZE
      /\ b + SizeIn(h, b) \in B \/ b + SizeIn(h, b) = Beyond
      /\ ~UsedIn(h, b) => b + SizeIn(h, b) = Beyond
  BY DEF Chain
<1>5. B \subseteq 3 .. HeapSize
  BY Layout DEF Chain
<1>6. SizeIn(h, b) \in 2 .. 1023
  BY <1>3, <1>4 DEF HEAP_HEAD_SIZE
<1>7. b + SizeIn(h, b) <= HeapSize + 2
  <2>1. Beyond = HeapSize + 2
    BY Layout
  <2>2. b + SizeIn(h, b) \in 3 .. HeapSize \/ b + SizeIn(h, b) = HeapSize + 2
    BY <1>4, <1>5, <2>1
  <2> QED BY ONLY <2>2, Room
<1> QED BY <1>1, <1>2, <1>3, <1>4, <1>6, <1>7

\* The blocks of a chain are the ones the walk passes.
LEMMA ChainBlocks ==
  ASSUME NEW h, NEW B, Chain(B, h)
  PROVE  BlocksOf(h) = B
<1>1. ASSUME NEW b \in B
      PROVE  SizeIn(h, b) \in Nat /\ (b + SizeIn(h, b) \in B \/ b + SizeIn(h, b) >= HeapEnd)
  <2>1. SizeIn(h, b) \in 2 .. 1023 /\ (b + SizeIn(h, b) \in B \/ b + SizeIn(h, b) = Beyond)
    BY ABlock
  <2>2. b \in Int
    BY ABlock
  <2> QED BY SMTT(20), <2>1, <2>2, Room DEF Beyond, HeapEnd, HeapStart
<1>2. ASSUME NEW b \in B \ {First}
      PROVE  \E c \in B : c < b /\ c + SizeIn(h, c) = b
  <2>1. h[b] \in B /\ h[b] + SizeIn(h, h[b]) = b
    BY DEF Chain
  <2>2. h[b] \in Int /\ SizeIn(h, h[b]) \in 2 .. 1023
    BY <2>1, ABlock
  <2>3. h[b] < b
    BY <2>1, <2>2
  <2> QED BY <2>1, <2>3
<1>3. B \subseteq First .. HeapEnd - 1 /\ First \in B
  BY DEF Chain
<1> QED BY <1>1, <1>2, <1>3, WalkPasses

\* The chain of a free space is its first block.
LEMMA OneBlock ==
  ASSUME NEW h \in [Words -> Nat], h[First] = 0,
         h[First + 1] = HeapSize - 1
  PROVE  Chain({First}, h) /\ ~UsedIn(h, First) /\ SizeIn(h, First) = HeapSize - 1
<1>1. h[First + 1] \in Nat /\ h[First + 1] < 1024
  BY Layout
<1>2. SizeIn(h, First) = HeapSize - 1 /\ ~UsedIn(h, First)
  BY <1>1, Header
<1> QED BY <1>2, Layout DEF Chain

\* A chain in numbers.
LEMMA MakeChain ==
  ASSUME NEW h, NEW B, h \in [Words -> Nat], B \subseteq 3 .. HeapSize, 3 \in B,
         h[3] = 0,
         \A b \in B : SizeIn(h, b) \in 2 .. 1023,
         \A b \in B : b + SizeIn(h, b) \in B \/ b + SizeIn(h, b) = HeapSize + 2,
         \A b \in B : ~UsedIn(h, b) => b + SizeIn(h, b) = HeapSize + 2,
         \A b \in B : b # 3 => h[b] \in B /\ h[b] + SizeIn(h, h[b]) = b,
         \A b, c \in B : b < c => b + SizeIn(h, b) <= c
  PROVE  Chain(B, h)
<1>1. First = 3 /\ HEAP_HEAD_SIZE = 2 /\ Beyond = HeapSize + 2
  BY Room DEF First, HEAP_HEAD_SIZE, Beyond, HeapEnd, HeapStart
<1>2. First .. HeapEnd - 1 = 3 .. HeapSize
  BY ONLY Room DEF First, HEAP_HEAD_SIZE, HeapEnd, HeapStart
<1>3. \A b \in B : SizeIn(h, b) \in 2 .. 1023
  BY Zenon
<1>4. \A b \in B : SizeIn(h, b) >= HEAP_HEAD_SIZE
  BY ONLY <1>3 DEF HEAP_HEAD_SIZE
<1>5. h[First] = 0
  BY <1>1
<1>6. \A b \in B : /\ b + SizeIn(h, b) \in B \union {Beyond}
                   /\ ~UsedIn(h, b) => b + SizeIn(h, b) = Beyond
                   /\ b # First => h[b] \in B /\ h[b] + SizeIn(h, h[b]) = b
  BY <1>1
<1>7. B \subseteq First .. HeapEnd - 1 /\ First \in B
  BY <1>1, <1>2, Zenon
<1>8. h \in [Words -> Nat] /\ \A b, c \in B : b < c => b + SizeIn(h, b) <= c
  OBVIOUS
<1> QED BY ONLY <1>4, <1>5, <1>6, <1>7, <1>8 DEF Chain

\* What a chain says of its blocks together.
LEMMA Order ==
  ASSUME NEW h, NEW B, Chain(B, h)
  PROVE  /\ h \in [Words -> Nat] /\ B \subseteq 3 .. HeapSize /\ 3 \in B
         /\ h[3] = 0
         /\ \A b \in B : ~UsedIn(h, b) => b + SizeIn(h, b) = HeapSize + 2
         /\ \A b \in B : b # 3 => h[b] \in B /\ h[b] + SizeIn(h, h[b]) = b
         /\ \A b, c \in B : b < c => b + SizeIn(h, b) <= c
BY Room DEF Chain, First, HEAP_HEAD_SIZE, Beyond, HeapEnd, HeapStart

\* malloc takes size words of the free block: what is left of it becomes a block
\* of its own, and B and the words h become C and g.
Malloced(B, h, block, size, C, g) ==
  LET s == SizeIn(h, block) IN
  /\ block \in B /\ ~UsedIn(h, block)
  /\ size \in 2 .. 1023 /\ (size = s \/ size + 2 <= s)
  /\ g \in [Words -> Nat] /\ g[block + 1] = size + 1024
  /\ \A a \in Words : a <= block => g[a] = h[a]
  /\ size # s => g[block + size] = block /\ g[block + size + 1] = s - size
  /\ C = IF size = s THEN B ELSE B \union {block + size}

\* malloc of the free block leaves a chain: the block is used, what is left of it
\* is the last block, and the other blocks' headers lie before it.
LEMMA Allocated ==
  ASSUME NEW h, NEW B, Chain(B, h), NEW block, NEW size, NEW g, NEW C,
         Malloced(B, h, block, size, C, g)
  PROVE  /\ Chain(C, g) /\ SizeIn(g, block) = size /\ UsedIn(g, block)
         /\ \A b \in B \ {block} : /\ SizeIn(g, b) = SizeIn(h, b) /\ b + SizeIn(h, b) <= block
                                   /\ UsedIn(h, b) /\ UsedIn(g, b)
         /\ \A b \in C \ B : ~UsedIn(g, b)
<1> DEFINE s == SizeIn(h, block)
<1>0. /\ block \in B /\ ~UsedIn(h, block)
      /\ size \in 2 .. 1023 /\ (size = s \/ size + 2 <= s)
      /\ g \in [Words -> Nat] /\ g[block + 1] = size + 1024
      /\ \A a \in Words : a <= block => g[a] = h[a]
      /\ size # s => g[block + size] = block /\ g[block + size + 1] = s - size
      /\ C = IF size = s THEN B ELSE B \union {block + size}
      /\ s = SizeIn(h, block)
  BY DEF Malloced
<1> HIDE DEF s
<1> USE <1>0
<1>1. /\ block \in 3 .. HeapSize /\ s \in 2 .. 1023 /\ block + s = HeapSize + 2
  BY ABlock, Order
<1>2. \A b \in B : b \in 3 .. HeapSize /\ SizeIn(h, b) \in 2 .. 1023
  BY ABlock
<1>3. Words = 1 .. HeapSize + 3
  BY Layout
<1>4. ASSUME NEW b \in B \ {block}
      PROVE  /\ SizeIn(g, b) = SizeIn(h, b) /\ b + SizeIn(h, b) <= block /\ b < block
             /\ UsedIn(h, b) /\ UsedIn(g, b) /\ g[b] = h[b] /\ b + SizeIn(h, b) \in B
  <2>1. ~(block < b)
    <3>1. block < b => block + s <= b
      BY Order
    <3> QED BY <1>1, <1>2, <3>1, Room
  <2>2. b < block /\ b + SizeIn(h, b) <= block
    BY <1>1, <1>2, <2>1, Order
  <2>3. b + 1 \in Words /\ b \in Words /\ b + 1 <= block /\ b + SizeIn(h, b) # HeapSize + 2
    BY <1>1, <1>2, <1>3, <2>2, Room
  <2>4. g[b + 1] = h[b + 1] /\ g[b] = h[b]
    BY <2>2, <2>3, <1>1, <1>2
  <2>5. SizeIn(g, b) = SizeIn(h, b) /\ (UsedIn(g, b) <=> UsedIn(h, b))
    BY <2>4 DEF SizeIn, UsedIn
  <2>6. UsedIn(h, b)
    BY <2>3, Order
  <2>7. b + SizeIn(h, b) \in B
    <3>1. b + SizeIn(h, b) \in B \/ b + SizeIn(h, b) = Beyond
      BY ABlock
    <3>2. Beyond = HeapSize + 2
      BY Layout
    <3> QED BY <2>3, <3>1, <3>2
  <2> QED BY <2>2, <2>4, <2>5, <2>6, <2>7
<1>5. SizeIn(g, block) = size /\ UsedIn(g, block)
  <2>1. size \in 2 .. 1023 /\ g[block + 1] = size + 1024
    OBVIOUS
  <2>2. g[block + 1] \in Nat /\ g[block + 1] \in 1024 .. 2047 /\ g[block + 1] - 1024 = size
    BY ONLY <2>1
  <2> QED BY ONLY <2>2, Header
<1> DEFINE next == block + size
<1>6. ASSUME size # s
      PROVE  /\ next \in 5 .. HeapSize /\ next \notin B
             /\ SizeIn(g, next) = s - size /\ ~UsedIn(g, next) /\ g[next] = block
             /\ s - size \in 2 .. 1021
  <2>0. size \in 2 .. 1023 /\ s \in 2 .. 1023 /\ (size = s \/ size + 2 <= s)
    BY <1>1
  <2>1. next \in 5 .. HeapSize /\ s - size \in 2 .. 1021
    BY ONLY <1>1, <1>6, <2>0, Room DEF next
  <2>2. g[next + 1] = s - size /\ g[next] = block
    BY <1>6
  <2>3. SizeIn(g, next) = s - size /\ ~UsedIn(g, next)
    <3> HIDE DEF next
    <3>1. g[next + 1] \in Nat /\ g[next + 1] < 1024
      BY SMTT(20), <2>1, <2>2
    <3> QED BY <2>2, <3>1, Header
  <2>4. next \notin B
    <3>1. block < next /\ block + s > next
      BY ONLY <1>1, <2>0, <2>1, Room DEF next
    <3> HIDE DEF next
    <3> QED BY <3>1, <1>1, <2>1, Order
  <2> QED BY <2>1, <2>2, <2>3, <2>4
<1>7. C = IF size = s THEN B ELSE B \union {next}
  OBVIOUS
<1> HIDE DEF next
<1>8. \A b \in C \ B : b = next /\ size # s
  BY <1>7
<1>9. Chain(C, g)
  <2>1. C \subseteq 3 .. HeapSize /\ 3 \in C /\ B \subseteq C
    BY <1>6, <1>7, Order
  <2>2. g[3] = 0
    <3>1. 3 \in Words /\ 3 <= block
      BY <1>1, <1>3, Room
    <3>2. g[3] = h[3]
      BY <3>1
    <3> QED BY <3>2, Order
  <2>3. ASSUME NEW b \in C
        PROVE  /\ SizeIn(g, b) \in 2 .. 1023
               /\ b + SizeIn(g, b) \in C \/ b + SizeIn(g, b) = HeapSize + 2
               /\ ~UsedIn(g, b) => b + SizeIn(g, b) = HeapSize + 2
               /\ b # 3 => g[b] \in C /\ g[b] + SizeIn(g, g[b]) = b
    <3>1. CASE b = block
      <4>1. block + size \in C \/ block + size = HeapSize + 2
        BY <1>1, <1>7 DEF next
      <4>2. ASSUME b # 3
            PROVE  g[b] \in C /\ g[b] + SizeIn(g, g[b]) = b
        <5>1. h[b] \in B /\ h[b] + SizeIn(h, h[b]) = b
          BY <3>1, <4>2, Order
        <5>2. h[b] # block
          <6>1. h[b] = block => block + s = block
            BY <3>1, <5>1
          <6> QED BY ONLY <1>1, <6>1
        <5>3. SizeIn(g, h[b]) = SizeIn(h, h[b])
          BY <1>4, <5>1, <5>2
        <5>4. b \in Words
          BY <1>1, <1>3, <3>1, Room
        <5>5. g[b] = h[b]
          BY <1>1, <3>1, <5>4
        <5> QED BY <2>1, <5>1, <5>3, <5>5
      <4>3. SizeIn(g, b) = size /\ UsedIn(g, b)
        BY <1>5, <3>1
      <4> QED BY <3>1, <4>1, <4>2, <4>3
    <3>2. CASE b \in B \ {block}
      <4>1. ASSUME b # 3
            PROVE  g[b] \in C /\ g[b] + SizeIn(g, g[b]) = b
        <5>1. h[b] \in B /\ h[b] + SizeIn(h, h[b]) = b
          BY <3>2, <4>1, Order
        <5>2. h[b] # block
          <6>1. h[b] = block => block + s = b
            BY <5>1
          <6>2. b < block /\ b \in Int
            BY <1>2, <1>4, <3>2
          <6> QED BY ONLY <1>1, <6>1, <6>2
        <5>3. SizeIn(g, h[b]) = SizeIn(h, h[b]) /\ g[b] = h[b]
          BY <1>4, <3>2, <5>1, <5>2
        <5> QED BY <2>1, <5>1, <5>3
      <4>2. SizeIn(g, b) \in 2 .. 1023 /\ b + SizeIn(g, b) \in C /\ UsedIn(g, b)
        <5>1. SizeIn(g, b) = SizeIn(h, b) /\ b + SizeIn(h, b) \in B /\ UsedIn(g, b)
          BY <1>4, <3>2
        <5>2. SizeIn(h, b) \in 2 .. 1023
          BY <1>2, <3>2
        <5>3. b + SizeIn(h, b) \in C
          BY <2>1, <5>1
        <5> QED BY ONLY <5>1, <5>2, <5>3
      <4> QED BY <4>1, <4>2
    <3>3. CASE b \notin B
      <4>1. b = next /\ size # s
        BY <1>8, <3>3
      <4>2. SizeIn(g, b) = s - size /\ b + (s - size) = HeapSize + 2
        BY <1>1, <1>6, <4>1 DEF next
      <4>3. g[b] = block /\ block + SizeIn(g, block) = b
        BY <1>5, <1>6, <4>1 DEF next
      <4>4. s - size \in 2 .. 1023
        BY <1>6, <4>1
      <4> QED BY <2>1, <4>2, <4>3, <4>4
    <3> QED BY <3>1, <3>2, <3>3
  <2>4. ASSUME NEW b \in C, NEW c \in C, b < c
        PROVE  b + SizeIn(g, b) <= c
    <3>1. CASE b \notin B
      <4>1. b + SizeIn(g, b) = HeapSize + 2 /\ b = next
        BY <1>6, <1>8, <2>3, <3>1
      <4>2. c \in B \/ c = next
        BY <1>7
      <4>3. c \in B => c <= block
        BY <1>1, <1>2, <1>4
      <4>4. block < next
        BY <1>1, <1>6 DEF next
      <4>5. next \in Int /\ c \in Int
        BY <2>1, <4>1
      <4> QED BY <2>4, <4>1, <4>2, <4>3, <4>4, <4>5, <1>1
    <3>2. CASE b = block
      <4>1. c \notin B
        BY <1>1, <1>2, <1>4, <2>4, <3>2
      <4> QED BY <1>5, <1>6, <1>8, <3>2, <4>1 DEF next
    <3>3. CASE b \in B \ {block}
      <4>1. SizeIn(g, b) = SizeIn(h, b) /\ b + SizeIn(h, b) <= block
        BY <1>4, <3>3
      <4>2. CASE c \in B
        BY <2>4, <3>3, <4>1, <4>2, Order
      <4>3. CASE c \notin B
        <5>1. c = next /\ block < next /\ next \in Int
          BY <1>1, <1>6, <1>8, <4>3 DEF next
        <5>2. b \in 3 .. HeapSize /\ SizeIn(h, b) \in 2 .. 1023
          BY <1>2, <3>3
        <5> QED BY ONLY <1>1, <4>1, <5>1, <5>2, Room, SMTT(20)
      <4> QED BY <4>2, <4>3
    <3> QED BY <3>1, <3>2, <3>3
  <2>5. /\ \A b \in C : SizeIn(g, b) \in 2 .. 1023
        /\ \A b \in C : b + SizeIn(g, b) \in C \/ b + SizeIn(g, b) = HeapSize + 2
        /\ \A b \in C : ~UsedIn(g, b) => b + SizeIn(g, b) = HeapSize + 2
        /\ \A b \in C : b # 3 => g[b] \in C /\ g[b] + SizeIn(g, g[b]) = b
    BY <2>3
  <2>6. g \in [Words -> Nat]
    OBVIOUS
  <2> QED BY ONLY <2>1, <2>2, <2>4, <2>5, <2>6, MakeChain, Zenon
<1> QED BY <1>4, <1>5, <1>6, <1>8, <1>9

-----------------------------------------------------------------------------
(***************************************************************************)
(* The users' words.                                                       *)
(***************************************************************************)
\* The words of the used blocks.
Taken(B, h) == UNION {b .. b + SizeIn(h, b) - 1 : b \in {c \in B : UsedIn(h, c)}}

\* Each used block has its user, who fills no word of another; the used blocks
\* lie at the front and u counts their words.
Users(B, h, lv, u) ==
  /\ DOMAIN lv = {b + 2 : b \in {c \in B : UsedIn(h, c)}}
  /\ \A ptr \in DOMAIN lv : lv[ptr] \subseteq ptr .. ptr + SizeIn(h, ptr - 2) - 3
  /\ u \in Nat /\ Taken(B, h) = 3 .. u + 2

\* Until a used block is joined the blocks are a chain, each used one with its
\* user, and the counters count them.
HeapInv ==
  ~misjoined =>
    /\ Chain(Blocks, heap) /\ Users(Blocks, heap, live, used)
    /\ free_count = HeapSize - used

\* A word is taken when it is of a used block.
LEMMA TakenWords ==
  ASSUME NEW B, NEW h, NEW x
  PROVE  x \in Taken(B, h) <=> \E b \in B : UsedIn(h, b) /\ x \in b .. b + SizeIn(h, b) - 1
BY DEF Taken

\* The free block begins where the users' words end.
LEMMA FreeAfter ==
  ASSUME NEW h, NEW B, Chain(B, h), NEW u \in Nat, Taken(B, h) = 3 .. u + 2,
         NEW block \in B, ~UsedIn(h, block)
  PROVE  /\ block = u + 3
         /\ \A b \in B \ {block} : UsedIn(h, b) /\ b < block /\ b + SizeIn(h, b) <= block
<1>0. \A b \in B : b \in 3 .. HeapSize /\ SizeIn(h, b) \in 2 .. 1023
  BY ONLY Chain(B, h), ABlock
<1>1. block \in 3 .. HeapSize /\ block + SizeIn(h, block) = HeapSize + 2
  BY ABlock, Order
<1>2. ASSUME NEW b \in B \ {block}
      PROVE  UsedIn(h, b) /\ b < block /\ b + SizeIn(h, b) <= block
  <2>1. b \in 3 .. HeapSize /\ SizeIn(h, b) \in 2 .. 1023
    BY <1>0
  <2>2. block < b => HeapSize + 2 <= b
    BY <1>1, Order
  <2>3. b < block
    BY <1>1, <2>1, <2>2, Room
  <2>4. b + SizeIn(h, b) <= block
    BY <2>3, Order
  <2>5. b + SizeIn(h, b) # HeapSize + 2
    BY <1>1, <2>1, <2>4, Room
  <2>6. UsedIn(h, b)
    BY <2>5, Order
  <2> QED BY <2>3, <2>4, <2>6
<1>3. ASSUME NEW x \in Taken(B, h) PROVE x < block
  <2>1. PICK b \in B : UsedIn(h, b) /\ x \in b .. b + SizeIn(h, b) - 1
    BY TakenWords
  <2>2. b + SizeIn(h, b) <= block
    BY <1>2, <2>1
  <2>3. b \in 3 .. HeapSize /\ SizeIn(h, b) \in 2 .. 1023
    BY ONLY <1>0, b \in B
  <2>4. x \in b .. b + SizeIn(h, b) - 1
    BY <2>1
  <2> DEFINE s == SizeIn(h, b)
  <2>5. x \in b .. b + s - 1 /\ b + s <= block /\ b \in Int /\ s \in Int /\ block \in Int
    <3>1. x \in b .. b + s - 1 /\ b + s <= block
      BY <2>2, <2>4, Zenon
    <3> HIDE DEF s
    <3>2. b \in Int /\ block \in Int
      BY ONLY <1>1, <2>3, Room
    <3>3. s \in Int
      BY ONLY <2>3 DEF s
    <3> QED BY <3>1, <3>2, <3>3
  <2> HIDE DEF s
  <2> QED BY ONLY <2>5
<1>4. block \notin 3 .. u + 2
  <2> SUFFICES ASSUME block \in 3 .. u + 2 PROVE FALSE
    OBVIOUS
  <2>1. block \in Taken(B, h)
    OBVIOUS
  <2>2. block < block
    BY <1>3, <2>1
  <2> QED BY ONLY <1>1, <2>2, Room
<1>5. ASSUME block # 3 PROVE block - 1 \in 3 .. u + 2
  <2>1. h[block] \in B /\ h[block] + SizeIn(h, h[block]) = block
    BY <1>5, Order
  <2>2. h[block] \in 3 .. HeapSize /\ SizeIn(h, h[block]) \in 2 .. 1023
    BY <2>1, ABlock
  <2> DEFINE p == h[block]
             s == SizeIn(h, p)
  <2>3. p \in 3 .. HeapSize /\ s \in 2 .. 1023 /\ p + s = block /\ p \in B
    BY <2>1, <2>2
  <2>4. p # block /\ block - 1 \in p .. p + s - 1
    <3> HIDE DEF p, s
    <3> QED BY ONLY <1>1, <2>3, Room
  <2>5. block - 1 \in Taken(B, h)
    <3>1. UsedIn(h, p)
      BY <1>2, <2>3, <2>4
    <3> QED BY <2>3, <2>4, <3>1, TakenWords, Zenon
  <2> QED BY <2>5
<1>6. block = u + 3
  <2>1. block >= u + 3
    BY ONLY <1>1, <1>4, Room, u \in Nat
  <2>2. block <= u + 3
    BY ONLY <1>1, <1>5, Room, u \in Nat
  <2> QED BY ONLY <1>1, <2>1, <2>2, Room, u \in Nat
<1> QED BY <1>2, <1>6

\* The block's user gets words between its header and its end.
Given(lv, block, size, lw) ==
  \E area \in SUBSET (block + 2 .. block + size - 1) :
    lw = [p \in DOMAIN lv \union {block + 2} |-> IF p = block + 2 THEN area ELSE lv[p]]

\* malloc gives its user words of his own.
LEMMA AllocatedUsers ==
  ASSUME NEW h, NEW B, Chain(B, h), NEW lv, NEW u, Users(B, h, lv, u),
         NEW block, NEW size, NEW g, NEW C, Malloced(B, h, block, size, C, g),
         NEW lw, Given(lv, block, size, lw)
  PROVE  Users(C, g, lw, u + size)
<1> PICK area \in SUBSET (block + 2 .. block + size - 1) :
      lw = [p \in DOMAIN lv \union {block + 2} |-> IF p = block + 2 THEN area ELSE lv[p]]
  BY DEF Given
<1>0. /\ block \in B /\ ~UsedIn(h, block) /\ size \in 2 .. 1023 /\ B \subseteq C
      /\ SizeIn(g, block) = size /\ UsedIn(g, block)
      /\ \A b \in B \ {block} : SizeIn(g, b) = SizeIn(h, b) /\ UsedIn(g, b)
      /\ \A b \in C \ B : ~UsedIn(g, b)
  <2>1. block \in B /\ ~UsedIn(h, block) /\ size \in 2 .. 1023 /\ B \subseteq C
    BY DEF Malloced
  <2>2. /\ SizeIn(g, block) = size /\ UsedIn(g, block)
        /\ \A b \in B \ {block} : SizeIn(g, b) = SizeIn(h, b) /\ UsedIn(g, b)
        /\ \A b \in C \ B : ~UsedIn(g, b)
    BY Allocated
  <2> QED BY <2>1, <2>2
<1> USE <1>0
<1>1. u \in Nat /\ Taken(B, h) = 3 .. u + 2
  BY DEF Users
<1>2. /\ block = u + 3
      /\ \A b \in B \ {block} : UsedIn(h, b) /\ b < block /\ b + SizeIn(h, b) <= block
  BY <1>1, FreeAfter
<1>3. \A b \in B : b \in 3 .. HeapSize /\ SizeIn(h, b) \in 2 .. 1023
  BY ABlock
<1>4. {c \in C : UsedIn(g, c)} = {c \in B : UsedIn(h, c)} \union {block}
  <2>1. \A c \in C : UsedIn(g, c) => c \in B
    OBVIOUS
  <2>2. \A c \in B : c # block => UsedIn(h, c) /\ UsedIn(g, c)
    BY <1>2
  <2>3. UsedIn(g, block) /\ block \in B /\ B \subseteq C
    OBVIOUS
  <2> QED BY ONLY <2>1, <2>2, <2>3
<1>5. DOMAIN lw = {b + 2 : b \in {c \in C : UsedIn(g, c)}}
  <2>1. DOMAIN lv = {b + 2 : b \in {c \in B : UsedIn(h, c)}}
    BY DEF Users
  <2>2. DOMAIN lw = DOMAIN lv \union {block + 2}
    OBVIOUS
  <2> QED BY <1>4, <2>1, <2>2
<1>6. ASSUME NEW ptr \in DOMAIN lw
      PROVE  lw[ptr] \subseteq ptr .. ptr + SizeIn(g, ptr - 2) - 3
  <2>1. CASE ptr = block + 2
    <3>1. lw[ptr] = area /\ ptr - 2 = block
      BY <1>2, <1>1, <2>1
    <3>2. ptr + SizeIn(g, ptr - 2) - 3 = block + size - 1
      BY <1>1, <1>2, <2>1, <3>1
    <3> QED BY <2>1, <3>1, <3>2
  <2>2. CASE ptr # block + 2
    <3>1. ptr \in DOMAIN lv /\ lw[ptr] = lv[ptr]
      BY <2>2
    <3>2. PICK b \in B : UsedIn(h, b) /\ ptr = b + 2
      BY <3>1 DEF Users
    <3>3. b # block /\ ptr - 2 = b
      BY <1>3, <2>2, <3>2
    <3>4. SizeIn(g, ptr - 2) = SizeIn(h, ptr - 2)
      BY <3>3
    <3> QED BY <3>1, <3>4 DEF Users
  <2> QED BY <2>1, <2>2, Zenon
<1>7. ASSUME NEW x
      PROVE  x \in Taken(C, g) <=> x \in 3 .. u + 2 \/ x \in block .. block + size - 1
  <2>1. x \in Taken(C, g) <=> \E b \in C : UsedIn(g, b) /\ x \in b .. b + SizeIn(g, b) - 1
    BY TakenWords
  <2>2. x \in Taken(B, h) <=> \E b \in B : UsedIn(h, b) /\ x \in b .. b + SizeIn(h, b) - 1
    BY TakenWords
  <2>3. ASSUME NEW b \in C, UsedIn(g, b), x \in b .. b + SizeIn(g, b) - 1
        PROVE  x \in 3 .. u + 2 \/ x \in block .. block + size - 1
    <3>1. b = block \/ (b \in B /\ b # block)
      BY <2>3
    <3>2. CASE b = block
      BY <2>3, <3>2
    <3>3. CASE b \in B /\ b # block
      BY <1>1, <1>2, <2>2, <2>3, <3>3
    <3> QED BY <3>1, <3>2, <3>3
  <2>4. ASSUME x \in 3 .. u + 2
        PROVE  x \in Taken(C, g)
    <3>1. PICK b \in B : UsedIn(h, b) /\ x \in b .. b + SizeIn(h, b) - 1
      BY <1>1, <2>2, <2>4
    <3>2. b \in C /\ UsedIn(g, b) /\ x \in b .. b + SizeIn(g, b) - 1
      BY <3>1
    <3> QED BY <2>1, <3>2
  <2>5. ASSUME x \in block .. block + size - 1
        PROVE  x \in Taken(C, g)
    BY <2>1, <2>5
  <2> QED BY <2>1, <2>3, <2>4, <2>5
<1>8. Taken(C, g) = 3 .. (u + size) + 2
  <2>1. \A x : x \in 3 .. (u + size) + 2 <=> x \in 3 .. u + 2 \/ x \in block .. block + size - 1
    BY ONLY <1>1, <1>2, size \in 2 .. 1023
  <2>2. \A x : x \in Taken(C, g) <=> x \in 3 .. (u + size) + 2
    BY <1>7, <2>1
  <2> QED BY ONLY <2>2
<1>9. u + size \in Nat
  BY ONLY <1>1, size \in 2 .. 1023
<1> QED BY ONLY <1>5, <1>6, <1>8, <1>9 DEF Users

\* A block is freed without joining a used one only when it is the only used
\* one, and what it becomes is the whole space.
LEMMA FreedAlone ==
  ASSUME NEW h, NEW B, Chain(B, h), NEW lv, NEW u, Users(B, h, lv, u),
         NEW block \in B, UsedIn(h, block),
         h[block] # 0 /\ SizeIn(h, h[block]) # 0 => ~UsedIn(h, h[block]),
         SizeIn(h, block + SizeIn(h, block)) # 0 =>
           /\ ~UsedIn(h, block + SizeIn(h, block))
           /\ block + SizeIn(h, block) \in B
  PROVE  /\ block = 3 /\ h[block] = 0
         /\ LET next == 3 + SizeIn(h, 3) IN
            3 + SizeIn(h, 3) + (IF SizeIn(h, next) # 0 THEN h[next + 1] ELSE 0) = HeapSize + 2
         /\ u = SizeIn(h, 3) /\ DOMAIN lv = {5}
<1>1. ASSUME block # 3 PROVE FALSE
  <2>1. h[block] \in B /\ h[block] + SizeIn(h, h[block]) = block
    BY <1>1, Order
  <2>2. h[block] \in 3 .. HeapSize /\ SizeIn(h, h[block]) \in 2 .. 1023 /\ block \in 3 .. HeapSize
    BY <2>1, ABlock
  <2>3. ~UsedIn(h, h[block])
    BY <2>2
  <2>4. h[block] + SizeIn(h, h[block]) = HeapSize + 2
    BY <2>1, <2>3, Order
  <2> QED BY <2>1, <2>2, <2>4, Room
<1>2. block = 3 /\ h[block] = 0
  BY <1>1, Order
<1> DEFINE s == SizeIn(h, 3)
           next == 3 + s
<1>3. s \in 2 .. 1023 /\ (next \in B \/ next = HeapSize + 2)
  BY <1>2, ABlock, Layout
<1>5. \A b \in B : b \in 3 .. HeapSize /\ SizeIn(h, b) \in 2 .. 1023
  BY ABlock
<1>4. SizeIn(h, next) # 0 => ~UsedIn(h, next) /\ next \in B
  BY <1>2
<1> HIDE DEF s
<1>6. next + (IF SizeIn(h, next) # 0 THEN h[next + 1] ELSE 0) = HeapSize + 2
  <2> HIDE DEF next
  <2>1. CASE next \in B
    <3>0. SizeIn(h, next) \in 2 .. 1023
      BY <1>5, <2>1
    <3>1. ~UsedIn(h, next) /\ h[next + 1] = SizeIn(h, next)
      BY <1>4, <2>1, <3>0, ABlock
    <3>2. next + SizeIn(h, next) = HeapSize + 2
      BY <2>1, <3>1, Order
    <3> QED BY <3>0, <3>1, <3>2
  <2>2. CASE next = HeapSize + 2
    <3>1. next \notin B
      BY <1>5, <2>2, Room
    <3>2. SizeIn(h, next) = 0
      BY <1>4, <3>1
    <3> QED BY <2>2, <3>2, Room
  <2> QED BY <1>3, <2>1, <2>2
<1>7. ASSUME NEW b \in B, UsedIn(h, b) PROVE b = 3
  <2>1. b # 3 => next <= b
    BY <1>5, Order DEF s
  <2>2. CASE next \in B
    <3>0. ~UsedIn(h, next)
      BY <1>4, <1>5, <2>2
    <3>1. next + SizeIn(h, next) = HeapSize + 2
      BY <2>2, <3>0, Order
    <3>2. next < b => HeapSize + 2 <= b
      BY <2>2, <3>1, Order
    <3>3. next # b
      BY <1>7, <3>0
    <3> QED BY <1>3, <1>5, <2>1, <3>2, <3>3, Room
  <2>3. CASE next = HeapSize + 2
    BY <1>5, <2>1, <2>3, Room
  <2> QED BY <1>3, <2>2, <2>3
<1>8. DOMAIN lv = {5}
  <2>1. {c \in B : UsedIn(h, c)} = {3}
    BY <1>2, <1>7
  <2> QED BY <2>1 DEF Users
<1>9. u = s
  <2>1. u \in Nat /\ \A x : x \in Taken(B, h) <=> x \in 3 .. u + 2
    BY DEF Users
  <2>2. \A x : x \in Taken(B, h) <=> x \in 3 .. 3 + s - 1
    BY <1>2, <1>7, TakenWords DEF s
  <2>3. \A x : x \in 3 .. u + 2 <=> x \in 3 .. 3 + s - 1
    BY <2>1, <2>2
  <2>4. u + 2 >= 3 => u + 2 <= 3 + s - 1
    BY ONLY <1>3, <2>1, <2>3
  <2>5. 3 + s - 1 <= u + 2
    <3>1. 3 + s - 1 \in 3 .. 3 + s - 1
      BY ONLY <1>3
    <3>2. 3 + s - 1 \in 3 .. u + 2
      BY ONLY <2>3, <3>1
    <3> QED BY ONLY <3>2, <1>3, <2>1
  <2> QED BY ONLY <1>3, <2>1, <2>4, <2>5
<1> QED BY <1>2, <1>6, <1>8, <1>9 DEF s

\* Of two free blocks one would end where the other begins.
LEMMA OneFree ==
  ASSUME NEW h, NEW B, Chain(B, h), NEW b \in B, NEW c \in B, ~UsedIn(h, b), ~UsedIn(h, c)
  PROVE  b = c
<1>1. \A d \in B : d \in 3 .. HeapSize
  BY ONLY Chain(B, h), ABlock
<1>2. ASSUME NEW d \in B, NEW e \in B, ~UsedIn(h, d), d < e PROVE FALSE
  <2>1. d + SizeIn(h, d) = HeapSize + 2 /\ d + SizeIn(h, d) <= e
    BY <1>2, Order
  <2>2. e \in 3 .. HeapSize
    BY <1>1
  <2> QED BY ONLY <2>1, <2>2, Room
<1>3. ~(b < c) /\ ~(c < b)
  BY <1>2
<1>4. b \in Int /\ c \in Int
  BY <1>1
<1> QED BY ONLY <1>3, <1>4

-----------------------------------------------------------------------------
(***************************************************************************)
(* The steps of the heap.                                                  *)
(***************************************************************************)
\* The invariant gives every user words of his own, and counts them.
LEMMA SoundHeap == HeapInv => HeapSound
<1> SUFFICES ASSUME HeapInv, ~misjoined
             PROVE  /\ \A ptr \in DOMAIN live :
                         LET block == ptr - HEAP_HEAD_SIZE IN
                         /\ block \in Blocks /\ IsUsed(block)
                         /\ live[ptr] \subseteq ptr .. block + Size(block) - 1
                    /\ \A b, c \in Blocks : b < c => b + Size(b) <= c
                    /\ used = Cardinality(UNION {b .. b + Size(b) - 1 :
                                                   b \in {c \in Blocks : IsUsed(c)}})
                    /\ used + free_count = HeapSize
  BY DEF HeapSound
<1>0. \A b : Size(b) = SizeIn(heap, b) /\ (IsUsed(b) <=> UsedIn(heap, b))
  BY DEF Size, SizeIn, IsUsed, UsedIn
<1>1. /\ Chain(Blocks, heap) /\ Users(Blocks, heap, live, used)
      /\ free_count = HeapSize - used /\ used \in Nat
  BY DEF HeapInv, Users
<1>2. ASSUME NEW ptr \in DOMAIN live
      PROVE  LET block == ptr - HEAP_HEAD_SIZE IN
             /\ block \in Blocks /\ IsUsed(block)
             /\ live[ptr] \subseteq ptr .. block + Size(block) - 1
  <2>1. PICK b \in Blocks : UsedIn(heap, b) /\ ptr = b + 2
    BY <1>1 DEF Users
  <2>2. /\ b \in 3 .. HeapSize /\ SizeIn(heap, b) \in 2 .. 1023
        /\ b + SizeIn(heap, b) <= HeapSize + 2
    BY ONLY <1>1, ABlock, b \in Blocks
  <2>3. live[ptr] \subseteq ptr .. ptr + SizeIn(heap, ptr - 2) - 3
    BY <1>1 DEF Users
  <2>4. ptr - 2 = b /\ ptr - HEAP_HEAD_SIZE = b
    BY <2>1, <2>2 DEF HEAP_HEAD_SIZE
  <2> DEFINE s == SizeIn(heap, b)
  <2>5. live[ptr] \subseteq ptr .. ptr + s - 3
    BY <2>3, <2>4
  <2>6. s \in 2 .. 1023 /\ b + s <= HeapSize + 2 /\ b \in 3 .. HeapSize /\ ptr = b + 2
    BY <2>1, <2>2
  <2>7. Size(b) = s
    BY <1>0
  <2> HIDE DEF s
  <2>8. ptr + s - 3 = b + s - 1
    BY ONLY <2>6
  <2>9. live[ptr] \subseteq ptr .. b + s - 1
    BY <2>5, <2>8
  <2>10. IsUsed(b)
    BY <1>0, <2>1
  <2> QED BY <2>4, <2>7, <2>9, <2>10
<1>3. \A b, c \in Blocks : b < c => b + Size(b) <= c
  BY <1>0, <1>1, Order
<1>4. used = Cardinality(UNION {b .. b + Size(b) - 1 : b \in {c \in Blocks : IsUsed(c)}})
  <2>1. Taken(Blocks, heap) = 3 .. used + 2
    BY <1>1 DEF Users
  <2>2. Taken(Blocks, heap) = UNION {b .. b + Size(b) - 1 : b \in {c \in Blocks : IsUsed(c)}}
    BY DEF Taken, Size, SizeIn, IsUsed, UsedIn
  <2>3. Cardinality(3 .. used + 2) = IF 3 > used + 2 THEN 0 ELSE (used + 2) - 3 + 1
    <3>1. 3 \in Int /\ used + 2 \in Int
      BY <1>1
    <3> QED BY <3>1, FS_Interval
  <2>4. Cardinality(3 .. used + 2) = used
    BY ONLY <1>1, <2>3
  <2> QED BY <2>1, <2>2, <2>4
<1>5. used + free_count = HeapSize
  BY <1>1, Room
<1> QED BY <1>2, <1>3, <1>4, <1>5

\* A heap of one free block, with no user.
LEMMA AllFree ==
  ASSUME NEW h \in [Words -> Nat], h[First] = 0,
         h[First + 1] = HeapSize - 1, NEW lv, DOMAIN lv = {}
  PROVE  Chain(BlocksOf(h), h) /\ Users(BlocksOf(h), h, lv, 0)
<1>1. Chain({First}, h) /\ ~UsedIn(h, First)
  BY OneBlock
<1>2. BlocksOf(h) = {First}
  BY <1>1, ChainBlocks
<1>3. {c \in {First} : UsedIn(h, c)} = {}
  BY <1>1
<1>4. Taken({First}, h) = {}
  BY <1>3 DEF Taken
<1>5. 3 .. 0 + 2 = {}
  OBVIOUS
<1>6. Users({First}, h, lv, 0)
  BY <1>3, <1>4, <1>5 DEF Users
<1> QED BY <1>1, <1>2, <1>6

\* heap_init makes one free block.
LEMMA InitHeap == HeapInit => HeapInv
<1> SUFFICES ASSUME HeapInit PROVE HeapInv
  OBVIOUS
<1>1. /\ \E word \in UserWords :
           heap = [a \in Words |-> IF a = 2 THEN HeapSize ELSE IF a = 4 THEN HeapSize - 1
                                  ELSE IF a \in {1, 3, HeapSize} THEN 0 ELSE word]
      /\ used = 0 /\ free_count = HeapSize /\ live = <<>>
  <2>1. /\ HeapStart = 1 /\ HeapStart + 1 = 2 /\ First = 3 /\ First + 1 = 4 /\ HeapEnd - 1 = HeapSize
        /\ HeapSize - HEAP_HEAD_SIZE + 1 = HeapSize - 1
    BY Layout
  <2> QED BY <2>1 DEF HeapInit
<1>2. First = 3 /\ First + 1 = 4 /\ Words = 1 .. HeapSize + 3
  BY Layout
<1>3. heap \in [Words -> Nat]
  <2>1. PICK word \in UserWords :
          heap = [a \in Words |-> IF a = 2 THEN HeapSize ELSE IF a = 4 THEN HeapSize - 1
                                 ELSE IF a \in {1, 3, HeapSize} THEN 0 ELSE word]
    BY <1>1
  <2>2. word \in Nat /\ HeapSize \in Nat /\ HeapSize - 1 \in Nat
    BY HeapAssumption, Room
  <2> QED BY <2>1, <2>2
<1>4. heap[3] = 0 /\ heap[4] = HeapSize - 1
  BY <1>1, <1>2, Room
<1>5. DOMAIN live = {}
  BY <1>1
<1>6. Chain(BlocksOf(heap), heap) /\ Users(BlocksOf(heap), heap, live, 0)
  BY ONLY <1>2, <1>3, <1>4, <1>5, AllFree
<1>7. free_count = HeapSize - used
  BY <1>1, Room
<1> QED BY <1>1, <1>6, <1>7, BlocksAre DEF HeapInv

\* What malloc asks of a block has room for a header and the user's words.
LEMMA NeedHolds ==
  ASSUME NEW bytes \in Nat
  PROVE  Need(bytes) \in Nat /\ Need(bytes) >= 3 /\ (bytes + 3) \div 4 + 2 <= Need(bytes)
BY DEF Need, HEAP_ALIGN, HEAP_HEAD_SIZE

\* malloc takes the one free block or fails.
LEMMA MallocHeap ==
  ASSUME HeapInv, ~misjoined, NEW bytes \in Requests, malloc(bytes)
  PROVE  HeapInv'
<1> DEFINE B == Blocks
           fits == {b \in B : Fits(b, Need(bytes))}
           need == Need(bytes)
<1>0. \A b : Size(b) = SizeIn(heap, b) /\ (IsUsed(b) <=> UsedIn(heap, b))
  BY DEF Size, SizeIn, IsUsed, UsedIn
<1>1. /\ Chain(B, heap) /\ Users(B, heap, live, used)
      /\ free_count = HeapSize - used /\ used \in Nat
  BY DEF HeapInv, Users
<1>2. /\ bytes \in Nat /\ need \in Nat /\ need >= 3 /\ (bytes + 3) \div 4 + 2 <= need
  BY HeapAssumption, NeedHolds
<1>3. CASE fits = {}
  <2>1. UNCHANGED <<heap, used, free_count, live>>
    BY <1>3 DEF malloc
  <2>2. Blocks' = Blocks
    BY <2>1, BlocksAre
  <2> QED BY <1>1, <2>1, <2>2 DEF HeapInv
<1>4. CASE fits # {}
  <2> DEFINE block == CHOOSE b \in fits : \A c \in fits : b <= c
             splits == Splits(block, need)
             size == IF splits THEN need ELSE Size(block)
             next == block + size
             ptr == block + HEAP_HEAD_SIZE
             area == ptr .. ptr + ((bytes + HEAP_ALIGN - 1) \div HEAP_ALIGN) - 1
  <2>1. PICK word \in UserWords :
          /\ heap' = [a \in Words |->
               IF a = block + 1 THEN size + HEAP_BLOCK_USED
               ELSE IF splits /\ a = next THEN block
               ELSE IF splits /\ a = next + 1 THEN Size(block) - size
               ELSE IF a \in area THEN word
               ELSE heap[a]]
          /\ free_count' = free_count - size /\ used' = used + size
          /\ live' = [p \in DOMAIN live \union {ptr} |-> IF p = ptr THEN area ELSE live[p]]
    BY <1>4 DEF malloc
  <2>2. block \in B /\ ~UsedIn(heap, block) /\ SizeIn(heap, block) >= need
    <3>1. \A b \in fits : b \in B /\ ~UsedIn(heap, b) /\ SizeIn(heap, b) >= need
      BY <1>0 DEF Fits
    <3>2. PICK b \in fits : TRUE
      BY <1>4
    <3>3. \A c \in fits : b = c
      BY <1>1, <3>1, OneFree
    <3>4. b \in Int
      <4>1. b \in 3 .. HeapSize
        BY ONLY <1>1, <3>1, b \in fits, ABlock
      <4> QED BY ONLY <4>1
    <3>5. \A c \in fits : b <= c
      BY ONLY <3>3, <3>4
    <3> HIDE DEF fits
    <3>6. block \in fits
      BY <3>5
    <3> QED BY <3>1, <3>6
  <2> HIDE DEF block
  <2> DEFINE s == SizeIn(heap, block)
  <2>3. /\ block \in 3 .. HeapSize /\ s \in 2 .. 1023 /\ block + s = HeapSize + 2
        /\ s >= need
    <3>1. block \in 3 .. HeapSize /\ s \in 2 .. 1023
      BY ONLY <1>1, <2>2, ABlock
    <3>2. block + s = HeapSize + 2
      BY ONLY <1>1, <2>2, Order
    <3> QED BY <2>2, <3>1, <3>2
  <2>4. Size(block) = s /\ (splits <=> s - need >= 2)
    BY <1>0 DEF Splits, HEAP_HEAD_SIZE
  <2>5. size = IF splits THEN need ELSE s
    BY <2>4
  <2> HIDE DEF s, size, splits, need
  <2>6. /\ size \in 2 .. 1023 /\ (size = s \/ size + 2 <= s) /\ size >= need
        /\ (splits <=> size # s)
    BY ONLY <1>2, <2>3, <2>4, <2>5
  <2>7. ptr = block + 2 /\ (bytes + HEAP_ALIGN - 1) \div HEAP_ALIGN = (bytes + 3) \div 4
    BY <1>2 DEF HEAP_HEAD_SIZE, HEAP_ALIGN
  <2>8. area \subseteq block + 2 .. block + size - 1
    <3> DEFINE w == (bytes + 3) \div 4
    <3>1. w \in Int /\ w + 2 <= size
      BY <1>2, <2>6
    <3>2. area = block + 2 .. block + 2 + w - 1
      BY <2>7
    <3> HIDE DEF w, area
    <3> QED BY ONLY <2>3, <2>6, <3>1, <3>2
  <2> HIDE DEF area
  <2>9. /\ heap \in [Words -> Nat] /\ Words = 1 .. HeapSize + 3 /\ HEAP_BLOCK_USED = 1024
        /\ word \in Nat
    BY <1>1, Layout, Order, HeapAssumption
  <2>10. heap' \in [Words -> Nat]
    <3>1. \A a \in Words : heap[a] \in Nat
      BY <2>9
    <3>2. size + HEAP_BLOCK_USED \in Nat /\ block \in Nat /\ (splits => Size(block) - size \in Nat)
      BY ONLY <2>3, <2>4, <2>6, <2>9
    <3> HIDE DEF next
    <3> QED BY <2>1, <2>9, <3>1, <3>2
  <2>11. heap'[block + 1] = size + 1024
    <3>1. block + 1 \in Words
      BY <2>3, <2>9, Room
    <3> QED BY <2>1, <2>9, <3>1
  <2>12. ASSUME NEW a \in Words, a <= block
         PROVE  heap'[a] = heap[a]
    <3>1. a # block + 1 /\ (splits => a # next /\ a # next + 1) /\ a \notin block + 2 .. block + size - 1
      BY ONLY <2>3, <2>6, <2>9, <2>12, Room
    <3>2. a \notin area
      BY <2>8, <3>1
    <3> HIDE DEF next
    <3> QED BY <2>1, <3>1, <3>2
  <2>13. size # s => heap'[next] = block /\ heap'[next + 1] = s - size
    <3> SUFFICES ASSUME size # s
                 PROVE  heap'[next] = block /\ heap'[next + 1] = s - size
      OBVIOUS
    <3>1. /\ next \in Words /\ next + 1 \in Words /\ next # block + 1
          /\ next + 1 # block + 1 /\ next + 1 # next
      BY ONLY <2>3, <2>6, <2>9, Room, size # s
    <3>2. splits
      BY <2>6
    <3> HIDE DEF next
    <3> QED BY <2>1, <2>4, <3>1, <3>2
  <2> DEFINE C == IF size = s THEN B ELSE B \union {block + size}
  <2>14. s = SizeIn(heap, block)
    BY DEF s
  <2>15. Malloced(B, heap, block, size, C, heap')
    <3>1. block \in B /\ ~UsedIn(heap, block) /\ size \in 2 .. 1023 /\ (size = s \/ size + 2 <= s)
      BY <2>2, <2>6
    <3>2. \A a \in Words : a <= block => heap'[a] = heap[a]
      BY <2>12
    <3>3. size # s => heap'[block + size] = block /\ heap'[block + size + 1] = s - size
      BY <2>13
    <3>4. C = IF size = s THEN B ELSE B \union {block + size}
      OBVIOUS
    <3> HIDE DEF B, C, next
    <3> QED BY ONLY <3>1, <3>2, <3>3, <3>4, <2>10, <2>11, <2>14 DEF Malloced
  <2>16. Given(live, block, size, live')
    <3>1. live' = [p \in DOMAIN live \union {block + 2} |->
                     IF p = block + 2 THEN area ELSE live[p]]
      BY <2>1, <2>7
    <3> QED BY ONLY <2>8, <3>1 DEF Given
  <2> HIDE DEF B, C
  <2>17. Chain(C, heap') /\ Users(C, heap', live', used + size)
    BY ONLY <1>1, <2>15, <2>16, Allocated, AllocatedUsers
  <2>18. Blocks' = C
    BY ONLY <2>17, ChainBlocks, BlocksAre
  <2>19. used' = used + size /\ free_count' = HeapSize - used'
    <3>1. used' = used + size /\ free_count' = free_count - size
      BY <2>1
    <3>2. free_count = HeapSize - used /\ used \in Nat
      BY <1>1
    <3> QED BY ONLY <2>6, <3>1, <3>2, Room
  <2> QED BY <2>17, <2>18, <2>19 DEF HeapInv
<1> QED BY <1>3, <1>4

\* free of the only block used gives back the whole space.
LEMMA FreeHeap ==
  ASSUME HeapInv, ~misjoined, NEW ptr \in DOMAIN live, free(ptr)
  PROVE  HeapInv'
<1> SUFFICES ASSUME ~misjoined'
             PROVE  /\ Chain(Blocks', heap') /\ Users(Blocks', heap', live', used')
                    /\ free_count' = HeapSize - used'
  BY DEF HeapInv
<1> DEFINE B == Blocks
<1>0. \A b : Size(b) = SizeIn(heap, b) /\ (IsUsed(b) <=> UsedIn(heap, b))
  BY DEF Size, SizeIn, IsUsed, UsedIn
<1>1. /\ Chain(B, heap) /\ Users(B, heap, live, used)
      /\ free_count = HeapSize - used /\ used \in Nat
  BY DEF HeapInv, Users
<1> DEFINE block == ptr - HEAP_HEAD_SIZE
           prev == heap[block]
           next == block + Size(block)
           joins == prev # 0 /\ Size(prev) # 0
           first == IF joins THEN prev ELSE block
           size == IF joins THEN heap[prev + 1] + Size(block) ELSE Size(block)
<1>2. block \in B /\ UsedIn(heap, block) /\ ptr = block + 2
  <2>1. PICK b \in B : UsedIn(heap, b) /\ ptr = b + 2
    BY <1>1 DEF Users
  <2>2. b \in 3 .. HeapSize
    BY ONLY <1>1, <2>1, b \in B, ABlock
  <2>3. block = b
    BY <2>1, <2>2 DEF HEAP_HEAD_SIZE
  <2> QED BY <2>1, <2>3
<1>3. /\ heap' = [heap EXCEPT
           ![block + 1] = Size(block),
           ![first + 1] = Wrapped(IF Size(next) # 0 THEN size + heap[next + 1] ELSE size)]
      /\ free_count' = free_count + Size(block) /\ used' = used - Size(block)
      /\ live' = [p \in DOMAIN live \ {ptr} |-> live[p]]
      /\ misjoined' = \/ joins /\ IsUsed(prev)
                      \/ Size(next) # 0 /\ (IsUsed(next) \/ next \notin B)
  BY DEF free
<1>4. ~(joins /\ IsUsed(prev)) /\ (Size(next) # 0 => ~IsUsed(next) /\ next \in B)
  BY <1>3
<1> DEFINE s == SizeIn(heap, 3)
           n == 3 + s
           rest == IF SizeIn(heap, n) # 0 THEN heap[n + 1] ELSE 0
<1>5. /\ block = 3 /\ heap[block] = 0 /\ n + rest = HeapSize + 2
      /\ used = s /\ DOMAIN live = {5}
  <2>1. heap[block] # 0 /\ SizeIn(heap, heap[block]) # 0 => ~UsedIn(heap, heap[block])
    BY <1>0, <1>4
  <2>2. SizeIn(heap, block + SizeIn(heap, block)) # 0 =>
          /\ ~UsedIn(heap, block + SizeIn(heap, block))
          /\ block + SizeIn(heap, block) \in B
    BY <1>0, <1>4
  <2> HIDE DEF B, block
  <2> QED BY ONLY <1>1, <1>2, <2>1, <2>2, FreedAlone
<1>6. Size(block) = s /\ next = n /\ ~joins /\ s \in 2 .. 1023
  <2>1. SizeIn(heap, 3) \in 2 .. 1023
    BY ONLY <1>1, <1>2, <1>5, ABlock
  <2> QED BY <1>0, <1>5, <2>1
<1>7. heap' = [heap EXCEPT ![4] = s, ![4] = Wrapped(IF SizeIn(heap, n) # 0 THEN s + heap[n + 1] ELSE s)]
  <2>1. first = 3 /\ size = s /\ Size(next) = SizeIn(heap, n)
    BY <1>0, <1>5, <1>6
  <2> HIDE DEF first, size, next, block, s, n
  <2>2. block + 1 = 4 /\ first + 1 = 4
    BY <1>5, <2>1
  <2> QED BY <1>3, <1>6, <2>1, <2>2, Zenon
<1> DEFINE joined == IF SizeIn(heap, n) # 0 THEN s + heap[n + 1] ELSE s
<1>8. joined = HeapSize - 1
  <2>1. heap[n + 1] \in Nat \/ SizeIn(heap, n) = 0
    <3>1. n + 1 \in Words
      <4>1. 3 + SizeIn(heap, 3) <= HeapSize + 2
        BY ONLY <1>1, <1>2, <1>5, ABlock
      <4>2. Words = 1 .. HeapSize + 3
        BY Layout
      <4>3. 3 + s <= HeapSize + 2 /\ s \in 2 .. 1023 /\ n = 3 + s
        BY <1>6, <4>1
      <4> HIDE DEF s, n
      <4> QED BY ONLY <4>2, <4>3, Room
    <3>2. heap \in [Words -> Nat]
      BY <1>1, Order
    <3> QED BY <3>1, <3>2
  <2>2. n = 3 + s /\ n + rest = HeapSize + 2
    BY <1>5
  <2>3. joined = s + rest
    <3> HIDE DEF s, n
    <3>1. CASE SizeIn(heap, n) # 0
      BY <3>1
    <3>2. CASE SizeIn(heap, n) = 0
      BY <1>6, <3>2
    <3> QED BY <3>1, <3>2
  <2>4. rest \in Int
    <3> HIDE DEF s, n
    <3> QED BY <2>1
  <2> HIDE DEF joined, rest, s, n
  <2> QED BY ONLY <1>6, <2>2, <2>3, <2>4, Room
<1>9. Wrapped(joined) = HeapSize - 1
  <2>1. (HeapSize - 1) % 2048 = HeapSize - 1
    BY ONLY Room
  <2> HIDE DEF joined
  <2> QED BY <1>8, <2>1 DEF Wrapped, HEAP_BLOCK_USED
<1>10. heap' = [heap EXCEPT ![4] = HeapSize - 1]
  <2>1. heap' = [heap EXCEPT ![4] = s, ![4] = Wrapped(joined)]
    BY <1>7
  <2> HIDE DEF joined
  <2> QED BY <1>9, <2>1
<1>11. /\ heap' \in [Words -> Nat] /\ heap'[3] = 0
       /\ heap'[4] = HeapSize - 1
  <2>1. heap \in [Words -> Nat] /\ heap[3] = 0
    BY <1>1, Order
  <2>2. Words = 1 .. HeapSize + 3
    BY Layout
  <2> QED BY ONLY <1>10, <2>1, <2>2, Room
<1>12. DOMAIN live' = {} /\ used' = 0 /\ free_count' = HeapSize
  <2>1. ptr = 5
    BY <1>2, <1>5
  <2>2. DOMAIN live' = {}
    BY <1>3, <1>5, <2>1
  <2> QED BY <1>1, <1>3, <1>5, <1>6, <2>2, Room
<1>13. First = 3 /\ First + 1 = 4
  BY Layout
<1>14. Chain(BlocksOf(heap'), heap') /\ Users(BlocksOf(heap'), heap', live', 0)
  BY ONLY <1>11, <1>12, <1>13, AllFree
<1> QED BY <1>12, <1>14, BlocksAre, Room

\* Every call keeps the chain.
LEMMA NextHeap == HeapInv /\ [HeapNext]_hvars => HeapInv'
<1> SUFFICES ASSUME HeapInv, [HeapNext]_hvars PROVE HeapInv'
  OBVIOUS
<1>1. ASSUME ~misjoined, NEW bytes \in Requests, malloc(bytes)
      PROVE  HeapInv'
  BY <1>1, MallocHeap
<1>2. ASSUME ~misjoined, NEW ptr \in DOMAIN live, free(ptr)
      PROVE  HeapInv'
  BY <1>2, FreeHeap
<1>3. CASE UNCHANGED hvars
  <2>1. Blocks' = Blocks
    BY <1>3, BlocksAre DEF hvars
  <2> QED BY <1>3, <2>1 DEF HeapInv, hvars
<1> QED BY <1>1, <1>2, <1>3 DEF HeapNext

\* In a space of any size below the flag, whatever memory held before, for
\* users who ask for any number of bytes any number of times and write what they
\* like into their words: no two users share a word and the counters add up, as
\* long as a block goes back only when no user is left beside it and no size
\* seems to be behind it.
THEOREM HeapSafe == HeapSpec => []HeapSound
<1>1. HeapInit => HeapInv
  BY InitHeap
<1>2. HeapInv /\ [HeapNext]_hvars => HeapInv'
  BY NextHeap
<1>3. HeapInv => HeapSound
  BY SoundHeap
<1> QED BY <1>1, <1>2, <1>3, PTL DEF HeapSpec

(***************************************************************************)
(* Strings: loops that search.                                             *)
(***************************************************************************)
\* A loop of at most n passes that stops at the first index of hit with its
\* value of val, and else ends with d: pass k from the end.
SearchPass(f, n, hit, val, d, k) ==
  IF k = 0 THEN d ELSE IF n - k \in hit THEN val[n - k] ELSE f[k - 1]
IsSearch(f, n, hit, val, d, N) ==
  f = [k \in 0 .. N |-> SearchPass(f, n, hit, val, d, k)]

LEMMA SearchExists ==
  ASSUME NEW n, NEW hit, NEW val, NEW d
  PROVE  \A N \in Nat : \E f : IsSearch(f, n, hit, val, d, N)
<1> DEFINE T == {N \in Nat : \E f : IsSearch(f, n, hit, val, d, N)}
<1>1. 0 \in T
  <2> DEFINE f == [k \in 0 .. 0 |-> SearchPass(<<>>, n, hit, val, d, 0)]
  <2>1. f = [k \in 0 .. 0 |-> SearchPass(f, n, hit, val, d, k)]
    BY DEF SearchPass
  <2> QED BY <2>1 DEF IsSearch
<1>2. ASSUME NEW N \in Nat, N \in T
      PROVE  N + 1 \in T
  <2>1. PICK f : IsSearch(f, n, hit, val, d, N)
    BY <1>2
  <2> DEFINE g == [k \in 0 .. N + 1 |-> IF k <= N THEN f[k] ELSE SearchPass(f, n, hit, val, d, k)]
  <2>2. \A k \in 0 .. N : g[k] = f[k]
    OBVIOUS
  <2>3. \A k \in 0 .. N + 1 : g[k] = SearchPass(f, n, hit, val, d, k)
    BY <2>1 DEF IsSearch
  <2>4. \A k \in 0 .. N + 1 : k # 0 => k - 1 \in 0 .. N
    OBVIOUS
  <2>5. \A k \in 0 .. N + 1 : SearchPass(g, n, hit, val, d, k) = SearchPass(f, n, hit, val, d, k)
    <3> HIDE DEF g
    <3> QED BY <2>2, <2>4 DEF SearchPass
  <2>6. g = [k \in 0 .. N + 1 |-> SearchPass(g, n, hit, val, d, k)]
    <3>1. g = [k \in 0 .. N + 1 |-> g[k]]
      OBVIOUS
    <3> HIDE DEF g
    <3>2. \A k \in 0 .. N + 1 : g[k] = SearchPass(g, n, hit, val, d, k)
      BY <2>3, <2>5
    <3> QED BY <3>1, <3>2
  <2>7. IsSearch(g, n, hit, val, d, N + 1)
    BY <2>6 DEF IsSearch
  <2> HIDE DEF g
  <2> QED BY <2>7
<1> HIDE DEF T
<1>3. \A N \in Nat : N \in T
  BY <1>1, <1>2, Induction
<1> QED BY <1>3 DEF T

\* What a search ends with.
LEMMA SearchEnds ==
  ASSUME NEW n \in Nat, NEW hit, NEW val, NEW d, NEW w, IsSearch(w, n, hit, val, d, n)
  PROVE  /\ (\A i \in 0 .. n - 1 : i \notin hit) => w[n] = d
         /\ \A i \in 0 .. n - 1 :
              i \in hit /\ (\A j \in 0 .. i - 1 : j \notin hit) => w[n] = val[i]
<1> DEFINE P(k) == /\ (\A i \in n - k .. n - 1 : i \notin hit) => w[k] = d
                   /\ \A i \in n - k .. n - 1 :
                        i \in hit /\ (\A j \in n - k .. i - 1 : j \notin hit) => w[k] = val[i]
           T == {k \in Nat : k <= n => P(k)}
<1>1. 0 \in T
  BY DEF IsSearch, SearchPass
<1>2. ASSUME NEW k \in Nat, k \in T
      PROVE  k + 1 \in T
  <2> SUFFICES ASSUME k + 1 <= n PROVE P(k + 1)
    OBVIOUS
  <2>1. w[k + 1] = IF n - (k + 1) \in hit THEN val[n - (k + 1)] ELSE w[k]
    <3>1. k + 1 \in 0 .. n /\ k + 1 # 0 /\ (k + 1) - 1 = k
      OBVIOUS
    <3> QED BY <3>1 DEF IsSearch, SearchPass
  <2>2. P(k)
    BY <1>2
  <2> DEFINE h == n - (k + 1)
  <2>3. h \in n - (k + 1) .. n - 1 /\ n - (k + 1) .. n - 1 = {h} \union (n - k .. n - 1)
    OBVIOUS
  <2>4. CASE h \in hit
    <3>1. ASSUME NEW i \in h .. n - 1, i \in hit, \A j \in h .. i - 1 : j \notin hit
          PROVE  i = h
      BY <2>4, <3>1
    <3> QED BY <2>1, <2>3, <2>4, <3>1
  <2>5. CASE h \notin hit
    <3>1. ASSUME NEW i \in h .. n - 1, i \in hit, \A j \in h .. i - 1 : j \notin hit
          PROVE  i \in n - k .. n - 1 /\ \A j \in n - k .. i - 1 : j \notin hit
      BY <2>5, <3>1
    <3>2. \A i \in n - k .. n - 1 : i \in h .. n - 1
      OBVIOUS
    <3> QED BY <2>1, <2>2, <2>5, <3>1, <3>2
  <2> QED BY <2>4, <2>5
<1> HIDE DEF T
<1>3. n \in T
  BY <1>1, <1>2, Induction
<1> QED BY <1>3 DEF T

(***************************************************************************)
(* Strings: loops that copy.                                               *)
(***************************************************************************)
CopyPass(f, m, dest, src, step, k) ==
  IF k = 0 THEN m
  ELSE LET p == f[k - 1]
           i == (k - 1) * step
       IN  [p EXCEPT ![dest + i] = p[src + i]]
IsCopy(f, m, dest, src, step, N) == f = [k \in 0 .. N |-> CopyPass(f, m, dest, src, step, k)]

UntilPass(f, m, dest, src, c, step, k) ==
  IF k = 0 THEN [mem |-> m, ret |-> NULL]
  ELSE LET p == f[k - 1]
           i == (k - 1) * step
       IN  IF p.ret # NULL THEN p
           ELSE [mem |-> [p.mem EXCEPT ![dest + i] = p.mem[src + i]],
                 ret |-> IF p.mem[src + i] = c THEN dest + i + step ELSE NULL]
IsUntil(f, m, dest, src, c, step, N) ==
  f = [k \in 0 .. N |-> UntilPass(f, m, dest, src, c, step, k)]

TextPass(f, m, dest, src, step, k) ==
  IF k = 0 THEN [mem |-> m, len |-> 0]
  ELSE LET p == f[k - 1]
           i == (k - 1) * step
       IN  IF p.len < k - 1 \/ p.mem[src + i] = 0 THEN p
           ELSE [mem |-> [p.mem EXCEPT ![dest + i] = p.mem[src + i]], len |-> k]
IsText(f, m, dest, src, step, N) == f = [k \in 0 .. N |-> TextPass(f, m, dest, src, step, k)]

LEMMA CopyExists ==
  ASSUME NEW m, NEW dest, NEW src, NEW step
  PROVE  \A N \in Nat : \E f : IsCopy(f, m, dest, src, step, N)
<1> DEFINE T == {N \in Nat : \E f : IsCopy(f, m, dest, src, step, N)}
<1>1. 0 \in T
  <2> DEFINE f == [k \in 0 .. 0 |-> CopyPass(<<>>, m, dest, src, step, 0)]
  <2>1. f = [k \in 0 .. 0 |-> CopyPass(f, m, dest, src, step, k)]
    BY DEF CopyPass
  <2> QED BY <2>1 DEF IsCopy
<1>2. ASSUME NEW N \in Nat, N \in T
      PROVE  N + 1 \in T
  <2>1. PICK f : IsCopy(f, m, dest, src, step, N)
    BY <1>2
  <2> DEFINE g == [k \in 0 .. N + 1 |-> IF k <= N THEN f[k] ELSE CopyPass(f, m, dest, src, step, k)]
  <2>2. \A k \in 0 .. N : g[k] = f[k]
    OBVIOUS
  <2>3. \A k \in 0 .. N + 1 : g[k] = CopyPass(f, m, dest, src, step, k)
    BY <2>1 DEF IsCopy
  <2>4. \A k \in 0 .. N + 1 : k # 0 => k - 1 \in 0 .. N
    OBVIOUS
  <2>5. \A k \in 0 .. N + 1 : CopyPass(g, m, dest, src, step, k) = CopyPass(f, m, dest, src, step, k)
    <3> HIDE DEF g
    <3> QED BY <2>2, <2>4 DEF CopyPass
  <2>6. g = [k \in 0 .. N + 1 |-> CopyPass(g, m, dest, src, step, k)]
    <3>1. g = [k \in 0 .. N + 1 |-> g[k]]
      OBVIOUS
    <3> HIDE DEF g
    <3>2. \A k \in 0 .. N + 1 : g[k] = CopyPass(g, m, dest, src, step, k)
      BY <2>3, <2>5
    <3> QED BY <3>1, <3>2
  <2>7. IsCopy(g, m, dest, src, step, N + 1)
    BY <2>6 DEF IsCopy
  <2> HIDE DEF g
  <2> QED BY <2>7
<1> HIDE DEF T
<1>3. \A N \in Nat : N \in T
  BY <1>1, <1>2, Induction
<1> QED BY <1>3 DEF T

LEMMA UntilExists ==
  ASSUME NEW m, NEW dest, NEW src, NEW c, NEW step
  PROVE  \A N \in Nat : \E f : IsUntil(f, m, dest, src, c, step, N)
<1> DEFINE T == {N \in Nat : \E f : IsUntil(f, m, dest, src, c, step, N)}
<1>1. 0 \in T
  <2> DEFINE f == [k \in 0 .. 0 |-> UntilPass(<<>>, m, dest, src, c, step, 0)]
  <2>1. f = [k \in 0 .. 0 |-> UntilPass(f, m, dest, src, c, step, k)]
    BY DEF UntilPass
  <2> QED BY <2>1 DEF IsUntil
<1>2. ASSUME NEW N \in Nat, N \in T
      PROVE  N + 1 \in T
  <2>1. PICK f : IsUntil(f, m, dest, src, c, step, N)
    BY <1>2
  <2> DEFINE g == [k \in 0 .. N + 1 |-> IF k <= N THEN f[k] ELSE UntilPass(f, m, dest, src, c, step, k)]
  <2>2. \A k \in 0 .. N : g[k] = f[k]
    OBVIOUS
  <2>3. \A k \in 0 .. N + 1 : g[k] = UntilPass(f, m, dest, src, c, step, k)
    BY <2>1 DEF IsUntil
  <2>4. \A k \in 0 .. N + 1 : k # 0 => k - 1 \in 0 .. N
    OBVIOUS
  <2>5. \A k \in 0 .. N + 1 : UntilPass(g, m, dest, src, c, step, k) = UntilPass(f, m, dest, src, c, step, k)
    <3> HIDE DEF g
    <3> QED BY <2>2, <2>4 DEF UntilPass
  <2>6. g = [k \in 0 .. N + 1 |-> UntilPass(g, m, dest, src, c, step, k)]
    <3>1. g = [k \in 0 .. N + 1 |-> g[k]]
      OBVIOUS
    <3> HIDE DEF g
    <3>2. \A k \in 0 .. N + 1 : g[k] = UntilPass(g, m, dest, src, c, step, k)
      BY <2>3, <2>5
    <3> QED BY <3>1, <3>2
  <2>7. IsUntil(g, m, dest, src, c, step, N + 1)
    BY <2>6 DEF IsUntil
  <2> HIDE DEF g
  <2> QED BY <2>7
<1> HIDE DEF T
<1>3. \A N \in Nat : N \in T
  BY <1>1, <1>2, Induction
<1> QED BY <1>3 DEF T

LEMMA TextExists ==
  ASSUME NEW m, NEW dest, NEW src, NEW step
  PROVE  \A N \in Nat : \E f : IsText(f, m, dest, src, step, N)
<1> DEFINE T == {N \in Nat : \E f : IsText(f, m, dest, src, step, N)}
<1>1. 0 \in T
  <2> DEFINE f == [k \in 0 .. 0 |-> TextPass(<<>>, m, dest, src, step, 0)]
  <2>1. f = [k \in 0 .. 0 |-> TextPass(f, m, dest, src, step, k)]
    BY DEF TextPass
  <2> QED BY <2>1 DEF IsText
<1>2. ASSUME NEW N \in Nat, N \in T
      PROVE  N + 1 \in T
  <2>1. PICK f : IsText(f, m, dest, src, step, N)
    BY <1>2
  <2> DEFINE g == [k \in 0 .. N + 1 |-> IF k <= N THEN f[k] ELSE TextPass(f, m, dest, src, step, k)]
  <2>2. \A k \in 0 .. N : g[k] = f[k]
    OBVIOUS
  <2>3. \A k \in 0 .. N + 1 : g[k] = TextPass(f, m, dest, src, step, k)
    BY <2>1 DEF IsText
  <2>4. \A k \in 0 .. N + 1 : k # 0 => k - 1 \in 0 .. N
    OBVIOUS
  <2>5. \A k \in 0 .. N + 1 : TextPass(g, m, dest, src, step, k) = TextPass(f, m, dest, src, step, k)
    <3> HIDE DEF g
    <3> QED BY <2>2, <2>4 DEF TextPass
  <2>6. g = [k \in 0 .. N + 1 |-> TextPass(g, m, dest, src, step, k)]
    <3>1. g = [k \in 0 .. N + 1 |-> g[k]]
      OBVIOUS
    <3> HIDE DEF g
    <3>2. \A k \in 0 .. N + 1 : g[k] = TextPass(g, m, dest, src, step, k)
      BY <2>3, <2>5
    <3> QED BY <3>1, <3>2
  <2>7. IsText(g, m, dest, src, step, N + 1)
    BY <2>6 DEF IsText
  <2> HIDE DEF g
  <2> QED BY <2>7
<1> HIDE DEF T
<1>3. \A N \in Nat : N \in T
  BY <1>1, <1>2, Induction
<1> QED BY <1>3 DEF T

-----------------------------------------------------------------------------
Memory == [Address -> ByteValues]

\* A memory holds small naturals, and a character is 0 for the byte 0 alone.
LEMMA Bytes ==
  ASSUME NEW m \in Memory, NEW a \in Address
  PROVE  m[a] \in ByteValues /\ m[a] \in 0 .. ByteRange - 1
BY ByteAssumption DEF Memory

LEMMA Chars ==
  ASSUME NEW b \in 0 .. ByteRange - 1, NEW c \in 0 .. ByteRange - 1
  PROVE  /\ Char(b) \in Int
         /\ Char(b) = Char(c) <=> b = c
         /\ Char(0) = 0
         /\ Char(b) >= 0 => Char(b) = b
         /\ Char(b) = c => b = c
<1> DEFINE h == ByteRange \div 2
<1>1. h \in Nat /\ h > 0 /\ h <= ByteRange
  BY ByteAssumption
<1>2. /\ \A x : Char(x) = IF x < h THEN x ELSE x - ByteRange
      /\ ByteRange \in Nat
  BY ByteAssumption DEF Char
<1> HIDE DEF h
<1> QED BY <1>1, <1>2

\* r compares n bytes at s1 and s2.
Compares(r, m, s1, s2, n) ==
  /\ (\A i \in 0 .. n - 1 : m[s1 + i] = m[s2 + i]) => r = 0
  /\ \A i \in 0 .. n - 1 :
       m[s1 + i] # m[s2 + i] /\ (\A j \in 0 .. i - 1 : m[s1 + j] = m[s2 + j]) =>
         r = m[s1 + i] - m[s2 + i]

LEMMA MemcmpIs ==
  ASSUME NEW m, NEW s1, NEW s2, NEW n \in Nat
  PROVE  Compares(memcmp(m, s1, s2, n), m, s1, s2, n)
<1> DEFINE hit == {i \in 0 .. n - 1 : m[s1 + i] # m[s2 + i]}
           val == [i \in 0 .. n - 1 |-> m[s1 + i] - m[s2 + i]]
           Is(f) == f = [k \in 0 .. n |->
                          IF k = 0 THEN 0
                          ELSE LET i == n - k
                               IN  IF m[s1 + i] # m[s2 + i] THEN m[s1 + i] - m[s2 + i]
                                   ELSE f[k - 1]]
           w == CHOOSE f : Is(f)
<1>1. ASSUME NEW f
      PROVE  Is(f) <=> IsSearch(f, n, hit, val, 0, n)
  <2>1. \A k \in 0 .. n : k # 0 => n - k \in 0 .. n - 1
    OBVIOUS
  <2> QED BY <2>1 DEF IsSearch, SearchPass
<1>2. \E f : Is(f)
  BY <1>1, SearchExists
<1>3. IsSearch(w, n, hit, val, 0, n)
  <2>1. Is(w)
    <3> HIDE DEF Is
    <3> QED BY <1>2
  <2> HIDE DEF Is, w
  <2> QED BY <1>1, <2>1
<1>4. memcmp(m, s1, s2, n) = w[n]
  BY DEF memcmp
<1> HIDE DEF w, Is
<1> DEFINE r == w[n]
<1>5. /\ \A i \in 0 .. n - 1 : val[i] = m[s1 + i] - m[s2 + i]
      /\ \A i \in 0 .. n - 1 : i \in hit <=> m[s1 + i] # m[s2 + i]
      /\ \A i \in 0 .. n - 1 : \A j \in 0 .. i - 1 : j \in hit <=> m[s1 + j] # m[s2 + j]
  OBVIOUS
<1> HIDE DEF hit, val
<1>6. /\ (\A i \in 0 .. n - 1 : i \notin hit) => r = 0
      /\ \A i \in 0 .. n - 1 :
           i \in hit /\ (\A j \in 0 .. i - 1 : j \notin hit) => r = val[i]
  BY <1>3, SearchEnds
<1> HIDE DEF r
<1>7. Compares(r, m, s1, s2, n)
  BY <1>5, <1>6 DEF Compares
<1> QED BY <1>4, <1>7 DEF r

\* i is where c comes first in n bytes at src.
FoundAt(m, src, c, i) == m[src + i] = Char(c) /\ \A j \in 0 .. i - 1 : m[src + j] # Char(c)

LEMMA MemchrIs ==
  ASSUME NEW m, NEW src \in Nat, NEW c, NEW n \in Nat
  PROVE  /\ (\A i \in 0 .. n - 1 : m[src + i] # Char(c)) => memchr(m, src, c, n) = NULL
         /\ \A i \in 0 .. n - 1 : FoundAt(m, src, c, i) => memchr(m, src, c, n) = src + i
<1> DEFINE hit == {i \in 0 .. n - 1 : m[src + i] = Char(c)}
           val == [i \in 0 .. n - 1 |-> src + i]
           Is(f) == f = [k \in 0 .. n |->
                          IF k = 0 THEN NULL
                          ELSE IF m[src + n - k] = Char(c) THEN src + n - k ELSE f[k - 1]]
           w == CHOOSE f : Is(f)
<1>1. ASSUME NEW f
      PROVE  Is(f) <=> IsSearch(f, n, hit, val, NULL, n)
  <2>1. \A k \in 0 .. n : k # 0 => n - k \in 0 .. n - 1 /\ src + n - k = src + (n - k)
    OBVIOUS
  <2> QED BY <2>1 DEF IsSearch, SearchPass
<1>2. \E f : Is(f)
  BY <1>1, SearchExists
<1>3. IsSearch(w, n, hit, val, NULL, n)
  <2>1. Is(w)
    <3> HIDE DEF Is
    <3> QED BY <1>2
  <2> HIDE DEF Is, w
  <2> QED BY <1>1, <2>1
<1>4. memchr(m, src, c, n) = w[n]
  BY DEF memchr
<1> HIDE DEF w, Is
<1> DEFINE r == w[n]
<1>5. /\ \A i \in 0 .. n - 1 : val[i] = src + i
      /\ \A i \in 0 .. n - 1 : i \in hit <=> m[src + i] = Char(c)
      /\ \A i \in 0 .. n - 1 : \A j \in 0 .. i - 1 : j \in hit <=> m[src + j] = Char(c)
  OBVIOUS
<1> HIDE DEF hit, val
<1>6. /\ (\A i \in 0 .. n - 1 : i \notin hit) => r = NULL
      /\ \A i \in 0 .. n - 1 :
           i \in hit /\ (\A j \in 0 .. i - 1 : j \notin hit) => r = val[i]
  BY <1>3, SearchEnds
<1> HIDE DEF r
<1>7. \A i \in 0 .. n - 1 : FoundAt(m, src, c, i) => r = src + i
  BY <1>5, <1>6 DEF FoundAt
<1> QED BY <1>4, <1>5, <1>6, <1>7 DEF r

\* The length of a string is where its first 0 is.
LEMMA StrlenIs ==
  ASSUME NEW m, NEW str \in Nat, str <= MemSize
  PROVE  \A i \in 0 .. MemSize - str - 1 :
              /\ m[str + i] = 0
              /\ \A j \in 0 .. i - 1 : m[str + j] # 0
              => strlen(m, str) = i
<1> DEFINE n == MemSize - str
           hit == {i \in 0 .. n - 1 : m[str + i] = 0}
           val == [i \in 0 .. n - 1 |-> i]
           Is(f) == f = [k \in 0 .. n |->
                          IF k = 0 THEN n
                          ELSE IF m[str + n - k] = 0 THEN n - k ELSE f[k - 1]]
           w == CHOOSE f : Is(f)
<1>0. n \in Nat
  BY MemoryAssumption
<1>4. strlen(m, str) = w[n]
  BY DEF strlen
<1> HIDE DEF n
<1>1. ASSUME NEW f
      PROVE  Is(f) <=> IsSearch(f, n, hit, val, n, n)
  <2>1. \A k \in 0 .. n : k # 0 => n - k \in 0 .. n - 1 /\ str + n - k = str + (n - k)
    BY <1>0
  <2> QED BY <2>1 DEF IsSearch, SearchPass
<1>2. \E f : Is(f)
  BY <1>0, <1>1, SearchExists
<1>3. IsSearch(w, n, hit, val, n, n)
  <2>1. Is(w)
    <3> HIDE DEF Is
    <3> QED BY <1>2
  <2> HIDE DEF Is, w
  <2> QED BY <1>1, <2>1
<1> HIDE DEF w, Is
<1> DEFINE r == w[n]
<1>5. /\ \A i \in 0 .. n - 1 : val[i] = i
      /\ \A i \in 0 .. n - 1 : i \in hit <=> m[str + i] = 0
      /\ \A i \in 0 .. n - 1 : \A j \in 0 .. i - 1 : j \in hit <=> m[str + j] = 0
  BY <1>0
<1> HIDE DEF hit, val
<1>6. \A i \in 0 .. n - 1 :
        i \in hit /\ (\A j \in 0 .. i - 1 : j \notin hit) => r = val[i]
  BY <1>0, <1>3, SearchEnds
<1> HIDE DEF r
<1> QED BY <1>4, <1>5, <1>6 DEF r, n

\* r compares the texts of at most n characters at s1 and s2.
ComparesText(r, m, s1, s2, n) ==
  /\ (\A i \in 0 .. n - 1 : m[s1 + i] = m[s2 + i] /\ m[s1 + i] # 0) => r = 0
  /\ \A i \in 0 .. n - 1 :
       (\A j \in 0 .. i - 1 : m[s1 + j] = m[s2 + j] /\ m[s1 + j] # 0) =>
         /\ m[s1 + i] # m[s2 + i] => r = Char(m[s1 + i]) - Char(m[s2 + i])
         /\ m[s1 + i] = m[s2 + i] /\ m[s1 + i] = 0 => r = 0

LEMMA StrncmpIs ==
  ASSUME NEW m, NEW s1, NEW s2, NEW max \in Nat
  PROVE  ComparesText(strncmp(m, s1, s2, max), m, s1, s2, max)
<1> DEFINE n == max
           hit == {i \in 0 .. n - 1 : m[s1 + i] # m[s2 + i] \/ m[s1 + i] = 0}
           val == [i \in 0 .. n - 1 |-> IF m[s1 + i] # m[s2 + i] THEN Char(m[s1 + i]) - Char(m[s2 + i])
                                   ELSE 0]
           Is(f) == f = [k \in 0 .. n |->
                          IF k = 0 THEN 0
                          ELSE LET i == n - k
                               IN  IF m[s1 + i] # m[s2 + i] THEN Char(m[s1 + i]) - Char(m[s2 + i])
                                   ELSE IF m[s1 + i] = 0 THEN 0 ELSE f[k - 1]]
           w == CHOOSE f : Is(f)
<1>1. ASSUME NEW f
      PROVE  Is(f) <=> IsSearch(f, n, hit, val, 0, n)
  <2>1. \A k \in 0 .. n : k # 0 => n - k \in 0 .. n - 1
    OBVIOUS
  <2> QED BY <2>1 DEF IsSearch, SearchPass
<1>2. \E f : Is(f)
  BY <1>1, SearchExists
<1>3. IsSearch(w, n, hit, val, 0, n)
  <2>1. Is(w)
    <3> HIDE DEF Is
    <3> QED BY <1>2
  <2> HIDE DEF Is, w
  <2> QED BY <1>1, <2>1
<1>4. strncmp(m, s1, s2, max) = w[n]
  BY DEF strncmp
<1> HIDE DEF w, Is
<1> DEFINE r == w[n]
<1>5. /\ \A i \in 0 .. n - 1 :
           /\ m[s1 + i] # m[s2 + i] => val[i] = Char(m[s1 + i]) - Char(m[s2 + i])
           /\ m[s1 + i] = m[s2 + i] => val[i] = 0
      /\ \A i \in 0 .. n - 1 : i \in hit <=> m[s1 + i] # m[s2 + i] \/ m[s1 + i] = 0
      /\ \A i \in 0 .. n - 1 : \A j \in 0 .. i - 1 :
           j \notin hit <=> m[s1 + j] = m[s2 + j] /\ m[s1 + j] # 0
  OBVIOUS
<1> HIDE DEF hit, val
<1>6. /\ (\A i \in 0 .. n - 1 : i \notin hit) => r = 0
      /\ \A i \in 0 .. n - 1 :
           i \in hit /\ (\A j \in 0 .. i - 1 : j \notin hit) => r = val[i]
  BY <1>3, SearchEnds
<1> HIDE DEF r
<1>7. ComparesText(r, m, s1, s2, n)
  BY <1>5, <1>6 DEF ComparesText
<1> QED BY <1>4, <1>7 DEF r

-----------------------------------------------------------------------------
\* The memory m after dest's n bytes have become those at src.
MovedIn(m, dest, src, n) ==
  [a \in Address |-> IF a \in dest .. dest + n - 1 THEN m[src + a - dest] ELSE m[a]]

Stored(m, a, b) == [m EXCEPT ![a] = b]

\* One byte more at the end, and at the beginning.
LEMMA MovedMore ==
  ASSUME NEW m, NEW dest \in Nat, NEW src \in Nat, NEW k \in Nat, dest + k \in Address
  PROVE  Stored(MovedIn(m, dest, src, k), dest + k, m[src + k]) = MovedIn(m, dest, src, k + 1)
<1> DEFINE f == MovedIn(m, dest, src, k)
           g == [f EXCEPT ![dest + k] = m[src + k]]
<1>1. g = [a \in Address |-> IF a = dest + k THEN m[src + k] ELSE f[a]]
  BY DEF MovedIn
<1>2. \A a \in Address : a \in dest .. dest + (k + 1) - 1 <=> a = dest + k \/ a \in dest .. dest + k - 1
  BY DEF Address
<1>3. \A a \in Address : (a = dest + k => src + a - dest = src + k) /\ ~(dest + k \in dest .. dest + k - 1)
  OBVIOUS
<1>4. \A a \in Address : f[a] = IF a \in dest .. dest + k - 1 THEN m[src + a - dest] ELSE m[a]
  BY DEF MovedIn
<1> HIDE DEF f
<1>5. g = [a \in Address |-> IF a \in dest .. dest + (k + 1) - 1 THEN m[src + a - dest] ELSE m[a]]
  BY <1>1, <1>2, <1>3, <1>4
<1> QED BY <1>5 DEF MovedIn, f, Stored

LEMMA MovedBefore ==
  ASSUME NEW m, NEW dest \in Nat, NEW src \in Nat, NEW k \in Nat, dest \in Address
  PROVE  Stored(MovedIn(m, dest + 1, src + 1, k), dest, m[src]) = MovedIn(m, dest, src, k + 1)
<1> DEFINE f == MovedIn(m, dest + 1, src + 1, k)
           g == [f EXCEPT ![dest] = m[src]]
<1>1. g = [a \in Address |-> IF a = dest THEN m[src] ELSE f[a]]
  BY DEF MovedIn
<1>2. \A a \in Address : a \in dest .. dest + (k + 1) - 1 <=> a = dest \/ a \in dest + 1 .. dest + 1 + k - 1
  BY DEF Address
<1>3. \A a \in Address : src + 1 + a - (dest + 1) = src + a - dest /\ (a = dest => src + a - dest = src)
  BY DEF Address
<1>4. \A a \in Address : f[a] = IF a \in dest + 1 .. dest + 1 + k - 1 THEN m[src + a - dest] ELSE m[a]
  BY <1>3 DEF MovedIn
<1> HIDE DEF f
<1>5. g = [a \in Address |-> IF a \in dest .. dest + (k + 1) - 1 THEN m[src + a - dest] ELSE m[a]]
  BY <1>1, <1>2, <1>3, <1>4
<1> QED BY <1>5 DEF MovedIn, f, Stored

\* The memories w between the passes of a copy.
Copying(w, m, dest, src, n, step) ==
  /\ w[0] = m
  /\ \A k \in 0 .. n - 1 :
       w[k + 1] = Stored(w[k], dest + k * step, w[k][src + k * step])

LEMMA CopyIs ==
  ASSUME NEW m, NEW dest, NEW src, NEW n \in Nat, NEW step
  PROVE  \E w : Copying(w, m, dest, src, n, step) /\ Copy(m, dest, src, n, step) = w[n]
<1> DEFINE w == CHOOSE f : IsCopy(f, m, dest, src, step, n)
<1>1. IsCopy(w, m, dest, src, step, n)
  BY CopyExists
<1>2. Copy(m, dest, src, n, step) = w[n]
  BY DEF Copy, IsCopy, CopyPass
<1> HIDE DEF w
<1>3. w[0] = m
  BY <1>1 DEF IsCopy, CopyPass
<1>4. ASSUME NEW k \in 0 .. n - 1
      PROVE  w[k + 1] = Stored(w[k], dest + k * step, w[k][src + k * step])
  <2>1. k + 1 \in 0 .. n /\ k + 1 # 0 /\ (k + 1) - 1 = k
    OBVIOUS
  <2>2. w[k + 1] = CopyPass(w, m, dest, src, step, k + 1)
    BY <1>1, <2>1 DEF IsCopy
  <2> QED BY <2>1, <2>2 DEF CopyPass, Stored
<1>5. Copying(w, m, dest, src, n, step)
  BY <1>3, <1>4 DEF Copying
<1> QED BY <1>2, <1>5

\* Upwards the source is still ahead when the destination is below it.
LEMMA CopyUp ==
  ASSUME NEW m \in Memory, NEW dest \in Nat, NEW src \in Nat, NEW n \in Nat,
         dest + n <= MemSize, src + n <= MemSize, dest < src
  PROVE  Copy(m, dest, src, n, 1) = MovedIn(m, dest, src, n)
<1>1. PICK w : Copying(w, m, dest, src, n, 1) /\ Copy(m, dest, src, n, 1) = w[n]
  BY CopyIs
<1> DEFINE T == {k \in Nat : k <= n => w[k] = MovedIn(m, dest, src, k)}
<1>2. 0 \in T
  BY <1>1 DEF Copying, MovedIn, Memory
<1>3. ASSUME NEW k \in Nat, k \in T
      PROVE  k + 1 \in T
  <2> SUFFICES ASSUME k + 1 <= n PROVE w[k + 1] = MovedIn(m, dest, src, k + 1)
    OBVIOUS
  <2>1. w[k] = MovedIn(m, dest, src, k)
    BY <1>3
  <2>2. w[k + 1] = Stored(w[k], dest + k, w[k][src + k])
    <3>1. k \in 0 .. n - 1 /\ k * 1 = k
      OBVIOUS
    <3> QED BY <1>1, <3>1 DEF Copying
  <2>3. dest + k \in Address /\ src + k \in Address /\ src + k \notin dest .. dest + k - 1
    BY MemoryAssumption DEF Address
  <2>4. w[k][src + k] = m[src + k]
    BY <2>1, <2>3 DEF MovedIn
  <2>5. Stored(w[k], dest + k, m[src + k]) = MovedIn(m, dest, src, k + 1)
    BY <2>1, <2>3, MovedMore
  <2> QED BY <2>2, <2>4, <2>5
<1> HIDE DEF T
<1>4. n \in T
  BY <1>2, <1>3, Induction
<1> QED BY <1>1, <1>4 DEF T

\* Downwards it is still ahead when the destination is above.
LEMMA CopyDown ==
  ASSUME NEW m \in Memory, NEW dest \in Nat, NEW src \in Nat, NEW n \in Nat,
         dest + n <= MemSize, src + n <= MemSize, dest > src
  PROVE  Copy(m, dest + n - 1, src + n - 1, n, -1) = MovedIn(m, dest, src, n)
<1> DEFINE d == dest + n - 1
           s == src + n - 1
<1>1. PICK w : Copying(w, m, d, s, n, -1) /\ Copy(m, d, s, n, -1) = w[n]
  BY CopyIs
<1> DEFINE At(k) == MovedIn(m, dest + n - k, src + n - k, k)
           T == {k \in Nat : k <= n => w[k] = At(k)}
<1>2. 0 \in T
  BY <1>1 DEF Copying, MovedIn, Memory
<1>3. ASSUME NEW k \in Nat, k \in T
      PROVE  k + 1 \in T
  <2> SUFFICES ASSUME k + 1 <= n PROVE w[k + 1] = At(k + 1)
    OBVIOUS
  <2>1. w[k] = At(k)
    BY <1>3
  <2>2. w[k + 1] = Stored(w[k], d - k, w[k][s - k])
    <3>1. k \in 0 .. n - 1 /\ d + k * (-1) = d - k /\ s + k * (-1) = s - k
      OBVIOUS
    <3> QED BY <1>1, <3>1 DEF Copying
  <2>3. d - k \in Address /\ s - k \in Address /\ s - k \notin dest + n - k .. dest + n - 1
    BY MemoryAssumption DEF Address
  <2>4. w[k][s - k] = m[s - k]
    BY <2>1, <2>3 DEF MovedIn
  <2>5. Stored(w[k], d - k, m[s - k]) = At(k + 1)
    <3> DEFINE e == dest + n - (k + 1)
               t == src + n - (k + 1)
    <3>1. /\ e \in Nat /\ t \in Nat /\ e = d - k /\ t = s - k
          /\ e + 1 = dest + n - k /\ t + 1 = src + n - k
      OBVIOUS
    <3> HIDE DEF e, t
    <3>2. Stored(MovedIn(m, e + 1, t + 1, k), e, m[t]) = MovedIn(m, e, t, k + 1)
      BY <2>3, <3>1, MovedBefore
    <3> QED BY <2>1, <3>1, <3>2 DEF e, t
  <2> QED BY <2>2, <2>4, <2>5
<1> HIDE DEF T
<1>4. n \in T
  BY <1>2, <1>3, Induction
<1>5. w[n] = At(n)
  BY <1>4 DEF T
<1>6. dest + n - n = dest /\ src + n - n = src
  OBVIOUS
<1> QED BY <1>1, <1>5, <1>6

LEMMA memmoveMoves ==
  ASSUME NEW m \in Memory, NEW dest \in Address, NEW src \in Address, NEW n \in Nat,
         dest + n <= MemSize, src + n <= MemSize
  PROVE  memmove(m, dest, src, n) = MovedIn(m, dest, src, n)
<1>0. dest \in Nat /\ src \in Nat
  BY DEF Address
<1>1. CASE dest < src
  BY <1>0, <1>1, CopyUp DEF memmove
<1>2. CASE dest > src
  BY <1>0, <1>2, CopyDown DEF memmove
<1>3. CASE dest = src
  <2>1. memmove(m, dest, src, n) = m
    BY <1>0, <1>3 DEF memmove
  <2>2. \A a \in Address : src + a - dest = a
    BY <1>3 DEF Address
  <2> QED BY <2>1, <2>2 DEF MovedIn, Memory
<1> QED BY <1>0, <1>1, <1>2, <1>3

-----------------------------------------------------------------------------
Ended(m, r) == [mem |-> m, ret |-> r]
UntilStep(p, d, s, c, next) ==
  IF p.ret # NULL THEN p
  ELSE Ended(Stored(p.mem, d, p.mem[s]), IF p.mem[s] = c THEN next ELSE NULL)

\* What memccpy's loop has between its passes.
Untiling(w, m, dest, src, c, n, step) ==
  /\ w[0] = Ended(m, NULL)
  /\ \A k \in 0 .. n - 1 :
       w[k + 1] = UntilStep(w[k], dest + k * step, src + k * step, c, dest + k * step + step)

LEMMA UntilIs ==
  ASSUME NEW m, NEW dest, NEW src, NEW c, NEW n \in Nat, NEW step
  PROVE  \E w : /\ Untiling(w, m, dest, src, c, n, step)
                /\ CopyUntil(m, dest, src, c, n, step) = w[n]
<1> DEFINE w == CHOOSE f : IsUntil(f, m, dest, src, c, step, n)
<1>1. IsUntil(w, m, dest, src, c, step, n)
  BY UntilExists
<1>2. CopyUntil(m, dest, src, c, n, step) = w[n]
  BY DEF CopyUntil, IsUntil, UntilPass
<1> HIDE DEF w
<1>3. w[0] = Ended(m, NULL)
  BY <1>1 DEF IsUntil, UntilPass, Ended
<1>4. ASSUME NEW k \in 0 .. n - 1
      PROVE  w[k + 1] = UntilStep(w[k], dest + k * step, src + k * step, c, dest + k * step + step)
  <2>1. k + 1 \in 0 .. n /\ k + 1 # 0 /\ (k + 1) - 1 = k
    OBVIOUS
  <2>2. w[k + 1] = UntilPass(w, m, dest, src, c, step, k + 1)
    BY <1>1, <2>1 DEF IsUntil
  <2> QED BY <2>1, <2>2 DEF UntilPass, UntilStep, Ended, Stored
<1>5. Untiling(w, m, dest, src, c, n, step)
  BY <1>3, <1>4 DEF Untiling
<1> QED BY <1>2, <1>5

LEMMA UntilGoesOn ==
  ASSUME NEW x, NEW r, NEW d, NEW s, NEW c, NEW next
  PROVE  /\ r # NULL => UntilStep(Ended(x, r), d, s, c, next) = Ended(x, r)
         /\ x[s] = c => UntilStep(Ended(x, NULL), d, s, c, next) = Ended(Stored(x, d, x[s]), next)
         /\ x[s] # c => UntilStep(Ended(x, NULL), d, s, c, next) = Ended(Stored(x, d, x[s]), NULL)
BY DEF UntilStep, Ended

\* r is the copy stopped behind the first c, or behind the last.
StopsFirst(r, m, dest, src, c, n) ==
  /\ (\A i \in 0 .. n - 1 : m[src + i] # c) => r = Ended(MovedIn(m, dest, src, n), NULL)
  /\ \A i \in 0 .. n - 1 :
       m[src + i] = c /\ (\A j \in 0 .. i - 1 : m[src + j] # c) =>
         r = Ended(MovedIn(m, dest, src, i + 1), dest + i + 1)
StopsLast(r, m, dest, src, c, n) ==
  /\ (\A i \in 0 .. n - 1 : m[src + i] # c) => r = Ended(MovedIn(m, dest, src, n), NULL)
  /\ \A i \in 0 .. n - 1 :
       m[src + i] = c /\ (\A j \in i + 1 .. n - 1 : m[src + j] # c) =>
         r = Ended(MovedIn(m, dest + i, src + i, n - i), dest + i - 1)

\* Upwards memccpy stops behind the first c.
LEMMA UntilUp ==
  ASSUME NEW m \in Memory, NEW dest \in Nat, NEW src \in Nat, NEW c, NEW n \in Nat,
         dest + n <= MemSize, src + n <= MemSize,
         \A k \in 0 .. n - 1 : src + k \notin dest .. dest + k - 1
  PROVE  StopsFirst(CopyUntil(m, dest, src, c, n, 1), m, dest, src, c, n)
<1>1. PICK w : Untiling(w, m, dest, src, c, n, 1) /\ CopyUntil(m, dest, src, c, n, 1) = w[n]
  BY UntilIs
<1> DEFINE P(k) == /\ (\A i \in 0 .. k - 1 : m[src + i] # c) =>
                         w[k] = Ended(MovedIn(m, dest, src, k), NULL)
                   /\ \A i \in 0 .. k - 1 :
                        m[src + i] = c /\ (\A j \in 0 .. i - 1 : m[src + j] # c) =>
                          w[k] = Ended(MovedIn(m, dest, src, i + 1), dest + i + 1)
           T == {k \in Nat : k <= n => P(k)}
<1>2. 0 \in T
  <2>1. MovedIn(m, dest, src, 0) = m
    BY DEF MovedIn, Memory
  <2>2. w[0] = Ended(m, NULL)
    BY <1>1 DEF Untiling
  <2> QED BY <2>1, <2>2
<1>3. ASSUME NEW k \in Nat, k \in T
      PROVE  k + 1 \in T
  <2> SUFFICES ASSUME k + 1 <= n PROVE P(k + 1)
    OBVIOUS
  <2> DEFINE x == MovedIn(m, dest, src, k)
             y == MovedIn(m, dest, src, k + 1)
  <2>1. P(k)
    BY <1>3
  <2>2. w[k + 1] = UntilStep(w[k], dest + k, src + k, c, dest + k + 1)
    <3>1. k \in 0 .. n - 1 /\ k * 1 = k
      OBVIOUS
    <3> QED BY <1>1, <3>1 DEF Untiling
  <2>3. dest + k \in Address /\ src + k \in Address /\ src + k \notin dest .. dest + k - 1
    BY MemoryAssumption DEF Address
  <2>4. x[src + k] = m[src + k]
    BY <2>3 DEF MovedIn
  <2>5. Stored(x, dest + k, x[src + k]) = y
    <3>1. Stored(MovedIn(m, dest, src, k), dest + k, m[src + k]) = y
      BY <2>3, MovedMore
    <3> QED BY <2>4, <3>1
  <2> HIDE DEF x, y
  <2>6. ASSUME \A i \in 0 .. k - 1 : m[src + i] # c
        PROVE  /\ m[src + k] # c => w[k + 1] = Ended(y, NULL)
               /\ m[src + k] = c => w[k + 1] = Ended(y, dest + k + 1)
    <3>1. w[k] = Ended(x, NULL)
      BY <2>1, <2>6 DEF x
    <3> QED BY <2>2, <2>4, <2>5, <3>1, UntilGoesOn
  <2>7. ASSUME NEW i \in 0 .. k - 1, m[src + i] = c, \A j \in 0 .. i - 1 : m[src + j] # c
        PROVE  w[k + 1] = Ended(MovedIn(m, dest, src, i + 1), dest + i + 1)
    <3>1. w[k] = Ended(MovedIn(m, dest, src, i + 1), dest + i + 1)
      BY <2>1, <2>7
    <3>2. dest + i + 1 # NULL
      BY DEF NULL
    <3> QED BY <2>2, <3>1, <3>2, UntilGoesOn
  <2>8. 0 .. (k + 1) - 1 = (0 .. k - 1) \union {k}
    OBVIOUS
  <2> QED BY <2>6, <2>7, <2>8 DEF y
<1> HIDE DEF T
<1>4. n \in T
  BY <1>2, <1>3, Induction
<1>5. P(n)
  BY <1>4 DEF T
<1>6. StopsFirst(w[n], m, dest, src, c, n)
  BY <1>5 DEF StopsFirst
<1> QED BY <1>1, <1>6

\* Downwards it stops behind the last one.
LEMMA UntilDown ==
  ASSUME NEW m \in Memory, NEW dest \in Nat, NEW src \in Nat, NEW c, NEW n \in Nat,
         dest + n <= MemSize, src + n <= MemSize, dest > src
  PROVE  StopsLast(CopyUntil(m, dest + n - 1, src + n - 1, c, n, -1), m, dest, src, c, n)
<1> DEFINE d == dest + n - 1
           s == src + n - 1
<1>1. PICK w : Untiling(w, m, d, s, c, n, -1) /\ CopyUntil(m, d, s, c, n, -1) = w[n]
  BY UntilIs
<1> DEFINE Down(h) == MovedIn(m, dest + h, src + h, n - h)
           P(h) == /\ (\A i \in h .. n - 1 : m[src + i] # c) => w[n - h] = Ended(Down(h), NULL)
                   /\ \A i \in h .. n - 1 :
                        m[src + i] = c /\ (\A j \in i + 1 .. n - 1 : m[src + j] # c) =>
                          w[n - h] = Ended(Down(i), dest + i - 1)
           T == {k \in Nat : k <= n => P(n - k)}
<1>2. 0 \in T
  <2>1. Down(n) = m /\ n - 0 = n /\ n - n = 0
    BY DEF MovedIn, Memory
  <2>2. w[0] = Ended(m, NULL)
    BY <1>1 DEF Untiling
  <2> HIDE DEF Down
  <2>3. P(n)
    BY <2>1, <2>2
  <2> QED BY <2>1, <2>3
<1>3. ASSUME NEW k \in Nat, k \in T
      PROVE  k + 1 \in T
  <2> SUFFICES ASSUME k + 1 <= n PROVE P(n - (k + 1))
    OBVIOUS
  <2> DEFINE h == n - (k + 1)
             x == Down(h + 1)
             y == Down(h)
  <2>0. /\ h \in Nat /\ h + 1 = n - k /\ h < n
        /\ n - h = k + 1 /\ n - (h + 1) = k
    OBVIOUS
  <2>1. P(h + 1)
    BY <1>3, <2>0
  <2>2. w[k + 1] = UntilStep(w[k], dest + h, src + h, c, dest + h - 1)
    <3>1. k \in 0 .. n - 1
      OBVIOUS
    <3>2. d + k * (-1) = dest + h /\ s + k * (-1) = src + h /\ dest + h + (-1) = dest + h - 1
      OBVIOUS
    <3> QED BY <1>1, <3>1, <3>2 DEF Untiling
  <2> HIDE DEF h
  <2>3. dest + h \in Address /\ src + h \in Address
    BY <2>0, MemoryAssumption DEF Address
  <2>4. x[src + h] = m[src + h]
    <3>1. src + h \notin dest + (h + 1) .. dest + (h + 1) + (n - (h + 1)) - 1
      BY <2>0
    <3> QED BY <2>3, <3>1 DEF MovedIn
  <2>5. Stored(x, dest + h, x[src + h]) = y
    <3>1. /\ dest + h \in Nat /\ src + h \in Nat /\ n - (h + 1) = k /\ n - h = k + 1
          /\ dest + (h + 1) = (dest + h) + 1 /\ src + (h + 1) = (src + h) + 1
      BY <2>0
    <3>2. Stored(MovedIn(m, (dest + h) + 1, (src + h) + 1, k), dest + h, m[src + h])
            = MovedIn(m, dest + h, src + h, k + 1)
      BY SMTT(20), <2>3, <3>1, MovedBefore
    <3> QED BY <2>4, <3>1, <3>2
  <2>6. ASSUME \A i \in h + 1 .. n - 1 : m[src + i] # c
        PROVE  /\ m[src + h] # c => w[k + 1] = Ended(y, NULL)
               /\ m[src + h] = c => w[k + 1] = Ended(y, dest + h - 1)
    <3>1. w[k] = Ended(x, NULL)
      BY <2>0, <2>1, <2>6
    <3> HIDE DEF x, y
    <3> QED BY <2>2, <2>4, <2>5, <3>1, UntilGoesOn
  <2>7. ASSUME NEW i \in h + 1 .. n - 1, m[src + i] = c, \A j \in i + 1 .. n - 1 : m[src + j] # c
        PROVE  w[k + 1] = Ended(Down(i), dest + i - 1)
    <3>1. w[k] = Ended(Down(i), dest + i - 1)
      BY <2>0, <2>1, <2>7
    <3>2. dest + i - 1 # NULL
      BY <2>0 DEF NULL
    <3> HIDE DEF Down
    <3> QED BY <2>2, <3>1, <3>2, UntilGoesOn
  <2>8. h .. n - 1 = {h} \union (h + 1 .. n - 1)
    BY <2>0
  <2> HIDE DEF x, Down
  <2>9. P(h)
    BY <2>0, <2>6, <2>7, <2>8
  <2> QED BY <2>9 DEF h
<1> HIDE DEF T
<1>4. n \in T
  BY <1>2, <1>3, Induction
<1>5. n - n = 0 /\ n - 0 = n /\ dest + 0 = dest /\ src + 0 = src
  OBVIOUS
<1>6. P(0)
  BY <1>4, <1>5 DEF T
<1>7. StopsLast(w[n], m, dest, src, c, n)
  BY <1>5, <1>6 DEF StopsLast
<1> QED BY <1>1, <1>7

-----------------------------------------------------------------------------
Copied(m, n) == [mem |-> m, len |-> n]
TextStep(p, d, s, k) ==
  IF p.len < k \/ p.mem[s] = 0 THEN p ELSE Copied(Stored(p.mem, d, p.mem[s]), k + 1)

\* What the loops of strcat and strcpy have between their passes.
Texting(w, m, dest, src, n, step) ==
  /\ w[0] = Copied(m, 0)
  /\ \A k \in 0 .. n - 1 : w[k + 1] = TextStep(w[k], dest + k * step, src + k * step, k)

LEMMA TextIs ==
  ASSUME NEW m, NEW dest, NEW src, NEW n \in Nat, NEW step
  PROVE  \E w : /\ Texting(w, m, dest, src, n, step)
                /\ CopyText(m, dest, src, n, step) = w[n]
<1> DEFINE w == CHOOSE f : IsText(f, m, dest, src, step, n)
<1>1. IsText(w, m, dest, src, step, n)
  BY TextExists
<1>2. CopyText(m, dest, src, n, step) = w[n]
  BY DEF CopyText, IsText, TextPass
<1> HIDE DEF w
<1>3. w[0] = Copied(m, 0)
  BY <1>1 DEF IsText, TextPass, Copied
<1>4. ASSUME NEW k \in 0 .. n - 1
      PROVE  w[k + 1] = TextStep(w[k], dest + k * step, src + k * step, k)
  <2>1. k + 1 \in 0 .. n /\ k + 1 # 0 /\ (k + 1) - 1 = k
    OBVIOUS
  <2>2. w[k + 1] = TextPass(w, m, dest, src, step, k + 1)
    BY <1>1, <2>1 DEF IsText
  <2> QED BY <2>1, <2>2 DEF TextPass, TextStep, Copied, Stored
<1>5. Texting(w, m, dest, src, n, step)
  BY <1>3, <1>4 DEF Texting
<1> QED BY <1>2, <1>5

LEMMA TextGoesOn ==
  ASSUME NEW x, NEW l, NEW d, NEW s, NEW k
  PROVE  /\ l < k => TextStep(Copied(x, l), d, s, k) = Copied(x, l)
         /\ x[s] = 0 => TextStep(Copied(x, l), d, s, k) = Copied(x, l)
         /\ x[s] # 0 /\ ~(l < k) =>
              TextStep(Copied(x, l), d, s, k) = Copied(Stored(x, d, x[s]), k + 1)
BY DEF TextStep, Copied

\* At a there is a text of l characters.
TextAt(m, a, l) ==
  /\ l \in Nat /\ a + l \in Address
  /\ m[a + l] = 0 /\ \A i \in 0 .. l - 1 : m[a + i] # 0

\* No byte of the text is written before it is read, going up.
ReadFirst(dest, src, l) == \A i \in 0 .. l : src + i \notin dest .. dest + i - 1

\* Upwards the copy stops at the first 0, unless it has written there.
LEMMA TextUp ==
  ASSUME NEW m \in Memory, NEW dest \in Nat, NEW src \in Nat, NEW l \in Nat, NEW n \in Nat,
         dest + l <= MemSize, l <= n, TextAt(m, src, l), ReadFirst(dest, src, l)
  PROVE  CopyText(m, dest, src, n, 1) = Copied(MovedIn(m, dest, src, l), l)
<1>0. /\ src + l < MemSize /\ m[src + l] = 0
      /\ \A i \in 0 .. l - 1 : m[src + i] # 0
      /\ \A i \in 0 .. l : src + i \notin dest .. dest + i - 1
  BY MemoryAssumption DEF TextAt, Address, ReadFirst
<1>1. PICK w : Texting(w, m, dest, src, n, 1) /\ CopyText(m, dest, src, n, 1) = w[n]
  BY TextIs
<1> DEFINE e == Copied(MovedIn(m, dest, src, l), l)
           T == {k \in Nat : k <= n => /\ k <= l => w[k] = Copied(MovedIn(m, dest, src, k), k)
                                       /\ k > l => w[k] = e}
<1>2. 0 \in T
  <2>1. MovedIn(m, dest, src, 0) = m
    BY DEF MovedIn, Memory
  <2>2. w[0] = Copied(m, 0)
    BY <1>1 DEF Texting
  <2> QED BY <2>1, <2>2
<1>3. ASSUME NEW k \in Nat, k \in T
      PROVE  k + 1 \in T
  <2> SUFFICES ASSUME k + 1 <= n
               PROVE  /\ k + 1 <= l => w[k + 1] = Copied(MovedIn(m, dest, src, k + 1), k + 1)
                      /\ k + 1 > l => w[k + 1] = e
    OBVIOUS
  <2> DEFINE x == MovedIn(m, dest, src, k)
             y == MovedIn(m, dest, src, k + 1)
  <2>1. /\ k <= l => w[k] = Copied(x, k)
        /\ k > l => w[k] = e
    BY <1>3
  <2>2. w[k + 1] = TextStep(w[k], dest + k, src + k, k)
    <3>1. k \in 0 .. n - 1 /\ k * 1 = k
      OBVIOUS
    <3> QED BY <1>1, <3>1 DEF Texting
  <2>3. k <= l => src + k \in Address /\ src + k \notin dest .. dest + k - 1
    BY <1>0, MemoryAssumption DEF Address
  <2>4. k <= l => x[src + k] = m[src + k]
    BY <2>3 DEF MovedIn
  <2>5. k < l => Stored(x, dest + k, m[src + k]) = y
    <3>1. k < l => dest + k \in Address
      BY MemoryAssumption DEF Address
    <3> QED BY <3>1, MovedMore
  <2>6. ~(k < k) /\ (k = l => e = Copied(x, k))
    OBVIOUS
  <2> HIDE DEF x, y
  <2>7. CASE k < l
    <3>1. w[k] = Copied(x, k) /\ x[src + k] = m[src + k] /\ m[src + k] # 0
      BY <1>0, <2>1, <2>4, <2>7
    <3>2. TextStep(Copied(x, k), dest + k, src + k, k) = Copied(Stored(x, dest + k, x[src + k]), k + 1)
      BY <2>6, <3>1, TextGoesOn
    <3>3. w[k + 1] = Copied(y, k + 1)
      BY <2>2, <2>5, <2>7, <3>1, <3>2
    <3>4. k + 1 <= l /\ ~(k + 1 > l)
      BY <2>7
    <3> HIDE DEF e
    <3> QED BY <3>3, <3>4 DEF y
  <2>8. CASE k = l
    <3>1. w[k] = Copied(x, k) /\ x[src + k] = 0
      BY <1>0, <2>1, <2>4, <2>8
    <3>2. w[k + 1] = e
      <4>1. TextStep(Copied(x, k), dest + k, src + k, k) = Copied(x, k)
        BY <3>1, TextGoesOn
      <4> HIDE DEF e
      <4> QED BY <2>2, <2>6, <2>8, <3>1, <4>1
    <3>3. ~(k + 1 <= l)
      BY <2>8
    <3> HIDE DEF e
    <3> QED BY <3>2, <3>3
  <2>9. CASE k > l
    <3>1. w[k] = e /\ l < k /\ ~(k + 1 <= l)
      BY <2>1, <2>9
    <3>2. w[k + 1] = e
      BY <2>2, <3>1, TextGoesOn
    <3> HIDE DEF e
    <3> QED BY <3>1, <3>2
  <2> QED BY <2>7, <2>8, <2>9
<1> HIDE DEF T
<1>4. n \in T
  BY <1>2, <1>3, Induction
<1>5. n <= l => n = l
  OBVIOUS
<1> QED BY <1>1, <1>4, <1>5 DEF T

\* Downwards it stops at the first 0 below the source, or below the memory.
LEMMA TextDown ==
  ASSUME NEW m \in Memory, NEW dest \in Nat, NEW src \in Nat, NEW l \in Nat,
         dest + l <= MemSize, dest > src, src = 0 \/ m[src - 1] = 0, TextAt(m, src, l)
  PROVE  CopyText(m, dest + l - 1, src + l - 1, src + l, -1) = Copied(MovedIn(m, dest, src, l), l)
<1> DEFINE d == dest + l - 1
           s == src + l - 1
           n == src + l
           Down(k) == MovedIn(m, dest + l - k, src + l - k, k)
           e == Copied(MovedIn(m, dest, src, l), l)
<1>0. n \in Nat /\ l <= n
  OBVIOUS
<1>a. src + l < MemSize /\ \A i \in 0 .. l - 1 : m[src + i] # 0
  BY MemoryAssumption DEF TextAt, Address
<1>1. PICK w : Texting(w, m, d, s, n, -1) /\ CopyText(m, d, s, n, -1) = w[n]
  <2> HIDE DEF n, d, s
  <2> QED BY <1>0, TextIs
<1> DEFINE T == {k \in Nat : k <= n => /\ k <= l => w[k] = Copied(Down(k), k)
                                       /\ k > l => w[k] = e}
<1>2. 0 \in T
  <2>1. Down(0) = m
    BY DEF MovedIn, Memory
  <2>2. w[0] = Copied(m, 0)
    BY <1>1 DEF Texting
  <2> HIDE DEF Down, e
  <2> QED BY <2>1, <2>2
<1>3. ASSUME NEW k \in Nat, k \in T
      PROVE  k + 1 \in T
  <2> SUFFICES ASSUME k + 1 <= n
               PROVE  /\ k + 1 <= l => w[k + 1] = Copied(Down(k + 1), k + 1)
                      /\ k + 1 > l => w[k + 1] = e
    OBVIOUS
  <2> DEFINE x == Down(k)
             y == Down(k + 1)
             a == dest + l - (k + 1)
             b == src + l - (k + 1)
  <2>1. /\ k <= l => w[k] = Copied(x, k)
        /\ k > l => w[k] = e
    BY <1>3
  <2>2. w[k + 1] = TextStep(w[k], a, b, k)
    <3>1. k \in 0 .. n - 1 /\ d + k * (-1) = a /\ s + k * (-1) = b
      OBVIOUS
    <3> HIDE DEF n, d, s, a, b
    <3> QED BY <1>1, <3>1 DEF Texting
  <2>3. /\ b \in Address
        /\ k < l => a \in Nat /\ b \in Nat /\ a \in Address
        /\ a + 1 = dest + l - k /\ b + 1 = src + l - k
        /\ k <= l => b \notin dest + l - k .. (dest + l - k) + k - 1
    BY <1>a, MemoryAssumption DEF Address
  <2>4. k <= l => x[b] = m[b]
    <3> HIDE DEF a, b
    <3> QED BY <2>3 DEF MovedIn
  <2>5. k < l => Stored(x, a, m[b]) = y
    <3> HIDE DEF a, b
    <3>1. k < l => Stored(MovedIn(m, a + 1, b + 1, k), a, m[b]) = MovedIn(m, a, b, k + 1)
      BY SMTT(20), <2>3, MovedBefore
    <3>2. x = MovedIn(m, a + 1, b + 1, k)
      BY <2>3
    <3>3. y = MovedIn(m, a, b, k + 1)
      BY DEF a, b
    <3> QED BY <3>1, <3>2, <3>3
  <2>6. /\ ~(k < k)
        /\ k = l => dest + l - k = dest /\ src + l - k = src
        /\ k = l => b = src - 1 /\ src # 0
        /\ k < l => l - (k + 1) \in 0 .. l - 1 /\ b = src + (l - (k + 1))
    OBVIOUS
  <2> HIDE DEF a, b
  <2>10. k = l => e = Copied(x, k)
    BY <2>6
  <2>11. k < l => m[b] # 0
    BY <1>a, <2>6
  <2> HIDE DEF x, y
  <2>7. CASE k < l
    <3>1. w[k] = Copied(x, k) /\ x[b] = m[b] /\ m[b] # 0
      BY <2>1, <2>4, <2>7, <2>11
    <3>2. TextStep(Copied(x, k), a, b, k) = Copied(Stored(x, a, x[b]), k + 1)
      BY <2>6, <3>1, TextGoesOn
    <3>3. w[k + 1] = Copied(y, k + 1)
      BY <2>2, <2>5, <2>7, <3>1, <3>2
    <3>4. k + 1 <= l /\ ~(k + 1 > l)
      BY <2>7
    <3> HIDE DEF e, Down
    <3> QED BY <3>3, <3>4 DEF y
  <2>8. CASE k = l
    <3>1. w[k] = Copied(x, k) /\ x[b] = 0
      BY <2>1, <2>4, <2>6, <2>8
    <3>2. w[k + 1] = e
      <4>1. TextStep(Copied(x, k), a, b, k) = Copied(x, k)
        BY <3>1, TextGoesOn
      <4> HIDE DEF e
      <4> QED BY <2>2, <2>8, <2>10, <3>1, <4>1
    <3>3. ~(k + 1 <= l)
      BY <2>8
    <3> HIDE DEF e, Down
    <3> QED BY <3>2, <3>3
  <2>9. CASE k > l
    <3>1. w[k] = e /\ l < k /\ ~(k + 1 <= l)
      BY <2>1, <2>9
    <3>2. w[k + 1] = e
      BY <2>2, <3>1, TextGoesOn
    <3> HIDE DEF e, Down
    <3> QED BY <3>1, <3>2
  <2> QED BY <2>7, <2>8, <2>9
<1> HIDE DEF T
<1>4. n \in T
  BY <1>0, <1>2, <1>3, Induction
<1>5. n <= l => n = l /\ dest + l - n = dest /\ src + l - n = src
  OBVIOUS
<1>6. w[n] = e
  <2> HIDE DEF n
  <2>1. n <= l \/ n > l
    BY <1>0
  <2> QED BY <1>0, <1>4, <1>5, <2>1 DEF T
<1> QED BY <1>1, <1>6

-----------------------------------------------------------------------------
LEMMA MovedIs == \A dest, src, n : Moved(dest, src, n) = MovedIn(mem, dest, src, n)
BY DEF Moved, MovedIn, Block

LEMMA BlocksCopied ==
  ASSUME mem \in Memory
  PROVE  CopiesBlocks
<1> SUFFICES ASSUME NEW dest \in Address, NEW src \in Address, NEW n \in 0 .. MemSize,
                    dest + n <= MemSize, src + n <= MemSize
             PROVE  /\ memmove(mem, dest, src, n) = Moved(dest, src, n)
                    /\ \A c \in ByteValues :
                         LET hits == {i \in 0 .. n - 1 : mem[src + i] = c}
                             result == memccpy(mem, dest, src, c, n)
                         IN  /\ hits = {} => result = [mem |-> Moved(dest, src, n), ret |-> NULL]
                             /\ dest <= src => \A i \in Lowest(hits) :
                                  result = [mem |-> Moved(dest, src, i + 1), ret |-> dest + i + 1]
  BY DEF CopiesBlocks
<1>0. n \in Nat /\ dest \in Nat /\ src \in Nat
  BY DEF Address
<1>1. memmove(mem, dest, src, n) = Moved(dest, src, n)
  BY <1>0, memmoveMoves, MovedIs
<1>2. ASSUME NEW c \in ByteValues
      PROVE  LET hits == {i \in 0 .. n - 1 : mem[src + i] = c}
                 result == memccpy(mem, dest, src, c, n)
             IN  /\ hits = {} => result = [mem |-> Moved(dest, src, n), ret |-> NULL]
                 /\ dest <= src => \A i \in Lowest(hits) :
                      result = [mem |-> Moved(dest, src, i + 1), ret |-> dest + i + 1]
  <2> DEFINE hits == {i \in 0 .. n - 1 : mem[src + i] = c}
             result == memccpy(mem, dest, src, c, n)
  <2>1. hits = {} => \A i \in 0 .. n - 1 : mem[src + i] # c
    OBVIOUS
  <2>2. \A i \in Lowest(hits) :
          i \in 0 .. n - 1 /\ mem[src + i] = c /\ \A j \in 0 .. i - 1 : mem[src + j] # c
    <3> SUFFICES ASSUME NEW i \in Lowest(hits) PROVE \A j \in 0 .. i - 1 : mem[src + j] # c
      BY DEF Lowest
    <3>1. i \in 0 .. n - 1 /\ \A j \in hits : i <= j
      BY DEF Lowest
    <3> QED BY <3>1
  <2> HIDE DEF hits
  <2>3. CASE dest > src
    <3> DEFINE r == CopyUntil(mem, dest + n - 1, src + n - 1, c, n, -1)
    <3>1. result = r /\ ~(dest <= src)
      BY <1>0, <2>3 DEF memccpy
    <3>2. StopsLast(r, mem, dest, src, c, n)
      BY <1>0, <2>3, UntilDown
    <3> HIDE DEF result, r
    <3>3. hits = {} => result = Ended(Moved(dest, src, n), NULL)
      BY <2>1, <3>1, <3>2, MovedIs DEF StopsLast
    <3> QED BY <3>1, <3>3 DEF Ended, hits, result
  <2>4. CASE ~(dest > src)
    <3> DEFINE r == CopyUntil(mem, dest, src, c, n, 1)
    <3>1. result = r
      BY <1>0, <2>4 DEF memccpy
    <3>2. \A k \in 0 .. n - 1 : src + k \notin dest .. dest + k - 1
      BY <1>0, <2>4
    <3>3. StopsFirst(r, mem, dest, src, c, n)
      BY <1>0, <3>2, UntilUp
    <3> HIDE DEF result, r
    <3>4. hits = {} => result = Ended(Moved(dest, src, n), NULL)
      BY <2>1, <3>1, <3>3, MovedIs DEF StopsFirst
    <3>5. \A i \in Lowest(hits) : result = Ended(Moved(dest, src, i + 1), dest + i + 1)
      BY <2>2, <3>1, <3>3, MovedIs DEF StopsFirst
    <3> QED BY <3>1, <3>4, <3>5 DEF Ended, hits, result
  <2> QED BY <2>3, <2>4
<1> QED BY <1>1, <1>2

LEMMA BytesCompared ==
  ASSUME mem \in Memory
  PROVE  ComparesBytes
<1> SUFFICES ASSUME NEW a \in Address, NEW b \in Address, NEW n \in 0 .. MemSize,
                    a + n <= MemSize, b + n <= MemSize
             PROVE  LET diff == Differ(a, b, n)
                        ends == {i \in 0 .. n - 1 : mem[a + i] = 0 /\ mem[b + i] = 0}
                    IN  /\ diff = {} => memcmp(mem, a, b, n) = 0 /\ strncmp(mem, a, b, n) = 0
                        /\ \A i \in Lowest(diff) :
                             /\ Sign(memcmp(mem, a, b, n)) = Sign(mem[a + i] - mem[b + i])
                             /\ Sign(strncmp(mem, a, b, n)) =
                                  IF \E j \in ends : j < i THEN 0
                                  ELSE Sign(Char(mem[a + i]) - Char(mem[b + i]))
                        /\ \A c \in ByteValues :
                             LET hits == {i \in 0 .. n - 1 : mem[a + i] = c}
                             IN  /\ n > 0 /\ Char(c) >= 0 =>
                                      memchr(memset(mem, a, c, n), a, c, n) = a
                                 /\ hits = {} => memchr(mem, a, c, n) = NULL
                                 /\ Char(c) >= 0 => \A i \in Lowest(hits) :
                                      memchr(mem, a, c, n) = a + i
  BY DEF ComparesBytes
<1> DEFINE diff == Differ(a, b, n)
           ends == {i \in 0 .. n - 1 : mem[a + i] = 0 /\ mem[b + i] = 0}
           cmp == memcmp(mem, a, b, n)
           scmp == strncmp(mem, a, b, n)
<1>0. n \in Nat /\ a \in Nat /\ b \in Nat
  BY DEF Address
<1>a. Compares(cmp, mem, a, b, n) /\ ComparesText(scmp, mem, a, b, n)
  BY <1>0, MemcmpIs, StrncmpIs
<1> HIDE DEF cmp, scmp
\* Where strncmp ends before a difference, if it does.
<1>1. ASSUME NEW m \in 0 .. n, \A i \in 0 .. m - 1 : mem[a + i] = mem[b + i],
             NEW e \in 0 .. m - 1, mem[a + e] = 0
      PROVE  scmp = 0
  <2> DEFINE S == {i \in Nat : i < m /\ mem[a + i] = 0}
  <2>1. S \in SUBSET Nat /\ S # {}
    BY <1>1
  <2>2. PICK i \in S : \A j \in S : i <= j
    BY <2>1, Least
  <2>3. i \in 0 .. n - 1 /\ mem[a + i] = mem[b + i] /\ mem[a + i] = 0
    BY <1>1
  <2>4. \A j \in 0 .. i - 1 : mem[a + j] = mem[b + j] /\ mem[a + j] # 0
    BY <1>1, <2>2
  <2> HIDE DEF S
  <2> QED BY <1>a, <2>3, <2>4 DEF ComparesText
<1>2. ASSUME diff = {}
      PROVE  cmp = 0 /\ scmp = 0
  <2>1. \A i \in 0 .. n - 1 : mem[a + i] = mem[b + i]
    BY <1>2 DEF Differ
  <2>2. cmp = 0
    BY <1>a, <2>1 DEF Compares
  <2>3. CASE \A i \in 0 .. n - 1 : mem[a + i] # 0
    <3>1. scmp = 0
      BY <1>a, <2>1, <2>3 DEF ComparesText
    <3> QED BY <2>2, <3>1
  <2>4. CASE \E i \in 0 .. n - 1 : mem[a + i] = 0
    <3>1. n \in 0 .. n
      BY <1>0
    <3>2. scmp = 0
      BY <1>1, <2>1, <2>4, <3>1
    <3> QED BY <2>2, <3>2
  <2> QED BY <2>3, <2>4
<1>3. ASSUME NEW i \in Lowest(diff)
      PROVE  /\ Sign(cmp) = Sign(mem[a + i] - mem[b + i])
             /\ Sign(scmp) = IF \E j \in ends : j < i THEN 0
                             ELSE Sign(Char(mem[a + i]) - Char(mem[b + i]))
  <2>1. i \in 0 .. n - 1 /\ mem[a + i] # mem[b + i] /\ \A j \in diff : i <= j
    BY DEF Lowest, Differ
  <2>2. \A j \in 0 .. i - 1 : mem[a + j] = mem[b + j]
    BY <2>1 DEF Differ
  <2>3. Sign(cmp) = Sign(mem[a + i] - mem[b + i])
    <3>1. cmp = mem[a + i] - mem[b + i]
      BY <1>a, <2>1, <2>2 DEF Compares
    <3> QED BY <3>1
  <2>4. CASE \E j \in ends : j < i
    <3>1. PICK j \in ends : j < i
      BY <2>4
    <3>2. i \in 0 .. n /\ j \in 0 .. i - 1 /\ mem[a + j] = 0
      BY <2>1, <3>1
    <3>3. scmp = 0
      BY <1>1, <2>2, <3>2
    <3>4. Sign(0) = 0
      BY DEF Sign
    <3> QED BY <2>3, <2>4, <3>3, <3>4
  <2>5. CASE ~ \E j \in ends : j < i
    <3>1. \A j \in 0 .. i - 1 : mem[a + j] # 0
      <4> SUFFICES ASSUME NEW j \in 0 .. i - 1, mem[a + j] = 0 PROVE FALSE
        OBVIOUS
      <4>1. j \in ends /\ j < i
        BY <2>1, <2>2
      <4> QED BY <2>5, <4>1
    <3>2. scmp = Char(mem[a + i]) - Char(mem[b + i])
      BY <1>a, <2>1, <2>2, <3>1 DEF ComparesText
    <3> QED BY <2>3, <2>5, <3>2
  <2> QED BY <2>4, <2>5
\* A byte equals the char only where the char is not negative.
<1>4. ASSUME NEW c \in ByteValues
      PROVE  /\ c \in Nat /\ Char(c) \in Int
             /\ Char(c) >= 0 => Char(c) = c
             /\ Char(c) < 0 => \A i \in 0 .. n - 1 : mem[a + i] # Char(c)
  <2>1. c \in 0 .. ByteRange - 1
    BY ByteAssumption
  <2>2. c \in Nat /\ Char(c) \in Int /\ (Char(c) >= 0 => Char(c) = c)
    BY <2>1, Chars
  <2>3. \A i \in 0 .. n - 1 : mem[a + i] \in Nat
    <3> SUFFICES ASSUME NEW i \in 0 .. n - 1 PROVE mem[a + i] \in Nat
      OBVIOUS
    <3>1. a + i \in Address
      BY <1>0, MemoryAssumption DEF Address
    <3>2. mem[a + i] \in ByteValues
      BY <3>1 DEF Memory
    <3>3. \A x \in ByteValues : x \in Nat
      BY ByteAssumption
    <3> QED BY ONLY <3>2, <3>3
  <2> QED BY <2>2, <2>3
<1>5. ASSUME NEW c \in ByteValues, n > 0, Char(c) >= 0
      PROVE  memchr(memset(mem, a, c, n), a, c, n) = a
  <2> DEFINE m == memset(mem, a, c, n)
  <2>1. \A i \in 0 .. n - 1 : m[a + i] = c
    <3>1. \A i \in 0 .. n - 1 : a + i \in Address /\ a + i \in a .. a + n - 1
      BY MemoryAssumption DEF Address
    <3> QED BY <3>1 DEF memset
  <2> HIDE DEF m
  <2>2. /\ 0 \in 0 .. n - 1 /\ a + 0 = a
        /\ \A j \in 0 .. 0 - 1 : m[a + j] # Char(c)
    BY <1>0, <1>5
  <2>3. m[a + 0] = Char(c)
    BY <1>4, <1>5, <2>1, <2>2
  <2>3a. FoundAt(m, a, c, 0)
    BY <2>2, <2>3 DEF FoundAt
  <2>4. memchr(m, a, c, n) = a + 0
    BY <1>0, <2>2, <2>3a, MemchrIs
  <2> QED BY <2>2, <2>4 DEF m
<1>6. ASSUME NEW c \in ByteValues, {i \in 0 .. n - 1 : mem[a + i] = c} = {}
      PROVE  memchr(mem, a, c, n) = NULL
  <2>1. \A i \in 0 .. n - 1 : mem[a + i] # Char(c)
    <3>1. \A i \in 0 .. n - 1 : mem[a + i] # c
      BY <1>6
    <3> QED BY <1>4, <3>1
  <2> QED BY <1>0, <2>1, MemchrIs
<1>7. ASSUME NEW c \in ByteValues, Char(c) >= 0,
             NEW i \in Lowest({j \in 0 .. n - 1 : mem[a + j] = c})
      PROVE  memchr(mem, a, c, n) = a + i
  <2>1. Char(c) = c
    BY <1>4, <1>7
  <2>2. i \in 0 .. n - 1 /\ mem[a + i] = Char(c)
    BY <2>1 DEF Lowest
  <2>3. \A j \in 0 .. i - 1 : mem[a + j] # Char(c)
    <3> SUFFICES ASSUME NEW j \in 0 .. i - 1, mem[a + j] = c PROVE FALSE
      BY <2>1
    <3>1. j \in 0 .. n - 1 /\ j < i
      BY <2>2
    <3> QED BY <3>1 DEF Lowest
  <2>4. FoundAt(mem, a, c, i)
    BY <2>2, <2>3 DEF FoundAt
  <2> QED BY <1>0, <2>2, <2>4, MemchrIs
<1> QED BY <1>2, <1>3, <1>5, <1>6, <1>7 DEF cmp, scmp

-----------------------------------------------------------------------------
LEMMA TextLength ==
  ASSUME mem \in Memory, NEW a \in Address, IsString(a)
  PROVE  TextAt(mem, a, strlen(mem, a))
<1> DEFINE S == {i \in Nat : a + i \in Address /\ mem[a + i] = 0}
<1>0. a \in Nat /\ a <= MemSize /\ MemSize \in Nat
  BY MemoryAssumption DEF Address
<1>1. S # {}
  <2>1. PICK e \in a .. MemSize - 1 : mem[e] = 0
    BY DEF IsString
  <2>2. e - a \in Nat /\ a + (e - a) = e /\ e \in Address
    BY <1>0 DEF Address
  <2> QED BY <2>1, <2>2
<1>2. PICK l \in S : \A j \in S : l <= j
  BY <1>1, Least
<1>3. l \in Nat /\ a + l \in Address /\ mem[a + l] = 0
  OBVIOUS
<1>4. \A j \in 0 .. l - 1 : mem[a + j] # 0
  <2> SUFFICES ASSUME NEW j \in 0 .. l - 1, mem[a + j] = 0 PROVE FALSE
    OBVIOUS
  <2>1. a + j \in Address /\ j \in Nat /\ ~(l <= j)
    BY <1>0, <1>3 DEF Address
  <2> QED BY <1>2, <2>1
<1> HIDE DEF S
<1>5. l \in 0 .. MemSize - a - 1
  BY <1>0, <1>3 DEF Address
<1>6. strlen(mem, a) = l
  BY <1>0, <1>3, <1>4, <1>5, StrlenIs
<1> QED BY <1>3, <1>4, <1>6 DEF TextAt

\* Texts that agree for the length of one are equal when the other ends there.
LEMMA TextsAgree ==
  ASSUME NEW m \in Memory, NEW a \in Nat, NEW b \in Nat, NEW l, TextAt(m, b, l),
         a + l \in Address, \A i \in 0 .. l - 1 : m[a + i] = m[b + i]
  PROVE  strcmp(m, a, b) = 0 <=> m[a + l] = 0
<1> DEFINE r == strncmp(m, a, b, MemSize)
<1>1. strcmp(m, a, b) = r
  BY DEF strcmp
<1>2. ComparesText(r, m, a, b, MemSize)
  BY MemoryAssumption, StrncmpIs
<1> HIDE DEF r
<1>3. l \in 0 .. MemSize - 1 /\ m[b + l] = 0 /\ b + l \in Address
  BY MemoryAssumption DEF TextAt, Address
<1>4. \A j \in 0 .. l - 1 : m[a + j] = m[b + j] /\ m[a + j] # 0
  BY DEF TextAt
<1>5. /\ m[a + l] # m[b + l] => r = Char(m[a + l]) - Char(m[b + l])
      /\ m[a + l] = m[b + l] /\ m[a + l] = 0 => r = 0
  BY <1>2, <1>3, <1>4 DEF ComparesText
<1> DEFINE x == m[a + l]
<1>6. x \in 0 .. ByteRange - 1 /\ 0 \in 0 .. ByteRange - 1
  <2>1. x \in 0 .. ByteRange - 1
    BY Bytes
  <2> QED BY <2>1, ByteAssumption
<1>7. /\ x # 0 => r = Char(x) - Char(0)
      /\ x = 0 => r = 0
  BY <1>3, <1>5
<1> HIDE DEF x
<1>8. Char(x) \in Int /\ Char(0) = 0 /\ (Char(x) = Char(0) <=> x = 0)
  BY <1>6, Chars
<1> QED BY <1>1, <1>7, <1>8 DEF x

\* Texts that differ are not equal.
LEMMA TextsDiffer ==
  ASSUME NEW m \in Memory, NEW a \in Nat, NEW b \in Nat, NEW l, TextAt(m, b, l),
         NEW i \in 0 .. l - 1, a + i \in Address, m[a + i] # m[b + i],
         \A j \in 0 .. i - 1 : m[a + j] = m[b + j]
  PROVE  strcmp(m, a, b) # 0
<1> DEFINE r == strncmp(m, a, b, MemSize)
<1>1. strcmp(m, a, b) = r
  BY DEF strcmp
<1>2. ComparesText(r, m, a, b, MemSize)
  BY MemoryAssumption, StrncmpIs
<1> HIDE DEF r
<1>3. l \in Nat /\ i \in 0 .. MemSize - 1 /\ b + i \in Address
  BY MemoryAssumption DEF TextAt, Address
<1>4. \A j \in 0 .. i - 1 : m[a + j] = m[b + j] /\ m[a + j] # 0
  BY <1>3 DEF TextAt
<1>5. r = Char(m[a + i]) - Char(m[b + i])
  BY <1>2, <1>3, <1>4 DEF ComparesText
<1> DEFINE x == m[a + i]
           y == m[b + i]
<1>6. x \in 0 .. ByteRange - 1 /\ y \in 0 .. ByteRange - 1
  BY <1>3, Bytes
<1>7. r = Char(x) - Char(y) /\ x # y
  BY <1>5
<1> HIDE DEF x, y
<1>8. Char(x) \in Int /\ Char(y) \in Int /\ Char(x) # Char(y)
  BY <1>6, <1>7, Chars
<1> QED BY <1>1, <1>7, <1>8

\* strcmp tells texts apart.
LEMMA StrcmpTells ==
  ASSUME NEW m \in Memory, NEW a \in Nat, NEW b \in Nat, NEW k, NEW l,
         TextAt(m, a, k), TextAt(m, b, l)
  PROVE  strcmp(m, a, b) = 0 <=> l = k /\ \A i \in 0 .. l - 1 : m[a + i] = m[b + i]
<1>0. /\ k \in Nat /\ l \in Nat /\ a + k \in Address /\ m[a + k] = 0
      /\ \A i \in 0 .. k - 1 : m[a + i] # 0
      /\ \A i \in 0 .. l - 1 : m[b + i] # 0
  BY DEF TextAt
<1>a. \A i \in Nat : i <= k => a + i \in Address
  BY MemoryAssumption DEF TextAt, Address
<1>1. CASE \A i \in 0 .. l - 1 : m[a + i] = m[b + i]
  <2>1. l \in Nat /\ l <= k
    <3> SUFFICES ASSUME k < l PROVE FALSE
      BY <1>0
    <3>1. k \in 0 .. l - 1
      BY <1>0
    <3> QED BY <1>0, <1>1, <3>1
  <2>2. a + l \in Address
    BY <1>a, <2>1
  <2>3. strcmp(m, a, b) = 0 <=> m[a + l] = 0
    BY <1>1, <2>2, TextsAgree
  <2>4. l = k \/ l \in 0 .. k - 1
    BY <1>0, <2>1
  <2> QED BY <1>0, <1>1, <2>3, <2>4
<1>2. CASE \E i \in 0 .. l - 1 : m[a + i] # m[b + i]
  <2> DEFINE S == {i \in Nat : i < l /\ m[a + i] # m[b + i]}
  <2>1. S # {} /\ S \in SUBSET Nat
    <3>1. PICK i \in 0 .. l - 1 : m[a + i] # m[b + i]
      BY <1>2
    <3>2. i \in Nat /\ i < l
      BY <1>0
    <3> QED BY <3>1, <3>2
  <2>2. PICK i \in S : \A j \in S : i <= j
    BY <2>1, Least
  <2>3. i \in 0 .. l - 1 /\ m[a + i] # m[b + i]
    BY <1>0
  <2>4. \A j \in 0 .. i - 1 : m[a + j] = m[b + j]
    BY <1>0, <2>2
  <2>5. a + i \in Address
    <3>1. i <= k
      <4> SUFFICES ASSUME k < i PROVE FALSE
        BY <1>0
      <4>1. k \in 0 .. i - 1 /\ k \in 0 .. l - 1
        BY <1>0, <2>3
      <4> QED BY <1>0, <2>4, <4>1
    <3> QED BY <1>a, <2>3, <3>1
  <2> HIDE DEF S
  <2>6. strcmp(m, a, b) # 0
    BY <2>3, <2>4, <2>5, TextsDiffer
  <2> QED BY <1>2, <2>6
<1> QED BY <1>1, <1>2

LEMMA MovedMemory ==
  ASSUME NEW m \in Memory, NEW dest \in Nat, NEW src \in Nat, NEW n \in Nat, src + n <= MemSize
  PROVE  MovedIn(m, dest, src, n) \in Memory
<1>1. ASSUME NEW a \in Address, a \in dest .. dest + n - 1
      PROVE  src + a - dest \in Address
  BY <1>1, MemoryAssumption DEF Address
<1> QED BY <1>1 DEF MovedIn, Memory

\* Blocks that share no byte.
LEMMA ApartIs ==
  ASSUME NEW a \in Nat, NEW b \in Nat, NEW n \in Nat, Apart(a, b, n)
  PROVE  \A i, j \in 0 .. n - 1 : a + i # b + j
<1> SUFFICES ASSUME NEW i \in 0 .. n - 1, NEW j \in 0 .. n - 1, a + i = b + j PROVE FALSE
  OBVIOUS
<1>1. a + i \in a .. a + n - 1 /\ b + j \in b .. b + n - 1
  OBVIOUS
<1> QED BY <1>1 DEF Apart, Block

LEMMA StringsJoined ==
  ASSUME mem \in Memory, NEW dest \in Nat, NEW src \in Nat, NEW d, NEW s,
         d = strlen(mem, dest), TextAt(mem, dest, d), TextAt(mem, src, s),
         Apart(dest, src, d + s + 1), dest + d + s < MemSize
  PROVE  strcat(mem, dest, src) = [Moved(dest + d, src, s) EXCEPT ![dest + d + s] = 0]
<1>1. /\ d \in Nat /\ s \in Nat /\ src + s < MemSize /\ MemSize - src \in Nat
      /\ s <= MemSize - src /\ dest + d \in Nat /\ (dest + d) + s <= MemSize
      /\ d + s + 1 \in Nat
  BY MemoryAssumption DEF TextAt, Address
<1>3. ASSUME NEW i \in 0 .. s, src + i \in dest + d .. dest + d + i - 1
      PROVE  FALSE
  <2> DEFINE j == src + i - dest
  <2>1. j \in 0 .. (d + s + 1) - 1 /\ i \in 0 .. (d + s + 1) - 1 /\ dest + j = src + i
    BY <1>1, <1>3
  <2> HIDE DEF j
  <2> QED BY <1>1, <2>1, ApartIs
<1> DEFINE r == CopyText(mem, dest + d, src, MemSize - src, 1)
           x == MovedIn(mem, dest + d, src, s)
<1>2. ReadFirst(dest + d, src, s)
  BY <1>3 DEF ReadFirst
<1>4. r = Copied(x, s)
  <2> DEFINE a == dest + d
             n == MemSize - src
  <2>1. a \in Nat /\ n \in Nat /\ a + s <= MemSize /\ s <= n /\ ReadFirst(a, src, s)
    BY <1>1, <1>2
  <2> HIDE DEF a, n, r, x
  <2>2. CopyText(mem, a, src, n, 1) = Copied(MovedIn(mem, a, src, s), s)
    BY <1>1, <2>1, TextUp
  <2> QED BY <2>2 DEF a, n, r, x
<1>5. strcat(mem, dest, src) = [r.mem EXCEPT ![dest + d + r.len] = 0]
  BY DEF strcat
<1> HIDE DEF r
<1>6. x = Moved(dest + d, src, s)
  BY MovedIs
<1> HIDE DEF x
<1> QED BY <1>4, <1>5, <1>6 DEF Copied

LEMMA StringCopied ==
  ASSUME mem \in Memory, NEW dest \in Nat, NEW src \in Nat, NEW s,
         s = strlen(mem, src), TextAt(mem, src, s),
         Apart(dest, src, s + 1), dest + s < MemSize,
         dest < src \/ src = 0 \/ mem[src - 1] = 0
  PROVE  /\ strcpy(mem, dest, src) = Moved(dest, src, s)
         /\ strcmp(strcpy(mem, dest, src), dest, src) = 0 <=> mem[dest + s] = 0
<1>1. /\ s \in Nat /\ src + s < MemSize /\ MemSize - src \in Nat
      /\ s <= MemSize - src /\ dest + s <= MemSize /\ src + s <= MemSize /\ s + 1 \in Nat
  BY MemoryAssumption DEF TextAt, Address
<1>2. mem[src + s] = 0 /\ \A i \in 0 .. s - 1 : mem[src + i] # 0
  BY DEF TextAt
<1>3. ASSUME NEW i \in 0 .. s, NEW j \in 0 .. s, dest + i = src + j
      PROVE  FALSE
  <2>1. i \in 0 .. (s + 1) - 1 /\ j \in 0 .. (s + 1) - 1
    BY <1>1
  <2> QED BY <1>1, <1>3, <2>1, ApartIs
<1>4. dest < src \/ dest > src
  <2>1. 0 \in 0 .. s /\ dest + 0 = dest /\ src + 0 = src
    BY <1>1
  <2>2. dest # src
    BY <1>3, <2>1
  <2> QED BY <2>2
<1> DEFINE x == MovedIn(mem, dest, src, s)
<1>5. strcpy(mem, dest, src) = x
  <2>1. CASE dest < src
    <3>1. ReadFirst(dest, src, s)
      BY <1>1, <2>1 DEF ReadFirst
    <3>2. CopyText(mem, dest, src, MemSize - src, 1) = Copied(x, s)
      <4> DEFINE n == MemSize - src
      <4>1. n \in Nat /\ s <= n
        BY <1>1
      <4> HIDE DEF n
      <4>2. CopyText(mem, dest, src, n, 1) = Copied(MovedIn(mem, dest, src, s), s)
        BY <1>1, <3>1, <4>1, TextUp
      <4> QED BY <4>2 DEF n
    <3> HIDE DEF x
    <3> QED BY <2>1, <3>2 DEF strcpy, Copied
  <2>2. CASE dest > src
    <3>1. src = 0 \/ mem[src - 1] = 0
      BY <2>2
    <3>2. CopyText(mem, dest + s - 1, src + s - 1, src + s, -1) = Copied(x, s)
      BY <1>1, <2>2, <3>1, TextDown
    <3>3. ~(dest < src)
      BY <2>2
    <3> HIDE DEF x
    <3> QED BY <2>2, <3>2, <3>3 DEF strcpy, Copied
  <2> QED BY <1>4, <2>1, <2>2
<1>6. x = Moved(dest, src, s)
  BY MovedIs
<1>7. x \in Memory
  BY <1>1, MovedMemory
<1>8. ASSUME NEW i \in 0 .. s
      PROVE  src + i \in Address /\ dest + i \in Address /\ src + i \notin dest .. dest + s - 1
  <2>1. src + i \in Address /\ dest + i \in Address
    BY <1>1, MemoryAssumption DEF Address
  <2>2. ASSUME src + i \in dest .. dest + s - 1
        PROVE  FALSE
    <3> DEFINE j == src + i - dest
    <3>1. j \in 0 .. s /\ dest + j = src + i
      BY <1>1, <2>2
    <3> HIDE DEF j
    <3> QED BY <1>3, <3>1
  <2> QED BY <2>1, <2>2
<1>9. \A i \in 0 .. s : x[src + i] = mem[src + i]
  BY <1>8 DEF MovedIn
<1>10. \A i \in 0 .. s - 1 : x[dest + i] = mem[src + i]
  <2> SUFFICES ASSUME NEW i \in 0 .. s - 1 PROVE x[dest + i] = mem[src + i]
    OBVIOUS
  <2>1. /\ dest + i \in Address /\ dest + i \in dest .. dest + s - 1
        /\ src + (dest + i) - dest = src + i
    BY <1>1, <1>8
  <2> QED BY <2>1 DEF MovedIn
<1>11. x[dest + s] = mem[dest + s] /\ dest + s \in Address /\ src + s \in Address
  <2>1. s \in 0 .. s /\ dest + s \notin dest .. dest + s - 1
    BY <1>1
  <2>2. dest + s \in Address /\ src + s \in Address
    BY <1>8, <2>1
  <2> QED BY <2>1, <2>2 DEF MovedIn
<1> HIDE DEF x
<1>12. \A i \in 0 .. s - 1 : i \in 0 .. s
  BY <1>1
<1>13. TextAt(x, src, s)
  <2>1. s \in 0 .. s
    BY <1>1
  <2> QED BY <1>1, <1>2, <1>9, <1>11, <1>12, <2>1 DEF TextAt
<1>14. \A i \in 0 .. s - 1 : x[dest + i] = x[src + i]
  BY <1>9, <1>10, <1>12
<1>15. strcmp(x, dest, src) = 0 <=> x[dest + s] = 0
  BY <1>7, <1>11, <1>13, <1>14, TextsAgree
<1> QED BY <1>5, <1>6, <1>11, <1>15

LEMMA StringsHandled ==
  ASSUME mem \in Memory
  PROVE  HandlesStrings
<1> SUFFICES ASSUME NEW dest \in Address, NEW src \in Address, IsString(dest), IsString(src)
             PROVE  LET d == strlen(mem, dest)
                        s == strlen(mem, src)
                        equal == s = d /\ Differ(dest, src, s) = {}
                        joined == strcat(mem, dest, src)
                        copied == strcpy(mem, dest, src)
                    IN  /\ (strcmp(mem, dest, src) = 0) <=> equal
                        /\ Apart(dest, src, d + s + 1) /\ dest + d + s < MemSize =>
                             joined = [Moved(dest + d, src, s) EXCEPT ![dest + d + s] = 0]
                        /\ /\ Apart(dest, src, s + 1) /\ dest + s < MemSize
                           /\ dest < src \/ src = 0 \/ mem[src - 1] = 0
                           =>
                               /\ \A a \in Address \ {dest + s} :
                                    copied[a] = Moved(dest, src, s)[a]
                               /\ mem[dest + s] = 0 => strcmp(copied, dest, src) = 0
  BY DEF HandlesStrings
<1> DEFINE d == strlen(mem, dest)
           s == strlen(mem, src)
<1>0. dest \in Nat /\ src \in Nat
  BY DEF Address
<1>1. TextAt(mem, dest, d) /\ TextAt(mem, src, s)
  BY TextLength
<1>2. d = strlen(mem, dest) /\ s = strlen(mem, src)
  OBVIOUS
<1> HIDE DEF d, s
<1>3. strcmp(mem, dest, src) = 0 <=> s = d /\ Differ(dest, src, s) = {}
  <2>1. strcmp(mem, dest, src) = 0 <=> s = d /\ \A i \in 0 .. s - 1 : mem[dest + i] = mem[src + i]
    BY <1>0, <1>1, StrcmpTells
  <2>2. Differ(dest, src, s) = {} <=> \A i \in 0 .. s - 1 : mem[dest + i] = mem[src + i]
    BY DEF Differ
  <2> QED BY <2>1, <2>2
<1>4. Apart(dest, src, d + s + 1) /\ dest + d + s < MemSize =>
        strcat(mem, dest, src) = [Moved(dest + d, src, s) EXCEPT ![dest + d + s] = 0]
  BY <1>0, <1>1, <1>2, StringsJoined
<1>5. Apart(dest, src, s + 1) /\ dest + s < MemSize /\ (dest < src \/ src = 0 \/ mem[src - 1] = 0) =>
        /\ strcpy(mem, dest, src) = Moved(dest, src, s)
        /\ strcmp(strcpy(mem, dest, src), dest, src) = 0 <=> mem[dest + s] = 0
  BY <1>0, <1>1, <1>2, StringCopied
<1> QED BY <1>3, <1>4, <1>5 DEF d, s

\* For every size of a memory, every set of bytes in it, and every call, the
\* functions of string.c do what their comments promise, but for the exceptions
\* that StringsAgree names.
THEOREM StringsSafe == StringsSpec => []StringsAgree
<1>1. ASSUME mem \in Memory
      PROVE  CopiesBlocks /\ ComparesBytes /\ HandlesStrings
  BY <1>1, BlocksCopied, BytesCompared, StringsHandled
<1>2. StringsAgree
  BY <1>1 DEF StringsAgree, Memory
<1> QED BY <1>2, PTL

(***************************************************************************)
(* Formatted output: the digits of a number.                               *)
(***************************************************************************)
LEMMA Quotient ==
  ASSUME NEW n \in Nat, NEW b \in Bases
  PROVE  /\ b \in 2 .. 35
         /\ n \div b \in Nat /\ (n % b) \in 0 .. b - 1
         /\ n = b * (n \div b) + (n % b)
         /\ n \div b # 0 => n \div b < n
         /\ n \div b = 0 => n % b = n
<1>1. b \in Nat /\ b >= 2 /\ b \in 2 .. 35
  BY FormatAssumption
<1> DEFINE q == n \div b
           r == n % b
<1>2. q \in Int /\ r \in 0 .. b - 1 /\ n = b * q + r
  BY <1>1
<1> HIDE DEF q, r
<1>3. q \in Nat
  <2> SUFFICES ASSUME q <= -1 PROVE FALSE
    BY <1>2
  <2>1. b * q <= b * (-1)
    BY <1>1, <1>2
  <2> QED BY <1>1, <1>2, <2>1
<1>4. q # 0 => q < n
  <2> SUFFICES ASSUME q >= 1 PROVE q < n
    BY <1>3
  <2>1. b * q >= 2 * q
    BY <1>1, <1>2
  <2> QED BY <1>1, <1>2, <2>1
<1>5. q = 0 => r = n
  BY <1>1, <1>2
<1> QED BY <1>1, <1>2, <1>3, <1>4, <1>5 DEF q, r

DigitsPass(f, b, n) == Append(IF n \div b # 0 THEN f[n \div b] ELSE <<>>, n % b)
IsDigits(f, b, N) == f = [n \in 0 .. N |-> DigitsPass(f, b, n)]

LEMMA DigitsExist ==
  ASSUME NEW b \in Bases
  PROVE  \A N \in Nat : \E f : IsDigits(f, b, N)
<1> DEFINE T == {N \in Nat : \E f : IsDigits(f, b, N)}
<1>1. 0 \in T
  <2> DEFINE f == [n \in 0 .. 0 |-> DigitsPass(<<>>, b, n)]
  <2>1. 0 \div b = 0
    BY Quotient
  <2>2. \A n \in 0 .. 0 : DigitsPass(<<>>, b, n) = DigitsPass(f, b, n)
    <3> HIDE DEF f
    <3> QED BY <2>1 DEF DigitsPass
  <2>3. f = [n \in 0 .. 0 |-> DigitsPass(f, b, n)]
    <3>1. f = [n \in 0 .. 0 |-> f[n]]
      OBVIOUS
    <3>2. \A n \in 0 .. 0 : f[n] = DigitsPass(<<>>, b, n)
      OBVIOUS
    <3> HIDE DEF f
    <3> QED BY <2>2, <3>1, <3>2
  <2> HIDE DEF f
  <2> QED BY <2>3 DEF IsDigits
<1>2. ASSUME NEW N \in Nat, N \in T
      PROVE  N + 1 \in T
  <2>1. PICK f : IsDigits(f, b, N)
    BY <1>2
  <2> DEFINE g == [n \in 0 .. N + 1 |-> IF n <= N THEN f[n] ELSE DigitsPass(f, b, n)]
  <2>2. \A n \in 0 .. N : g[n] = f[n]
    OBVIOUS
  <2>3. \A n \in 0 .. N + 1 : g[n] = DigitsPass(f, b, n)
    BY <2>1 DEF IsDigits
  <2>4. \A n \in 0 .. N + 1 : n \div b # 0 => n \div b \in 0 .. N
    <3> SUFFICES ASSUME NEW n \in 0 .. N + 1, n \div b # 0 PROVE n \div b \in 0 .. N
      OBVIOUS
    <3>1. n \div b \in Nat /\ n \div b < n
      BY Quotient
    <3> DEFINE q == n \div b
    <3> HIDE DEF q
    <3>2. q \in 0 .. N
      BY <3>1 DEF q
    <3> QED BY <3>2 DEF q
  <2>5. \A n \in 0 .. N + 1 : DigitsPass(g, b, n) = DigitsPass(f, b, n)
    <3> HIDE DEF g
    <3> QED BY <2>2, <2>4 DEF DigitsPass
  <2>6. g = [n \in 0 .. N + 1 |-> DigitsPass(g, b, n)]
    <3>1. g = [n \in 0 .. N + 1 |-> g[n]]
      OBVIOUS
    <3> HIDE DEF g
    <3>2. \A n \in 0 .. N + 1 : g[n] = DigitsPass(g, b, n)
      BY <2>3, <2>5
    <3> QED BY <3>1, <3>2
  <2>7. IsDigits(g, b, N + 1)
    BY <2>6 DEF IsDigits
  <2> HIDE DEF g
  <2> QED BY <2>7
<1> HIDE DEF T
<1>3. \A N \in Nat : N \in T
  BY <1>1, <1>2, Induction
<1> QED BY <1>3 DEF T

Codes == 0 .. 2 * HighBit - 1
Last(n, b) == n % b
Rest(n, b) == n \div b

LEMMA DigitsAre ==
  ASSUME NEW b \in Bases, NEW n \in Codes
  PROVE  Digits(b)[n] = Append(IF Rest(n, b) # 0 THEN Digits(b)[Rest(n, b)] ELSE <<>>, Last(n, b))
<1> DEFINE N == 2 * HighBit - 1
           w == CHOOSE f : IsDigits(f, b, N)
<1>1. N \in Nat
  BY FormatAssumption
<1>2. IsDigits(w, b, N)
  <2> HIDE DEF N
  <2> QED BY <1>1, DigitsExist
<1>3. Digits(b) = w
  BY DEF Digits, IsDigits, DigitsPass
<1> HIDE DEF w
<1>4. w[n] = DigitsPass(w, b, n)
  BY <1>2 DEF IsDigits, Codes
<1> QED BY <1>3, <1>4 DEF DigitsPass, Rest, Last

(***************************************************************************)
(* Formatted output: what characters are worth.                            *)
(***************************************************************************)
Worth(v, c, b) == IF c >= 0 THEN b * v + c ELSE v
ValuePass(f, out, b, i) ==
  IF i = 0 THEN 0
  ELSE LET v == f[i - 1] IN IF out[i] >= 0 THEN b * v + out[i] ELSE v
IsValue(f, out, b, N) == f = [i \in 0 .. N |-> ValuePass(f, out, b, i)]

LEMMA ValueExists ==
  ASSUME NEW out, NEW b
  PROVE  \A N \in Nat : \E f : IsValue(f, out, b, N)
<1> DEFINE T == {N \in Nat : \E f : IsValue(f, out, b, N)}
<1>1. 0 \in T
  <2> DEFINE f == [i \in 0 .. 0 |-> ValuePass(<<>>, out, b, 0)]
  <2>1. f = [i \in 0 .. 0 |-> ValuePass(f, out, b, i)]
    BY DEF ValuePass
  <2> QED BY <2>1 DEF IsValue
<1>2. ASSUME NEW N \in Nat, N \in T
      PROVE  N + 1 \in T
  <2>1. PICK f : IsValue(f, out, b, N)
    BY <1>2
  <2> DEFINE g == [i \in 0 .. N + 1 |-> IF i <= N THEN f[i] ELSE ValuePass(f, out, b, i)]
  <2>2. \A i \in 0 .. N : g[i] = f[i]
    OBVIOUS
  <2>3. \A i \in 0 .. N + 1 : g[i] = ValuePass(f, out, b, i)
    BY <2>1 DEF IsValue
  <2>4. \A i \in 0 .. N + 1 : i # 0 => i - 1 \in 0 .. N
    OBVIOUS
  <2>5. \A i \in 0 .. N + 1 : ValuePass(g, out, b, i) = ValuePass(f, out, b, i)
    <3> HIDE DEF g
    <3> QED BY <2>2, <2>4 DEF ValuePass
  <2>6. g = [i \in 0 .. N + 1 |-> ValuePass(g, out, b, i)]
    <3>1. g = [i \in 0 .. N + 1 |-> g[i]]
      OBVIOUS
    <3> HIDE DEF g
    <3>2. \A i \in 0 .. N + 1 : g[i] = ValuePass(g, out, b, i)
      BY <2>3, <2>5
    <3> QED BY <3>1, <3>2
  <2>7. IsValue(g, out, b, N + 1)
    BY <2>6 DEF IsValue
  <2> HIDE DEF g
  <2> QED BY <2>7
<1> HIDE DEF T
<1>3. \A N \in Nat : N \in T
  BY <1>1, <1>2, Induction
<1> QED BY <1>3 DEF T

\* What reading has between its passes.
Valuing(w, out, b, n) ==
  /\ w[0] = 0
  /\ \A i \in 0 .. n - 1 : w[i + 1] = Worth(w[i], out[i + 1], b)

LEMMA ValueIs ==
  ASSUME NEW out, NEW b, Len(out) \in Nat
  PROVE  \E w : Valuing(w, out, b, Len(out)) /\ Value(out, b) = w[Len(out)]
<1> DEFINE n == Len(out)
           w == CHOOSE f : IsValue(f, out, b, n)
<1>1. IsValue(w, out, b, n)
  <2> HIDE DEF n
  <2> QED BY ValueExists DEF n
<1>2. Value(out, b) = w[n]
  BY DEF Value, IsValue, ValuePass
<1> HIDE DEF w
<1>0. n \in Nat
  OBVIOUS
<1> HIDE DEF n
<1>3. w[0] = 0
  BY <1>0, <1>1 DEF IsValue, ValuePass
<1>4. ASSUME NEW i \in 0 .. n - 1
      PROVE  w[i + 1] = Worth(w[i], out[i + 1], b)
  <2>1. i + 1 \in 0 .. n /\ i + 1 # 0 /\ (i + 1) - 1 = i
    BY <1>0
  <2>2. w[i + 1] = ValuePass(w, out, b, i + 1)
    BY <1>1, <2>1 DEF IsValue
  <2> QED BY <2>1, <2>2 DEF ValuePass, Worth
<1>5. Valuing(w, out, b, n)
  BY <1>3, <1>4 DEF Valuing
<1> QED BY <1>2, <1>5 DEF n

LEMMA ValuesAgree ==
  ASSUME NEW n \in Nat, NEW b \in Int, NEW s, NEW t, NEW w, NEW x,
         Valuing(w, s, b, n), Valuing(x, t, b, n),
         \A i \in 1 .. n : s[i] \in Int /\ t[i] = s[i]
  PROVE  \A i \in 0 .. n : x[i] = w[i] /\ w[i] \in Int
<1> DEFINE T == {i \in Nat : i <= n => x[i] = w[i] /\ w[i] \in Int}
<1>1. 0 \in T
  BY DEF Valuing
<1>2. ASSUME NEW i \in Nat, i \in T
      PROVE  i + 1 \in T
  <2> SUFFICES ASSUME i + 1 <= n PROVE x[i + 1] = w[i + 1] /\ w[i + 1] \in Int
    OBVIOUS
  <2>1. i \in 0 .. n - 1 /\ i + 1 \in 1 .. n
    OBVIOUS
  <2>2. x[i + 1] = Worth(x[i], t[i + 1], b) /\ w[i + 1] = Worth(w[i], s[i + 1], b)
    BY <2>1 DEF Valuing
  <2>3. x[i] = w[i] /\ w[i] \in Int /\ s[i + 1] \in Int /\ t[i + 1] = s[i + 1]
    BY <1>2, <2>1
  <2> QED BY <2>2, <2>3 DEF Worth
<1> HIDE DEF T
<1>3. \A i \in Nat : i \in T
  BY <1>1, <1>2, Induction
<1> QED BY <1>3 DEF T

LEMMA ValueAppend ==
  ASSUME NEW s \in Seq(Int), NEW c \in Nat, NEW b \in Int
  PROVE  Value(s, b) \in Int /\ Value(Append(s, c), b) = b * Value(s, b) + c
<1> DEFINE t == Append(s, c)
           n == Len(s)
<1>1. /\ n \in Nat /\ Len(t) = n + 1 /\ t[n + 1] = c /\ n + 1 \in Nat
      /\ \A i \in 1 .. n : s[i] \in Int /\ t[i] = s[i]
  <2>1. n \in Nat /\ \A i \in 1 .. n : s[i] \in Int
    BY LenProperties
  <2>2. c \in Int
    OBVIOUS
  <2>3. Len(t) = n + 1 /\ t[n + 1] = c /\ \A i \in 1 .. n : t[i] = s[i]
    BY <2>2, AppendProperties
  <2> QED BY <2>1, <2>3
<1>2. PICK w : Valuing(w, s, b, n) /\ Value(s, b) = w[n]
  BY <1>1, ValueIs
<1> HIDE DEF t
<1>3. PICK x : Valuing(x, t, b, n + 1) /\ Value(t, b) = x[n + 1]
  BY <1>1, ValueIs
<1> HIDE DEF n
<1>4. Valuing(x, t, b, n) /\ x[n + 1] = Worth(x[n], t[n + 1], b)
  BY <1>1, <1>3 DEF Valuing
<1>5. \A i \in 0 .. n : x[i] = w[i] /\ w[i] \in Int
  BY <1>1, <1>2, <1>4, ValuesAgree
<1>6. x[n] = w[n] /\ w[n] \in Int
  BY <1>1, <1>5
<1> QED BY <1>1, <1>2, <1>3, <1>4, <1>6 DEF Worth, t

\* Characters that are not digits are worth nothing behind others.
LEMMA ValueQuiet ==
  ASSUME NEW s \in Seq(Int), NEW t \in Seq(Int), NEW b \in Int, \A i \in 1 .. Len(t) : t[i] < 0
  PROVE  Value(s \o t, b) = Value(s, b)
<1> DEFINE u == s \o t
           n == Len(s)
           m == Len(t)
<1>1. n \in Nat /\ m \in Nat /\ n + m \in Nat /\ \A i \in 1 .. n : s[i] \in Int
  BY LenProperties
<1>2. Len(u) = n + m /\ \A i \in 1 .. n + m : u[i] = IF i <= n THEN s[i] ELSE t[i - n]
  BY ConcatProperties
<1>3. PICK w : Valuing(w, s, b, n) /\ Value(s, b) = w[n]
  BY <1>1, ValueIs
<1> HIDE DEF u
<1>4. PICK x : Valuing(x, u, b, n + m) /\ Value(u, b) = x[n + m]
  BY <1>1, <1>2, ValueIs
<1>0. \A i \in 1 .. m : t[i] < 0
  OBVIOUS
<1> HIDE DEF n, m
<1>5. Valuing(x, u, b, n)
  BY <1>1, <1>4 DEF Valuing
<1>6. \A i \in 1 .. n : s[i] \in Int /\ u[i] = s[i]
  BY <1>1, <1>2
<1>7. \A i \in 0 .. n : x[i] = w[i] /\ w[i] \in Int
  BY <1>1, <1>3, <1>5, <1>6, ValuesAgree
<1> DEFINE T == {k \in Nat : k <= m => x[n + k] = w[n]}
<1>8. 0 \in T
  <2>1. n \in 0 .. n /\ n + 0 = n
    BY <1>1
  <2> QED BY <1>7, <2>1
<1>9. ASSUME NEW k \in Nat, k \in T
      PROVE  k + 1 \in T
  <2> SUFFICES ASSUME k + 1 <= m PROVE x[n + (k + 1)] = w[n]
    OBVIOUS
  <2>1. /\ n + k \in 0 .. (n + m) - 1 /\ n + (k + 1) = (n + k) + 1 /\ (n + k) + 1 \in 1 .. n + m
        /\ ~((n + k) + 1 <= n) /\ ((n + k) + 1) - n = k + 1 /\ k + 1 \in 1 .. m
    BY <1>1
  <2>2. u[(n + k) + 1] = t[k + 1]
    BY <1>2, <2>1
  <2>3. x[(n + k) + 1] = Worth(x[n + k], u[(n + k) + 1], b)
    BY <1>4, <2>1 DEF Valuing
  <2>4. t[k + 1] < 0 /\ x[n + k] = w[n]
    <3>1. t[k + 1] < 0
      BY <1>0, <2>1
    <3>2. k <= m
      BY <1>1
    <3> QED BY <1>9, <3>1, <3>2
  <2>5. t[k + 1] \in Int
    BY <2>1, LenProperties DEF m
  <2>6. Worth(x[n + k], t[k + 1], b) = x[n + k]
    BY <2>4, <2>5 DEF Worth
  <2> QED BY <2>1, <2>2, <2>3, <2>4, <2>6
<1> HIDE DEF T
<1>10. m \in T
  BY <1>1, <1>8, <1>9, Induction
<1> QED BY <1>1, <1>3, <1>4, <1>10 DEF T, u

\* Without a digit but 0, characters are worth nothing.
LEMMA ValueBlank ==
  ASSUME NEW s \in Seq(Int), NEW b \in Int, \A i \in 1 .. Len(s) : s[i] <= 0
  PROVE  Value(s, b) = 0
<1> DEFINE n == Len(s)
<1>1. n \in Nat /\ \A i \in 1 .. n : s[i] \in Int
  BY LenProperties
<1>2. PICK w : Valuing(w, s, b, n) /\ Value(s, b) = w[n]
  BY <1>1, ValueIs
<1>0. \A i \in 1 .. n : s[i] <= 0
  OBVIOUS
<1> HIDE DEF n
<1> DEFINE T == {k \in Nat : k <= n => w[k] = 0}
<1>3. 0 \in T
  BY <1>2 DEF Valuing
<1>4. ASSUME NEW k \in Nat, k \in T
      PROVE  k + 1 \in T
  <2> SUFFICES ASSUME k + 1 <= n PROVE w[k + 1] = 0
    OBVIOUS
  <2>1. k \in 0 .. n - 1 /\ k + 1 \in 1 .. n
    BY <1>1
  <2>2. w[k + 1] = Worth(w[k], s[k + 1], b)
    BY <1>2, <2>1 DEF Valuing
  <2>3. w[k] = 0 /\ s[k + 1] \in Int /\ s[k + 1] <= 0
    BY <1>0, <1>1, <1>4, <2>1
  <2> QED BY <2>2, <2>3 DEF Worth
<1> HIDE DEF T
<1>5. n \in T
  BY <1>1, <1>3, <1>4, Induction
<1> QED BY <1>1, <1>2, <1>5 DEF T

(***************************************************************************)
(* Formatted output: digits behind characters that are worth nothing.      *)
(***************************************************************************)
\* s read behind such characters has value v, and s is a numeral.
Behind(s, v, b) ==
  /\ s \in Seq(Int) /\ s # <<>>
  /\ \A i \in 1 .. Len(s) : s[i] \in 0 .. b - 1
  /\ s[1] = 0 => v = 0 /\ Len(s) = 1
  /\ \A t \in Seq(Int) : Value(t, b) = 0 => Value(t \o s, b) = v

LEMMA BehindOne ==
  ASSUME NEW b \in Bases, NEW c \in 0 .. b - 1
  PROVE  Behind(Append(<<>>, c), c, b)
<1>1. b \in Int /\ c \in Nat /\ c \in Int
  BY FormatAssumption
<1> DEFINE s == Append(<<>>, c)
<1>2. s \in Seq(Int) /\ s # <<>> /\ Len(s) = 1 /\ s[1] = c /\ s = <<c>>
  BY <1>1
<1> HIDE DEF s
<1>3. ASSUME NEW t \in Seq(Int), Value(t, b) = 0
      PROVE  Value(t \o s, b) = c
  <2>1. t \o s = Append(t, c)
    BY <1>1, <1>2, AppendIsConcat
  <2>2. Value(Append(t, c), b) = b * Value(t, b) + c
    BY <1>1, ValueAppend
  <2> QED BY <1>1, <1>3, <2>1, <2>2
<1>4. \A i \in 1 .. Len(s) : s[i] \in 0 .. b - 1
  BY <1>2
<1> QED BY <1>1, <1>2, <1>3, <1>4 DEF Behind, s

LEMMA Regroup ==
  ASSUME NEW p \in Seq(Int), NEW s \in Seq(Int), NEW t \in Seq(Int)
  PROVE  p \o (s \o t) = (p \o s) \o t
BY SMTT(60), ConcatAssociative

LEMMA BehindMore ==
  ASSUME NEW b \in Bases, NEW c \in 0 .. b - 1, NEW s, NEW v \in Nat, v # 0, Behind(s, v, b)
  PROVE  Behind(Append(s, c), b * v + c, b)
<1>1. b \in Int /\ c \in Nat /\ c \in Int
  BY FormatAssumption
<1> DEFINE u == Append(s, c)
           n == Len(s)
<1>2. /\ s \in Seq(Int) /\ s # <<>> /\ s[1] # 0
      /\ \A i \in 1 .. n : s[i] \in 0 .. b - 1
      /\ \A t \in Seq(Int) : Value(t, b) = 0 => Value(t \o s, b) = v
  BY DEF Behind
<1>3. n \in Nat /\ n # 0
  BY <1>2, EmptySeq, LenProperties
<1>4. /\ u \in Seq(Int) /\ u # <<>> /\ Len(u) = n + 1 /\ u[n + 1] = c
      /\ \A i \in 1 .. n : u[i] = s[i]
  BY <1>1, <1>2, AppendProperties
<1>5. u = s \o <<c>>
  BY <1>1, <1>2, AppendIsConcat
<1> HIDE DEF u
<1>6. ASSUME NEW t \in Seq(Int), Value(t, b) = 0
      PROVE  Value(t \o u, b) = b * v + c
  <2>1. <<c>> \in Seq(Int)
    BY <1>1
  <2>2. t \o u = (t \o s) \o <<c>>
    BY <1>2, <1>5, <2>1, Regroup
  <2>3. t \o s \in Seq(Int)
    BY <1>2, ConcatProperties
  <2>4. (t \o s) \o <<c>> = Append(t \o s, c)
    BY <1>1, <2>3, AppendIsConcat
  <2>5. Value(Append(t \o s, c), b) = b * Value(t \o s, b) + c
    BY <1>1, <2>3, ValueAppend
  <2>6. Value(t \o s, b) = v
    BY <1>2, <1>6
  <2> QED BY <2>2, <2>4, <2>5, <2>6
<1> HIDE DEF n
<1>7. \A i \in 1 .. n + 1 : u[i] \in 0 .. b - 1
  <2> SUFFICES ASSUME NEW i \in 1 .. n + 1 PROVE u[i] \in 0 .. b - 1
    OBVIOUS
  <2>1. i \in 1 .. n \/ i = n + 1
    BY <1>3
  <2> QED BY <1>2, <1>4, <2>1
<1>8. u[1] # 0
  <2>1. 1 \in 1 .. n
    BY <1>3
  <2> QED BY <1>2, <1>4, <2>1
<1> QED BY <1>4, <1>6, <1>7, <1>8 DEF Behind, u

LEMMA DigitsRead ==
  ASSUME NEW b \in Bases, NEW v \in Codes
  PROVE  Behind(Digits(b)[v], v, b)
<1> DEFINE T == {N \in Nat : \A n \in 0 .. N : n \in Codes => Behind(Digits(b)[n], n, b)}
           D(n) == Digits(b)[n]
<1>1. ASSUME NEW n \in Nat, n \in Codes, \A k \in 0 .. n - 1 : k \in Codes => Behind(D(k), k, b)
      PROVE  Behind(D(n), n, b)
  <2> DEFINE q == Rest(n, b)
             r == Last(n, b)
  <2>1. /\ q \in Nat /\ r \in 0 .. b - 1 /\ n = b * q + r
        /\ q # 0 => q < n
        /\ q = 0 => r = n
    BY Quotient DEF Rest, Last
  <2>2. D(n) = Append(IF q # 0 THEN D(q) ELSE <<>>, r)
    BY <1>1, DigitsAre
  <2> HIDE DEF D, q, r
  <2>3. CASE q = 0
    <3>1. D(n) = Append(<<>>, r)
      BY <2>2, <2>3
    <3> QED BY <2>1, <2>3, <3>1, BehindOne
  <2>4. CASE q # 0
    <3>1. D(n) = Append(D(q), r)
      BY <2>2, <2>4
    <3>2. q \in 0 .. n - 1 /\ q \in Codes
      BY <1>1, <2>1, <2>4, FormatAssumption DEF Codes
    <3>3. Behind(D(q), q, b)
      BY <1>1, <3>2
    <3>4. Behind(Append(D(q), r), b * q + r, b)
      BY <2>1, <2>4, <3>3, BehindMore
    <3> QED BY <2>1, <3>1, <3>4
  <2> QED BY <2>3, <2>4
<1>2. 0 \in T
  <2> SUFFICES ASSUME 0 \in Codes PROVE Behind(D(0), 0, b)
    OBVIOUS
  <2>1. \A k \in 0 .. 0 - 1 : k \in Codes => Behind(D(k), k, b)
    OBVIOUS
  <2> HIDE DEF D
  <2> QED BY <1>1, <2>1
<1>3. ASSUME NEW N \in Nat, N \in T
      PROVE  N + 1 \in T
  <2> SUFFICES ASSUME NEW n \in 0 .. N + 1, n \in Codes PROVE Behind(D(n), n, b)
    OBVIOUS
  <2>1. \A k \in 0 .. N : k \in Codes => Behind(D(k), k, b)
    BY <1>3
  <2> HIDE DEF D
  <2>2. n \in Nat /\ \A k \in 0 .. n - 1 : k \in 0 .. N
    OBVIOUS
  <2>3. \A k \in 0 .. n - 1 : k \in Codes => Behind(D(k), k, b)
    BY <2>1, <2>2
  <2> QED BY <1>1, <2>2, <2>3
<1> HIDE DEF T
<1>4. v \in T
  <2>1. v \in Nat
    BY DEF Codes
  <2> QED BY <1>2, <1>3, <2>1, Induction
<1>5. v \in 0 .. v
  BY DEF Codes
<1> QED BY <1>4, <1>5 DEF T

(***************************************************************************)
(* Formatted output: what stands in front of the digits.                   *)
(***************************************************************************)
Dull(s) == s \in Seq(Int) /\ \A i \in 1 .. Len(s) : s[i] <= 0

LEMMA DullValue ==
  ASSUME NEW s, Dull(s), NEW b \in Bases
  PROVE  s \in Seq(Int) /\ Value(s, b) = 0
<1>1. b \in Int
  BY FormatAssumption
<1> QED BY <1>1, ValueBlank DEF Dull

LEMMA DullConcat ==
  ASSUME NEW s, NEW t, Dull(s), Dull(t)
  PROVE  Dull(s \o t)
<1>1. s \in Seq(Int) /\ t \in Seq(Int)
  BY DEF Dull
<1> DEFINE u == s \o t
           n == Len(s)
           m == Len(t)
<1>2. /\ u \in Seq(Int) /\ Len(u) = n + m
      /\ \A i \in 1 .. n + m : u[i] = IF i <= n THEN s[i] ELSE t[i - n]
  BY <1>1, ConcatProperties
<1>3. n \in Nat /\ m \in Nat
  BY <1>1, LenProperties
<1>4. /\ \A i \in 1 .. n : s[i] <= 0
      /\ \A i \in 1 .. m : t[i] <= 0
  BY DEF Dull
<1> HIDE DEF u, n, m
<1>5. ASSUME NEW i \in 1 .. n + m
      PROVE  u[i] <= 0
  <2>1. i <= n => i \in 1 .. n
    BY <1>3
  <2>2. ~(i <= n) => i - n \in 1 .. m
    BY <1>3
  <2> QED BY <1>2, <1>4, <2>1, <2>2
<1> QED BY <1>2, <1>5 DEF Dull, u

LEMMA NegativeIs ==
  ASSUME NEW s \in Seq(Int)
  PROVE  Negative(s) <=> \E i \in 1 .. Len(s) : s[i] = Minus
BY LenProperties DEF Negative

LEMMA NegativeConcat ==
  ASSUME NEW s \in Seq(Int), NEW t \in Seq(Int)
  PROVE  Negative(s \o t) <=> Negative(s) \/ Negative(t)
<1> DEFINE u == s \o t
           n == Len(s)
           m == Len(t)
<1>1. /\ u \in Seq(Int) /\ Len(u) = n + m
      /\ \A i \in 1 .. n + m : u[i] = IF i <= n THEN s[i] ELSE t[i - n]
  BY ConcatProperties
<1>2. n \in Nat /\ m \in Nat
  BY LenProperties
<1>3. /\ Negative(s) <=> \E i \in 1 .. n : s[i] = Minus
      /\ Negative(t) <=> \E i \in 1 .. m : t[i] = Minus
  BY NegativeIs
<1> HIDE DEF u
<1>4. Negative(u) <=> \E i \in 1 .. n + m : u[i] = Minus
  BY <1>1, NegativeIs
<1> HIDE DEF n, m
<1>5. ASSUME NEW i \in 1 .. n + m, u[i] = Minus
      PROVE  (\E j \in 1 .. n : s[j] = Minus) \/ (\E j \in 1 .. m : t[j] = Minus)
  <2>1. i <= n => i \in 1 .. n
    BY <1>2
  <2>2. ~(i <= n) => i - n \in 1 .. m
    BY <1>2
  <2> QED BY <1>1, <1>5, <2>1, <2>2
<1>6. ASSUME NEW i \in 1 .. n, s[i] = Minus
      PROVE  \E j \in 1 .. n + m : u[j] = Minus
  <2>1. i \in 1 .. n + m /\ i <= n
    BY <1>2
  <2> QED BY <1>1, <1>6, <2>1
<1>7. ASSUME NEW i \in 1 .. m, t[i] = Minus
      PROVE  \E j \in 1 .. n + m : u[j] = Minus
  <2>1. n + i \in 1 .. n + m /\ ~(n + i <= n) /\ (n + i) - n = i
    BY <1>2
  <2> QED BY <1>1, <1>7, <2>1
<1> QED BY <1>3, <1>4, <1>5, <1>6, <1>7 DEF u

LEMMA Singles ==
  /\ Dull(<<>>) /\ Len(<<>>) = 0 /\ ~Negative(<<>>)
  /\ Dull(<<Minus>>) /\ Len(<<Minus>>) = 1 /\ Negative(<<Minus>>)
  /\ Dull(<<Plus>>) /\ Len(<<Plus>>) = 1 /\ ~Negative(<<Plus>>)
  /\ Dull(<<0>>) /\ ~Negative(<<0>>)
  /\ Dull(<<0, Radix>>) /\ ~Negative(<<0, Radix>>)
BY DEF Dull, Negative, Minus, Plus, Radix

\* A sequence of n characters given one by one.
LEMMA MadeOf ==
  ASSUME NEW n \in Nat, NEW s \in [1 .. n -> Int]
  PROVE  s \in Seq(Int) /\ Len(s) = n /\ DOMAIN s = 1 .. n
OBVIOUS

Pads == {NoPad, Space, 0}
Signs == {"NONE", "NLEAD", "PLEAD", "NEMBED"}

Padded(p, length, pad, neg, depth, sign) ==
  /\ Dull(p)
  /\ neg # "NEMBED" =>
       /\ Len(p) = IF pad # NoPad /\ length > depth + 1 THEN length - depth - 1 ELSE 0
       /\ ~Negative(p)
  /\ neg = "NEMBED" => (Negative(p) <=> sign /\ pad # NoPad /\ length # depth + 1)

LEMMA PaddingIs ==
  ASSUME NEW length \in Nat, NEW pad \in Pads, NEW neg \in Signs,
         NEW depth \in Nat, NEW sign \in BOOLEAN
  PROVE  Padded(Padding(length, pad, neg, depth, sign), length, pad, neg, depth, sign)
<1> DEFINE p == Padding(length, pad, neg, depth, sign)
           lost == pad = NoPad \/ length = depth + 1
           embedded == IF sign /\ Embeds(neg) THEN Minus
                       ELSE IF ~sign /\ neg = "PEMBED" THEN Plus ELSE pad
           full == IF sign /\ neg = "NEMBED" THEN <<Minus>>
                   ELSE IF ~sign /\ Embeds(neg) THEN <<Plus>> ELSE <<>>
           n == length - depth - 1
           s == [i \in 1 .. n |-> IF i = n THEN embedded ELSE pad]
<1>0. p = IF lost THEN <<>> ELSE IF length <= depth THEN full ELSE s
  BY DEF Padding
<1> SUFFICES Padded(p, length, pad, neg, depth, sign)
  OBVIOUS
<1>1. /\ neg # "NEMBED" => ~Embeds(neg) /\ neg # "PEMBED"
      /\ neg = "NEMBED" => Embeds(neg) /\ neg # "PEMBED"
  BY DEF Embeds, Signs
<1>2. pad \in Int /\ pad <= 0 /\ pad # Minus /\ Minus \in Int /\ Minus <= 0
  BY DEF Pads, NoPad, Space, Minus
<1>3. CASE lost
  <2>1. p = <<>>
    BY <1>0, <1>3
  <2>2. pad # NoPad => ~(length > depth + 1)
    BY <1>3
  <2>3. ~(pad # NoPad /\ length # depth + 1)
    BY <1>3
  <2> HIDE DEF p, lost
  <2> QED BY <2>1, <2>2, <2>3, Singles DEF Padded
<1>4. CASE ~lost /\ length <= depth
  <2>1. p = full
    BY <1>0, <1>4
  <2>2. ~(length > depth + 1) /\ pad # NoPad /\ length # depth + 1
    BY <1>4
  <2>3. CASE neg = "NEMBED"
    <3>1. full = IF sign THEN <<Minus>> ELSE <<Plus>>
      BY <1>1, <2>3
    <3> HIDE DEF p, full, lost
    <3> QED BY <2>1, <2>2, <2>3, <3>1, Singles DEF Padded
  <2>4. CASE neg # "NEMBED"
    <3>1. full = <<>>
      BY <1>1, <2>4
    <3> HIDE DEF p, full, lost
    <3> QED BY <2>1, <2>2, <2>4, <3>1, Singles DEF Padded
  <2> QED BY <2>3, <2>4
<1>5. CASE ~lost /\ ~(length <= depth)
  <2>1. p = s
    BY <1>0, <1>5
  <2>2. length > depth + 1 /\ pad # NoPad /\ length # depth + 1 /\ n \in Nat /\ n >= 1 /\ n \in 1 .. n
    BY <1>5
  <2>3. embedded \in Int /\ embedded <= 0 /\ (embedded = Minus <=> sign /\ neg = "NEMBED")
    BY <1>1, <1>2
  <2> HIDE DEF embedded
  <2>4. s \in [1 .. n -> Int]
    BY <1>2, <2>3
  <2>5. \A i \in 1 .. n : s[i] = IF i = n THEN embedded ELSE pad
    OBVIOUS
  <2> HIDE DEF s
  <2>6. s \in Seq(Int) /\ Len(s) = n /\ DOMAIN s = 1 .. n
    BY <2>2, <2>4, MadeOf
  <2>7. Dull(s)
    BY <1>2, <2>3, <2>5, <2>6 DEF Dull
  <2>8. Negative(s) <=> sign /\ neg = "NEMBED"
    <3>1. Negative(s) <=> \E i \in 1 .. n : s[i] = Minus
      BY <2>6 DEF Negative
    <3>2. s[n] = embedded
      BY <2>2, <2>5
    <3>3. \A i \in 1 .. n : s[i] = Minus => embedded = Minus
      BY <1>2, <2>5
    <3> QED BY <2>2, <2>3, <3>1, <3>2, <3>3
  <2>9. n = length - depth - 1
    OBVIOUS
  <2> HIDE DEF p, n, lost
  <2> QED BY <2>1, <2>2, <2>6, <2>7, <2>8, <2>9 DEF Padded
<1> QED BY <1>3, <1>4, <1>5

(***************************************************************************)
(* Formatted output: numbers.                                              *)
(***************************************************************************)
Minused(n, neg) == neg # "NONE" /\ n < 0
Lead(n, neg) ==
  IF Minused(n, neg) /\ Leads(neg) THEN <<Minus>>
  ELSE IF ~Minused(n, neg) /\ neg = "PLEAD" THEN <<Plus>> ELSE <<>>
Code(n, neg) == Unsigned(IF Minused(n, neg) THEN -n ELSE n)
Places(n, b, neg) == Digits(b)[Code(n, neg)]
Pad(n, b, length, pad, neg) ==
  Padding(length, pad, neg, Len(Lead(n, neg)) + Len(Places(n, b, neg)) - 1, Minused(n, neg))
Start(n, b, length, pad, neg) == Lead(n, neg) \o Pad(n, b, length, pad, neg)

LEMMA PutIs == \A n, b, length, pad, neg :
  putnum(n, b, length, pad, neg) = Start(n, b, length, pad, neg) \o Places(n, b, neg)
BY DEF putnum, Start, Pad, Places, Code, Lead, Minused, SignDepth

\* The remainder of a division by a number that is not smaller.
LEMMA Remains ==
  ASSUME NEW m \in Nat, NEW n \in Int, m # 0
  PROVE  /\ n \in 0 .. m - 1 => n % m = n
         /\ n \in -m .. -1 => n % m = n + m
<1> DEFINE q == n \div m
           r == n % m
<1>1. q \in Int /\ r \in 0 .. m - 1 /\ n = m * q + r
  OBVIOUS
<1> HIDE DEF q, r
<1>2. q >= 1 => m * q >= m
  BY <1>1
<1>3. q <= -1 => m * q <= -m
  BY <1>1
<1>4. q <= -2 => m * q <= -2 * m
  BY <1>1
<1>5. n \in 0 .. m - 1 => r = n
  <2>1. n \in 0 .. m - 1 => q = 0
    BY <1>1, <1>2, <1>3
  <2> QED BY <1>1, <2>1
<1>6. n \in -m .. -1 => r = n + m
  <2>1. q = 0 => n = r
    BY <1>1
  <2>2. n \in -m .. -1 => q = -1
    BY <1>1, <1>2, <1>4, <2>1
  <2>3. q = -1 => n = r - m
    BY <1>1
  <2> QED BY <1>1, <2>2, <2>3
<1> QED BY <1>5, <1>6 DEF r

LEMMA CodeIs ==
  ASSUME NEW n \in Ints
  PROVE  /\ n \in Int
         /\ Unsigned(n) \in Codes /\ (n >= 0 => Unsigned(n) = n)
         /\ n < 0 => Unsigned(-n) = -n /\ -n \in Codes
<1> DEFINE m == 2 * HighBit
<1>1. m \in Nat /\ m # 0 /\ HighBit \in Nat /\ HighBit >= 1
  BY FormatAssumption
<1>2. n \in Int /\ (n >= 0 => n \in 0 .. m - 1) /\ (n < 0 => n \in -m .. -1 /\ -n \in 0 .. m - 1)
  BY <1>1 DEF Ints
<1> HIDE DEF m
<1>3. /\ n \in 0 .. m - 1 => n % m = n
      /\ n \in -m .. -1 => n % m = n + m
  BY <1>1, <1>2, Remains
<1>4. -n \in 0 .. m - 1 => (-n) % m = -n
  <2>1. -n \in Int
    BY <1>2
  <2> QED BY <1>1, <2>1, Remains
<1>5. /\ Unsigned(n) = n % m /\ Unsigned(-n) = (-n) % m
      /\ Codes = 0 .. m - 1
  BY DEF Unsigned, Codes, m
<1> QED BY <1>1, <1>2, <1>3, <1>4, <1>5

\* What a number is printed as: start and digits.
Printed(start, digits, n, b, length, pad, neg) ==
  LET k == Len(Lead(n, neg)) + Len(digits)
  IN  /\ Dull(start) /\ Behind(digits, Code(n, neg), b)
      /\ neg # "NEMBED" =>
           /\ Len(start) = Len(Lead(n, neg)) + (IF pad # NoPad /\ length > k THEN length - k ELSE 0)
           /\ Negative(start) <=> n < 0 /\ Leads(neg)
      /\ neg = "NEMBED" => (Negative(start) <=> n < 0 /\ pad # NoPad /\ length # Len(digits))
      /\ pad = NoPad => start = Lead(n, neg)

LEMMA FrontIs ==
  ASSUME NEW n \in Ints, NEW neg \in Signs
  PROVE  /\ Dull(Lead(n, neg)) /\ Len(Lead(n, neg)) \in 0 .. 1
         /\ Negative(Lead(n, neg)) <=> n < 0 /\ Leads(neg)
         /\ neg \in {"NONE", "NEMBED"} => Lead(n, neg) = <<>>
         /\ neg = "NLEAD" => Lead(n, neg) = IF n < 0 THEN <<Minus>> ELSE <<>>
         /\ neg = "PLEAD" => Lead(n, neg) = IF n < 0 THEN <<Minus>> ELSE <<Plus>>
<1>1. /\ neg \in {"NONE", "NEMBED"} => Lead(n, neg) = <<>>
      /\ neg = "NLEAD" => Lead(n, neg) = IF n < 0 THEN <<Minus>> ELSE <<>>
      /\ neg = "PLEAD" => Lead(n, neg) = IF n < 0 THEN <<Minus>> ELSE <<Plus>>
  BY DEF Lead, Minused, Leads
<1>2. /\ neg \in {"NONE", "NEMBED"} => ~Leads(neg)
      /\ neg \in {"NLEAD", "PLEAD"} => Leads(neg)
      /\ neg \in {"NONE", "NEMBED"} \/ neg = "NLEAD" \/ neg = "PLEAD"
  BY DEF Leads, Signs
<1>3. Lead(n, neg) = <<>> \/ Lead(n, neg) = <<Minus>> \/ Lead(n, neg) = <<Plus>>
  BY DEF Lead
<1>4. Dull(Lead(n, neg)) /\ Len(Lead(n, neg)) \in 0 .. 1
  BY <1>3, Singles
<1>5. Negative(Lead(n, neg)) <=> n < 0 /\ Leads(neg)
  <2>1. CASE n < 0
    BY <1>1, <1>2, <2>1, Singles
  <2>2. CASE ~(n < 0)
    BY <1>1, <1>2, <2>2, Singles
  <2> QED BY <2>1, <2>2
<1> QED BY <1>1, <1>4, <1>5

LEMMA NumberPrinted ==
  ASSUME NEW n \in Ints, NEW b \in Bases, NEW length \in Nat, NEW pad \in Pads, NEW neg \in Signs
  PROVE  Printed(Start(n, b, length, pad, neg), Places(n, b, neg), n, b, length, pad, neg)
<1> DEFINE front == Lead(n, neg)
           digits == Places(n, b, neg)
           f == Len(front)
           d == Len(digits)
           sign == Minused(n, neg)
           p == Pad(n, b, length, pad, neg)
<1>1. Behind(digits, Code(n, neg), b)
  <2>1. Code(n, neg) \in Codes
    <3>1. CASE Minused(n, neg)
      <4>1. n < 0
        BY <3>1 DEF Minused
      <4>2. Unsigned(-n) \in Codes
        BY <4>1, CodeIs
      <4> QED BY <3>1, <4>2 DEF Code
    <3>2. CASE ~Minused(n, neg)
      <4>1. Unsigned(n) \in Codes
        BY CodeIs
      <4> QED BY <3>2, <4>1 DEF Code
    <3> QED BY <3>1, <3>2
  <2> QED BY <2>1, DigitsRead DEF Places
<1>2. d \in Nat /\ d # 0
  <2> HIDE DEF digits
  <2>1. digits \in Seq(Int) /\ digits # <<>>
    BY <1>1 DEF Behind
  <2> QED BY <2>1, EmptySeq, LenProperties
<1>3. /\ Dull(front) /\ f \in 0 .. 1 /\ (Negative(front) <=> n < 0 /\ Leads(neg))
      /\ neg = "NEMBED" => front = <<>>
  BY FrontIs
<1>4. neg = "NEMBED" => f = 0 /\ ~Negative(front)
  <2> HIDE DEF front
  <2> QED BY <1>3, Singles
<1>5. sign \in BOOLEAN /\ (neg = "NEMBED" => (sign <=> n < 0))
  BY DEF Minused
<1>6. Padded(p, length, pad, neg, f + d - 1, sign)
  <2>1. p = Padding(length, pad, neg, f + d - 1, sign)
    BY DEF Pad
  <2> HIDE DEF f, d, sign, p
  <2>2. f + d - 1 \in Nat
    BY <1>2, <1>3
  <2> DEFINE depth == f + d - 1
  <2> HIDE DEF depth
  <2>3. Padded(Padding(length, pad, neg, depth, sign), length, pad, neg, depth, sign)
    BY <1>5, <2>2, PaddingIs DEF depth
  <2> QED BY <2>1, <2>3 DEF depth
<1>7. pad = NoPad => p = <<>>
  BY DEF Pad, Padding
<1> DEFINE start == front \o p
<1> HIDE DEF front, digits, sign, p
<1>8. Dull(p) /\ front \in Seq(Int) /\ p \in Seq(Int)
  BY <1>3, <1>6 DEF Padded, Dull
<1>9. Dull(start) /\ Len(start) = f + Len(p) /\ (Negative(start) <=> Negative(front) \/ Negative(p))
  BY <1>3, <1>8, DullConcat, NegativeConcat, ConcatProperties
<1>10. pad = NoPad => start = front
  BY <1>7, <1>8, ConcatEmptySeq
<1>11. f = Len(front) /\ d = Len(digits)
  OBVIOUS
<1> HIDE DEF start, f, d
<1>12. neg # "NEMBED" => /\ Len(start) = f + (IF pad # NoPad /\ length > f + d THEN length - (f + d) ELSE 0)
                         /\ Negative(start) <=> n < 0 /\ Leads(neg)
  <2> SUFFICES ASSUME neg # "NEMBED"
               PROVE  /\ Len(start) = f + (IF pad # NoPad /\ length > f + d THEN length - (f + d) ELSE 0)
                      /\ Negative(start) <=> n < 0 /\ Leads(neg)
    OBVIOUS
  <2>1. /\ Len(p) = IF pad # NoPad /\ length > (f + d - 1) + 1 THEN length - (f + d - 1) - 1 ELSE 0
        /\ ~Negative(p)
    BY <1>6 DEF Padded
  <2>2. (f + d - 1) + 1 = f + d /\ length - (f + d - 1) - 1 = length - (f + d)
    BY <1>2, <1>3
  <2> QED BY <1>3, <1>9, <2>1, <2>2
<1>13. neg = "NEMBED" => (Negative(start) <=> n < 0 /\ pad # NoPad /\ length # d)
  <2> SUFFICES ASSUME neg = "NEMBED"
               PROVE  Negative(start) <=> n < 0 /\ pad # NoPad /\ length # d
    OBVIOUS
  <2>1. Negative(p) <=> sign /\ pad # NoPad /\ length # (f + d - 1) + 1
    BY <1>6 DEF Padded
  <2>2. (f + d - 1) + 1 = d
    BY <1>2, <1>4
  <2> QED BY <1>4, <1>5, <1>9, <2>1, <2>2
<1>14. Printed(start, digits, n, b, length, pad, neg)
  BY <1>1, <1>9, <1>10, <1>11, <1>12, <1>13 DEF Printed, front
<1> QED BY <1>14 DEF start, front, p, digits, Start

LEMMA NumeralIs ==
  ASSUME NEW s, NEW v, NEW b \in Bases, Behind(s, v, b)
  PROVE  IsNumeral(s, b) /\ Value(s, b) = v /\ s \in Seq(Int) /\ Len(s) \in Nat
<1>1. /\ s \in Seq(Int) /\ s # <<>>
      /\ \A i \in 1 .. Len(s) : s[i] \in 0 .. b - 1
      /\ s[1] = 0 => v = 0 /\ Len(s) = 1
      /\ \A t \in Seq(Int) : Value(t, b) = 0 => Value(t \o s, b) = v
  BY DEF Behind
<1>2. DOMAIN s = 1 .. Len(s) /\ Len(s) \in Nat
  BY <1>1, LenProperties
<1>3. <<>> \in Seq(Int) /\ Value(<<>>, b) = 0
  BY DullValue, Singles
<1>4. <<>> \o s = s
  BY <1>1, ConcatEmptySeq
<1>5. Value(s, b) = v
  BY <1>1, <1>3, <1>4
<1> QED BY <1>1, <1>2, <1>5 DEF IsNumeral

\* A number between characters that are not digits.
Read(out, n, b, length, pad, neg, more) ==
  /\ Value(out, b) = Code(n, neg)
  /\ Negative(out) <=> Negative(Start(n, b, length, pad, neg))
  /\ Len(out) = Len(Start(n, b, length, pad, neg)) + Len(Places(n, b, neg)) + more

Spaces(s) == s \in Seq(Int) /\ \A i \in 1 .. Len(s) : s[i] = Space

LEMMA NumberRead ==
  ASSUME NEW n \in Ints, NEW b \in Bases, NEW length \in Nat, NEW pad \in Pads, NEW neg \in Signs,
         NEW pre, Dull(pre), ~Negative(pre), NEW post, Spaces(post)
  PROVE  Read((pre \o putnum(n, b, length, pad, neg)) \o post, n, b, length, pad, neg,
              Len(pre) + Len(post))
<1> DEFINE start == Start(n, b, length, pad, neg)
           digits == Places(n, b, neg)
           v == Code(n, neg)
           out == start \o digits
           whole == (pre \o out) \o post
<1>1. putnum(n, b, length, pad, neg) = out
  BY PutIs
<1>2. Printed(start, digits, n, b, length, pad, neg)
  BY NumberPrinted
<1> HIDE DEF start, digits, v
<1>3. Dull(start) /\ Behind(digits, v, b)
  BY <1>2 DEF Printed, v
<1>4. /\ pre \in Seq(Int) /\ start \in Seq(Int) /\ digits \in Seq(Int) /\ post \in Seq(Int)
      /\ b \in Int
      /\ \A t \in Seq(Int) : Value(t, b) = 0 => Value(t \o digits, b) = v
      /\ \A i \in 1 .. Len(digits) : digits[i] \in 0 .. b - 1
  BY <1>3, FormatAssumption DEF Dull, Behind, Spaces
<1>5. pre \o out = (pre \o start) \o digits
  <2>1. pre \in Seq(Int) /\ start \in Seq(Int) /\ digits \in Seq(Int)
    BY <1>4
  <2> HIDE DEF whole
  <2> QED BY <2>1, Regroup
<1>6. out \in Seq(Int) /\ pre \o out \in Seq(Int)
  BY <1>4, ConcatProperties
<1>7. Value(whole, b) = v
  <2>1. pre \o start \in Seq(Int) /\ Value(pre \o start, b) = 0
    BY <1>3, DullConcat, DullValue
  <2>2. Value(pre \o out, b) = v
    BY <1>4, <1>5, <2>1
  <2>3. \A i \in 1 .. Len(post) : post[i] < 0
    BY DEF Spaces, Space
  <2> HIDE DEF out
  <2>4. Value((pre \o out) \o post, b) = Value(pre \o out, b)
    BY <1>4, <1>6, <2>3, ValueQuiet
  <2> QED BY <2>2, <2>4
<1>8. Negative(whole) <=> Negative(start)
  <2>1. ~Negative(digits)
    <3>1. Negative(digits) <=> \E i \in 1 .. Len(digits) : digits[i] = Minus
      BY <1>4, NegativeIs
    <3> QED BY <1>4, <3>1 DEF Minus
  <2>2. ~Negative(post)
    <3>1. Negative(post) <=> \E i \in 1 .. Len(post) : post[i] = Minus
      BY <1>4, NegativeIs
    <3> QED BY <3>1 DEF Minus, Spaces, Space
  <2>3. Negative(out) <=> Negative(start) \/ Negative(digits)
    BY <1>4, NegativeConcat
  <2> HIDE DEF out
  <2>4. Negative(pre \o out) <=> Negative(pre) \/ Negative(out)
    BY <1>4, <1>6, NegativeConcat
  <2>5. Negative((pre \o out) \o post) <=> Negative(pre \o out) \/ Negative(post)
    BY <1>4, <1>6, NegativeConcat
  <2> QED BY <2>1, <2>2, <2>3, <2>4, <2>5
<1>9. Len(whole) = Len(start) + Len(digits) + (Len(pre) + Len(post))
  <2>1. Len(out) = Len(start) + Len(digits)
    BY <1>4, ConcatProperties
  <2> HIDE DEF out
  <2>2. Len(pre \o out) = Len(pre) + Len(out)
    BY <1>4, <1>6, ConcatProperties
  <2>3. Len((pre \o out) \o post) = Len(pre \o out) + Len(post)
    BY <1>4, <1>6, ConcatProperties
  <2>4. Len(pre) \in Nat /\ Len(start) \in Nat /\ Len(digits) \in Nat /\ Len(post) \in Nat
    BY <1>4, LenProperties
  <2> DEFINE lp == Len(pre)
             ls == Len(start)
             ld == Len(digits)
             lt == Len(post)
  <2> HIDE DEF lp, ls, ld, lt
  <2>5. lp \in Nat /\ ls \in Nat /\ ld \in Nat /\ lt \in Nat
    BY <2>4 DEF lp, ls, ld, lt
  <2>6. (lp + (ls + ld)) + lt = ls + ld + (lp + lt)
    BY <2>5
  <2> QED BY <2>1, <2>2, <2>3, <2>6 DEF lp, ls, ld, lt
<1> HIDE DEF out, whole
<1>10. Read(whole, n, b, length, pad, neg, Len(pre) + Len(post))
  BY <1>7, <1>8, <1>9 DEF Read, start, digits, v
<1> QED BY <1>1, <1>10 DEF whole

\* A number alone.
LEMMA NumberAlone ==
  ASSUME NEW n \in Ints, NEW b \in Bases, NEW length \in Nat, NEW pad \in Pads, NEW neg \in Signs
  PROVE  /\ Read(putnum(n, b, length, pad, neg), n, b, length, pad, neg, 0)
         /\ putnum(n, b, length, pad, neg) \in Seq(Int)
<1> DEFINE out == putnum(n, b, length, pad, neg)
<1>1. out \in Seq(Int)
  <2>1. out = Start(n, b, length, pad, neg) \o Places(n, b, neg)
    BY PutIs
  <2>2. Start(n, b, length, pad, neg) \in Seq(Int) /\ Places(n, b, neg) \in Seq(Int)
    BY NumberPrinted DEF Printed, Dull, Behind
  <2> HIDE DEF out
  <2> QED BY <2>1, <2>2, ConcatProperties
<1>2. Dull(<<>>) /\ ~Negative(<<>>) /\ Len(<<>>) = 0 /\ Spaces(<<>>)
  BY Singles DEF Spaces
<1>3. Read((<<>> \o out) \o <<>>, n, b, length, pad, neg, Len(<<>>) + Len(<<>>))
  BY <1>2, NumberRead
<1> HIDE DEF out
<1>4. (<<>> \o out) \o <<>> = out
  BY <1>1, ConcatEmptySeq
<1>5. Len(<<>>) + Len(<<>>) = 0
  BY <1>2
<1>6. Read(out, n, b, length, pad, neg, 0)
  BY <1>3, <1>4, <1>5
<1> QED BY <1>1, <1>6 DEF out

LEMMA CodeSigned ==
  ASSUME NEW n \in Ints, NEW neg \in Signs
  PROVE  /\ neg # "NONE" => Code(n, neg) = IF n < 0 THEN -n ELSE n
         /\ neg = "NONE" => Code(n, neg) = Unsigned(n)
<1>1. CASE neg # "NONE"
  <2>1. CASE n < 0
    <3>1. Code(n, neg) = Unsigned(-n)
      BY <1>1, <2>1 DEF Code, Minused
    <3> QED BY <1>1, <2>1, <3>1, CodeIs
  <2>2. CASE ~(n < 0)
    <3>1. Code(n, neg) = Unsigned(n)
      BY <1>1, <2>2 DEF Code, Minused
    <3>2. n >= 0
      BY <2>2, CodeIs
    <3> QED BY <1>1, <2>2, <3>1, <3>2, CodeIs
  <2> QED BY <2>1, <2>2
<1>2. CASE neg = "NONE"
  BY <1>2 DEF Code, Minused
<1> QED BY <1>1, <1>2

\* How much a number needs.
Needs(n, b, neg) == Len(Lead(n, neg)) + Len(Places(n, b, neg))

LEMMA NeedsAre ==
  ASSUME NEW n \in Ints, NEW b \in Bases, NEW neg \in Signs
  PROVE  /\ Needs(n, b, neg) \in Nat /\ Len(Places(n, b, neg)) \in Nat /\ Len(Lead(n, neg)) \in Nat
         /\ Places(n, b, neg) \in Seq(Int) /\ IsNumeral(Places(n, b, neg), b)
         /\ Value(Places(n, b, neg), b) = Code(n, neg)
<1>1. Behind(Places(n, b, neg), Code(n, neg), b)
  BY NumberPrinted DEF Printed, Pads
<1>2. /\ Places(n, b, neg) \in Seq(Int) /\ IsNumeral(Places(n, b, neg), b)
      /\ Value(Places(n, b, neg), b) = Code(n, neg) /\ Len(Places(n, b, neg)) \in Nat
  BY <1>1, NumeralIs
<1>3. Len(Lead(n, neg)) \in 0 .. 1
  BY FrontIs
<1> QED BY <1>2, <1>3 DEF Needs

LEMMA ReadLength ==
  ASSUME NEW n \in Ints, NEW b \in Bases, NEW length \in Nat, NEW pad \in Pads, NEW neg \in Signs,
         NEW out, NEW more \in Nat, Read(out, n, b, length, pad, neg, more), neg # "NEMBED"
  PROVE  Len(out) = (IF pad = NoPad THEN Needs(n, b, neg) ELSE Bigger(Needs(n, b, neg), length)) + more
<1> DEFINE f == Len(Lead(n, neg))
           d == Len(Places(n, b, neg))
           s == Len(Start(n, b, length, pad, neg))
<1>1. f \in Nat /\ d \in Nat /\ Needs(n, b, neg) = f + d
  BY NeedsAre DEF Needs
<1>2. s = f + (IF pad # NoPad /\ length > f + d THEN length - (f + d) ELSE 0)
  BY NumberPrinted DEF Printed
<1>3. Len(out) = s + d + more
  BY DEF Read
<1> HIDE DEF f, d, s
<1>4. CASE pad # NoPad /\ length > f + d
  BY <1>1, <1>2, <1>3, <1>4 DEF Bigger
<1>5. CASE ~(pad # NoPad /\ length > f + d)
  <2>1. pad # NoPad => ~(f + d < length)
    BY <1>1, <1>5
  <2> QED BY <1>1, <1>2, <1>3, <1>5, <2>1 DEF Bigger
<1> QED BY <1>4, <1>5

LEMMA ReadNumber ==
  ASSUME NEW n \in Ints, NEW b \in Bases, NEW length \in Nat, NEW pad \in Pads, NEW neg \in Signs,
         NEW out, NEW more, Read(out, n, b, length, pad, neg, more)
  PROVE  /\ neg \in {"NLEAD", "PLEAD"} => Reads(out, b) = n
         /\ neg = "NONE" => Reads(out, b) = Unsigned(n)
         /\ neg = "NEMBED" => Reads(out, b) =
              IF pad = NoPad \/ length = Len(Places(n, b, neg)) THEN (IF n < 0 THEN -n ELSE n) ELSE n
<1> DEFINE start == Start(n, b, length, pad, neg)
           v == Code(n, neg)
           d == Len(Places(n, b, neg))
<1>1. Reads(out, b) = IF Negative(start) THEN -v ELSE v
  BY DEF Read, Reads
<1>2. /\ neg # "NEMBED" => (Negative(start) <=> n < 0 /\ Leads(neg))
      /\ neg = "NEMBED" => (Negative(start) <=> n < 0 /\ pad # NoPad /\ length # d)
  BY NumberPrinted DEF Printed
<1>3. /\ neg # "NONE" => v = IF n < 0 THEN -n ELSE n
      /\ neg = "NONE" => v = Unsigned(n)
  BY CodeSigned
<1>4. n \in Int /\ -(-n) = n
  BY CodeIs
<1>5. neg \in {"NLEAD", "PLEAD"} => Leads(neg) /\ neg # "NEMBED" /\ neg # "NONE"
  BY DEF Leads
<1>6. neg = "NONE" => ~Leads(neg) /\ neg # "NEMBED"
  BY DEF Leads
<1>7. neg = "NEMBED" => neg # "NONE"
  OBVIOUS
<1> HIDE DEF start, v, d
<1>8. neg \in {"NLEAD", "PLEAD"} => Reads(out, b) = n
  BY <1>1, <1>2, <1>3, <1>4, <1>5
<1>9. neg = "NONE" => Reads(out, b) = Unsigned(n)
  BY <1>1, <1>2, <1>3, <1>6
<1>10. neg = "NEMBED" => Reads(out, b) =
         IF pad = NoPad \/ length = d THEN (IF n < 0 THEN -n ELSE n) ELSE n
  BY <1>1, <1>2, <1>3, <1>4, <1>7
<1> QED BY <1>8, <1>9, <1>10 DEF d

LEMMA PlainIs ==
  ASSUME NEW n \in Ints, NEW b \in Bases, NEW neg \in Signs
  PROVE  /\ Plain(n, b, neg) = Lead(n, neg) \o Places(n, b, neg)
         /\ neg # "NEMBED" => Len(Plain(n, b, neg)) = Needs(n, b, neg)
<1>1. 0 \in Nat /\ NoPad \in Pads
  BY DEF Pads
<1>2. Plain(n, b, neg) = Start(n, b, 0, NoPad, neg) \o Places(n, b, neg)
  BY PutIs DEF Plain
<1>3. Printed(Start(n, b, 0, NoPad, neg), Places(n, b, neg), n, b, 0, NoPad, neg)
  BY <1>1, NumberPrinted
<1>4. Start(n, b, 0, NoPad, neg) = Lead(n, neg)
  BY <1>3 DEF Printed
<1>5. Read(Plain(n, b, neg), n, b, 0, NoPad, neg, 0)
  BY <1>1, NumberAlone DEF Plain
<1>6. neg # "NEMBED" => Len(Plain(n, b, neg)) = Needs(n, b, neg) + 0
  BY <1>1, <1>5, ReadLength
<1>7. Needs(n, b, neg) \in Nat
  BY NeedsAre
<1>8. Needs(n, b, neg) + 0 = Needs(n, b, neg)
  BY <1>7
<1>9. Plain(n, b, neg) = Lead(n, neg) \o Places(n, b, neg)
  BY <1>2, <1>4
<1> QED BY <1>6, <1>8, <1>9

LEMMA NumbersPut ==
  ASSUME num \in Ints
  PROVE  PutsNumber
<1> SUFFICES ASSUME NEW b \in Bases, NEW width \in 0 .. MaxLength, NEW pad \in Pads
             PROVE  LET prints(neg) == putnum(num, b, width, pad, neg)
                        plain(neg) == Plain(num, b, neg)
                        digits == Digits(b)[Magnitude]
                        fills(neg) ==
                          Len(prints(neg)) = IF pad = NoPad THEN Len(plain(neg))
                                             ELSE Bigger(Len(plain(neg)), width)
                    IN  /\ IsNumeral(digits, b) /\ Value(digits, b) = Magnitude
                        /\ plain("NLEAD") = (IF num < 0 THEN <<Minus>> ELSE <<>>) \o digits
                        /\ plain("PLEAD") = (IF num < 0 THEN <<Minus>> ELSE <<Plus>>) \o digits
                        /\ \A neg \in {"NLEAD", "PLEAD"} : Reads(prints(neg), b) = num /\ fills(neg)
                        /\ Reads(prints("NONE"), b) = Unsigned(num) /\ fills("NONE")
                        /\ IsNumeral(plain("NONE"), b)
                        /\ num < 0 /\ pad # NoPad /\ width # Len(digits) =>
                             Reads(prints("NEMBED"), b) = num
                        /\ num >= 0 /\ (pad = NoPad \/ width >= Len(digits)) =>
                             prints("NEMBED") = prints("NONE")
  BY DEF PutsNumber, Pads
<1> DEFINE prints(neg) == putnum(num, b, width, pad, neg)
           plain(neg) == Plain(num, b, neg)
           digits == Digits(b)[Magnitude]
           fills(neg) == Len(prints(neg)) = IF pad = NoPad THEN Len(plain(neg))
                                            ELSE Bigger(Len(plain(neg)), width)
<1>1. width \in Nat
  BY FormatAssumption
<1>2. \A neg \in Signs : neg # "NONE" => Places(num, b, neg) = digits
  BY CodeSigned DEF Places, Magnitude
<1>3. "NLEAD" \in Signs /\ "PLEAD" \in Signs /\ "NONE" \in Signs /\ "NEMBED" \in Signs
  BY DEF Signs
<1>4. \A neg \in Signs : Read(prints(neg), num, b, width, pad, neg, 0)
  BY <1>1, NumberAlone
<1>5. ASSUME NEW neg \in Signs, neg # "NEMBED"
      PROVE  fills(neg)
  <2>1. Len(prints(neg)) = (IF pad = NoPad THEN Needs(num, b, neg) ELSE Bigger(Needs(num, b, neg), width)) + 0
    <3> HIDE DEF prints
    <3> QED BY <1>1, <1>4, <1>5, ReadLength
  <2>2. Len(plain(neg)) = Needs(num, b, neg) /\ Needs(num, b, neg) \in Nat
    BY <1>5, PlainIs, NeedsAre
  <2> DEFINE k == Needs(num, b, neg)
             l == IF pad = NoPad THEN k ELSE Bigger(k, width)
  <2>3. l \in Nat
    BY <1>1, <2>2 DEF Bigger
  <2> HIDE DEF k
  <2>4. l + 0 = l
    BY <2>3
  <2> HIDE DEF prints, plain
  <2> QED BY <2>1, <2>2, <2>4 DEF k
<1>6. IsNumeral(digits, b) /\ Value(digits, b) = Magnitude
  <2>1. Places(num, b, "NLEAD") = digits /\ Code(num, "NLEAD") = Magnitude
    BY <1>2, <1>3, CodeSigned DEF Magnitude
  <2> HIDE DEF digits
  <2> QED BY <1>3, <2>1, NeedsAre
<1>7. plain("NLEAD") = (IF num < 0 THEN <<Minus>> ELSE <<>>) \o digits
  <2>1. plain("NLEAD") = Lead(num, "NLEAD") \o Places(num, b, "NLEAD")
    BY <1>3, PlainIs
  <2>2. Lead(num, "NLEAD") = IF num < 0 THEN <<Minus>> ELSE <<>>
    BY <1>3, FrontIs
  <2>3. Places(num, b, "NLEAD") = digits
    BY <1>2, <1>3
  <2> HIDE DEF plain, digits
  <2> QED BY <2>1, <2>2, <2>3
<1>8. plain("PLEAD") = (IF num < 0 THEN <<Minus>> ELSE <<Plus>>) \o digits
  <2>1. plain("PLEAD") = Lead(num, "PLEAD") \o Places(num, b, "PLEAD")
    BY <1>3, PlainIs
  <2>2. Lead(num, "PLEAD") = IF num < 0 THEN <<Minus>> ELSE <<Plus>>
    BY <1>3, FrontIs
  <2>3. Places(num, b, "PLEAD") = digits
    BY <1>2, <1>3
  <2> HIDE DEF plain, digits
  <2> QED BY <2>1, <2>2, <2>3
<1>9. \A neg \in {"NLEAD", "PLEAD"} : Reads(prints(neg), b) = num
  <2> SUFFICES ASSUME NEW neg \in {"NLEAD", "PLEAD"} PROVE Reads(prints(neg), b) = num
    OBVIOUS
  <2>1. neg \in Signs
    BY DEF Signs
  <2>2. Read(prints(neg), num, b, width, pad, neg, 0)
    BY <1>4, <2>1
  <2> HIDE DEF prints
  <2> QED BY <1>1, <2>1, <2>2, ReadNumber
<1>10. Reads(prints("NONE"), b) = Unsigned(num)
  <2>1. Read(prints("NONE"), num, b, width, pad, "NONE", 0)
    BY <1>3, <1>4
  <2> HIDE DEF prints
  <2> QED BY <1>1, <1>3, <2>1, ReadNumber
<1>11. IsNumeral(plain("NONE"), b)
  <2>1. plain("NONE") = Lead(num, "NONE") \o Places(num, b, "NONE") /\ Lead(num, "NONE") = <<>>
    BY <1>3, PlainIs, FrontIs
  <2>2. Places(num, b, "NONE") \in Seq(Int) /\ IsNumeral(Places(num, b, "NONE"), b)
    BY <1>3, NeedsAre
  <2>3. <<>> \o Places(num, b, "NONE") = Places(num, b, "NONE")
    BY <2>2, ConcatEmptySeq
  <2> HIDE DEF plain
  <2> QED BY <2>1, <2>2, <2>3
<1>12. num < 0 /\ pad # NoPad /\ width # Len(digits) => Reads(prints("NEMBED"), b) = num
  <2>1. Read(prints("NEMBED"), num, b, width, pad, "NEMBED", 0)
    BY <1>3, <1>4
  <2>2. Places(num, b, "NEMBED") = digits
    BY <1>2, <1>3
  <2> HIDE DEF prints, digits
  <2>3. Reads(prints("NEMBED"), b) =
          IF pad = NoPad \/ width = Len(Places(num, b, "NEMBED")) THEN (IF num < 0 THEN -num ELSE num)
          ELSE num
    BY <1>1, <1>3, <2>1, ReadNumber
  <2> QED BY <2>2, <2>3
<1>12a. num >= 0 /\ (pad = NoPad \/ width >= Len(digits)) => prints("NEMBED") = prints("NONE")
  <2> SUFFICES ASSUME num >= 0, pad = NoPad \/ width >= Len(digits)
               PROVE  prints("NEMBED") = prints("NONE")
    OBVIOUS
  <2>1. /\ ~Minused(num, "NEMBED") /\ ~Minused(num, "NONE")
        /\ Lead(num, "NEMBED") = <<>> /\ Lead(num, "NONE") = <<>>
    <3>1. ~(num < 0)
      BY DEF Ints
    <3> QED BY <3>1 DEF Minused, Lead
  <2>2. Places(num, b, "NONE") = Places(num, b, "NEMBED") /\ Places(num, b, "NEMBED") = digits
    <3>1. Code(num, "NONE") = Code(num, "NEMBED")
      BY <2>1 DEF Code
    <3> QED BY <1>2, <1>3, <3>1 DEF Places
  <2> DEFINE depth == Len(<<>>) + Len(digits) - 1
             Padded0(neg) == Padding(width, pad, neg, depth, Minused(num, neg))
  <2>3. Pad(num, b, width, pad, "NONE") = Padded0("NONE")
    <3> HIDE DEF digits
    <3> QED BY ONLY <2>1, <2>2, Zenon DEF Pad, depth, Padded0
  <2>4. Pad(num, b, width, pad, "NEMBED") = Padded0("NEMBED")
    <3> HIDE DEF digits
    <3> QED BY ONLY <2>1, <2>2, Zenon DEF Pad, depth, Padded0
  <2>5. Len(digits) \in Nat
    <3>1. Len(Places(num, b, "NEMBED")) \in Nat
      BY <1>3, NeedsAre
    <3> QED BY <2>2, <3>1
  <2>6. pad = NoPad \/ width = depth + 1 \/ ~(width <= depth)
    <3> DEFINE k == Len(digits)
    <3>1. k \in Nat /\ Len(<<>>) = 0 /\ (pad = NoPad \/ width >= k)
      BY <2>5
    <3> HIDE DEF k
    <3>2. pad = NoPad \/ width = (0 + k - 1) + 1 \/ ~(width <= 0 + k - 1)
      BY <1>1, <3>1
    <3> QED BY <3>1, <3>2 DEF k
  <2> HIDE DEF depth, digits
  <2>7. Padded0("NONE") = Padded0("NEMBED")
    BY <2>1, <2>6 DEF Padding, Embeds
  <2> HIDE DEF Padded0
  <2>8. Start(num, b, width, pad, "NONE") = Start(num, b, width, pad, "NEMBED")
    BY <2>1, <2>3, <2>4, <2>7 DEF Start
  <2> QED BY <2>2, <2>8, PutIs
<1>13. fills("NLEAD") /\ fills("PLEAD") /\ fills("NONE")
  <2> HIDE DEF fills
  <2> QED BY <1>3, <1>5
<1> HIDE DEF prints, plain, digits, fills
<1>14. \A neg \in {"NLEAD", "PLEAD"} : Reads(prints(neg), b) = num /\ fills(neg)
  BY <1>9, <1>13
<1> QED BY <1>6, <1>7, <1>8, <1>10, <1>11, <1>12, <1>12a, <1>13, <1>14
        DEF prints, plain, digits, fills

LEMMA IntsPut ==
  ASSUME num \in Ints
  PROVE  PutsInt
<1>1. /\ 2 \in Bases /\ 8 \in Bases /\ 10 \in Bases /\ 16 \in Bases
      /\ 0 \in Nat /\ NoPad \in Pads /\ "NONE" \in Signs /\ "NEMBED" \in Signs
  BY FormatAssumption DEF Pads, Signs
<1>2. ASSUME NEW b \in Bases
      PROVE  Reads(putnum(num, b, 0, NoPad, "NONE"), b) = Unsigned(num)
  <2>1. Read(putnum(num, b, 0, NoPad, "NONE"), num, b, 0, NoPad, "NONE", 0)
    BY <1>1, NumberAlone
  <2> QED BY <1>1, <2>1, ReadNumber
<1>3. num >= 0 => Reads(putnum(num, 10, 0, NoPad, "NEMBED"), 10) = num
  <2>1. Read(putnum(num, 10, 0, NoPad, "NEMBED"), num, 10, 0, NoPad, "NEMBED", 0)
    BY <1>1, NumberAlone
  <2>2. num \in Int
    BY CodeIs
  <2>3. num >= 0 => ~(num < 0)
    BY <2>2
  <2> QED BY <1>1, <2>1, <2>3, ReadNumber
<1> QED BY <1>1, <1>2, <1>3 DEF PutsInt, putbin, putoct, puthex, putint

(***************************************************************************)
(* Formatted output: directives.                                           *)
(***************************************************************************)
Directives == [left : BOOLEAN, radix : BOOLEAN, sign : {"NLEAD", "PLEAD"}, pad : {Space, 0},
               width : Nat, dot : BOOLEAN]

FlagPass(f, flags, k) == IF k = 0 THEN Directive ELSE Flag(f[k - 1], flags[k])
IsParse(f, flags, N) == f = [k \in 0 .. N |-> FlagPass(f, flags, k)]

LEMMA ParseExists ==
  ASSUME NEW flags
  PROVE  \A N \in Nat : \E f : IsParse(f, flags, N)
<1> DEFINE T == {N \in Nat : \E f : IsParse(f, flags, N)}
<1>1. 0 \in T
  <2> DEFINE f == [k \in 0 .. 0 |-> FlagPass(<<>>, flags, 0)]
  <2>1. f = [k \in 0 .. 0 |-> FlagPass(f, flags, k)]
    BY DEF FlagPass
  <2> QED BY <2>1 DEF IsParse
<1>2. ASSUME NEW N \in Nat, N \in T
      PROVE  N + 1 \in T
  <2>1. PICK f : IsParse(f, flags, N)
    BY <1>2
  <2> DEFINE g == [k \in 0 .. N + 1 |-> IF k <= N THEN f[k] ELSE FlagPass(f, flags, k)]
  <2>2. \A k \in 0 .. N : g[k] = f[k]
    OBVIOUS
  <2>3. \A k \in 0 .. N + 1 : g[k] = FlagPass(f, flags, k)
    BY <2>1 DEF IsParse
  <2>4. \A k \in 0 .. N + 1 : k # 0 => k - 1 \in 0 .. N
    OBVIOUS
  <2>5. \A k \in 0 .. N + 1 : FlagPass(g, flags, k) = FlagPass(f, flags, k)
    <3> HIDE DEF g
    <3> QED BY <2>2, <2>4 DEF FlagPass
  <2>6. g = [k \in 0 .. N + 1 |-> FlagPass(g, flags, k)]
    <3>1. g = [k \in 0 .. N + 1 |-> g[k]]
      OBVIOUS
    <3> HIDE DEF g
    <3>2. \A k \in 0 .. N + 1 : g[k] = FlagPass(g, flags, k)
      BY <2>3, <2>5
    <3> QED BY <3>1, <3>2
  <2>7. IsParse(g, flags, N + 1)
    BY <2>6 DEF IsParse
  <2> HIDE DEF g
  <2> QED BY <2>7
<1> HIDE DEF T
<1>3. \A N \in Nat : N \in T
  BY <1>1, <1>2, Induction
<1> QED BY <1>3 DEF T

LEMMA CharsAre ==
  /\ \A c \in FlagChars : c \in Int
  /\ \A c \in FlagChars : c \notin {Minus, Plus, Hash, Dot} /\ ~(c >= 0) => c <= -8
<1> SUFFICES ASSUME NEW c \in FlagChars
             PROVE  c \in Int /\ (c \notin {Minus, Plus, Hash, Dot} /\ ~(c >= 0) => c <= -8)
  OBVIOUS
<1>1. c \in {Minus, Plus, Hash, Dot} \/ c \in WidthDigits \/ \E w \in StarWidths : c = Star(w)
  BY DEF FlagChars
<1>2. \A i \in WidthDigits : i \in 0 .. 9
  BY FormatAssumption
<1>3. \A w \in StarWidths : w \in Nat
  BY FormatAssumption
<1> QED BY <1>1, <1>2, <1>3 DEF Star, Minus, Plus, Hash, Dot

LEMMA FlagTyped ==
  ASSUME NEW d \in Directives, NEW flag \in FlagChars
  PROVE  Flag(d, flag) \in Directives
<1>1. \A x \in Int : Unsigned(x) \in Nat
  <2> DEFINE m == 2 * HighBit
  <2>1. m \in Nat /\ m # 0
    BY FormatAssumption
  <2> HIDE DEF m
  <2>2. \A x \in Int : (x % m) \in 0 .. m - 1
    BY <2>1
  <2> QED BY <2>1, <2>2 DEF Unsigned, m
<1>2. [d EXCEPT !.left = TRUE] \in Directives
  BY DEF Directives
<1>3. [d EXCEPT !.sign = "PLEAD"] \in Directives
  BY DEF Directives
<1>4. [d EXCEPT !.radix = TRUE] \in Directives
  BY DEF Directives
<1>5. [d EXCEPT !.dot = TRUE] \in Directives
  BY DEF Directives
<1>6. [d EXCEPT !.pad = 0] \in Directives
  BY DEF Directives
<1>7. [d EXCEPT !.width = Unsigned(10 * @ + flag)] \in Directives
  <2>1. flag \in Int /\ d.width \in Int
    BY CharsAre DEF Directives
  <2> DEFINE w == Unsigned(10 * d.width + flag)
  <2>2. w \in Nat
    BY <1>1, <2>1
  <2> HIDE DEF w
  <2>3. [d EXCEPT !.width = w] \in Directives
    BY <2>2 DEF Directives
  <2> QED BY <2>3 DEF w
<1>8. \/ Flag(d, flag) = [d EXCEPT !.left = TRUE]
      \/ Flag(d, flag) = [d EXCEPT !.sign = "PLEAD"]
      \/ Flag(d, flag) = [d EXCEPT !.radix = TRUE]
      \/ Flag(d, flag) = [d EXCEPT !.dot = TRUE]
      \/ Flag(d, flag) = [d EXCEPT !.pad = 0]
      \/ Flag(d, flag) = [d EXCEPT !.width = Unsigned(10 * @ + flag)]
      \/ Flag(d, flag) = d
      \/ flag \notin {Minus, Plus, Hash, Dot} /\ ~(flag >= 0)
         /\ Flag(d, flag) = [d EXCEPT !.width = Star(0) - flag]
  BY DEF Flag
<1>9. ASSUME flag \notin {Minus, Plus, Hash, Dot}, ~(flag >= 0)
      PROVE  [d EXCEPT !.width = Star(0) - flag] \in Directives
  <2> DEFINE w == Star(0) - flag
  <2>1. w \in Nat
    BY <1>9, CharsAre DEF Star
  <2> HIDE DEF w
  <2>2. [d EXCEPT !.width = w] \in Directives
    BY <2>1 DEF Directives
  <2> QED BY <2>2 DEF w
<1> QED BY <1>2, <1>3, <1>4, <1>5, <1>6, <1>7, <1>8, <1>9

LEMMA ParseTyped ==
  ASSUME NEW flags \in Flags
  PROVE  Parse(flags) \in Directives
<1>1. PICK n \in 0 .. MaxFlags : flags \in [1 .. n -> FlagChars]
  BY DEF Flags
<1>2. n \in Nat
  BY FormatAssumption
<1>3. Len(flags) = n
  <2>0. \A c \in FlagChars : c \in Int
    BY CharsAre
  <2>1. \A i \in 1 .. n : flags[i] \in Int
    BY <1>1, <2>0
  <2>2. flags \in [1 .. n -> Int]
    BY <1>1, <2>1
  <2> QED BY <1>2, <2>2, MadeOf
<1> DEFINE w == CHOOSE f : IsParse(f, flags, n)
<1>4. IsParse(w, flags, n)
  BY <1>2, ParseExists
<1>5. Parse(flags) = w[n]
  BY <1>3 DEF Parse, IsParse, FlagPass
<1> HIDE DEF w
<1> DEFINE T == {k \in Nat : k <= n => w[k] \in Directives}
<1>6. 0 \in T
  <2>1. w[0] = Directive
    BY <1>2, <1>4 DEF IsParse, FlagPass
  <2>2. Directive \in Directives
    BY DEF Directive, Directives
  <2> QED BY <2>1, <2>2
<1>7. ASSUME NEW k \in Nat, k \in T
      PROVE  k + 1 \in T
  <2> SUFFICES ASSUME k + 1 <= n PROVE w[k + 1] \in Directives
    OBVIOUS
  <2>1. k + 1 \in 0 .. n /\ k + 1 # 0 /\ (k + 1) - 1 = k /\ k + 1 \in 1 .. n /\ k <= n
    BY <1>2
  <2>2. w[k + 1] = FlagPass(w, flags, k + 1)
    BY <1>4, <2>1 DEF IsParse
  <2>3. w[k + 1] = Flag(w[k], flags[k + 1])
    BY <2>1, <2>2 DEF FlagPass
  <2>4. w[k] \in Directives /\ flags[k + 1] \in FlagChars
    BY <1>1, <1>7, <2>1
  <2> QED BY <2>3, <2>4, FlagTyped
<1> HIDE DEF T
<1>8. n \in T
  BY <1>2, <1>6, <1>7, Induction
<1> QED BY <1>2, <1>5, <1>8 DEF T

LEMMA PrefixIs ==
  ASSUME NEW type, NEW d
  PROVE  /\ Dull(Prefix(type, d)) /\ ~Negative(Prefix(type, d))
         /\ type \in {"d", "u"} => Prefix(type, d) = <<>>
<1> DEFINE a == IF type = "p" THEN <<0, Radix>> ELSE <<>>
           b == IF ~d.radix \/ type \in {"d", "u"} THEN <<>>
                ELSE IF type = "o" THEN <<0>> ELSE <<0, Radix>>
<1>1. a = <<>> \/ a = <<0, Radix>>
  OBVIOUS
<1>2. b = <<>> \/ b = <<0>> \/ b = <<0, Radix>>
  OBVIOUS
<1>3. type \in {"d", "u"} => a = <<>> /\ b = <<>>
  OBVIOUS
<1>4. Prefix(type, d) = a \o b
  BY DEF Prefix
<1> HIDE DEF a, b
<1>5. Dull(a) /\ ~Negative(a) /\ Dull(b) /\ ~Negative(b)
  BY <1>1, <1>2, Singles
<1>6. a \in Seq(Int) /\ b \in Seq(Int)
  BY <1>5 DEF Dull
<1>7. Dull(a \o b) /\ ~Negative(a \o b)
  BY <1>5, <1>6, DullConcat, NegativeConcat
<1>8. <<>> \o <<>> = <<>>
  OBVIOUS
<1> QED BY <1>3, <1>4, <1>7, <1>8

LEMMA NumbersPrinted ==
  ASSUME num \in Ints
  PROVE  PrintfNumber
<1> SUFFICES ASSUME NEW flags \in Flags, NEW type \in {"d", "u", "x", "o", "p"}, NEW before \in Befores
             PROVE  LET d == Parse(flags)
                        out == printf(flags, type, num, before)
                        decimal == type = "d" \/ (type = "u" /\ num >= 0)
                    IN  /\ type \notin {"d", "u"} => Reads(out, Base(type)) = Unsigned(num)
                        /\ decimal => Reads(out, 10) = num
                        /\ decimal /\ ~d.left =>
                             Len(out) = Bigger(Len(Plain(num, 10, d.sign)), d.width)
  BY DEF PrintfNumber
<1> DEFINE d == Parse(flags)
           b == Base(type)
           width == IF type = "p" THEN 8 ELSE d.width
           sign == IF type \in {"d", "u"} THEN d.sign ELSE "NONE"
           pre == Prefix(type, d)
           put == putnum(num, b, width, d.pad, sign)
           post == IF d.left /\ width < Len(pre \o put)
                   THEN [i \in 1 .. before + width |-> Space] ELSE <<>>
           pad == d.pad
           out == (pre \o put) \o post
<1>1. printf(flags, type, num, before) = out
  BY DEF printf
<1>2. d \in Directives
  BY ParseTyped
<1>3. b \in Bases /\ (type \in {"d", "u"} => b = 10)
  BY FormatAssumption DEF Base
<1> HIDE DEF d, b
<1>4. d.width \in Nat /\ pad \in Pads /\ pad # NoPad /\ d.sign \in {"NLEAD", "PLEAD"}
  BY <1>2 DEF Directives, Pads, NoPad, Space
<1>5. /\ width \in Nat /\ (type \in {"d", "u"} => width = d.width)
      /\ sign \in Signs /\ sign # "NEMBED"
      /\ type \in {"d", "u"} => sign \in {"NLEAD", "PLEAD"} /\ sign = d.sign
      /\ type \notin {"d", "u"} => sign = "NONE"
  BY <1>4 DEF Signs
<1>6. Dull(pre) /\ ~Negative(pre) /\ (type \in {"d", "u"} => pre = <<>>)
  BY PrefixIs
<1> HIDE DEF width, sign, pre
<1>7. Spaces(post) /\ (~d.left => post = <<>>)
  <2>1. Spaces(<<>>) /\ Len(<<>>) = 0
    BY Singles DEF Spaces
  <2> DEFINE k == before + width
             s == [i \in 1 .. k |-> Space]
  <2>2. s \in [1 .. k -> Int] /\ \A i \in 1 .. k : s[i] = Space
    BY DEF Space
  <2>2a. k \in Nat
    BY <1>5, FormatAssumption
  <2> HIDE DEF s, k
  <2>3. Spaces(s)
    BY <2>2, <2>2a, MadeOf DEF Spaces
  <2>4. post = IF d.left /\ width < Len(pre \o put) THEN s ELSE <<>>
    BY DEF s, k
  <2> HIDE DEF post, put
  <2> QED BY <2>1, <2>3, <2>4
<1>8. put = putnum(num, b, width, pad, sign)
  OBVIOUS
<1> HIDE DEF pad, put, post
<1>9. Read(out, num, b, width, pad, sign, Len(pre) + Len(post))
  BY <1>3, <1>4, <1>5, <1>6, <1>7, <1>8, NumberRead
<1>10. Reads(out, b) = IF type \in {"d", "u"} THEN num ELSE Unsigned(num)
  <2> DEFINE more == Len(pre) + Len(post)
  <2> HIDE DEF out, more
  <2>1. Read(out, num, b, width, pad, sign, more)
    BY <1>9 DEF more
  <2>2. /\ sign \in {"NLEAD", "PLEAD"} => Reads(out, b) = num
        /\ sign = "NONE" => Reads(out, b) = Unsigned(num)
    BY <1>3, <1>4, <1>5, <2>1, ReadNumber
  <2> QED BY <1>5, <2>2
<1>11. ASSUME type \in {"d", "u"}, ~d.left
       PROVE  Len(out) = Bigger(Len(Plain(num, 10, d.sign)), d.width)
  <2>1. Len(Plain(num, 10, d.sign)) = Needs(num, b, sign) /\ Needs(num, b, sign) \in Nat
    BY <1>3, <1>5, <1>11, NeedsAre, PlainIs
  <2>2. Len(pre) = 0 /\ Len(post) = 0
    BY <1>6, <1>7, <1>11, Singles
  <2> DEFINE more == Len(pre) + Len(post)
             k == Needs(num, b, sign)
  <2>3. more = 0
    BY <2>2
  <2> HIDE DEF out, more
  <2>4. Read(out, num, b, width, pad, sign, more)
    BY <1>9 DEF more
  <2>5. Len(out) = (IF pad = NoPad THEN Needs(num, b, sign) ELSE Bigger(Needs(num, b, sign), width)) + more
    BY <1>3, <1>4, <1>5, <2>3, <2>4, ReadLength
  <2> HIDE DEF k
  <2>6. Len(out) = Bigger(k, width) + 0
    BY <1>4, <2>3, <2>5 DEF k
  <2>7. k \in Nat /\ width \in Nat
    BY <1>5, <2>1 DEF k
  <2>8. Bigger(k, width) + 0 = Bigger(k, width)
    BY <2>7 DEF Bigger
  <2> QED BY <1>5, <1>11, <2>1, <2>6, <2>8 DEF k
<1> HIDE DEF out
<1>12. type = "d" \/ type = "u" => type \in {"d", "u"} /\ b = 10
  BY <1>3
<1> QED BY <1>1, <1>10, <1>11, <1>12 DEF d, b

\* For an int of any number of values, every base from 2 to 35, every width and
\* every sequence of flags: what putnum, the functions above it and printf print
\* reads as the number and fills its width, but for the exceptions that
\* FormatRight names.
THEOREM FormatSafe == FormatSpec => []FormatRight
<1>1. FormatRight
  BY NumbersPut, IntsPut, NumbersPrinted DEF FormatRight
<1> QED BY <1>1, PTL
=============================================================================
