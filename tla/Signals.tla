------------------------------ MODULE Signals ------------------------------
(***************************************************************************)
(* lib/std/signal.c, and the way from a failed constraint (constraint.c)   *)
(* through abort (stdlib.c) to a signal.  One thread of control: a handler *)
(* of a user's runs inside raise and may itself make any of the calls.     *)
(***************************************************************************)
EXTENDS Integers, Sequences

CONSTANTS
  Signums,       \* the signals modelled, SIGNULL and SIGABRT among them
  MaxCalls,      \* bound on calls
  MaxDepth       \* bound on users' handlers inside each other

ASSUME SignumsAssumption == {"SIGNULL", "SIGABRT"} \subseteq Signums

VARIABLES
  sighandler, sigmask,
  constraint_handler,
  stack,         \* what called the users' handlers that are running
  panicked,
  asked,         \* history: what was last asked for SIGABRT
  escaped,       \* history: abort returned when nothing was asked
  calls          \* bound

sigvars == <<sighandler, sigmask, constraint_handler, stack, panicked, asked, escaped, calls>>

Handlers == {"SIG_DFL", "SIG_IGN", "user"}

SignalsInit ==
  /\ sighandler = [sig \in Signums |-> "SIG_DFL"] /\ sigmask = {}
  /\ constraint_handler = "default"
  /\ stack = <<>> /\ panicked = FALSE /\ calls = 0
  /\ asked = [held |-> FALSE, caught |-> FALSE] /\ escaped = FALSE

\* The signals that SIG_DFL ends in a panic for; it returns from the others.
Fatal == {"SIGABRT", "SIGFPE", "SIGILL", "SIGSEGV", "SIGBUS", "SIGQUIT", "SIGSYS", "SIGTRAP",
          "SIGXCPU", "SIGXFSZ", "SIGINT", "SIGTERM", "SIGALRM", "SIGHUP", "SIGKILL", "SIGPIPE",
          "SIGUSR1", "SIGUSR2", "SIGPOLL", "SIGPROF", "SIGVTALRM"}

\* SIGNULL is never in a set.
sigaddset(set, sig) == set \union ({sig} \ {"SIGNULL"})
sigdelset(set, sig) == set \ {sig}

\* Mutant of After: what was held stays held.
After_StaysHeld(d, sig, handler) ==
  IF handler = "SIG_HOLD" THEN [d EXCEPT !.mask = sigaddset(@, sig)]
  ELSE [d EXCEPT !.handlers[sig] = handler]

\* What signal makes of d, the handlers and the mask, and what it returns.
After(d, sig, handler) ==
  IF handler = "SIG_HOLD" THEN [d EXCEPT !.mask = sigaddset(@, sig)]
  ELSE [handlers |-> [d.handlers EXCEPT ![sig] = handler], mask |-> sigdelset(d.mask, sig)]

Old(d, sig, handler) ==
  IF handler # "SIG_HOLD" /\ sig \in d.mask THEN "SIG_HOLD" ELSE d.handlers[sig]

Dispositions == [handlers |-> sighandler, mask |-> sigmask]

-----------------------------------------------------------------------------
Called == ~panicked /\ calls < MaxCalls /\ calls' = calls + 1

\* A signal is dropped while it is held; the caller gets EOK.
Raised(sig, caller) ==
  LET handler == IF sig \in sigmask THEN "SIG_IGN" ELSE sighandler[sig] IN
  /\ panicked' = (handler = "SIG_DFL" /\ sig \in Fatal)
  /\ handler = "user" => Len(stack) < MaxDepth
  /\ stack' = IF handler = "user" THEN Append(stack, caller) ELSE stack
  /\ escaped' = (escaped \/ (caller = "abort" /\ ~panicked' /\ ~asked.held /\ ~asked.caught))
  /\ UNCHANGED <<sighandler, sigmask, constraint_handler, asked>>

raise(sig) == Called /\ Raised(sig, "raise")

abort == Called /\ Raised("SIGABRT", "abort")

signal(sig, handler) ==
  /\ Called
  /\ sighandler' = After(Dispositions, sig, handler).handlers
  /\ sigmask' = After(Dispositions, sig, handler).mask
  /\ asked' = CASE sig # "SIGABRT" -> asked
                [] sig = "SIGABRT" /\ handler = "SIG_HOLD" -> [asked EXCEPT !.held = TRUE]
                [] OTHER -> [held |-> FALSE, caught |-> handler # "SIG_DFL"]
  /\ UNCHANGED <<constraint_handler, stack, panicked, escaped>>

sigignore(sig) == signal(sig, "SIG_IGN")

sighold(sig) ==
  /\ Called
  /\ sigmask' = sigaddset(sigmask, sig)
  /\ asked' = IF sig = "SIGABRT" THEN [asked EXCEPT !.held = TRUE] ELSE asked
  /\ UNCHANGED <<sighandler, constraint_handler, stack, panicked, escaped>>

sigrelse(sig) ==
  /\ Called
  /\ sigmask' = sigdelset(sigmask, sig)
  /\ asked' = IF sig = "SIGABRT" THEN [asked EXCEPT !.held = FALSE] ELSE asked
  /\ UNCHANGED <<sighandler, constraint_handler, stack, panicked, escaped>>

\* NULL brings back the default handler.
set_constraint_handler_s(handler) ==
  /\ Called
  /\ constraint_handler' = IF handler = "NULL" THEN "default" ELSE handler
  /\ UNCHANGED <<sighandler, sigmask, stack, panicked, asked, escaped>>

\* The constraint's function returns an error when the handler returns.
constraint ==
  /\ Called
  /\ CASE constraint_handler = "abort_handler_s" -> Raised("SIGABRT", "abort")
       [] constraint_handler = "user" ->
            /\ Len(stack) < MaxDepth /\ stack' = Append(stack, "constraint")
            /\ UNCHANGED <<sighandler, sigmask, constraint_handler, panicked, asked, escaped>>
       [] OTHER -> UNCHANGED <<sighandler, sigmask, constraint_handler, stack, panicked,
                               asked, escaped>>

\* A user's handler ends, and what called it returns as well.
Return ==
  /\ ~panicked /\ stack # <<>>
  /\ stack' = SubSeq(stack, 1, Len(stack) - 1)
  /\ UNCHANGED <<sighandler, sigmask, constraint_handler, panicked, asked, escaped, calls>>

SignalsNext ==
  \/ \E sig \in Signums :
       \/ raise(sig) \/ sighold(sig) \/ sigrelse(sig) \/ sigignore(sig)
       \/ \E handler \in Handlers \union {"SIG_HOLD"} : signal(sig, handler)
  \/ \E handler \in {"NULL", "abort_handler_s", "ignore_handler_s", "user"} :
       set_constraint_handler_s(handler)
  \/ abort \/ constraint \/ Return

SignalsSpec == SignalsInit /\ [][SignalsNext]_sigvars

-----------------------------------------------------------------------------
\* abort, a failed constraint's included, returns to its caller only if SIGABRT
\* is held or has a handler (C's abort never returns), whatever was held,
\* released and handled before, inside handlers or not.  What signal returns gives
\* the old disposition back to signal, unless the signal was held: then it is
\* held again and its handler is lost.
AbortEnds ==
  /\ ~escaped
  /\ \A sig \in Signums, handler \in Handlers \union {"SIG_HOLD"} :
       LET d == Dispositions
           back == After(After(d, sig, handler), sig, Old(d, sig, handler))
       IN  sig \notin sigmask => back = d
=============================================================================
