------------------------------- MODULE LwpEvent -------------------------------
(***************************************************************************)
(* The event object of src/src/posix/wosi/threading.c: a flag pass_ behind *)
(* a mutex and a condition variable.  A synchronous event releases one     *)
(* waiter per awakening; a notification event releases all of them and     *)
(* stays signalled until lwp_event_block.                                  *)
(*                                                                         *)
(* Every function body is one locked region, except that a waiter gives    *)
(* the mutex up inside pthread_cond_(timed)wait.  It comes back because it *)
(* was signalled, because its time is over, or for no reason.  The event   *)
(* is destroyed in two steps, and a waiter that was woken may have to lock *)
(* the mutex after the second: pthread_mutex_lock then fails, its result   *)
(* is not looked at, and the waiter goes on without the mutex.  Calls of   *)
(* awaken and block on a destroyed event are left to the callers.          *)
(***************************************************************************)
EXTENDS Naturals, FiniteSets

CONSTANTS Waiters,    \* threads that wait
          Timed,      \* waits have a timeout
          Spurious,   \* condition variables may wake without a reason
          Destroyed,  \* lwp_event_uninit may be called
          MaxWaits,   \* bound: calls of lwp_event_wait by a thread
          MaxAwakens  \* bound: calls of lwp_event_awaken

ASSUME WaitersAssumption == IsFiniteSet(Waiters) /\ MaxWaits \in Nat /\ MaxAwakens \in Nat
ASSUME KindAssumption ==
    Timed \in BOOLEAN /\ Spurious \in BOOLEAN /\ Destroyed \in BOOLEAN

VARIABLES sync,      \* the event is LWPEC_SYNC; otherwise LWPEC_NOTIFY
          pass_,     \* the flag
          effective, \* the event has not been destroyed
          mutex_,    \* the mutex has not been destroyed
          state,     \* a waiter is "idle", or in the condition variable:
                     \* "blocked", or on its way out: "woken" or "expired"
          waits,     \* calls of lwp_event_wait by a thread
          last,      \* what the last wait of a thread returned
          passed,    \* waits that returned success
          awakens    \* calls of lwp_event_awaken

vars == <<sync, pass_, effective, mutex_, state, waits, last, passed, awakens>>

TypeOK ==
    /\ sync \in BOOLEAN /\ pass_ \in BOOLEAN
    /\ effective \in BOOLEAN /\ mutex_ \in BOOLEAN
    /\ state \in [Waiters -> {"idle", "blocked", "woken", "expired"}]
    /\ waits \in [Waiters -> 0..MaxWaits]
    /\ last \in [Waiters -> {"none", "success", "ETIMEDOUT", "error"}]
    /\ passed \in Nat /\ awakens \in 0..MaxAwakens

Init ==
    /\ sync \in BOOLEAN /\ pass_ = FALSE /\ effective = TRUE /\ mutex_ = TRUE
    /\ state = [w \in Waiters |-> "idle"]
    /\ waits = [w \in Waiters |-> 0] /\ last = [w \in Waiters |-> "none"]
    /\ passed = 0 /\ awakens = 0

Blocked == {w \in Waiters : state[w] = "blocked"}

WaitReturns(w, status) ==
    /\ state' = [state EXCEPT ![w] = "idle"]
    /\ last' = [last EXCEPT ![w] = status]
    /\ passed' = IF status = "success" THEN passed + 1 ELSE passed

Blocks(w) == state' = [state EXCEPT ![w] = "blocked"] /\ UNCHANGED <<last, passed>>

\* Mutant: a synchronous event stays signalled after a wait.
Mut_Consume == UNCHANGED pass_

\* A synchronous event is reset by the waiter it lets through.
Consume == pass_' = (pass_ /\ ~sync)

\* lwp_event_wait up to the condition variable.
WaitEnter(w) ==
    /\ state[w] = "idle" /\ waits[w] < MaxWaits
    /\ waits' = [waits EXCEPT ![w] = @ + 1]
    /\ CASE ~effective -> WaitReturns(w, "error") /\ UNCHANGED pass_
         [] effective /\ pass_ -> WaitReturns(w, "success") /\ Consume
         [] effective /\ ~pass_ -> Blocks(w) /\ UNCHANGED pass_
    /\ UNCHANGED <<effective, mutex_, awakens>>

\* The rest of lwp_event_wait for a waiter that was woken.  A synchronous
\* event looks at the flag again, a notification event does not.
WaitWoken(w) ==
    /\ state[w] = "woken"
    /\ CASE ~effective -> WaitReturns(w, "error") /\ UNCHANGED pass_
         [] effective /\ (pass_ \/ ~sync) -> WaitReturns(w, "success") /\ Consume
         [] effective /\ ~pass_ /\ sync -> Blocks(w) /\ UNCHANGED pass_
    /\ UNCHANGED <<effective, mutex_, waits, awakens>>

\* Mutant: the result of the system call is returned as it is.
Mut_WaitExpiredRaw(w) ==
    /\ state[w] = "expired"
    /\ WaitReturns(w, "110")
    /\ Consume
    /\ UNCHANGED <<effective, mutex_, waits, awakens>>

\* The rest of lwp_event_wait for a waiter whose time is over: a synchronous
\* event is reset in this case, too.
WaitExpired(w) ==
    /\ state[w] = "expired"
    /\ IF effective THEN WaitReturns(w, "ETIMEDOUT") /\ Consume
                    ELSE WaitReturns(w, "error") /\ UNCHANGED pass_
    /\ UNCHANGED <<effective, mutex_, waits, awakens>>

\* pthread_cond_timedwait gives up, or pthread_cond_wait returns without a
\* signal.
Expire(w) ==
    /\ Timed /\ state[w] = "blocked"
    /\ state' = [state EXCEPT ![w] = "expired"]
    /\ UNCHANGED <<pass_, effective, mutex_, waits, last, passed, awakens>>

WakeSpuriously(w) ==
    /\ Spurious /\ state[w] = "blocked"
    /\ state' = [state EXCEPT ![w] = "woken"]
    /\ UNCHANGED <<pass_, effective, mutex_, waits, last, passed, awakens>>

Broadcast == state' = [w \in Waiters |-> IF w \in Blocked THEN "woken" ELSE state[w]]

Signal ==
    \/ \E w \in Blocked : state' = [state EXCEPT ![w] = "woken"]
    \/ Blocked = {} /\ UNCHANGED state

\* Mutant: the flag is raised but nobody is woken.
Mut_AwakenSilent ==
    /\ effective /\ awakens < MaxAwakens
    /\ pass_' = TRUE /\ awakens' = awakens + 1
    /\ UNCHANGED <<effective, mutex_, state, waits, last, passed>>

lwp_event_awaken ==
    /\ effective /\ awakens < MaxAwakens
    /\ pass_' = TRUE /\ awakens' = awakens + 1
    /\ IF sync THEN Signal ELSE Broadcast
    /\ UNCHANGED <<effective, mutex_, waits, last, passed>>

\* lwp_event_block has an effect on notification events only.
lwp_event_block ==
    /\ effective /\ ~sync /\ pass_
    /\ pass_' = FALSE
    /\ UNCHANGED <<effective, mutex_, state, waits, last, passed, awakens>>

\* Mutant: the destroyer wakes one waiter only.
Mut_UninitSignals ==
    /\ Destroyed /\ effective
    /\ pass_' = TRUE /\ effective' = FALSE
    /\ Signal
    /\ UNCHANGED <<mutex_, waits, last, passed, awakens>>

\* lwp_event_uninit up to the unlock.
lwp_event_uninit ==
    /\ Destroyed /\ effective
    /\ pass_' = TRUE /\ effective' = FALSE
    /\ Broadcast
    /\ UNCHANGED <<mutex_, waits, last, passed, awakens>>

\* Its last call, lwp_mutex_uninit, which waits for nobody.
UninitMutex ==
    /\ ~effective /\ mutex_
    /\ mutex_' = FALSE
    /\ UNCHANGED <<pass_, effective, state, waits, last, passed, awakens>>

\* The kind of the event is set by lwp_event_init and stays.
Next ==
    /\ UNCHANGED sync
    /\ \/ \E w \in Waiters : \/ WaitEnter(w) \/ WaitWoken(w) \/ WaitExpired(w)
                             \/ Expire(w) \/ WakeSpuriously(w)
       \/ lwp_event_awaken \/ lwp_event_block \/ lwp_event_uninit \/ UninitMutex

Spec == Init /\ [][Next]_vars

\* A thread that has left the condition variable gets the mutex.
FairSpec == Spec /\ \A w \in Waiters : WF_vars((WaitWoken(w) \/ WaitExpired(w)) /\ UNCHANGED sync)

----------------------------------------------------------------------------
(* Properties.                                                             *)

\* An awakening of a synchronous event lets at most one wait through,
\* whatever timeouts and spurious wake-ups happen.
OnePassPerAwaken == sync => passed <= awakens

\* No wake-up is missed: while the flag is up and a waiter is blocked, some
\* other thread was woken and is about to see it.
NoMissedWakeup == pass_ /\ Blocked # {} => \E w \in Waiters : state[w] = "woken"

\* Once the event is destroyed nobody stays in the condition variable.
DestroyReleasesAll == ~effective => Blocked = {}

\* A waiter of a signalled synchronous event gets through: the flag does not
\* stay up while threads are blocked.
AwakenIsConsumed == [](pass_ /\ Blocked # {} => <>(~pass_ \/ Blocked = {}))

LetThrough(w) == passed' = passed + 1 /\ last'[w] = "success"

\* "reset @pass_ flag to zero immediately after wait syscall, to maintain
\* semantic consistency with ms-windows-API WaitForSingleObject"
\* (threading.c:597): a synchronous event is reset by a wait it satisfies and
\* by nothing else, so that no awakening is lost.
AwakenSpentOnce ==
    [][sync /\ pass_ /\ ~pass_' => \E w \in Waiters : LetThrough(w)]_vars
=============================================================================
