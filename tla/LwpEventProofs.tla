---------------------------- MODULE LwpEventProofs ----------------------------
(***************************************************************************)
(* Proofs about LwpEvent for any number of waiters, any bounds and every   *)
(* combination of timeouts, spurious wake-ups and destruction.             *)
(***************************************************************************)
EXTENDS LwpEvent, TLAPS

\* The waits let through never exceed the awakenings, and an awakening that
\* is still pending has not been used: what OnePassPerAwaken needs to be
\* inductive.
PassAccounted == sync => (passed <= awakens /\ (pass_ /\ effective => passed < awakens))

\* Nobody is blocked on a notification event that is signalled: without it
\* a woken waiter could leave another one behind.
NotifyReleasesAll == ~sync /\ pass_ => Blocked = {}

IInv == TypeOK /\ PassAccounted /\ NoMissedWakeup /\ NotifyReleasesAll /\ DestroyReleasesAll

LEMMA Bounds == MaxWaits \in Nat /\ MaxAwakens \in Nat
BY WaitersAssumption, Zenon DEF WaitersAssumption

LEMMA InitEstablishes == Init => IInv
<1> SUFFICES ASSUME Init PROVE IInv
  OBVIOUS
<1>1. TypeOK
  <2>1. sync \in BOOLEAN /\ pass_ \in BOOLEAN /\ effective \in BOOLEAN /\ mutex_ \in BOOLEAN
    BY DEF Init
  <2>2. /\ state \in [Waiters -> {"idle", "blocked", "woken", "expired"}]
        /\ last \in [Waiters -> {"none", "success", "ETIMEDOUT", "error"}]
    BY DEF Init
  <2>3. waits \in [Waiters -> 0..MaxWaits] /\ passed \in Nat /\ awakens \in 0..MaxAwakens
    BY Bounds DEF Init
  <2> QED BY <2>1, <2>2, <2>3 DEF TypeOK
<1>2. PassAccounted
  BY DEF Init, PassAccounted
<1>3. NoMissedWakeup /\ NotifyReleasesAll /\ DestroyReleasesAll
  BY DEF Init, NoMissedWakeup, NotifyReleasesAll, DestroyReleasesAll
<1> QED BY <1>1, <1>2, <1>3 DEF IInv

\* How a waiter ends up: it returns with a status, or it blocks.
LEMMA WaitOutcome ==
    ASSUME IInv, NEW w \in Waiters,
           WaitEnter(w) \/ WaitWoken(w) \/ WaitExpired(w)
    PROVE  /\ UNCHANGED <<effective, mutex_, awakens>>
           /\ waits' = waits \/ (waits[w] < MaxWaits /\ waits' = [waits EXCEPT ![w] = @ + 1])
           /\ \/ /\ state' = [state EXCEPT ![w] = "blocked"] /\ effective
                 /\ ~pass_ /\ UNCHANGED <<pass_, last, passed>>
              \/ /\ state' = [state EXCEPT ![w] = "idle"] /\ ~effective
                 /\ last' = [last EXCEPT ![w] = "error"] /\ UNCHANGED <<pass_, passed>>
              \/ /\ state' = [state EXCEPT ![w] = "idle"] /\ effective
                 /\ last' = [last EXCEPT ![w] = "success"] /\ (pass_ \/ ~sync)
                 /\ pass_' = (pass_ /\ ~sync) /\ passed' = passed + 1
              \/ /\ state' = [state EXCEPT ![w] = "idle"] /\ effective
                 /\ last' = [last EXCEPT ![w] = "ETIMEDOUT"]
                 /\ pass_' = (pass_ /\ ~sync) /\ UNCHANGED passed
<1> USE DEF WaitReturns, Blocks, Consume
<1>1. effective \in BOOLEAN /\ pass_ \in BOOLEAN /\ sync \in BOOLEAN
  BY DEF IInv, TypeOK
<1>2. CASE WaitEnter(w)
  BY <1>1, <1>2, Zenon DEF WaitEnter
<1>3. CASE WaitWoken(w)
  BY <1>1, <1>3, Zenon DEF WaitWoken
<1>4. CASE WaitExpired(w)
  BY <1>1, <1>4, Zenon DEF WaitExpired
<1> QED BY <1>2, <1>3, <1>4

LEMMA WaitPreserves ==
    ASSUME IInv, UNCHANGED sync, NEW w \in Waiters,
           WaitEnter(w) \/ WaitWoken(w) \/ WaitExpired(w)
    PROVE  IInv'
<1>1. TypeOK'
  <2>1. /\ sync' \in BOOLEAN /\ pass_' \in BOOLEAN
        /\ effective' \in BOOLEAN /\ mutex_' \in BOOLEAN
    <3>1. (pass_ /\ ~sync) \in BOOLEAN
      OBVIOUS
    <3> QED BY <3>1, WaitOutcome, Zenon DEF IInv, TypeOK
  <2>2. /\ state' \in [Waiters -> {"idle", "blocked", "woken", "expired"}]
        /\ last' \in [Waiters -> {"none", "success", "ETIMEDOUT", "error"}]
    BY WaitOutcome DEF IInv, TypeOK
  <2>3. waits' \in [Waiters -> 0..MaxWaits]
    BY WaitOutcome, Bounds DEF IInv, TypeOK
  <2>4. passed' \in Nat /\ awakens' \in 0..MaxAwakens
    BY WaitOutcome DEF IInv, TypeOK
  <2> QED BY <2>1, <2>2, <2>3, <2>4 DEF TypeOK
<1>2. PassAccounted'
  <2> SUFFICES ASSUME sync PROVE passed' <= awakens' /\ (pass_' /\ effective' => passed' < awakens')
    BY DEF PassAccounted
  <2>1. passed' = passed \/ (pass_ /\ effective /\ passed' = passed + 1)
    BY WaitOutcome
  <2>2. effective' => ~pass_'
    BY WaitOutcome
  <2>3. awakens' = awakens /\ passed \in Nat /\ awakens \in Nat
    BY WaitOutcome, Bounds DEF IInv, TypeOK
  <2> QED BY <2>1, <2>2, <2>3 DEF IInv, PassAccounted
<1>3. \A v \in Waiters : state'[v] = "blocked" => state[v] = "blocked" \/ (effective /\ ~pass_')
  BY WaitOutcome DEF IInv, TypeOK
<1>4. NoMissedWakeup' /\ NotifyReleasesAll'
  <2>1. ~sync /\ pass_' => pass_
    BY WaitOutcome DEF IInv, TypeOK
  <2>2. sync /\ pass_' => ~effective
    BY WaitOutcome DEF IInv, TypeOK
  <2>3. pass_' => Blocked' = {}
    BY <1>3, <2>1, <2>2
       DEF IInv, TypeOK, Blocked, NotifyReleasesAll, DestroyReleasesAll
  <2> QED BY <2>3 DEF NoMissedWakeup, NotifyReleasesAll
<1>5. DestroyReleasesAll'
  BY WaitOutcome, <1>3 DEF IInv, DestroyReleasesAll, Blocked
<1> QED BY <1>1, <1>2, <1>4, <1>5 DEF IInv

\* What the condition variable and the other calls do.
LEMMA OthersPreserve ==
    ASSUME IInv, UNCHANGED sync,
           \/ \E w \in Waiters : Expire(w) \/ WakeSpuriously(w)
           \/ lwp_event_awaken \/ lwp_event_block \/ lwp_event_uninit \/ UninitMutex
    PROVE  IInv'
<1> USE DEF Blocked
<1>1. CASE \E w \in Waiters : Expire(w) \/ WakeSpuriously(w)
  <2> PICK w \in Waiters : Expire(w) \/ WakeSpuriously(w)
    BY <1>1
  <2>1. TypeOK' /\ PassAccounted'
    BY DEF IInv, TypeOK, PassAccounted, Expire, WakeSpuriously
  <2>2. Blocked' \subseteq Blocked
    BY DEF IInv, TypeOK, Expire, WakeSpuriously
  <2>3. \A v \in Waiters : state[v] = "woken" => state'[v] = "woken"
    BY DEF IInv, TypeOK, Expire, WakeSpuriously
  <2> QED BY <2>1, <2>2, <2>3 DEF IInv, NoMissedWakeup, NotifyReleasesAll,
             DestroyReleasesAll, Expire, WakeSpuriously
<1>2. CASE lwp_event_awaken
  <2>1. TypeOK'
    BY <1>2, Bounds
       DEF IInv, TypeOK, lwp_event_awaken, Signal, Broadcast
  <2>2. PassAccounted'
    BY <1>2, Bounds DEF IInv, TypeOK, PassAccounted, lwp_event_awaken
  <2>3. NoMissedWakeup'
    BY <1>2 DEF IInv, TypeOK, NoMissedWakeup, lwp_event_awaken, Signal, Broadcast
  <2>4. NotifyReleasesAll' /\ DestroyReleasesAll'
    BY <1>2 DEF IInv, TypeOK, NotifyReleasesAll, DestroyReleasesAll, lwp_event_awaken, Broadcast
  <2> QED BY <2>1, <2>2, <2>3, <2>4 DEF IInv
<1>3. CASE lwp_event_block
  BY <1>3 DEF IInv, TypeOK, PassAccounted, NoMissedWakeup, NotifyReleasesAll,
     DestroyReleasesAll, lwp_event_block
<1>4. CASE lwp_event_uninit
  <2>1. TypeOK' /\ PassAccounted'
    BY <1>4 DEF IInv, TypeOK, PassAccounted, lwp_event_uninit, Broadcast
  <2>2. Blocked' = {}
    BY <1>4 DEF IInv, TypeOK, lwp_event_uninit, Broadcast
  <2> QED BY <2>1, <2>2 DEF IInv, NoMissedWakeup, NotifyReleasesAll, DestroyReleasesAll
<1>5. CASE UninitMutex
  BY <1>5 DEF IInv, TypeOK, PassAccounted, NoMissedWakeup, NotifyReleasesAll,
     DestroyReleasesAll, UninitMutex
<1> QED BY <1>1, <1>2, <1>3, <1>4, <1>5

LEMMA Inductive == Spec => []IInv
<1>1. IInv /\ [Next]_vars => IInv'
  <2> SUFFICES ASSUME IInv, [Next]_vars PROVE IInv'
    OBVIOUS
  <2>1. CASE UNCHANGED vars
    BY <2>1 DEF vars, IInv, TypeOK, PassAccounted, NoMissedWakeup, NotifyReleasesAll,
       DestroyReleasesAll, Blocked
  <2>2. CASE Next
    BY <2>2, WaitPreserves, OthersPreserve DEF Next
  <2> QED BY <2>1, <2>2
<1> QED BY <1>1, InitEstablishes, PTL DEF Spec

\* The event's variables keep their types in every behaviour of
\* lwp_event_wait, awaken, block and uninit.
THEOREM TypeCorrect == Spec => []TypeOK
<1>1. IInv => TypeOK
  BY DEF IInv
<1> QED BY <1>1, Inductive, PTL

\* lwp_event_awaken on a synchronous event lets at most one lwp_event_wait
\* through, for any number of waiters.
THEOREM AwakenOnce == Spec => []OnePassPerAwaken
<1>1. IInv => OnePassPerAwaken
  BY DEF IInv, PassAccounted, OnePassPerAwaken
<1> QED BY <1>1, Inductive, PTL

\* No thread stays in pthread_cond_wait next to a raised flag unless another
\* one was woken for it; and none at all once the event is destroyed.
THEOREM WakeupsReach == Spec => [](NoMissedWakeup /\ DestroyReleasesAll)
<1>1. IInv => NoMissedWakeup /\ DestroyReleasesAll
  BY DEF IInv
<1> QED BY <1>1, Inductive, PTL

\* Without timeouts no waiter is on its way out of pthread_cond_timedwait.
Untimed == state \in [Waiters -> {"idle", "blocked", "woken"}]

LEMMA UntimedInvariant == ASSUME ~Timed PROVE Spec => []Untimed
<1>1. Init => Untimed
  BY DEF Init, Untimed
<1>2. IInv /\ Untimed /\ [Next]_vars => Untimed'
  <2> SUFFICES ASSUME IInv, Untimed, [Next]_vars PROVE Untimed'
    OBVIOUS
  <2>1. ASSUME NEW w \in Waiters, WaitEnter(w) \/ WaitWoken(w) \/ WaitExpired(w)
        PROVE  Untimed'
    BY <2>1, WaitOutcome DEF Untimed
  <2>2. ASSUME NEW w \in Waiters, Expire(w) \/ WakeSpuriously(w)
        PROVE  Untimed'
    BY <2>2 DEF Expire, WakeSpuriously, Untimed
  <2>3. CASE lwp_event_awaken \/ lwp_event_uninit
    BY <2>3 DEF lwp_event_awaken, lwp_event_uninit, Signal, Broadcast, Blocked, Untimed
  <2>4. CASE lwp_event_block \/ UninitMutex \/ UNCHANGED vars
    BY <2>4 DEF lwp_event_block, UninitMutex, vars, Untimed
  <2> QED BY <2>1, <2>2, <2>3, <2>4 DEF Next
<1> QED BY <1>1, <1>2, Inductive, PTL DEF Spec

\* When every lwp_event_wait is without a timeout, the raised flag of a
\* synchronous event goes down only for a wait that succeeds: timeouts are
\* the only way to lose an awakening.
THEOREM SpentOnce == ASSUME ~Timed PROVE Spec => AwakenSpentOnce
<1>1. IInv /\ Untimed /\ [Next]_vars =>
        [sync /\ pass_ /\ ~pass_' => \E w \in Waiters : LetThrough(w)]_vars
  <2> SUFFICES ASSUME IInv, Untimed, Next, sync, pass_, ~pass_'
               PROVE  \E w \in Waiters : LetThrough(w)
    BY DEF vars
  <2>1. PICK w \in Waiters : WaitEnter(w) \/ WaitWoken(w) \/ WaitExpired(w)
    BY DEF Next, Expire, WakeSpuriously, lwp_event_awaken, lwp_event_block,
       lwp_event_uninit, UninitMutex
  <2>2. WaitEnter(w) \/ WaitWoken(w)
    BY <2>1 DEF WaitExpired, Untimed
  <2>3. passed' = passed + 1 /\ last' = [last EXCEPT ![w] = "success"]
    BY <2>2, Zenon DEF WaitEnter, WaitWoken, WaitReturns, Blocks, Consume
  <2> QED BY <2>3 DEF LetThrough, IInv, TypeOK
<1> QED BY <1>1, Inductive, UntimedInvariant, PTL DEF Spec, AwakenSpentOnce
=============================================================================
