------------------------------- MODULE PoolSlot -------------------------------
(***************************************************************************)
(* The life of a protocol's pool: the writer pool of wpool.c and the epoll *)
(* block of io.c, which are published, retained, released and closed by    *)
(* the same code around a reference counter (src/src/refs.c).  One slot of *)
(* the manager is modelled, with threads that initialise the protocol, use *)
(* it and uninitialise it.                                                 *)
(*                                                                         *)
(* The compare-and-swap of wp_uninit and io_uninit is given the pool as    *)
(* the address of the expected value.  It therefore compares the slot with *)
(* the first eight bytes of the pool, which are ref.count and ref.status,  *)
(* and, when they differ, overwrites them with what the slot holds.  A     *)
(* counter that was overwritten with the address of block q has status q   *)
(* here, and count is then relative to the low half of that address;       *)
(* overwritten with an empty slot it is zero and NORMAL.  The high half of *)
(* a block's address is taken to be none of the three statuses (0, 1, 2).  *)
(* The load of the eight bytes, the exchange and the store are one step.   *)
(***************************************************************************)
EXTENDS Integers, FiniteSets

CONSTANTS Threads,      \* threads of the application and of the framework
          Pools,        \* memory blocks a pool can be allocated in
          NULL,         \* the empty slot
          MaxCalls,     \* bound: calls of all threads
          InitFails,    \* _wp_init or _io_init may fail
          LowPositive   \* the low half of a pool's address, as an int, is > 0

\* What the constants must satisfy.
PoolsAssumption ==
    /\ IsFiniteSet(Threads) /\ IsFiniteSet(Pools) /\ NULL \notin Pools
    /\ MaxCalls \in Nat /\ InitFails \in BOOLEAN /\ LowPositive \in BOOLEAN

VARIABLES slot,   \* _wpmgr._wptcp (or one of its three siblings)
          pool,   \* a block is "none", "raw" (not initialised), "ready" or "freed"
          count,  \* ref.count of a block
          status, \* ref.status of a block
          pc, cur, \* what a thread is doing, and the pool it does it with
          inited, \* a call of init has succeeded
          calls,  \* calls made
          overwritten, \* history: blocks whose counter an exchange overwrote
          emptied      \* history: those it overwrote with an empty slot

refVars == <<count, status>>
historyVars == <<overwritten, emptied>>
vars == <<slot, pool, refVars, pc, cur, inited, calls, historyVars>>

Live == {p \in Pools : pool[p] \in {"raw", "ready"}}

TypeOK ==
    /\ slot \in Pools \union {NULL}
    /\ pool \in [Pools -> {"none", "raw", "ready", "freed"}]
    /\ count \in [Pools -> Int] /\ \A p \in Pools : count[p] < 0 => status[p] \in Pools
    /\ status \in [Pools -> {"NORMAL", "CLOSEWAIT", "CLOSED"} \union Pools]
    /\ pc \in [Threads -> {"idle", "init", "using", "cas", "close", "fault"}]
    /\ cur \in [Threads -> Pools \union {NULL}]
    /\ inited \in BOOLEAN /\ calls \in 0..MaxCalls
    /\ emptied \subseteq overwritten /\ overwritten \subseteq Pools

Init ==
    /\ slot = NULL
    /\ pool = [p \in Pools |-> "none"]
    /\ count = [p \in Pools |-> 0]
    /\ status = [p \in Pools |-> "NORMAL"]
    /\ pc = [t \in Threads |-> "idle"]
    /\ cur = [t \in Threads |-> NULL]
    /\ inited = FALSE /\ calls = 0
    /\ overwritten = {} /\ emptied = {}

Call(t) == pc[t] = "idle" /\ calls < MaxCalls /\ calls' = calls + 1

Goes(t, label, p) == pc' = [pc EXCEPT ![t] = label] /\ cur' = [cur EXCEPT ![t] = p]

Returns(t) == Goes(t, "idle", NULL)

\* The pool's memory was given back: what the thread finds there is undefined,
\* and it returns or does not.
Undefined(t) == Returns(t) \/ Goes(t, "fault", NULL)

----------------------------------------------------------------------------
(* wp_init and io_init.                                                    *)

\* The block is allocated, its counter initialised and, if the slot is
\* empty, published.  Otherwise the block is freed and EALREADY (EEXIST from
\* io_init), a success to the caller, returned.
InitPublish(t) ==
    /\ Call(t)
    /\ IF slot = NULL
       THEN \E p \in Pools :
               /\ pool[p] = "none"
               /\ slot' = p /\ pool' = [pool EXCEPT ![p] = "raw"]
               /\ Goes(t, "init", p)
               /\ UNCHANGED inited
       ELSE /\ inited' = TRUE
            /\ UNCHANGED <<slot, pool, pc, cur>>
    /\ UNCHANGED <<refVars, historyVars>>

\* Mutant: the pool is freed although a thread has retained it.
Mut_RefCloseIgnoresCount(p) ==
    /\ status' = [status EXCEPT ![p] = IF @ = "NORMAL" THEN "CLOSED" ELSE @]
    /\ pool' = [pool EXCEPT ![p] = IF status[p] = "NORMAL" THEN "freed" ELSE @]

\* ref_close with _wp_close_protocol or _io_close_protocol.  A counter that
\* is not NORMAL is left alone.  CLOSED is written after the block was freed.
RefClose(p) ==
    LET last == status[p] = "NORMAL" /\ count[p] = 0 IN
    /\ status' = [status EXCEPT ![p] = IF last THEN "CLOSED"
                                       ELSE IF @ = "NORMAL" THEN "CLOSEWAIT" ELSE @]
    /\ pool' = [pool EXCEPT ![p] = IF last THEN "freed" ELSE @]

\* _wp_init or _io_init under the manager's mutex.
InitLocked(t) ==
    /\ pc[t] = "init"
    /\ IF cur[t] \in Live
       THEN pool' = [pool EXCEPT ![cur[t]] = "ready"] /\ inited' = TRUE /\ Returns(t)
       ELSE Undefined(t) /\ UNCHANGED <<pool, inited>>
    /\ UNCHANGED <<slot, refVars, calls, historyVars>>


InitFailed(t) ==
    /\ InitFails /\ pc[t] = "init"
    /\ slot' = NULL
    /\ IF cur[t] \in Live THEN RefClose(cur[t]) /\ Returns(t)
                           ELSE Undefined(t) /\ UNCHANGED <<status, pool>>
    /\ UNCHANGED <<count, inited, calls, historyVars>>

----------------------------------------------------------------------------
(* wp_queued, io_attach and io_pipefd: retain, use, release.               *)

\* Mutant: a retained pool is not counted.
Mut_RefRetainUncounted(p) == UNCHANGED count

\* ref_retain.
RefRetain(p) == count' = [count EXCEPT ![p] = IF status[p] = "NORMAL" THEN @ + 1 ELSE @]

\* An empty slot gives the caller no pool.  For a pool whose counter is not
\* NORMAL ref_retain answers -1, which unlikely() turns into 1 before it is
\* compared: the caller gets the pool, uncounted.
Retain(t) ==
    /\ Call(t)
    /\ IF slot = NULL THEN UNCHANGED <<pc, cur, count>>
                      ELSE Goes(t, "using", slot) /\ RefRetain(slot)
    /\ UNCHANGED <<slot, pool, status, inited, historyVars>>

\* Mutant: a counter that is zero is lowered.
Mut_Releases(p) == status[p] # "CLOSED"

\* Does ref_release on p lower the counter?
Releases(p) ==
    /\ status[p] # "CLOSED"
    /\ IF status[p] \in Pools THEN LowPositive ELSE count[p] > 0

\* ref_release: the last reference to a closing pool frees it.
RefRelease(p) ==
    /\ count' = [count EXCEPT ![p] = IF Releases(p) THEN @ - 1 ELSE @]
    /\ pool' = [pool EXCEPT ![p] =
                   IF status[p] = "CLOSEWAIT" /\ count[p] = 1 THEN "freed" ELSE @]

Release(t) ==
    /\ pc[t] = "using"
    /\ IF cur[t] \in Live THEN RefRelease(cur[t]) /\ Returns(t)
                           ELSE Undefined(t) /\ UNCHANGED <<count, pool>>
    /\ UNCHANGED <<slot, status, inited, calls, historyVars>>

----------------------------------------------------------------------------
(* wp_uninit and io_uninit.                                                *)

\* The slot is read; from an empty one the exchange would take the expected
\* value from address zero.
UninitRead(t) ==
    /\ Call(t) /\ inited
    /\ IF slot = NULL THEN Goes(t, "fault", NULL) ELSE Goes(t, "cas", slot)
    /\ UNCHANGED <<slot, pool, refVars, inited, historyVars>>

\* Do the first eight bytes of p, taken for a pointer, equal value?
Holds(p, value) ==
    count[p] = 0 /\ status[p] = IF value = NULL THEN "NORMAL" ELSE value

\* The exchange fails: the slot's value is stored in the pool.
Overwrite(p) ==
    /\ status' = [status EXCEPT ![p] = IF slot = NULL THEN "NORMAL" ELSE slot]
    /\ count' = [count EXCEPT ![p] = 0]
    /\ overwritten' = overwritten \union {p}
    /\ emptied' = IF slot = NULL THEN emptied \union {p} ELSE emptied

\* The exchange.  In a block that was freed it may find anything.
UninitCas(t) ==
    /\ pc[t] = "cas"
    /\ LET p == cur[t] IN
          \/ /\ p \in Live => Holds(p, slot)
             /\ slot' = NULL /\ Goes(t, "close", p)
             /\ UNCHANGED <<refVars, historyVars>>
          \/ /\ p \in Live /\ ~Holds(p, slot)
             /\ Overwrite(p)
             /\ Returns(t) /\ UNCHANGED slot
          \/ /\ p \notin Live
             /\ Undefined(t) /\ UNCHANGED <<slot, refVars, historyVars>>
    /\ UNCHANGED <<pool, inited, calls>>

UninitClose(t) ==
    /\ pc[t] = "close"
    /\ IF cur[t] \in Live THEN RefClose(cur[t]) /\ Returns(t)
                           ELSE Undefined(t) /\ UNCHANGED <<status, pool>>
    /\ UNCHANGED <<slot, count, inited, calls, historyVars>>

Next ==
    \E t \in Threads :
       \/ InitPublish(t) \/ InitLocked(t) \/ InitFailed(t)
       \/ Retain(t) \/ Release(t)
       \/ UninitRead(t) \/ UninitCas(t) \/ UninitClose(t)

Spec == Init /\ [][Next]_vars

----------------------------------------------------------------------------
(* Properties.                                                             *)

Holders(p) == {t \in Threads : pc[t] = "using" /\ cur[t] = p}

\* "the real free operation could postpone to last reference released"
\* (include/refs.h:30): a pool is not freed while wp_queued, io_attach or
\* io_pipefd works with it.
AliveWhileRetained == \A p \in Pools : Holders(p) # {} => p \in Live

\* The same for every pool but those whose counter an uninit has overwritten
\* with an empty slot: neither a failing initialisation nor a counter that
\* holds an address frees a pool in use.
AliveUnlessEmptied == \A p \in Pools \ emptied : Holders(p) # {} => p \in Live

\* ref.count is the number of threads between retain and release, and a pool
\* that waits to be closed has one that will close it, until an uninit
\* overwrites the counter.
RefCountsHolders ==
    \A p \in Live \ overwritten :
        /\ count[p] = Cardinality(Holders(p))
        /\ status[p] = "CLOSEWAIT" => count[p] > 0

=============================================================================
