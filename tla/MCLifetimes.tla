----------------------------- MODULE MCLifetimes -----------------------------
(* The two kinds of counted objects, one behaviour for each: the handle    *)
(* table and a protocol's pool.  `part' says which one a behaviour is      *)
(* about; the other stays as it was created.                               *)
EXTENDS ObjectTable

CONSTANTS t1, t2, t3, p1, p2

VARIABLES part,
          p_slot, p_pool, p_count, p_status, p_pc, p_cur, p_inited, p_calls,
          p_overwritten, p_emptied

\* Three threads make seven calls: enough to initialise the pool, use it,
\* uninitialise it three times, initialise it again and use that.
Pool == INSTANCE PoolSlot WITH
    Threads <- {t1, t2, t3}, Pools <- {p1, p2}, NULL <- NoObj, MaxCalls <- 7,
    InitFails <- TRUE, LowPositive <- TRUE,
    slot <- p_slot, pool <- p_pool, count <- p_count, status <- p_status, pc <- p_pc,
    cur <- p_cur, inited <- p_inited, calls <- p_calls,
    overwritten <- p_overwritten, emptied <- p_emptied

ASSUME Pool!PoolsAssumption

\* Automatic numbering, a handle that it reaches and one that it does not,
\* and the values objallo3 and _objtabinst treat specially.
AllKnowns == {-2, -1, 0, 1, 3}

poolVars == <<p_slot, p_pool, p_count, p_status, p_pc, p_cur, p_inited, p_calls,
              p_overwritten, p_emptied>>
allVars == <<part, vars, poolVars>>

LifetimesInit == part \in {"table", "pool"} /\ Init /\ Pool!Init

InTable(A) == part = "table" /\ A /\ UNCHANGED <<part, poolVars>>

LifetimesNext ==
    \/ InTable(Next)
    \/ part = "pool" /\ Pool!Next /\ UNCHANGED <<part, vars>>

\* The fairness of ObjectTable.
LifetimesSpec ==
    /\ LifetimesInit /\ [][LifetimesNext]_allVars
    /\ \A u \in Users : WF_allVars(InTable(Defr(u))) /\ WF_allVars(InTable(Unload(u)))

\* The variables of the pool, its counter included, keep their types.
PoolTypeOK == Pool!TypeOK

\* A pool is not freed while wp_queued, io_attach or io_pipefd works with it,
\* unless an uninit has overwritten its counter with an empty slot.
AliveUnlessEmptied == Pool!AliveUnlessEmptied

\* A pool's ref.count is the number of threads that retain it, until an
\* uninit overwrites it.
PoolCountsHolders == Pool!RefCountsHolders

=============================================================================
