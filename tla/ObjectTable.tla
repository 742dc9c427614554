---------------------------- MODULE ObjectTable ----------------------------
(***************************************************************************)
(* The handle table of libnax (src/src/posix/wosi/object.c).  Objects are  *)
(* found by handle, counted by objrefr/objreff/objdefr and closed by       *)
(* objclos.  Every operation on the table runs under one spin lock, so it  *)
(* is one action here; the initializer and the unloader run outside the    *)
(* lock, so allocation and destruction take several actions.               *)
(*                                                                         *)
(* A user is one call frame: it allocates an object, closes a handle, or   *)
(* holds one reference that it obtained and will give back.  A thread that *)
(* holds several references is several users.                              *)
(***************************************************************************)
EXTENDS Integers, FiniteSets

CONSTANTS Objs,     \* the memory blocks objects live in, never reused
          Users,    \* the call frames
          Knowns,   \* values of objcreator.known that callers pass
          Unloader, \* values of "objcreator.unloader is not null"
          MaxAuto,  \* bound: how far ++g_objmgr.atoid is allowed to go
          NoObj     \* the null object pointer

INVALID_OBJHLD == -1

ASSUME ObjsAssumption == NoObj \notin Objs
ASSUME UsersAssumption == IsFiniteSet(Users)
ASSUME KnownsAssumption == Knowns \subseteq Int
ASSUME UnloaderAssumption == Unloader \subseteq BOOLEAN
ASSUME MaxAutoAssumption == MaxAuto \in Nat

\* The handles _hld2root maps to a bucket.
Hlds == (1..MaxAuto) \union {k \in Knowns : k > 0}

VARIABLES table,    \* handle -> the object in its AVL bucket
          atoid,    \* the last automatic handle
          mem,      \* where an object's memory block is in its life; "lost"
                    \* is allocated but in no table, "crash" a null call
          hld,      \* object_t.hld
          status,   \* object_t.status
          refcnt,   \* object_t.refcnt
          unloader, \* object_t.unloader is not null
          unloads,  \* how many times the unloader ran on the object
          pc,       \* where a user is
          cur,      \* the object a user works on
          via       \* the handle a user reached it by

vars == <<table, atoid, mem, hld, status, refcnt, unloader, unloads,
          pc, cur, via>>

TypeOK ==
    /\ table \in [Hlds -> Objs \union {NoObj}]
    /\ atoid \in 0..MaxAuto
    /\ mem \in [Objs -> {"unused", "init", "live", "removed", "freed", "lost",
                       "crash"}]
    /\ hld \in [Objs -> Int]
    /\ status \in [Objs -> {"NORMAL", "CLOSEWAIT"}]
    /\ refcnt \in [Objs -> Nat]
    /\ unloader \in [Objs -> BOOLEAN]
    /\ unloads \in [Objs -> Nat]
    /\ pc \in [Users -> {"idle", "init", "using", "unload"}]
    /\ cur \in [Users -> Objs \union {NoObj}]
    /\ via \in [Users -> Hlds \union {INVALID_OBJHLD}]

Init ==
    /\ table = [h \in Hlds |-> NoObj]
    /\ atoid = 0
    /\ mem = [o \in Objs |-> "unused"]
    /\ hld = [o \in Objs |-> INVALID_OBJHLD]
    /\ status = [o \in Objs |-> "NORMAL"]
    /\ refcnt = [o \in Objs |-> 0]
    /\ unloader = [o \in Objs |-> FALSE]
    /\ unloads = [o \in Objs |-> 0]
    /\ pc = [u \in Users |-> "idle"]
    /\ cur = [u \in Users |-> NoObj]
    /\ via = [u \in Users |-> INVALID_OBJHLD]

Goto(u, label, o, h) ==
    /\ pc' = [pc EXCEPT ![u] = label]
    /\ cur' = [cur EXCEPT ![u] = o]
    /\ via' = [via EXCEPT ![u] = h]

Return(u) == Goto(u, "idle", NoObj, INVALID_OBJHLD)

----------------------------------------------------------------------------
(* Allocation: objallo, objallo2, objallo3, objallo4.                      *)

\* The block is allocated and filled; the initializer is about to run.
\* A known handle of zero is turned into "choose one for me".
AllocBegin(u, o, known, hasUnloader) ==
    /\ pc[u] = "idle"
    /\ mem[o] = "unused"
    /\ mem' = [mem EXCEPT ![o] = "init"]
    /\ hld' = [hld EXCEPT ![o] = IF known = 0 THEN INVALID_OBJHLD ELSE known]
    /\ status' = [status EXCEPT ![o] = "NORMAL"]
    /\ refcnt' = [refcnt EXCEPT ![o] = 0]
    /\ unloader' = [unloader EXCEPT ![o] = hasUnloader]
    /\ Goto(u, "init", o, INVALID_OBJHLD)
    /\ UNCHANGED <<table, atoid, unloads>>

\* The initializer failed: the unloader is called on the half-made object,
\* whether or not there is one.
AllocInitFail(u) ==
    /\ pc[u] = "init"
    /\ IF unloader[cur[u]]
       THEN /\ unloads' = [unloads EXCEPT ![cur[u]] = @ + 1]
            /\ mem' = [mem EXCEPT ![cur[u]] = "freed"]
       ELSE /\ mem' = [mem EXCEPT ![cur[u]] = "crash"]
            /\ UNCHANGED unloads
    /\ Return(u)
    /\ UNCHANGED <<table, atoid, hld, status, refcnt, unloader>>

\* _objtabinst with a handle the caller chose.  A refused object is freed
\* without its unloader.
InstallKnown(u, o) ==
    /\ hld[o] # INVALID_OBJHLD
    /\ IF hld[o] \in Hlds /\ table[hld[o]] = NoObj
       THEN /\ table' = [table EXCEPT ![hld[o]] = o]
            /\ mem' = [mem EXCEPT ![o] = "live"]
       ELSE /\ mem' = [mem EXCEPT ![o] = "freed"]
            /\ UNCHANGED table
    /\ UNCHANGED <<atoid, hld>>

\* _objtabinst with an automatic handle.  The handle is not searched for:
\* avlinsert ignores a key that is already there, and the object is lost.
InstallAuto(u, o) ==
    /\ hld[o] = INVALID_OBJHLD
    /\ atoid < MaxAuto
    /\ atoid' = atoid + 1
    /\ hld' = [hld EXCEPT ![o] = atoid + 1]
    /\ IF table[atoid + 1] = NoObj
       THEN /\ table' = [table EXCEPT ![atoid + 1] = o]
            /\ mem' = [mem EXCEPT ![o] = "live"]
       ELSE /\ mem' = [mem EXCEPT ![o] = "lost"]
            /\ UNCHANGED table

AllocInstall(u) ==
    /\ pc[u] = "init"
    /\ InstallKnown(u, cur[u]) \/ InstallAuto(u, cur[u])
    /\ Return(u)
    /\ UNCHANGED <<status, refcnt, unloader, unloads>>

----------------------------------------------------------------------------
(* References.  A lookup that fails changes nothing and is left out.       *)

\* Mutant: a closing object can still be referenced.
Mut_RefrWhenClosing(u, h) ==
    LET o == table[h] IN
    /\ pc[u] = "idle"
    /\ o # NoObj
    /\ refcnt' = [refcnt EXCEPT ![o] = @ + 1]
    /\ Goto(u, "using", o, h)
    /\ UNCHANGED <<table, atoid, mem, hld, status, unloader, unloads>>

\* objrefr and objrefr2.
Refr(u, h) ==
    LET o == table[h] IN
    /\ pc[u] = "idle"
    /\ o # NoObj
    /\ status[o] = "NORMAL"
    /\ refcnt' = [refcnt EXCEPT ![o] = @ + 1]
    /\ Goto(u, "using", o, h)
    /\ UNCHANGED <<table, atoid, mem, hld, status, unloader, unloads>>

\* Mutant: the finalizing reference is not counted.
Mut_ReffUncounted(u, h) ==
    LET o == table[h] IN
    /\ pc[u] = "idle"
    /\ o # NoObj
    /\ status[o] = "NORMAL"
    /\ status' = [status EXCEPT ![o] = "CLOSEWAIT"]
    /\ Goto(u, "using", o, h)
    /\ UNCHANGED <<table, atoid, mem, hld, refcnt, unloader, unloads>>

\* objreff: the last reference anybody gets.
Reff(u, h) ==
    LET o == table[h] IN
    /\ pc[u] = "idle"
    /\ o # NoObj
    /\ status[o] = "NORMAL"
    /\ refcnt' = [refcnt EXCEPT ![o] = @ + 1]
    /\ status' = [status EXCEPT ![o] = "CLOSEWAIT"]
    /\ Goto(u, "using", o, h)
    /\ UNCHANGED <<table, atoid, mem, hld, unloader, unloads>>

\* Mutant: the object is freed but stays in its bucket.
Mut_RemoveKeepsEntry(u, o) ==
    /\ UNCHANGED table
    /\ mem' = [mem EXCEPT ![o] = "removed"]
    /\ Goto(u, "unload", o, hld[o])

\* _objtabrmve, by the handle stored in the object.
Remove(u, o) ==
    /\ table' = [table EXCEPT ![hld[o]] = NoObj]
    /\ mem' = [mem EXCEPT ![o] = "removed"]
    /\ Goto(u, "unload", o, hld[o])

\* Mutant: the last reference does not complete a pending close.
Mut_DefrNeverRemoves(u) ==
    LET o == table[via[u]] IN
    /\ pc[u] = "using"
    /\ refcnt' = [refcnt EXCEPT ![o] = @ - 1]
    /\ Return(u)
    /\ UNCHANGED <<table, mem, atoid, hld, status, unloader, unloads>>

\* objdefr, by the handle the reference was taken with.
Defr(u) ==
    LET o == table[via[u]] IN
    /\ pc[u] = "using"
    /\ IF o # NoObj /\ refcnt[o] > 0
       THEN /\ refcnt' = [refcnt EXCEPT ![o] = @ - 1]
            /\ IF refcnt[o] = 1 /\ status[o] = "CLOSEWAIT"
               THEN Remove(u, o)
               ELSE Return(u) /\ UNCHANGED <<table, mem>>
       ELSE Return(u) /\ UNCHANGED <<table, mem, refcnt>>
    /\ UNCHANGED <<atoid, hld, status, unloader, unloads>>

\* Mutant: a close does not look at the reference count.
Mut_ClosIgnoresRefs(u, h) ==
    LET o == table[h] IN
    /\ pc[u] = "idle"
    /\ o # NoObj
    /\ IF status[o] = "NORMAL"
       THEN Remove(u, o) /\ UNCHANGED status
       ELSE /\ status' = [status EXCEPT ![o] = "CLOSEWAIT"]
            /\ UNCHANGED <<table, mem, pc, cur, via>>
    /\ UNCHANGED <<atoid, hld, refcnt, unloader, unloads>>

\* Mutant: a close drops a reference of its own before it decides.
Mut_ClosDropsRef(u, h) ==
    LET o == table[h] IN
    /\ pc[u] = "idle"
    /\ o # NoObj
    /\ refcnt' = [refcnt EXCEPT ![o] = @ - 1]
    /\ IF refcnt[o] <= 1 /\ status[o] = "NORMAL"
       THEN Remove(u, o) /\ UNCHANGED status
       ELSE /\ status' = [status EXCEPT ![o] = "CLOSEWAIT"]
            /\ UNCHANGED <<table, mem, pc, cur, via>>
    /\ UNCHANGED <<atoid, hld, unloader, unloads>>

\* objclos, by any handle: the caller need not hold a reference.
Clos(u, h) ==
    LET o == table[h] IN
    /\ pc[u] = "idle"
    /\ o # NoObj
    /\ IF refcnt[o] = 0 /\ status[o] = "NORMAL"
       THEN Remove(u, o) /\ UNCHANGED status
       ELSE /\ status' = [status EXCEPT ![o] = "CLOSEWAIT"]
            /\ UNCHANGED <<table, mem, pc, cur, via>>
    /\ UNCHANGED <<atoid, hld, refcnt, unloader, unloads>>

\* _objtagfree, after the lock has been released.
Unload(u) ==
    /\ pc[u] = "unload"
    /\ unloads' = [unloads EXCEPT ![cur[u]] = @ + (IF unloader[cur[u]] THEN 1 ELSE 0)]
    /\ mem' = [mem EXCEPT ![cur[u]] = "freed"]
    /\ Return(u)
    /\ UNCHANGED <<table, atoid, hld, status, refcnt, unloader>>

----------------------------------------------------------------------------
Next ==
    \E u \in Users :
        \/ \E o \in Objs, known \in Knowns, has \in Unloader : AllocBegin(u, o, known, has)
        \/ AllocInitFail(u)
        \/ AllocInstall(u)
        \/ \E h \in Hlds : Refr(u, h)
        \/ \E h \in Hlds : Reff(u, h)
        \/ Defr(u)
        \/ \E h \in Hlds : Clos(u, h)
        \/ Unload(u)

Spec == Init /\ [][Next]_vars

\* A caller that obtained a reference gives it back, and a thread that
\* removed an object goes on to free it: the code between is straight-line.
Fairness == \A u \in Users : WF_vars(Defr(u)) /\ WF_vars(Unload(u))

FairSpec == Spec /\ Fairness

----------------------------------------------------------------------------
(* The table implements ObjectLife.  A lost object is never reachable, so  *)
(* for the abstract view it was never created.                             *)

Stage(o) ==
    CASE mem[o] \in {"unused", "init", "lost", "crash"} -> "absent"
      [] mem[o] = "live" -> IF status[o] = "NORMAL" THEN "open" ELSE "closing"
      [] mem[o] = "removed" -> "dead"
      [] mem[o] = "freed" -> "destroyed"

Life == INSTANCE ObjectLife WITH
            life <- [o \in Objs |-> Stage(o)],
            holds <- [u \in Users |-> IF pc[u] = "using" THEN cur[u] ELSE NoObj]

\* Every step of the table is a step the abstract object life allows.
ImplementsLife == Life!LifeSpec

----------------------------------------------------------------------------
(* Properties.                                                             *)

Holders(o) == {u \in Users : pc[u] = "using" /\ cur[u] = o}

\* The count objdefr and objclos decide by is the number of references that
\* are really out, whatever the interleaving of refr, reff, defr and clos.
RefcntCountsHolders ==
    \A o \in Objs : mem[o] = "live" => refcnt[o] = Cardinality(Holders(o))

\* While a caller holds a reference the object is not freed, and the handle
\* it was reached by still finds that same object, so that objdefr gives the
\* reference back to the object it was taken from and its assert on the
\* count never fires; concurrent closes and re-creations under the same known
\* handle included.
HeldObjectStays ==
    \A u \in Users : pc[u] = "using" =>
        /\ mem[cur[u]] = "live"
        /\ table[via[u]] = cur[u]
        /\ refcnt[cur[u]] > 0

\* A closed object still in the table is referenced by somebody whose
\* objdefr will take it out: a close is never forgotten.
ClosingIsHeld ==
    \A o \in Objs :
        mem[o] = "live" /\ status[o] = "CLOSEWAIT" => Holders(o) # {}

\* The unloader runs at most once on an object and only after it has left
\* the table; one frame at a time is about to run it (double objclos, or
\* objclos against the last objdefr).
UnloadedOnce ==
    /\ \A o \in Objs : unloads[o] # 0 => unloads[o] = 1 /\ mem[o] = "freed"
    /\ \A u, v \in Users :
          pc[u] = "unload" /\ pc[v] = "unload" /\ cur[u] = cur[v] => u = v
    /\ \A u \in Users : pc[u] = "unload" =>
          mem[cur[u]] = "removed" /\ \A h \in Hlds : table[h] # cur[u]

\* objclos and objreff are final: nobody obtains a reference to an object
\* after it, and the object never becomes usable again.
CloseIsFinal ==
    [][\A o \in Objs : mem[o] = "live" /\ status[o] = "CLOSEWAIT" =>
          status'[o] = "CLOSEWAIT" /\ Holders(o)' \subseteq Holders(o)]_vars

\* A closed object is eventually unloaded and freed once its users give
\* their references back.
ClosedIsFreed ==
    \A o \in Objs :
        mem[o] = "live" /\ status[o] = "CLOSEWAIT" ~> mem[o] = "freed"
=============================================================================
