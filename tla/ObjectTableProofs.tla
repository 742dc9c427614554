------------------------- MODULE ObjectTableProofs -------------------------
(***************************************************************************)
(* Proofs about ObjectTable for any finite set of users, any objects, any  *)
(* set of caller-chosen handles and any bound on automatic numbering.      *)
(***************************************************************************)
EXTENDS ObjectTable, FiniteSetTheorems, TLAPS

\* A handle and the live object it names point at each other.
TableInv ==
    /\ \A o \in Objs : mem[o] = "live" => hld[o] \in Hlds /\ table[hld[o]] = o
    /\ \A h \in Hlds : table[h] # NoObj => mem[table[h]] = "live" /\ hld[table[h]] = h

\* What a frame in the middle of an operation knows about its object.
FrameInv ==
    \A u \in Users :
        /\ pc[u] = "init" => /\ cur[u] \in Objs
                             /\ mem[cur[u]] = "init"
                             /\ refcnt[cur[u]] = 0
                             /\ status[cur[u]] = "NORMAL"
        /\ pc[u] = "using" => /\ cur[u] \in Objs
                              /\ via[u] \in Hlds
                              /\ table[via[u]] = cur[u]
        /\ pc[u] = "unload" => cur[u] \in Objs /\ mem[cur[u]] = "removed"

\* At most one frame makes, and at most one unmakes, an object.
OwnerInv ==
    \A u, v \in Users :
        /\ pc[u] \in {"init", "unload"} /\ pc[u] = pc[v] /\ cur[u] = cur[v] => u = v

UnloadInv ==
    \A o \in Objs : IF mem[o] = "freed" THEN unloads[o] \in {0, 1} ELSE unloads[o] = 0

ClosingInv ==
    \A o \in Objs : mem[o] = "live" /\ status[o] = "CLOSEWAIT" => refcnt[o] > 0

\* The part of the inductive invariant that needs no counting.
Shape == TypeOK /\ TableInv /\ FrameInv /\ OwnerInv /\ UnloadInv /\ ClosingInv

IInv == Shape /\ RefcntCountsHolders

LEMMA InitShape == Init => Shape
  BY ObjsAssumption, MaxAutoAssumption
  DEF Init, Shape, TypeOK, TableInv, FrameInv, OwnerInv, UnloadInv, ClosingInv, INVALID_OBJHLD

LEMMA AllocBeginShape ==
  ASSUME Shape, NEW u \in Users, NEW o \in Objs, NEW known \in Knowns, NEW has \in Unloader,
         AllocBegin(u, o, known, has)
  PROVE  Shape'
  <1> USE ObjsAssumption, MaxAutoAssumption, KnownsAssumption, UnloaderAssumption
      DEF Shape, AllocBegin, Goto, INVALID_OBJHLD
  <1>1. TypeOK'
    BY DEF TypeOK
  <1>2. TableInv'
    BY DEF TypeOK, TableInv
  <1>3. FrameInv'
    BY DEF TypeOK, FrameInv, TableInv, OwnerInv
  <1>4. OwnerInv'
    BY DEF TypeOK, FrameInv, OwnerInv
  <1>5. UnloadInv'
    BY DEF TypeOK, UnloadInv
  <1>6. ClosingInv'
    BY DEF TypeOK, ClosingInv
  <1>7. QED
    BY <1>1, <1>2, <1>3, <1>4, <1>5, <1>6

LEMMA AllocInitFailShape ==
  ASSUME Shape, NEW u \in Users,
         AllocInitFail(u)
  PROVE  Shape'
  <1> USE ObjsAssumption, MaxAutoAssumption, KnownsAssumption
      DEF Shape, AllocInitFail, Return, Goto, INVALID_OBJHLD
  <1>1. TypeOK'
    BY DEF TypeOK, FrameInv, TableInv
  <1>2. TableInv'
    BY DEF TypeOK, TableInv, FrameInv
  <1>3. FrameInv'
    BY DEF TypeOK, FrameInv, TableInv, OwnerInv
  <1>4. OwnerInv'
    BY DEF TypeOK, FrameInv, TableInv, OwnerInv
  <1>5. UnloadInv'
    BY DEF TypeOK, FrameInv, UnloadInv, TableInv
  <1>6. ClosingInv'
    BY DEF TypeOK, FrameInv, TableInv, ClosingInv
  <1>7. QED
    BY <1>1, <1>2, <1>3, <1>4, <1>5, <1>6

LEMMA InstallKnownShape ==
  ASSUME Shape, NEW u \in Users,
         pc[u] = "init", InstallKnown(u, cur[u]), Return(u),
         UNCHANGED <<status, refcnt, unloader, unloads>>
  PROVE  Shape'
  <1> USE ObjsAssumption, MaxAutoAssumption, KnownsAssumption
      DEF Shape, InstallKnown, Return, Goto, INVALID_OBJHLD
  <1>1. TypeOK'
    BY DEF TypeOK, FrameInv, TableInv
  <1>2. TableInv'
    BY DEF TypeOK, TableInv, FrameInv
  <1>3. FrameInv'
    BY DEF TypeOK, FrameInv, TableInv, OwnerInv
  <1>4. OwnerInv'
    BY DEF TypeOK, FrameInv, TableInv, OwnerInv
  <1>5. UnloadInv'
    BY DEF TypeOK, FrameInv, UnloadInv, TableInv
  <1>6. ClosingInv'
    BY DEF TypeOK, FrameInv, TableInv, ClosingInv
  <1>7. QED
    BY <1>1, <1>2, <1>3, <1>4, <1>5, <1>6

LEMMA InstallAutoShape ==
  ASSUME Shape, NEW u \in Users,
         pc[u] = "init", InstallAuto(u, cur[u]), Return(u),
         UNCHANGED <<status, refcnt, unloader, unloads>>
  PROVE  Shape'
  <1> USE ObjsAssumption, MaxAutoAssumption, KnownsAssumption
      DEF Shape, InstallAuto, Return, Goto, INVALID_OBJHLD
  <1>0. atoid + 1 \in Hlds /\ atoid + 1 \in 0..MaxAuto /\ atoid + 1 # -1
    BY DEF TypeOK, Hlds
  <1>1. TypeOK'
    BY <1>0 DEF TypeOK, FrameInv, TableInv
  <1>2. TableInv'
    BY <1>0 DEF TypeOK, TableInv, FrameInv
  <1>3. FrameInv'
    BY <1>0 DEF TypeOK, FrameInv, TableInv, OwnerInv
  <1>4. OwnerInv'
    BY <1>0 DEF TypeOK, FrameInv, TableInv, OwnerInv
  <1>5. UnloadInv'
    BY <1>0 DEF TypeOK, FrameInv, UnloadInv, TableInv
  <1>6. ClosingInv'
    BY <1>0 DEF TypeOK, FrameInv, TableInv, ClosingInv
  <1>7. QED
    BY <1>1, <1>2, <1>3, <1>4, <1>5, <1>6

LEMMA RefrShape ==
  ASSUME Shape, NEW u \in Users, NEW h \in Hlds,
         Refr(u, h)
  PROVE  Shape'
  <1> USE ObjsAssumption, MaxAutoAssumption, KnownsAssumption
      DEF Shape, Refr, Goto, INVALID_OBJHLD
  <1>1. TypeOK'
    BY DEF TypeOK, FrameInv, TableInv
  <1>2. TableInv'
    BY DEF TypeOK, TableInv, FrameInv
  <1>3. FrameInv'
    BY DEF TypeOK, FrameInv, TableInv, OwnerInv
  <1>4. OwnerInv'
    BY DEF TypeOK, FrameInv, TableInv, OwnerInv
  <1>5. UnloadInv'
    BY DEF TypeOK, FrameInv, UnloadInv, TableInv
  <1>6. ClosingInv'
    BY DEF TypeOK, FrameInv, TableInv, ClosingInv
  <1>7. QED
    BY <1>1, <1>2, <1>3, <1>4, <1>5, <1>6

LEMMA ReffShape ==
  ASSUME Shape, NEW u \in Users, NEW h \in Hlds,
         Reff(u, h)
  PROVE  Shape'
  <1> USE ObjsAssumption, MaxAutoAssumption, KnownsAssumption
      DEF Shape, Reff, Goto, INVALID_OBJHLD
  <1>1. TypeOK'
    BY DEF TypeOK, FrameInv, TableInv
  <1>2. TableInv'
    BY DEF TypeOK, TableInv, FrameInv
  <1>3. FrameInv'
    BY DEF TypeOK, FrameInv, TableInv, OwnerInv
  <1>4. OwnerInv'
    BY DEF TypeOK, FrameInv, TableInv, OwnerInv
  <1>5. UnloadInv'
    BY DEF TypeOK, FrameInv, UnloadInv, TableInv
  <1>6. ClosingInv'
    BY DEF TypeOK, FrameInv, TableInv, ClosingInv
  <1>7. QED
    BY <1>1, <1>2, <1>3, <1>4, <1>5, <1>6

LEMMA UnloadShape ==
  ASSUME Shape, NEW u \in Users,
         Unload(u)
  PROVE  Shape'
  <1> USE ObjsAssumption, MaxAutoAssumption, KnownsAssumption
      DEF Shape, Unload, Return, Goto, INVALID_OBJHLD
  <1>1. TypeOK'
    BY DEF TypeOK, FrameInv, TableInv
  <1>2. TableInv'
    BY DEF TypeOK, TableInv, FrameInv
  <1>3. FrameInv'
    BY DEF TypeOK, FrameInv, TableInv, OwnerInv
  <1>4. OwnerInv'
    BY DEF TypeOK, FrameInv, TableInv, OwnerInv
  <1>5. UnloadInv'
    BY DEF TypeOK, FrameInv, UnloadInv, TableInv
  <1>6. ClosingInv'
    BY DEF TypeOK, FrameInv, TableInv, ClosingInv
  <1>7. QED
    BY <1>1, <1>2, <1>3, <1>4, <1>5, <1>6

LEMMA HoldersFinite ==
  ASSUME NEW o
  PROVE  /\ IsFiniteSet(Holders(o))
         /\ Cardinality(Holders(o)) \in Nat
         /\ Cardinality(Holders(o)) = 0 <=> Holders(o) = {}
  BY UsersAssumption, FS_Subset, FS_CardinalityType, FS_EmptySet DEF Holders

\* An object whose count is zero is held by nobody.
LEMMA UncountedUnheld ==
  ASSUME IInv, NEW o \in Objs, mem[o] = "live", refcnt[o] = 0, NEW u \in Users, pc[u] = "using"
  PROVE  cur[u] # o
  BY HoldersFinite DEF IInv, RefcntCountsHolders, Holders

\* An object whose count is one is held by nobody but its holder.
LEMMA OneHolder ==
  ASSUME IInv, NEW o \in Objs, mem[o] = "live", refcnt[o] = 1,
         NEW u \in Users, pc[u] = "using", cur[u] = o,
         NEW v \in Users, pc[v] = "using", cur[v] = o
  PROVE  u = v
  <1>1. Cardinality(Holders(o)) = 1 /\ u \in Holders(o) /\ v \in Holders(o)
    BY DEF IInv, RefcntCountsHolders, Holders
  <1>2. Cardinality(Holders(o) \ {u}) = 0
    <2>1. IsFiniteSet(Holders(o))
      BY HoldersFinite
    <2>2. Cardinality(Holders(o) \ {u}) = Cardinality(Holders(o)) - 1
      BY <1>1, <2>1, FS_RemoveElement
    <2>3. QED
      BY <1>1, <2>2
  <1>3. Holders(o) \ {u} = {}
    <2>1. IsFiniteSet(Holders(o) \ {u})
      BY HoldersFinite, FS_RemoveElement
    <2>2. QED
      BY <1>2, <2>1, FS_EmptySet
  <1>4. QED
    BY <1>1, <1>3

LEMMA ClosShape ==
  ASSUME IInv, NEW u \in Users, NEW h \in Hlds, Clos(u, h)
  PROVE  Shape'
  <1> DEFINE o == table[h]
  <1> USE ObjsAssumption, MaxAutoAssumption, KnownsAssumption
      DEF IInv, Shape, Clos, Remove, Goto, INVALID_OBJHLD
  <1>0. o \in Objs /\ mem[o] = "live" /\ hld[o] = h
    BY DEF TypeOK, TableInv
  <1>a. \A v \in Users : pc[v] = "using" /\ refcnt[o] = 0 => cur[v] # o
    BY <1>0, UncountedUnheld
  <1>1. TypeOK'
    BY <1>0 DEF TypeOK
  <1>2. TableInv'
    BY <1>0 DEF TypeOK, TableInv
  <1>3. FrameInv'
    BY <1>0, <1>a DEF TypeOK, TableInv, FrameInv
  <1>4. OwnerInv'
    BY <1>0 DEF TypeOK, FrameInv, OwnerInv
  <1>5. UnloadInv'
    BY <1>0 DEF TypeOK, UnloadInv
  <1>6. ClosingInv'
    BY <1>0 DEF TypeOK, TableInv, ClosingInv
  <1>7. QED
    BY <1>1, <1>2, <1>3, <1>4, <1>5, <1>6

LEMMA DefrShape ==
  ASSUME IInv, NEW u \in Users, Defr(u)
  PROVE  Shape'
  <1> DEFINE o == cur[u]
  <1> USE ObjsAssumption, MaxAutoAssumption, KnownsAssumption
      DEF IInv, Shape, Defr, Remove, Return, Goto, INVALID_OBJHLD
  <1>0. /\ o \in Objs /\ table[via[u]] = o /\ via[u] \in Hlds
        /\ mem[o] = "live" /\ hld[o] = via[u]
    BY DEF TypeOK, TableInv, FrameInv
  <1>a. \A v \in Users : pc[v] = "using" /\ cur[v] = o /\ refcnt[o] = 1 => u = v
    BY <1>0, OneHolder
  <1>1. TypeOK'
    BY <1>0 DEF TypeOK
  <1>2. TableInv'
    BY <1>0 DEF TypeOK, TableInv
  <1>3. FrameInv'
    BY <1>0, <1>a DEF TypeOK, TableInv, FrameInv
  <1>4. OwnerInv'
    BY <1>0 DEF TypeOK, FrameInv, OwnerInv
  <1>5. UnloadInv'
    BY <1>0 DEF TypeOK, UnloadInv
  <1>6. ClosingInv'
    BY <1>0 DEF TypeOK, TableInv, ClosingInv
  <1>7. QED
    BY <1>1, <1>2, <1>3, <1>4, <1>5, <1>6

----------------------------------------------------------------------------
(* Counting.                                                               *)

LEMMA RefCounts ==
  ASSUME IInv, NEW u \in Users, NEW o \in Objs, NEW h, pc[u] = "idle",
         Goto(u, "using", o, h), mem' = mem,
         refcnt' = [refcnt EXCEPT ![o] = @ + 1]
  PROVE  RefcntCountsHolders'
  <1> SUFFICES ASSUME NEW p \in Objs, mem[p] = "live"
               PROVE  refcnt'[p] = Cardinality(Holders(p)')
    BY DEF RefcntCountsHolders
  <1>1. refcnt[p] = Cardinality(Holders(p))
    BY DEF IInv, RefcntCountsHolders
  <1>2. CASE p = o
    <2>1. Holders(p)' = Holders(p) \cup {u} /\ u \notin Holders(p)
      BY <1>2 DEF IInv, Shape, TypeOK, Goto, Holders
    <2>2. IsFiniteSet(Holders(p))
      BY HoldersFinite
    <2>3. Cardinality(Holders(p) \cup {u}) = Cardinality(Holders(p)) + 1
      BY <2>1, <2>2, FS_AddElement
    <2>4. QED
      BY <1>1, <1>2, <2>1, <2>3 DEF IInv, Shape, TypeOK
  <1>3. CASE p # o
    <2>1. Holders(p)' = Holders(p)
      BY <1>3 DEF IInv, Shape, TypeOK, Goto, Holders
    <2>2. QED
      BY <1>1, <1>3, <2>1 DEF IInv, Shape, TypeOK
  <1>4. QED
    BY <1>2, <1>3

LEMMA DefrCounts ==
  ASSUME IInv, NEW u \in Users, Defr(u)
  PROVE  RefcntCountsHolders'
  <1> DEFINE o == cur[u]
  <1>0. /\ o \in Objs /\ table[via[u]] = o /\ pc[u] = "using"
        /\ mem[o] = "live" /\ via[u] \in Hlds
    BY ObjsAssumption DEF IInv, Shape, TypeOK, TableInv, FrameInv, Defr
  <1>1. u \in Holders(o)
    BY <1>0 DEF Holders
  <1>2. refcnt[o] > 0
    BY <1>0, <1>1, HoldersFinite DEF IInv, RefcntCountsHolders
  <1>3. /\ refcnt' = [refcnt EXCEPT ![o] = @ - 1]
        /\ pc'[u] # "using"
        /\ \A v \in Users : v # u => pc'[v] = pc[v] /\ cur'[v] = cur[v]
    BY <1>0, <1>2, ObjsAssumption DEF IInv, Shape, TypeOK, Defr, Remove, Return, Goto
  <1> SUFFICES ASSUME NEW p \in Objs, mem'[p] = "live"
               PROVE  refcnt'[p] = Cardinality(Holders(p)')
    BY DEF RefcntCountsHolders
  <1>4. mem[p] = "live"
    BY <1>0 DEF IInv, Shape, TypeOK, Defr, Remove, Return, Goto
  <1>5. refcnt[p] = Cardinality(Holders(p))
    BY <1>4 DEF IInv, RefcntCountsHolders
  <1>6. CASE p = o
    <2>1. Holders(p)' = Holders(p) \ {u}
      BY <1>3, <1>6 DEF Holders
    <2>2. QED
      BY <1>1, <1>3, <1>5, <1>6, <2>1, HoldersFinite, FS_RemoveElement DEF IInv, Shape, TypeOK
  <1>7. CASE p # o
    <2>1. Holders(p)' = Holders(p)
      BY <1>0, <1>3, <1>7 DEF Holders
    <2>2. QED
      BY <1>3, <1>5, <1>7, <2>1 DEF IInv, Shape, TypeOK
  <1>8. QED
    BY <1>6, <1>7

\* A step of a frame that neither holds a reference before nor after it, and
\* makes at most its own unheld object live, keeps the counts.
LEMMA OtherCounts ==
  ASSUME IInv, NEW u \in Users, pc[u] # "using", pc'[u] # "using",
         \A v \in Users : v # u => pc'[v] = pc[v] /\ cur'[v] = cur[v],
         \A p \in Objs : mem'[p] = "live" =>
            /\ refcnt'[p] = refcnt[p]
            /\ mem[p] = "live" \/ (p = cur[u] /\ pc[u] = "init")
  PROVE  RefcntCountsHolders'
  <1> SUFFICES ASSUME NEW p \in Objs, mem'[p] = "live"
               PROVE  refcnt'[p] = Cardinality(Holders(p)')
    BY DEF RefcntCountsHolders
  <1>1. Holders(p)' = Holders(p)
    BY DEF Holders
  <1>2. CASE mem[p] = "live"
    BY <1>1, <1>2 DEF IInv, RefcntCountsHolders
  <1>3. CASE p = cur[u] /\ pc[u] = "init"
    <2>1. mem[p] = "init" /\ refcnt[p] = 0
      BY <1>3 DEF IInv, Shape, FrameInv
    <2>2. Holders(p) = {}
      BY <2>1, ObjsAssumption DEF IInv, Shape, FrameInv, TableInv, Holders
    <2>3. QED
      BY <1>1, <2>1, <2>2, FS_EmptySet
  <1>4. QED
    BY <1>2, <1>3

----------------------------------------------------------------------------
THEOREM InitIInv == Init => IInv
  <1> SUFFICES ASSUME Init PROVE IInv
    OBVIOUS
  <1>1. \A o \in Objs : Holders(o) = {}
    BY DEF Init, Holders
  <1>2. RefcntCountsHolders
    BY <1>1, FS_EmptySet DEF Init, RefcntCountsHolders
  <1>3. QED
    BY <1>2, InitShape DEF IInv

THEOREM NextIInv == IInv /\ [Next]_vars => IInv'
  <1> SUFFICES ASSUME IInv, [Next]_vars PROVE IInv'
    OBVIOUS
  <1>0. Shape /\ TypeOK
    BY DEF IInv, Shape
  <1>1. ASSUME NEW u \in Users, NEW o \in Objs, NEW known \in Knowns, NEW has \in Unloader,
               AllocBegin(u, o, known, has)
        PROVE  IInv'
    <2>1. RefcntCountsHolders'
      BY <1>0, <1>1, OtherCounts DEF AllocBegin, Goto, TypeOK
    <2>2. QED
      BY <1>0, <1>1, <2>1, AllocBeginShape DEF IInv
  <1>2. ASSUME NEW u \in Users, AllocInitFail(u)
        PROVE  IInv'
    <2>1. RefcntCountsHolders'
      BY <1>0, <1>2, OtherCounts DEF AllocInitFail, Return, Goto, TypeOK
    <2>2. QED
      BY <1>0, <1>2, <2>1, AllocInitFailShape DEF IInv
  <1>3. ASSUME NEW u \in Users, AllocInstall(u)
        PROVE  IInv'
    <2>1. RefcntCountsHolders'
      BY <1>0, <1>3, OtherCounts
      DEF AllocInstall, InstallKnown, InstallAuto, Return, Goto, TypeOK
    <2>2. Shape'
      BY <1>0, <1>3, InstallKnownShape, InstallAutoShape DEF AllocInstall
    <2>3. QED
      BY <2>1, <2>2 DEF IInv
  <1>4. ASSUME NEW u \in Users, NEW h \in Hlds, Refr(u, h)
        PROVE  IInv'
    <2>1. RefcntCountsHolders'
      BY <1>0, <1>4, RefCounts DEF Refr, TypeOK
    <2>2. QED
      BY <1>0, <1>4, <2>1, RefrShape DEF IInv
  <1>5. ASSUME NEW u \in Users, NEW h \in Hlds, Reff(u, h)
        PROVE  IInv'
    <2>1. RefcntCountsHolders'
      BY <1>0, <1>5, RefCounts DEF Reff, TypeOK
    <2>2. QED
      BY <1>0, <1>5, <2>1, ReffShape DEF IInv
  <1>6. ASSUME NEW u \in Users, Defr(u)
        PROVE  IInv'
    BY <1>6, DefrShape, DefrCounts DEF IInv
  <1>7. ASSUME NEW u \in Users, NEW h \in Hlds, Clos(u, h)
        PROVE  IInv'
    <2>1. RefcntCountsHolders'
      BY <1>0, <1>7, OtherCounts DEF Clos, Remove, Goto, TypeOK
    <2>2. QED
      BY <1>7, <2>1, ClosShape DEF IInv
  <1>8. ASSUME NEW u \in Users, Unload(u)
        PROVE  IInv'
    <2>1. RefcntCountsHolders'
      BY <1>0, <1>8, OtherCounts DEF Unload, Return, Goto, TypeOK
    <2>2. QED
      BY <1>0, <1>8, <2>1, UnloadShape DEF IInv
  <1>9. CASE UNCHANGED vars
    BY <1>9 DEF vars, IInv, Shape, TypeOK, TableInv, FrameInv, OwnerInv, UnloadInv, ClosingInv,
                RefcntCountsHolders, Holders
  <1>10. QED
    BY <1>1, <1>2, <1>3, <1>4, <1>5, <1>6, <1>7, <1>8, <1>9 DEF Next
----------------------------------------------------------------------------
(* The results.                                                            *)

THEOREM Inductive == Spec => []IInv
  BY InitIInv, NextIInv, PTL DEF Spec

\* Type correctness of the table, its objects and the call frames, at every
\* step of objallo3, objrefr, objreff, objdefr, objclos and the unloader.
THEOREM TypeCorrect == Spec => []TypeOK
  <1>1. IInv => TypeOK
    BY DEF IInv, Shape
  <1>2. QED
    BY <1>1, Inductive, PTL

\* The reference count of object.c is the number of references out.
THEOREM RefcntCorrect == Spec => []RefcntCountsHolders
  <1>1. IInv => RefcntCountsHolders
    BY DEF IInv
  <1>2. QED
    BY <1>1, Inductive, PTL

\* An object obtained from objrefr or objreff is not freed, and keeps its
\* handle, until objdefr; the assert of objdefr never fires.
THEOREM HeldObjectsAreSafe == Spec => []HeldObjectStays
  <1>1. IInv => HeldObjectStays
    <2> SUFFICES ASSUME IInv, NEW u \in Users, pc[u] = "using"
                 PROVE  mem[cur[u]] = "live" /\ table[via[u]] = cur[u] /\ refcnt[cur[u]] > 0
      BY DEF HeldObjectStays
    <2>1. cur[u] \in Objs /\ mem[cur[u]] = "live" /\ table[via[u]] = cur[u]
      BY ObjsAssumption DEF IInv, Shape, FrameInv, TableInv
    <2>2. refcnt[cur[u]] # 0
      BY <2>1, UncountedUnheld
    <2>3. QED
      BY <2>1, <2>2 DEF IInv, Shape, TypeOK
  <1>2. QED
    BY <1>1, Inductive, PTL

\* An object that objclos or objreff closed while it was referenced always
\* has a holder left whose objdefr takes it out of the table.
THEOREM CloseIsNotForgotten == Spec => []ClosingIsHeld
  <1>1. IInv => ClosingIsHeld
    <2> SUFFICES ASSUME IInv, NEW o \in Objs, mem[o] = "live", status[o] = "CLOSEWAIT"
                 PROVE  Holders(o) # {}
      BY DEF ClosingIsHeld
    <2>1. refcnt[o] > 0 /\ refcnt[o] = Cardinality(Holders(o))
      BY DEF IInv, Shape, ClosingInv, RefcntCountsHolders
    <2>2. QED
      BY <2>1, HoldersFinite
  <1>2. QED
    BY <1>1, Inductive, PTL

\* _objtagfree runs at most once per object, in one frame, after removal.
THEOREM UnloadIsUnique == Spec => []UnloadedOnce
  <1>1. IInv => UnloadedOnce
    BY ObjsAssumption
    DEF IInv, Shape, TypeOK, TableInv, FrameInv, OwnerInv, UnloadInv, UnloadedOnce
  <1>2. QED
    BY <1>1, Inductive, PTL

\* No step of any operation reopens a closed object or hands out a new
\* reference to it.
THEOREM ClosesAreFinal == Spec => CloseIsFinal
  <1> DEFINE Final == \A o \in Objs : mem[o] = "live" /\ status[o] = "CLOSEWAIT" =>
                        status'[o] = "CLOSEWAIT" /\ Holders(o)' \subseteq Holders(o)
  <1>1. IInv /\ [Next]_vars => [Final]_vars
    <2> SUFFICES ASSUME IInv, Next, NEW o \in Objs, mem[o] = "live", status[o] = "CLOSEWAIT"
                 PROVE  status'[o] = "CLOSEWAIT" /\ Holders(o)' \subseteq Holders(o)
      OBVIOUS
    <2> USE DEF IInv, Shape, TypeOK, Holders, Goto, Return
    <2>1. ASSUME NEW u \in Users, NEW p \in Objs, NEW known \in Knowns, NEW has \in Unloader,
                 AllocBegin(u, p, known, has)
          PROVE  status'[o] = "CLOSEWAIT" /\ Holders(o)' \subseteq Holders(o)
      BY <2>1 DEF AllocBegin
    <2>2. ASSUME NEW u \in Users, AllocInitFail(u) \/ AllocInstall(u) \/ Unload(u)
          PROVE  status'[o] = "CLOSEWAIT" /\ Holders(o)' \subseteq Holders(o)
      BY <2>2 DEF AllocInitFail, AllocInstall, Unload
    <2>3. ASSUME NEW u \in Users, NEW h \in Hlds, Refr(u, h) \/ Reff(u, h)
          PROVE  status'[o] = "CLOSEWAIT" /\ Holders(o)' \subseteq Holders(o)
      BY <2>3 DEF Refr, Reff
    <2>4. ASSUME NEW u \in Users, Defr(u)
          PROVE  status'[o] = "CLOSEWAIT" /\ Holders(o)' \subseteq Holders(o)
      BY <2>4 DEF Defr, Remove
    <2>5. ASSUME NEW u \in Users, NEW h \in Hlds, Clos(u, h)
          PROVE  status'[o] = "CLOSEWAIT" /\ Holders(o)' \subseteq Holders(o)
      BY <2>5 DEF Clos, Remove
    <2>6. QED
      BY <2>1, <2>2, <2>3, <2>4, <2>5 DEF Next
  <1>2. QED
    BY <1>1, Inductive, PTL DEF Spec, CloseIsFinal
----------------------------------------------------------------------------
(* Refinement.                                                             *)

LifeOf == [o \in Objs |-> Stage(o)]
HoldsOf == [u \in Users |-> IF pc[u] = "using" THEN cur[u] ELSE NoObj]

\* A step that disturbs one object changes the abstract stage of that one.
LEMMA OneStage ==
  ASSUME NEW o \in Objs,
         \A p \in Objs : p # o => mem'[p] = mem[p] /\ status'[p] = status[p]
  PROVE  LifeOf' = [LifeOf EXCEPT ![o] = Stage(o)'] /\ LifeOf[o] = Stage(o)
  <1>1. \A p \in Objs : p # o => Stage(p)' = Stage(p)
    BY DEF Stage
  <1>2. QED
    BY <1>1 DEF LifeOf

\* The table implements the abstract object life: handles, counters and the
\* two-phase removal of object.c add no behaviour to it.
THEOREM Implements == Spec => ImplementsLife
  <1>1. Init => Life!LifeInit
    BY DEF Init, Life!LifeInit, Stage
  <1>2. IInv /\ [Next]_vars => [Life!LifeNext]_(Life!lifeVars)
    <2> SUFFICES ASSUME IInv, [Next]_vars
                 PROVE  Life!LifeNext \/ UNCHANGED Life!lifeVars
      OBVIOUS
    <2> USE ObjsAssumption DEF IInv, Shape
    <2>1. ASSUME NEW u \in Users, NEW o \in Objs, NEW known \in Knowns, NEW has \in Unloader,
                 AllocBegin(u, o, known, has)
          PROVE  UNCHANGED Life!lifeVars
      BY <2>1 DEF AllocBegin, Goto, TypeOK, Life!lifeVars, Stage
    <2>2. ASSUME NEW u \in Users, AllocInitFail(u)
          PROVE  (\E o \in Objs : Life!Destroy(o)) \/ UNCHANGED Life!lifeVars
      <3>0. PICK o \in Objs : o = cur[u]
        BY <2>2 DEF AllocInitFail, FrameInv
      <3>1. Stage(o) = "absent" /\ Stage(o)' \in {"absent", "destroyed"}
        BY <2>2, <3>0 DEF AllocInitFail, TypeOK, FrameInv, Stage
      <3>2. LifeOf' = [LifeOf EXCEPT ![o] = Stage(o)'] /\ LifeOf[o] = Stage(o)
        BY <2>2, <3>0, OneStage DEF AllocInitFail, TypeOK
      <3>3. HoldsOf' = HoldsOf
        BY <2>2, <3>0 DEF AllocInitFail, Return, Goto, TypeOK, HoldsOf
      <3>4. Life!Destroy(o) \/ UNCHANGED Life!lifeVars
        BY <3>1, <3>2, <3>3 DEF Life!Destroy, Life!lifeVars, LifeOf, HoldsOf
      <3>5. QED
        BY <3>4
    <2>3. ASSUME NEW u \in Users, AllocInstall(u)
          PROVE  \/ \E o \in Objs : Life!Create(o) \/ Life!Destroy(o)
                 \/ UNCHANGED Life!lifeVars
      <3>1. CASE InstallKnown(u, cur[u])
        <4>0. PICK o \in Objs : o = cur[u]
          BY <2>3 DEF AllocInstall, FrameInv
        <4>1. Stage(o) = "absent" /\ Stage(o)' \in {"open", "destroyed"}
          BY <2>3, <3>1, <4>0 DEF AllocInstall, InstallKnown, TypeOK, FrameInv, Stage
        <4>2. LifeOf' = [LifeOf EXCEPT ![o] = Stage(o)'] /\ LifeOf[o] = Stage(o)
          BY <2>3, <3>1, <4>0, OneStage DEF AllocInstall, InstallKnown, TypeOK
        <4>3. HoldsOf' = HoldsOf
          BY <2>3 DEF AllocInstall, Return, Goto, TypeOK, HoldsOf
        <4>4. QED
          BY <4>0, <4>1, <4>2, <4>3 DEF Life!Create, Life!Destroy, LifeOf, HoldsOf
      <3>2. CASE InstallAuto(u, cur[u])
        <4>0. PICK o \in Objs : o = cur[u]
          BY <2>3 DEF AllocInstall, FrameInv
        <4>1. Stage(o) = "absent" /\ Stage(o)' \in {"absent", "open"}
          BY <2>3, <3>2, <4>0 DEF AllocInstall, InstallAuto, TypeOK, FrameInv, Stage
        <4>2. LifeOf' = [LifeOf EXCEPT ![o] = Stage(o)'] /\ LifeOf[o] = Stage(o)
          BY <2>3, <3>2, <4>0, OneStage DEF AllocInstall, InstallAuto, TypeOK
        <4>3. HoldsOf' = HoldsOf
          BY <2>3, <3>2, <4>0 DEF AllocInstall, InstallAuto, Return, Goto, TypeOK, HoldsOf
        <4>4. Life!Create(o) \/ UNCHANGED Life!lifeVars
          BY <4>1, <4>2, <4>3 DEF Life!Create, Life!lifeVars, LifeOf, HoldsOf
        <4>5. QED
          BY <4>4
      <3>3. QED
        BY <2>3, <3>1, <3>2 DEF AllocInstall
    <2>4. ASSUME NEW u \in Users, NEW h \in Hlds, Refr(u, h)
          PROVE  \E o \in Objs : Life!Acquire(u, o, "open")
      <3>0. PICK o \in Objs : o = table[h] /\ mem[o] = "live"
        BY <2>4 DEF Refr, TypeOK, TableInv
      <3>1. Stage(o) = "open" /\ Stage(o)' = "open"
        BY <2>4, <3>0 DEF Refr, TypeOK, Stage
      <3>2. LifeOf' = [LifeOf EXCEPT ![o] = Stage(o)'] /\ LifeOf[o] = Stage(o)
        BY <2>4, <3>0, OneStage DEF Refr, TypeOK
      <3>3. HoldsOf' = [HoldsOf EXCEPT ![u] = o] /\ HoldsOf[u] = NoObj
        BY <2>4, <3>0 DEF Refr, Goto, TypeOK, HoldsOf
      <3>4. QED
        BY <3>0, <3>1, <3>2, <3>3 DEF Life!Acquire, LifeOf, HoldsOf
    <2>5. ASSUME NEW u \in Users, NEW h \in Hlds, Reff(u, h)
          PROVE  \E o \in Objs : Life!Acquire(u, o, "closing")
      <3>0. PICK o \in Objs : o = table[h] /\ mem[o] = "live"
        BY <2>5 DEF Reff, TypeOK, TableInv
      <3>1. Stage(o) = "open" /\ Stage(o)' = "closing"
        BY <2>5, <3>0 DEF Reff, TypeOK, Stage
      <3>2. LifeOf' = [LifeOf EXCEPT ![o] = Stage(o)'] /\ LifeOf[o] = Stage(o)
        BY <2>5, <3>0, OneStage DEF Reff, TypeOK
      <3>3. HoldsOf' = [HoldsOf EXCEPT ![u] = o] /\ HoldsOf[u] = NoObj
        BY <2>5, <3>0 DEF Reff, Goto, TypeOK, HoldsOf
      <3>4. QED
        BY <3>0, <3>1, <3>2, <3>3 DEF Life!Acquire, LifeOf, HoldsOf
    <2>6. ASSUME NEW u \in Users, Defr(u)
          PROVE  \E o \in Objs : Life!GiveBack(u, o)
      <3>0. PICK o \in Objs : o = cur[u]
        BY <2>6 DEF Defr, FrameInv
      <3>1. /\ o \in Objs /\ cur[u] = o /\ table[via[u]] = o /\ via[u] \in Hlds /\ pc[u] = "using"
            /\ mem[o] = "live" /\ hld[o] = via[u]
        BY <2>6, <3>0 DEF Defr, TypeOK, TableInv, FrameInv
      <3>2. refcnt[o] # 0
        BY <3>1, UncountedUnheld
      <3>3. HoldsOf' = [HoldsOf EXCEPT ![u] = NoObj]
        BY <2>6, <3>1 DEF Defr, Remove, Return, Goto, TypeOK, HoldsOf
      <3>4. Life!Unheld(o) <=> refcnt[o] = 1
        <4>1. CASE refcnt[o] = 1
          <5>1. \A v \in Users : HoldsOf'[v] # o
            BY <3>1, <3>3, <4>1, OneHolder DEF HoldsOf
          <5>2. QED
            BY <4>1, <5>1 DEF Life!Unheld, HoldsOf
        <4>2. CASE refcnt[o] # 1
          <5>1. u \in Holders(o) /\ Cardinality(Holders(o)) = refcnt[o] /\ IsFiniteSet(Holders(o))
            BY <3>1, HoldersFinite DEF Holders, RefcntCountsHolders
          <5>2. Holders(o) # {u}
            BY <4>2, <5>1, FS_Singleton
          <5>3. PICK v \in Holders(o) : v # u
            BY <5>1, <5>2
          <5>4. HoldsOf'[v] = o /\ v \in Users
            BY <3>3, <5>3 DEF Holders, HoldsOf
          <5>5. QED
            BY <4>2, <5>4 DEF Life!Unheld, HoldsOf
        <4>3. QED
          BY <4>1, <4>2
      <3>5. CASE refcnt[o] = 1 /\ status[o] = "CLOSEWAIT"
        <4>1. LifeOf' = [LifeOf EXCEPT ![o] = "dead"] /\ LifeOf[o] = "closing"
          <5>1. Stage(o) = "closing" /\ Stage(o)' = "dead"
            BY <2>6, <3>1, <3>2, <3>5 DEF Defr, Remove, TypeOK, Stage
          <5>2. QED
            BY <2>6, <3>1, <3>2, <3>5, <5>1, OneStage DEF Defr, Remove, TypeOK
        <4>2. QED
          BY <3>1, <3>3, <3>4, <3>5, <4>1 DEF Life!GiveBack, LifeOf, HoldsOf
      <3>6. CASE ~(refcnt[o] = 1 /\ status[o] = "CLOSEWAIT")
        <4>1. LifeOf' = LifeOf /\ (LifeOf[o] = "closing" => refcnt[o] # 1)
          BY <2>6, <3>1, <3>2, <3>6 DEF Defr, Return, Goto, TypeOK, LifeOf, Stage
        <4>2. QED
          BY <3>1, <3>3, <3>4, <4>1 DEF Life!GiveBack, LifeOf, HoldsOf
      <3>7. QED
        BY <3>1, <3>5, <3>6
    <2>7. ASSUME NEW u \in Users, NEW h \in Hlds, Clos(u, h)
          PROVE  (\E o \in Objs : Life!Close(o)) \/ UNCHANGED Life!lifeVars
      <3>0. PICK o \in Objs : o = table[h]
        BY <2>7 DEF Clos, TypeOK
      <3>1. o \in Objs /\ o = table[h] /\ mem[o] = "live" /\ hld[o] = h
        BY <2>7, <3>0 DEF Clos, TypeOK, TableInv
      <3>2. HoldsOf' = HoldsOf
        BY <2>7 DEF Clos, Remove, Goto, TypeOK, HoldsOf
      <3>3. (\A v \in Users : HoldsOf'[v] # o) <=> refcnt[o] = 0
        <4>1. CASE refcnt[o] = 0
          BY <3>1, <3>2, <4>1, UncountedUnheld DEF HoldsOf
        <4>2. CASE refcnt[o] # 0
          <5>1. PICK v \in Holders(o) : TRUE
            BY <3>1, <4>2, HoldersFinite DEF RefcntCountsHolders
          <5>2. QED
            BY <3>2, <4>2, <5>1 DEF Holders, HoldsOf
        <4>3. QED
          BY <4>1, <4>2
      <3>4. CASE status[o] = "NORMAL" /\ refcnt[o] = 0
        <4>1. LifeOf' = [LifeOf EXCEPT ![o] = "dead"] /\ LifeOf[o] = "open"
          <5>1. Stage(o) = "open" /\ Stage(o)' = "dead"
            BY <2>7, <3>1, <3>4 DEF Clos, Remove, TypeOK, Stage
          <5>2. QED
            BY <2>7, <3>1, <3>4, <5>1, OneStage DEF Clos, Remove, TypeOK
        <4>2. QED
          BY <3>1, <3>2, <3>3, <3>4, <4>1 DEF Life!Close, Life!Unheld, LifeOf, HoldsOf
      <3>5. CASE status[o] = "NORMAL" /\ refcnt[o] # 0
        <4>1. LifeOf' = [LifeOf EXCEPT ![o] = "closing"] /\ LifeOf[o] = "open"
          <5>1. Stage(o) = "open" /\ Stage(o)' = "closing"
            BY <2>7, <3>1, <3>5 DEF Clos, TypeOK, Stage
          <5>2. QED
            BY <2>7, <3>1, <3>5, <5>1, OneStage DEF Clos, TypeOK
        <4>2. QED
          BY <3>1, <3>2, <3>3, <3>5, <4>1 DEF Life!Close, Life!Unheld, LifeOf, HoldsOf
      <3>6. CASE status[o] # "NORMAL"
        <4>1. LifeOf' = LifeOf
          BY <2>7, <3>1, <3>6 DEF Clos, TypeOK, LifeOf, Stage
        <4>2. QED
          BY <3>2, <4>1 DEF Life!lifeVars, LifeOf, HoldsOf
      <3>7. QED
        BY <3>4, <3>5, <3>6
    <2>8. ASSUME NEW u \in Users, Unload(u)
          PROVE  \E o \in Objs : Life!Destroy(o)
      <3>0. PICK o \in Objs : o = cur[u]
        BY <2>8 DEF Unload, FrameInv
      <3>1. Stage(o) = "dead" /\ Stage(o)' \in {"destroyed"}
        BY <2>8, <3>0 DEF Unload, TypeOK, FrameInv, Stage
      <3>2. LifeOf' = [LifeOf EXCEPT ![o] = Stage(o)'] /\ LifeOf[o] = Stage(o)
        BY <2>8, <3>0, OneStage DEF Unload, TypeOK
      <3>3. HoldsOf' = HoldsOf
        BY <2>8, <3>0 DEF Unload, Return, Goto, TypeOK, HoldsOf
      <3>4. Life!Destroy(o)
        BY <3>1, <3>2, <3>3 DEF Life!Destroy, LifeOf, HoldsOf
      <3>5. QED
        BY <3>4
    <2>9. CASE UNCHANGED vars
      BY <2>9 DEF vars, Life!lifeVars, Stage
    <2>10. ASSUME NEW u \in Users, AllocInitFail(u) \/ AllocInstall(u)
           PROVE  Life!LifeNext \/ UNCHANGED Life!lifeVars
      BY <2>2, <2>3, <2>10 DEF Life!LifeNext
    <2>11. ASSUME NEW u \in Users, NEW h \in Hlds, Refr(u, h) \/ Reff(u, h) \/ Clos(u, h)
           PROVE  Life!LifeNext \/ UNCHANGED Life!lifeVars
      BY <2>4, <2>5, <2>7, <2>11 DEF Life!LifeNext
    <2>12. ASSUME NEW u \in Users, Defr(u) \/ Unload(u)
           PROVE  Life!LifeNext
      BY <2>6, <2>8, <2>12 DEF Life!LifeNext
    <2>13. QED
      BY <2>1, <2>9, <2>10, <2>11, <2>12 DEF Next
  <1>3. QED
    BY <1>1, <1>2, Inductive, PTL DEF Spec, ImplementsLife, Life!LifeSpec

=============================================================================
