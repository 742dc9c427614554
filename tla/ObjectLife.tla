---------------------------- MODULE ObjectLife -----------------------------
(***************************************************************************)
(* What the handle table promises about one object, without handles,       *)
(* counters or locks: an object is open, then closing, then dead, then     *)
(* destroyed; references are obtained only while it is open; it dies at    *)
(* the moment it is closed and nobody holds it; it is destroyed once.      *)
(***************************************************************************)
CONSTANTS Objs, Users, NoObj

VARIABLES life,   \* the stage of each object
          holds   \* the object each user holds a reference to

lifeVars == <<life, holds>>

LifeInit ==
    /\ life = [o \in Objs |-> "absent"]
    /\ holds = [u \in Users |-> NoObj]

Unheld(o) == \A u \in Users : holds'[u] # o

Create(o) ==
    /\ life[o] = "absent"
    /\ life' = [life EXCEPT ![o] = "open"]
    /\ UNCHANGED holds

\* An ordinary reference leaves the object open, a finalizing one closes it.
Acquire(u, o, stage) ==
    /\ holds[u] = NoObj
    /\ life[o] = "open"
    /\ holds' = [holds EXCEPT ![u] = o]
    /\ life' = [life EXCEPT ![o] = stage]

GiveBack(u, o) ==
    /\ holds[u] = o
    /\ holds' = [holds EXCEPT ![u] = NoObj]
    /\ life' = [life EXCEPT ![o] =
                  IF @ = "closing" /\ Unheld(o) THEN "dead" ELSE @]

Close(o) ==
    /\ life[o] = "open"
    /\ UNCHANGED holds
    /\ life' = [life EXCEPT ![o] = IF Unheld(o) THEN "dead" ELSE "closing"]

\* Objects that were never opened may also be discarded.
Destroy(o) ==
    /\ life[o] \in {"absent", "dead"}
    /\ life' = [life EXCEPT ![o] = "destroyed"]
    /\ UNCHANGED holds

LifeNext ==
    \E o \in Objs :
        \/ Create(o) \/ Close(o) \/ Destroy(o)
        \/ \E u \in Users : \/ \E stage \in {"open", "closing"} : Acquire(u, o, stage)
                            \/ GiveBack(u, o)

LifeSpec == LifeInit /\ [][LifeNext]_lifeVars
=============================================================================
