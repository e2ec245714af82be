-------------------------------- MODULE Lease --------------------------------
(***************************************************************************)
(* What nested try/finally statements promise, whatever they protect:      *)
(* resources are taken one inside the other, given back in the opposite    *)
(* order, and each is either given back or lost (and stays lost, nobody    *)
(* answering for it).  It ends with nothing held.                          *)
(***************************************************************************)
EXTENDS Naturals

CONSTANT Depth   \* how deep the statements are nested

(* A resource is known by its place, from the outside in.                  *)
Places == 1..Depth

VARIABLES held,   \* the resources someone will give back
          lost,   \* the resources nobody will give back any more
          over    \* the program is over

vars == <<held, lost, over>>

TypeOK == held \subseteq Places /\ lost \subseteq Places /\ over \in BOOLEAN

Init == held = {} /\ lost = {} /\ over = FALSE

(* It may end in any step after which nothing is held, and stays over.     *)
MayEnd == over' \in BOOLEAN /\ (over => over') /\ (over' /\ ~over => held' = {})

(* What is taken is taken inside everything that is held.                  *)
Acquire(p) ==
  /\ ~over /\ p \notin lost /\ \A h \in held : h < p
  /\ held' = held \cup {p}
  /\ UNCHANGED <<lost, over>>

(* Taken, but interrupted before anybody answers for it.                   *)
Miss(p) ==
  /\ ~over /\ p \notin held \cup lost
  /\ lost' = lost \cup {p}
  /\ UNCHANGED held
  /\ MayEnd

(* Only the innermost resource is given back.                              *)
Release(p) ==
  /\ p \in held /\ \A h \in held : h <= p
  /\ held' = held \ {p}
  /\ UNCHANGED lost
  /\ MayEnd

(* An exception, or a release given up on: of what is held, the innermost  *)
(* part is lost, down to some depth.                                       *)
Abandon ==
  /\ held' \subseteq held
  /\ \A h \in held' : \A g \in held \ held' : h < g
  /\ lost' = lost \cup (held \ held')
  /\ MayEnd

Next == Abandon \/ \E p \in Places : Acquire(p) \/ Miss(p) \/ Release(p)

Spec == Init /\ [][Next]_vars

(* It is over only with nothing held, and nothing is both held and lost.   *)
NothingHeldInTheEnd == (over => held = {}) /\ held \cap lost = {}
=============================================================================
