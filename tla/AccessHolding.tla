----------------------------- MODULE AccessHolding -----------------------------
(***************************************************************************)
(* What ZrokAccess objects and the accesses of the agents are to each      *)
(* other, whatever the reconciler does to keep it so.  All there is to     *)
(* connect the two is the frontend token in the object's status: an access *)
(* is made for an object that has no token, then recorded, and an access   *)
(* whose token nobody has is one of the losses.                            *)
(***************************************************************************)
EXTENDS Integers, FiniteSets

CONSTANTS Access, Token, None

VARIABLES
  accesses,  \* the accesses there are: token, and the object it was made for
  bound,     \* the token in the status of each object
  hand,      \* the access that is about to be recorded, if there is one
  losses     \* crashes, lost answers, failed releases, moves of an object

Init == /\ accesses = {} /\ bound = [a \in Access |-> None]
        /\ hand = {} /\ losses = 0

\* The accesses that nobody will find again.
Strays == {r \in accesses : bound[r.by] # r.token /\ r \notin hand}

\* No access and no object has token t.
Vacant(t) == (\A r \in accesses : r.token # t) /\ (\A o \in Access : bound[o] # t)

\* An access is made for an object that has none, and noticed or lost.
Make(a) ==
  /\ hand = {} /\ bound[a] = None
  /\ \E t \in Token :
       LET r == [token |-> t, by |-> a]
       IN  /\ Vacant(t)
           /\ accesses' = accesses \cup {r}
           /\ \/ hand' = {r} /\ losses' = losses
              \/ hand' = {} /\ losses' = losses + 1
  /\ UNCHANGED bound

\* The access an object names is confirmed.
TakeUp(a) ==
  /\ hand = {}
  /\ LET r == [token |-> bound[a], by |-> a] IN r \in accesses /\ hand' = {r}
  /\ UNCHANGED <<accesses, bound, losses>>

Record ==
  /\ \E h \in hand : bound' = [bound EXCEPT ![h.by] = h.token]
  /\ hand' = {}
  /\ UNCHANGED <<accesses, losses>>

Forget(a) ==
  /\ hand = {}
  /\ bound' = [bound EXCEPT ![a] = None]
  /\ UNCHANGED <<accesses, hand, losses>>

\* Accesses are released, or go by themselves.
Go == accesses' \subseteq accesses /\ UNCHANGED <<bound, hand, losses>>

Lose == hand' \subseteq hand /\ losses' = losses + 1 /\ UNCHANGED <<accesses, bound>>

Change ==
  (\E a \in Access : Make(a) \/ TakeUp(a) \/ Forget(a)) \/ Record \/ Go \/ Lose

\* There are no more strays than losses to account for them: a token is
\* forgotten after its access, or as a loss.
Accounted == Cardinality(Strays) <= losses

Next == Change /\ Accounted'

Spec == Init /\ [][Next]_<<accesses, bound, hand, losses>>
=============================================================================
