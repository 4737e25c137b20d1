----------------------------- MODULE ShareBinding -----------------------------
(***************************************************************************)
(* What ZrokShare objects and shares are to each other, whatever the       *)
(* reconciler does to keep it so.  zrok keeps no owner on a share: all     *)
(* there is to connect the two is the token in the object's status.  An    *)
(* object has one share at a time, a share is made or taken up, then       *)
(* recorded, and a recorded token is dropped only after its share.         *)
(***************************************************************************)
CONSTANTS Share, Token, None

VARIABLES
  shares,  \* the shares there are: token, and the object it was made for
  bound,   \* the token in the status of each object
  hand     \* the share that is about to be recorded, if there is one

Init == shares = {} /\ bound = [s \in Share |-> None] /\ hand = {}

Of(s) == {r \in shares : r.by = s}

\* No other object has token t.
Vacant(t, s) ==
  /\ \A r \in shares : r.token = t => r.by = s
  /\ \A o \in Share \ {s} : bound[o] # t

\* A share is made for an object that has none ...
Make(s) ==
  /\ hand = {} /\ Of(s) = {}
  /\ \E t \in Token :
       /\ Vacant(t, s)
       /\ hand' = {[token |-> t, by |-> s]}
       /\ shares' = shares \cup hand'
  /\ UNCHANGED bound

\* ... or the one share it has is taken up.
TakeUp(s) ==
  /\ hand = {}
  /\ \E t \in Token :
       /\ Vacant(t, s)
       /\ \A r \in Of(s) : r.token = t
       /\ hand' = {[token |-> t, by |-> s]}
  /\ UNCHANGED <<shares, bound>>

Record ==
  /\ \E h \in hand : bound' = [bound EXCEPT ![h.by] = h.token]
  /\ hand' = {}
  /\ UNCHANGED shares

\* An object forgets its token when its share is gone.
Forget(s) ==
  /\ hand = {} /\ Of(s) = {}
  /\ bound' = [bound EXCEPT ![s] = None]
  /\ UNCHANGED <<shares, hand>>

\* Shares are released, or go by themselves.
Go == shares' \subseteq shares /\ UNCHANGED <<bound, hand>>

Next == (\E s \in Share : Make(s) \/ TakeUp(s) \/ Forget(s)) \/ Record \/ Go

Spec == Init /\ [][Next]_<<shares, bound, hand>>
=============================================================================
