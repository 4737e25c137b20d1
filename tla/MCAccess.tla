------------------------------ MODULE MCAccess ------------------------------
(***************************************************************************)
(* Instances of AccessController for TLC: the specs users write.           *)
(***************************************************************************)
EXTENDS AccessController

To(e, s, b) == [env |-> e, share |-> s, bind |-> b]

\* a1 changes its share, its address and its environment, and names a share
\* that does not exist; a2 wants the same address.
MCSpecs ==
  [a \in Access |->
     IF a = "a1"
     THEN {To("e1", "s1", AnyBind), To("e1", "s2", "b1"), To("e2", "s1", "b1"),
           To("e1", "s3", AnyBind)}
     ELSE {To("e1", "s1", "b1")}]
=============================================================================
