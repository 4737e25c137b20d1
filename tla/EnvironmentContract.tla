------------------------ MODULE EnvironmentContract ------------------------
(***************************************************************************)
(* The abstract environment: what the share and access controllers rely    *)
(* on.  state is what its status says, claimed whether a share that is not *)
(* being deleted refers to it, leaving whether its deletion is under way.  *)
(***************************************************************************)
EXTENDS EnvironmentStates

VARIABLES state, claimed, leaving

Init == state = "missing" /\ claimed \in BOOLEAN /\ ~leaving

\* An environment that has been enabled goes only by way of a deletion.
Moves ==
  /\ state' \in Follows(state)
  /\ state' = "missing" /\ state # "pending" => leaving
  /\ leaving' = (leaving /\ state' # "missing")
  /\ UNCHANGED claimed

\* A deletion gets under way only when no live share refers to the
\* environment; it may be given up and taken up again.
Leaves == state # "missing" /\ ~leaving /\ ~claimed /\ leaving' /\ UNCHANGED <<state, claimed>>
Stays == leaving /\ ~leaving' /\ UNCHANGED <<state, claimed>>

SharesChange == claimed' \in BOOLEAN /\ UNCHANGED <<state, leaving>>

Next == Moves \/ Leaves \/ Stays \/ SharesChange
Spec == Init /\ [][Next]_<<state, claimed, leaving>>
=============================================================================
