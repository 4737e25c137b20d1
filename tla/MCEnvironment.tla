---------------------------- MODULE MCEnvironment ----------------------------
(***************************************************************************)
(* Instances of EnvironmentController for TLC: the specs users write.      *)
(***************************************************************************)
EXTENDS EnvironmentController

At(h, p) == [scheme |-> "https", userinfo |-> FALSE, host |-> h, port |-> p]
Zrok == At("zrok", None)
SpecOf(i, u, p) == [image |-> i, api |-> u, policy |-> p]

\* Both policies, two images and one that is not allowed, an endpoint that
\* is allowed on its own port only, and ones that are refused.
LifecycleSpecs ==
  {SpecOf("i1", Zrok, "Delete"), SpecOf("i2", Zrok, "Retain"),
   SpecOf("i3", Zrok, "Delete"), SpecOf("i1", At("self", "8443"), "Delete"),
   SpecOf("i1", At("self", "443"), "Delete"),
   SpecOf("i1", [Zrok EXCEPT !.scheme = "http"], "Delete")}
FaultSpecs == {SpecOf("i1", Zrok, "Delete"), SpecOf("i2", Zrok, "Retain")}
OneSpec == {SpecOf("i1", Zrok, "Delete")}

MCAllowedAPIHost == {[host |-> "self", port |-> "8443"]}
=============================================================================
