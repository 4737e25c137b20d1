------------------------------ MODULE MCIngress ------------------------------
(***************************************************************************)
(* Instances of IngressController for TLC.                                 *)
(***************************************************************************)
EXTENDS IngressController

Written(l, d, s) == [label |-> l, domain |-> d, spelling |-> s]
Rule(c, e, a, h, b) == [class |-> c, env |-> e, ann |-> a, host |-> h, backend |-> b]

\* With and without annotations, a name as a label and as a host of zrok's,
\* another domain, no name, another class, and backends of no use.
MCSpecs ==
  {Rule("zrok", None, None, Written("n1", "shares.zrok.io", "plain"), "u1"),
   Rule("zrok", "e2", Written("n2", "none", "url"), Written("n1", "elsewhere", "plain"), "u2"),
   Rule("zrok", None, None, None, "u1"),
   Rule("other", None, None, None, "u1"),
   Rule("zrok", None, None, None, "invalid"),
   Rule("zrok", None, None, None, "nohttp")}

MCShares == {[env |-> "e1", name |-> [label |-> "n1", domain |-> "none"], upstream |-> "u2"]}
=============================================================================
