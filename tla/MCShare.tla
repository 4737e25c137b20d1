------------------------------- MODULE MCShare -------------------------------
(***************************************************************************)
(* Instances of ShareController for TLC: which specs users write into      *)
(* which object.                                                           *)
(***************************************************************************)
EXTENDS ShareController

\* A public share with a reserved name (or none); the rest at its default.
Named(e, n, t, o) ==
  [env |-> e, mode |-> "public", backend |-> "proxy", target |-> t,
   closed |-> FALSE, name |-> n, priv |-> None, opts |-> o, auth |-> None,
   policy |-> "Delete"]

\* "a" and "a/" are two spellings of one upstream.
MCNormalize == [t \in Target \cup ForeignTarget |-> IF t = "a/" THEN "a" ELSE t]

\* One object: two names, another account's name, two upstreams and one that
\* is refused, two spellings, other options, no name, a private share.
LifecycleSpecs ==
  [s \in Share |->
     {Named("e1", "n1", "a", "o1"), Named("e1", "n2", "a/", "o2"),
      Named("e1", "n1", "b", "o1"), Named("e1", "n3", "a", "o1"),
      Named("e1", "n1", "c", "o1"), Named("e1", None, "a", "o1"),
      [Named("e1", None, "a", "o1") EXCEPT !.mode = "private", !.priv = "p1"]}]

\* One object that always has a reserved name, and the name changes, or the
\* name and the upstream.
RenameSpecs ==
  [s \in Share |-> {Named("e1", n, "a", "o1") : n \in {"n1", "n2", "n3"}}
                   \cup {Named("e1", "n2", "b", "o1")}]

\* One object whose options, which only the digest tells apart, change.
OptionSpecs ==
  [s \in Share |-> {Named("e1", "n1", "a", o) : o \in {"o1", "o2"}}]

\* ... and may become a proxy that --restrict-upstream refuses.
FaultSpecs ==
  [s \in Share |-> OptionSpecs[s] \cup {[Named("e1", "n1", "a", "o1") EXCEPT !.backend = "socks"]}]

\* Two objects with upstreams of their own that compete for two names.
RivalSpecs ==
  [s \in Share |-> {Named("e1", n, IF s = "s1" THEN "a" ELSE "b", "o1") :
                      n \in {"n1", "n2"}}]

\* Two objects that serve the same upstream under two names.
TwinSpecs ==
  [s \in Share |-> {Named("e1", n, "a", "o1") : n \in {"n1", "n2"}}]
=============================================================================
