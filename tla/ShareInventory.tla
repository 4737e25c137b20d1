--------------------------- MODULE ShareInventory ---------------------------
(***************************************************************************)
(* The decisions of internal/controller/share_inventory.go and             *)
(* share_apply.go as operators: what a reserved name or a status token     *)
(* maps to in one reconcile's inventory, whether a live agent share may be *)
(* adopted, whose token a share token is, and what the applied-digest      *)
(* covers.  No state is changed here; ShareController uses the operators.  *)
(*                                                                         *)
(* An optional pointer of the code (nil or one element) is a set with at   *)
(* most one element.  Where the code takes the first match of a list whose *)
(* order it does not control, the operator gives the set of possible       *)
(* results and the caller chooses with \E.                                 *)
(***************************************************************************)
EXTENDS Naturals, FiniteSets

CONSTANTS
  Share,            \* the ZrokShare objects (namespace/name)
  Env,              \* the ZrokEnvironments they may refer to
  Target,           \* upstream URLs a ZrokShare may name, as spelled
  ForeignTarget,    \* upstream URLs of shares the operator did not make
  normalizeTarget,  \* a URL's normal form, as a function on both sets
  Backend,          \* backend modes
  Name,             \* reserved frontend names
  Opt,              \* oauth, insecure and access grants: digest only
  Auth,             \* basic-auth credentials: digest only, read up front
  Token,            \* share tokens given to shares the operator makes
  PrivToken,        \* the tokens among them a user may ask for
  ForeignToken,     \* share tokens of shares the operator did not make
  None              \* the empty string or nil pointer of the code

ASSUME PrivTokenAssumption == PrivToken \subseteq Token
ASSUME ForeignTokenAssumption == Token \cap ForeignToken = {}
ASSUME NoneAssumption ==
  /\ None \notin Token
  /\ None \notin ForeignToken
  /\ None \notin Name
\* Identity of a zrok share is name + target: nobody else serves a target
\* that a ZrokShare names as its upstream.
ASSUME ForeignTargetAssumption ==
  \A t \in Target, f \in ForeignTarget : normalizeTarget[t] # normalizeTarget[f]

-----------------------------------------------------------------------------
(* ZrokShareSpec: environmentRef, shareMode, backendMode, upstream.url,    *)
(* closed, nameSelection.name, privateShareToken, the options only the     *)
(* digest sees, and reclaimPolicy.                                         *)
Mode == {"public", "private"}
ShareSpec ==
  [env : Env, mode : Mode, backend : Backend, target : Target,
   closed : BOOLEAN, name : Name \cup {None}, priv : PrivToken \cup {None},
   opts : Opt, auth : Auth \cup {None}, policy : {"Delete", "Retain"}]

\* What shareApplyDigest hashes: the spec without its reclaimPolicy.
Digest ==
  [env : Env, mode : Mode, backend : Backend, target : Target,
   closed : BOOLEAN, name : Name \cup {None}, priv : PrivToken \cup {None},
   opts : Opt, auth : Auth \cup {None}]

\* A share made through an agent, as the controller API lists it and as the
\* agent's Status reports it (active is the agent's; by is the ZrokShare it
\* was made for, which neither records).
OwnShare ==
  [token : Token, env : Env, target : Target, name : Name \cup {None},
   mode : Mode, backend : Backend, closed : BOOLEAN, opts : Opt,
   auth : Auth \cup {None}, active : BOOLEAN, by : Share]

\* A share made by somebody else, in a listed environment or elsewhere (None).
ForeignShare ==
  [token : ForeignToken, env : Env \cup {None}, target : ForeignTarget,
   name : Name \cup {None}, mode : {"public"}, active : {TRUE}]

-----------------------------------------------------------------------------
\* Mutant of TargetsEqual: only the scheme is compared.
SchemesEqual(a, b) == (a \in Target) = (b \in Target)

TargetsEqual(a, b) == normalizeTarget[a] = normalizeTarget[b]

FindByToken(shares, token) == {r \in shares : r.token = token}

FindByFrontendName(shares, name) ==
  {r \in shares : name # None /\ r.name = name}

agentByName(agents, name) ==
  {d \in FindByFrontendName(agents, name) : d.active}

\* The first lookup that finds something.
FirstOf(found, otherwise) == IF found # {} THEN found ELSE otherwise

\* The results of taking one match: none if there is none.
Pick(matches) == IF matches = {} THEN {{}} ELSE {{r} : r \in matches}

\* The results classifyShare may have for ZrokShare object o.
classifyShare(o, desired, inv) ==
  LET remotes == FirstOf(FindByToken(inv.remote, o.token),
                   FirstOf(FindByFrontendName(inv.remote, o.spec.name),
                           FindByToken(inv.remote, o.spec.priv)))
      agents  == FirstOf(FindByToken(inv.agent, o.token),
                         agentByName(inv.agent, o.spec.name))
      holders == {h \in FindByFrontendName(inv.remote, o.spec.name) :
                    /\ ~TargetsEqual(h.target, desired)
                    /\ h.token # o.token}
  IN  [remote      : Pick(FirstOf(holders, remotes)),
       agent       : Pick(agents),
       foreignName : {holders # {}}]

\* Mutant of isOurShareToken: a listed share counts as ours, whatever it serves.
isListedShareToken(o, token, inv) ==
  \/ token = o.token
  \/ FindByToken(inv.remote, token) # {}
  \/ FindByToken(inv.agent, token) # {}

isOurShareToken(o, token, inv) ==
  \/ token = o.token
  \/ \E r \in FindByToken(inv.remote, token) : TargetsEqual(r.target, o.spec.target)
  \/ FindByToken(inv.remote, token) = {} /\ FindByToken(inv.agent, token) # {}

\* The other ZrokShares, not being deleted, that claim the name.
otherShareWithFrontendName(self, name, all) ==
  {o \in Share \ {self} :
     name # None /\ all[o].phase = "live" /\ all[o].spec.name = name}

-----------------------------------------------------------------------------
agentShareMatchesSpec(o, d, desired) ==
  /\ d.active
  /\ TargetsEqual(d.target, desired)
  /\ d.mode = o.spec.mode
  /\ d.backend = o.spec.backend
  /\ d.closed = o.spec.closed
  /\ o.spec.priv # None => d.token = o.spec.priv
  /\ IF o.spec.name = None THEN o.reservation # "reserved"
                           ELSE d.name = o.spec.name

shareApplyDigest(s) ==
  [env |-> s.env, mode |-> s.mode, backend |-> s.backend, target |-> s.target,
   closed |-> s.closed, name |-> s.name, priv |-> s.priv, opts |-> s.opts,
   auth |-> s.auth]

\* Mutant of shareDigestDrifted: what the agent does not report never drifts.
shareDigestIgnored(o, digest) == FALSE

\* No applied digest (an upgrade, or a stamp that never landed) is no drift.
shareDigestDrifted(o, digest) == o.digest # None /\ o.digest # digest

\* The agent share to adopt, if there is one.
adoptableAgentShare(o, cls, desired, digest) ==
  {d \in cls.agent : /\ agentShareMatchesSpec(o, d, desired)
                     /\ ~shareDigestDrifted(o, digest)}

\* The DNS label of a share's frontend URL: its reserved name, or a label of
\* its own for an ephemeral public share; a private share has no frontend.
FrontendName(r) ==
  IF r.name # None THEN r.name ELSE IF r.mode = "public" THEN r.token ELSE None

FrontendNames(shares) == {FrontendName(r) : r \in shares} \ {None}

liveFrontendName(o, cls) ==
  CHOOSE n \in FirstOf(FrontendNames(cls.agent),
                 FirstOf(FrontendNames(cls.remote), {o.url})) : TRUE
=============================================================================
