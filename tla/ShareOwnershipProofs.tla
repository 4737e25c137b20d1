------------------------ MODULE ShareOwnershipProofs ------------------------
(***************************************************************************)
(* Objects with upstreams of their own never hold each other's share,      *)
(* whatever fails, and never release it while the listing is readable:     *)
(* TokenExclusive and ReleasesOwnOnly.  zrok keeps no owner on a share, so *)
(* what a reconcile takes in hand must follow from tokens, names and       *)
(* targets.  The decisions are proved correct as operators on what the     *)
(* worker, the account, the agents and the objects hold (x, R, A and C     *)
(* below), the actions after that.                                         *)
(***************************************************************************)
EXTENDS ShareControllerProofs

\* The upstreams of the specs that users write into object s.
Upstreams(s) == {sp.target : sp \in UserSpec[s]}

\* ... and the tokens they ask for.
PrivOf(s) == {sp.priv : sp \in UserSpec[s]} \ {None}

\* No two objects have an upstream in common or ask for one private token.
Apart ==
  \A s, t \in Share : s # t =>
    /\ \A a \in Upstreams(s), b \in Upstreams(t) : ~TargetsEqual(a, b)
    /\ PrivOf(s) \cap PrivOf(t) = {}

\* The enable tokens and the EnvZIDs are there, and so are the environments.
Keyed == FaultKind \cap {"secret", "unkey", "removed"} = {}

\* ... and a reconcile that needs the listing gets it.
Readable == Keyed /\ "list" \notin FaultKind

\* Share d, listed, reported or seen earlier, says by its target for whom it
\* was made, and nobody else has its token.
Known(d, R, A, C) ==
  /\ d.target \in Upstreams(d.by)
  /\ d.token \in PrivToken => d.token \in PrivOf(d.by) /\ d.name = None
  /\ \A c \in R \cup A : c.token = d.token => c.by = d.by
  /\ \A s \in Share : C[s].token = d.token => s = d.by

\* The records among R that were made for object k.
Mine(k, R) == {r \in R : r.by = k}

\* Two records of one share, of which only one may be active.  (A private
\* token may be used again for another share.)
Same(c, d) ==
  c.token = d.token /\ c.by = d.by /\ c.env = d.env /\ c.name = d.name /\ c.target = d.target

Traced(R, A, C) ==
  \A d \in R \cup A : /\ Known(d, R, A, C)
                      /\ d.token \notin PrivToken =>
                           \A c \in R \cup A : c.token = d.token => Same(c, d)

\* Nobody but k has token tok.
Ours(tok, k, R, A, C) ==
  tok # None =>
    /\ tok \in PrivToken => tok \in PrivOf(k)
    /\ \A s \in Share : C[s].token = tok => s = k
    /\ \A d \in R \cup A : d.token = tok => d.by = k

\* With a listing to go by, to unshare tok on behalf of k takes no share from
\* another object.
Harmless(tok, k, R) == Readable => \A r \in R : r.token = tok => r.by = k

\* What a reconcile found and may adopt or release.
Classified(k, cls, R, A, C) ==
  /\ \A r \in cls.remote : r.token \in Token => Known(r, R, A, C)
  /\ \A d \in cls.agent : Known(d, R, A, C) /\ Harmless(d.token, k, R)

\* What a deletion has listed.
Listed(inv, R, A, C) ==
  /\ \A r \in inv.remote : r.token \in Token => Known(r, R, A, C)
  /\ Readable =>
       \A r \in R : r.token \notin PrivToken /\ FindByToken(inv.agent, r.token) # {} =>
         FindByToken(inv.remote, r.token) # {}

\* The worker's copy is of its object, and its token of its own.
Carries(x, R, A, C) ==
  /\ x.obj.spec \in UserSpec[x.key] /\ x.dg.target \in Upstreams(x.key)
  /\ Keyed => x.zid /\ x.rest
  /\ Ours(x.obj.token, x.key, R, A, C)

\* What each place in the code relies on.
Prepared(x, R, A, C) ==
  /\ x.pc = "mark" => Ours(x.tok, x.key, R, A, C)
  /\ x.pc \in {"release", "unshare"} => Harmless(x.tok, x.key, R)
  /\ x.pc \in {"reserve", "flush", "unannotate"} /\ ~x.released =>
       Classified(x.key, x.cls, R, A, C)
  /\ x.pc = "annotate" => x.released
  /\ x.pc = "dname" \/ (x.via = "delete" /\ x.pc \in {"release", "unshare", "clear"}) =>
       Listed(x.inv, R, A, C)

WorkerOurs(x, R, A, C) == x.pc # "idle" => Carries(x, R, A, C) /\ Prepared(x, R, A, C)

EnvironmentsKeyed == Keyed => \A e \in Env : env[e] \in {"ready", "enabled"}
SpecsOurs == \A s \in Share : cr[s].spec \in UserSpec[s]
TokensAsked == \A s \in Share : cr[s].token \in PrivToken => cr[s].token \in PrivOf(s)

OwnInv ==
  /\ EnvironmentsKeyed
  /\ SpecsOurs
  /\ TokensAsked
  /\ TokenExclusive
  /\ Traced(Own, agent, cr)
  /\ WorkerOurs(w, Own, agent, cr)

-----------------------------------------------------------------------------
(* Whose share a share is.                                                 *)

\* The records and the objects that the lemmas are about.
Records(R, A, C) == R \subseteq OwnShare /\ A \subseteq OwnShare /\ C \in [Share -> ShareObject]

\* A target tells for whom a share was made.
LEMMA TargetTells ==
  ASSUME Apart, NEW d, d.by \in Share, d.target \in Upstreams(d.by),
         NEW k \in Share, NEW t \in Upstreams(k), TargetsEqual(d.target, t)
  PROVE  d.by = k
  BY DEF Apart

\* A share that is known to be k's may be recorded, and released.
LEMMA KnownOurs ==
  ASSUME NEW R, NEW A, NEW C, NEW d, Known(d, R, A, C)
  PROVE  Ours(d.token, d.by, R, A, C) /\ Harmless(d.token, d.by, R)
  BY DEF Known, Ours, Harmless

\* What is nobody else's can be released.
LEMMA OursHarmless ==
  ASSUME NEW R, NEW A, NEW C, NEW k, NEW tok, Ours(tok, k, R, A, C), tok # None
  PROVE  Harmless(tok, k, R)
  BY DEF Ours, Harmless

\* Shares go, or become inactive; objects forget their tokens.
Fewer(R, A, C, R2, A2, C2) ==
  /\ R2 \subseteq R
  /\ \A d \in A2 : \E c \in R \cup A : Same(c, d)
  /\ \A s \in Share : C2[s].token \in {C[s].token, None}

\* What is known stays known.
LEMMA FewerKnown ==
  ASSUME NEW R, NEW A, NEW C, NEW R2, NEW A2, NEW C2, Fewer(R, A, C, R2, A2, C2),
         NEW d, d.token # None, Known(d, R, A, C)
  PROVE  Known(d, R2, A2, C2)
  BY DEF Known, Fewer, Same

\* ... and ours stays ours.
LEMMA FewerOurs ==
  ASSUME NEW R, NEW A, NEW C, NEW R2, NEW A2, NEW C2, Fewer(R, A, C, R2, A2, C2),
         NEW tok, NEW k, Ours(tok, k, R, A, C)
  PROVE  Ours(tok, k, R2, A2, C2)
  BY DEF Ours, Fewer, Same

\* So the worker may go on.
LEMMA FewerWorker ==
  ASSUME NEW R, NEW A, NEW C, NEW R2, NEW A2, NEW C2, Fewer(R, A, C, R2, A2, C2),
         NEW x \in Worker, WorkerOurs(x, R, A, C)
  PROVE  WorkerOurs(x, R2, A2, C2)
<1> SUFFICES ASSUME x.pc # "idle" PROVE Carries(x, R2, A2, C2) /\ Prepared(x, R2, A2, C2)
  BY DEF WorkerOurs
<1>1. Carries(x, R, A, C) /\ Prepared(x, R, A, C)
  BY DEF WorkerOurs
<1>2. Carries(x, R2, A2, C2)
  BY <1>1, FewerOurs DEF Carries
<1>3. x.pc = "mark" => Ours(x.tok, x.key, R2, A2, C2)
  BY <1>1, FewerOurs DEF Prepared
<1>4. \A t : Harmless(t, x.key, R) => Harmless(t, x.key, R2)
  BY DEF Harmless, Fewer
<1>5. \A d \in OwnShare : d.token # None
  BY NoneAssumption DEF OwnShare
<1>6. Classified(x.key, x.cls, R, A, C) => Classified(x.key, x.cls, R2, A2, C2)
  <2>1. x.cls.agent \subseteq OwnShare
    BY WorkerFields DEF ClassifiedShare
  <2> QED
    BY <1>4, <1>5, <2>1, FewerKnown, NoneAssumption DEF Classified
<1>7. Listed(x.inv, R, A, C) => Listed(x.inv, R2, A2, C2)
  BY FewerKnown, NoneAssumption DEF Listed, Fewer
<1> QED
  BY <1>1, <1>2, <1>3, <1>4, <1>6, <1>7 DEF Prepared

\* The account stays traced.
LEMMA FewerTraced ==
  ASSUME NEW R, NEW A, NEW C, NEW R2, NEW A2, NEW C2, Fewer(R, A, C, R2, A2, C2),
         R \subseteq OwnShare, A2 \subseteq OwnShare, Traced(R, A, C)
  PROVE  Traced(R2, A2, C2)
<1>1. SUFFICES ASSUME NEW d \in R2 \cup A2
               PROVE  /\ Known(d, R2, A2, C2)
                      /\ d.token \notin PrivToken =>
                           \A c \in R2 \cup A2 : c.token = d.token => Same(c, d)
  BY DEF Traced
<1>2. \A e \in R2 \cup A2 : \E c \in R \cup A : Same(c, e)
  BY DEF Fewer, Same
<1>3. PICK f \in R \cup A : Same(f, d)
  BY <1>2
<1>4. d.token # None
  BY <1>1, NoneAssumption DEF Fewer, OwnShare
<1>5. Known(d, R, A, C)
  BY <1>3 DEF Traced, Known, Same
<1>6. Known(d, R2, A2, C2)
  BY <1>4, <1>5, FewerKnown
<1>7. d.token \notin PrivToken => \A c \in R2 \cup A2 : c.token = d.token => Same(c, d)
  BY <1>2, <1>3 DEF Traced, Same
<1> QED
  BY <1>6, <1>7

-----------------------------------------------------------------------------
(* The decisions.                                                          *)

\* What classifyShare finds was in the inventory.
LEMMA ClassifiedFound ==
  ASSUME NEW o, NEW t, NEW inv, NEW c \in classifyShare(o, t, inv)
  PROVE  c.remote \subseteq inv.remote /\ c.agent \subseteq inv.agent
<1> DEFINE found  == FirstOf({h \in FindByFrontendName(inv.remote, o.spec.name) :
                                /\ ~TargetsEqual(h.target, t)
                                /\ h.token # o.token},
                             FirstOf(FindByToken(inv.remote, o.token),
                               FirstOf(FindByFrontendName(inv.remote, o.spec.name),
                                       FindByToken(inv.remote, o.spec.priv))))
           agents == FirstOf(FindByToken(inv.agent, o.token),
                             agentByName(inv.agent, o.spec.name))
<1>1. c.remote \in Pick(found) /\ c.agent \in Pick(agents)
  BY DEF classifyShare
<1>2. found \subseteq inv.remote /\ agents \subseteq inv.agent
  BY DEF FirstOf, FindByToken, FindByFrontendName, agentByName
<1> QED
  BY <1>1, <1>2 DEF Pick

\* classifyShare, of an inventory that shows all of one environment if it is
\* readable: what it finds is known, and what it finds by name alone is ours
\* or gone, for a share of another object would hold the name.
LEMMA ClassifiedOurs ==
  ASSUME Apart, NEW R, NEW A, NEW C, Records(R, A, C), Traced(R, A, C),
         NEW k \in Share, NEW o \in ShareObject, Ours(o.token, k, R, A, C),
         NEW t \in Upstreams(k),
         NEW inv \in ShareInventoryType, NEW e,
         \A r \in inv.remote : r.token \in Token => r \in R,
         Readable => \A r \in R : r.env = e => r \in inv.remote,
         \A d \in inv.agent : d \in A /\ d.env = e,
         NEW c \in classifyShare(o, t, inv), ~c.foreignName
  PROVE  Classified(k, c, R, A, C)
<1> DEFINE remotes == FirstOf(FindByToken(inv.remote, o.token),
                        FirstOf(FindByFrontendName(inv.remote, o.spec.name),
                                FindByToken(inv.remote, o.spec.priv)))
           agents  == FirstOf(FindByToken(inv.agent, o.token),
                              agentByName(inv.agent, o.spec.name))
           holders == {h \in FindByFrontendName(inv.remote, o.spec.name) :
                         /\ ~TargetsEqual(h.target, t)
                         /\ h.token # o.token}
           found   == FirstOf(holders, remotes)
<1>1. c \in [remote : Pick(found), agent : Pick(agents), foreignName : {holders # {}}]
  BY DEF classifyShare
<1>2. found \subseteq inv.remote
  BY DEF FirstOf, FindByToken, FindByFrontendName
<1>3. \A d \in agents : /\ d \in inv.agent
                        /\ d.token = o.token \/ (d.name = o.spec.name /\ d.name # None)
  BY DEF FirstOf, FindByToken, agentByName, FindByFrontendName
<1>4. holders = {}
  <2> HIDE DEF holders, found, agents
  <2> QED
    BY <1>1
<1>5. \A r \in inv.remote : r.name = o.spec.name /\ r.name # None =>
         TargetsEqual(r.target, t) \/ r.token = o.token
  BY <1>4 DEF FindByFrontendName
<1> HIDE DEF holders, found, agents, remotes
<1>6. c.remote \subseteq inv.remote /\ c.agent \subseteq agents
  BY <1>1, <1>2 DEF Pick
<1>7. \A r \in c.remote : r.token \in Token => Known(r, R, A, C)
  BY <1>6 DEF Traced
<1>8. ASSUME NEW d \in c.agent PROVE Known(d, R, A, C) /\ Harmless(d.token, k, R)
  <2>1. /\ d \in A /\ d.env = e /\ Known(d, R, A, C)
        /\ d.token = o.token \/ (d.name = o.spec.name /\ d.name # None)
    BY <1>3, <1>6 DEF Traced
  <2>2. d.token # None /\ d.token \in Token
    BY <2>1, NoneAssumption DEF Records, OwnShare
  <2>3. ASSUME Readable, NEW r \in R, r.token = d.token PROVE r.by = k
    <3>0. CASE d.token = o.token
      BY <2>2, <2>3, <3>0 DEF Ours
    <3> SUFFICES ASSUME d.token # o.token PROVE r.by = k
      BY <3>0
    <3>a. d.token \notin PrivToken
      BY <2>1 DEF Known
    <3>1. /\ r.env = e /\ r.name = d.name /\ r \in inv.remote
          /\ r.target \in Upstreams(r.by) /\ r.by \in Share
      BY <2>1, <2>3, <3>a DEF Traced, Same, Known, Records, OwnShare
    <3>2. TargetsEqual(r.target, t)
      BY <1>5, <2>1, <2>3, <3>1
    <3> QED
      BY <3>1, <3>2, TargetTells
  <2> QED
    BY <2>1, <2>3 DEF Harmless
<1> QED
  BY <1>7, <1>8 DEF Classified

\* Adoption: what matches the spec's target is the object's own,
LEMMA AdoptableOurs ==
  ASSUME Apart, NEW R, NEW A, NEW C, NEW k \in Share, NEW t \in Upstreams(k),
         NEW o, NEW digest, NEW cls \in ClassifiedShare,
         \A d \in cls.agent : Known(d, R, A, C),
         NEW d \in adoptableAgentShare(o, cls, t, digest)
  PROVE  Ours(d.token, k, R, A, C)
<1>1. d \in cls.agent /\ TargetsEqual(d.target, t)
  BY DEF adoptableAgentShare, agentShareMatchesSpec
<1>2. d.by \in Share /\ d.target \in Upstreams(d.by)
  BY <1>1 DEF ClassifiedShare, OwnShare, Known
<1>3. d.by = k
  BY <1>1, <1>2, TargetTells
<1> QED
  BY <1>1, <1>3, KnownOurs

\* ... and so is a listed share that serves it.
LEMMA ServedHarmless ==
  ASSUME Apart, NEW R, NEW A, NEW C, NEW k \in Share, NEW t \in Upstreams(k), t \in Target,
         NEW r \in RemoteShare, r.token \in Token => Known(r, R, A, C),
         TargetsEqual(r.target, t)
  PROVE  Harmless(r.token, k, R)
<1>1. r.token \in Token
  BY SameTargetIsOwn
<1>2. r \in OwnShare
  BY <1>1, ForeignTokenAssumption DEF RemoteShare, ForeignShare
<1>3. r.by = k
  BY <1>1, <1>2, TargetTells DEF Known, OwnShare
<1> QED
  BY <1>1, <1>3, KnownOurs

\* From "adopt" on.
LEMMA AdoptOrRebuildOurs ==
  ASSUME Apart, NEW R, NEW A, NEW C, NEW x \in Worker,
         Carries(x, R, A, C), Classified(x.key, x.cls, R, A, C)
  PROVE  WorkerOurs(AdoptOrRebuild(x), R, A, C)
<1> DEFINE ready == adoptableAgentShare(x.obj, x.cls, x.dg.target, x.dg)
           ours  == {r \in x.cls.remote : \/ TargetsEqual(r.target, x.dg.target)
                                          \/ r.token = x.obj.token}
           drop  == FirstOf(x.cls.agent, ours)
           d     == CHOOSE d \in ready : TRUE
           r     == CHOOSE r \in drop : TRUE
           adopt == [x EXCEPT !.pc = "mark", !.tok = d.token,
                              !.url = AssignedURL(x.obj, d)]
           rebuild == [x EXCEPT !.pc = "release", !.via = "rebuild",
                                !.tok = r.token,
                                !.old = liveFrontendName(x.obj, x.cls),
                                !.prev = x.obj.reservation = "reserved"]
           create == [x EXCEPT !.pc = "create"]
<1>1. AdoptOrRebuild(x) = IF ready # {} THEN adopt ELSE IF drop # {} THEN rebuild ELSE create
  BY DEF AdoptOrRebuild
<1>2. x.key \in Share /\ x.dg.target \in Upstreams(x.key) /\ x.dg.target \in Target
      /\ x.cls \in ClassifiedShare /\ Ours(x.obj.token, x.key, R, A, C)
  BY WorkerFields DEF Carries
<1>3. \A q \in ready : Ours(q.token, x.key, R, A, C)
  BY <1>2, AdoptableOurs DEF Classified
<1>4. \A q \in drop : Harmless(q.token, x.key, R)
  <2>1. SUFFICES ASSUME NEW q \in drop PROVE Harmless(q.token, x.key, R)
    OBVIOUS
  <2>2. CASE q \in x.cls.agent
    BY <2>2 DEF Classified
  <2>3. CASE q \in ours
    <3>1. q \in RemoteShare /\ q.token # None
      BY <1>2, <2>3, RemoteToken, NoneAssumption DEF ClassifiedShare
    <3>2. CASE TargetsEqual(q.target, x.dg.target)
      BY <1>2, <2>3, <3>1, <3>2, ServedHarmless DEF Classified
    <3>3. CASE q.token = x.obj.token
      BY <1>2, <3>1, <3>3, OursHarmless
    <3> QED
      BY <2>3, <3>2, <3>3
  <2> QED
    BY <2>1, <2>2, <2>3 DEF FirstOf
<1> HIDE DEF ready, ours, drop
<1>5. ASSUME ready # {} PROVE WorkerOurs(adopt, R, A, C)
  <2>1. Ours(d.token, x.key, R, A, C)
    BY <1>3, <1>5
  <2> HIDE DEF d
  <2>2. adopt.pc = "mark" /\ adopt.tok = d.token /\ adopt.key = x.key
        /\ adopt.obj = x.obj /\ adopt.dg = x.dg /\ adopt.zid = x.zid /\ adopt.rest = x.rest
    BY DEF Worker
  <2> HIDE DEF adopt
  <2> QED
    BY <2>1, <2>2 DEF WorkerOurs, Carries, Prepared
<1>6. ASSUME drop # {} PROVE WorkerOurs(rebuild, R, A, C)
  <2>1. Harmless(r.token, x.key, R)
    BY <1>4, <1>6
  <2> HIDE DEF r
  <2>2. rebuild.pc = "release" /\ rebuild.via = "rebuild" /\ rebuild.tok = r.token
        /\ rebuild.key = x.key /\ rebuild.obj = x.obj /\ rebuild.dg = x.dg
        /\ rebuild.zid = x.zid /\ rebuild.rest = x.rest
    BY DEF Worker
  <2> HIDE DEF rebuild
  <2> QED
    BY <2>1, <2>2 DEF WorkerOurs, Carries, Prepared
<1>7. WorkerOurs(create, R, A, C)
  <2>1. create.pc = "create" /\ create.key = x.key /\ create.obj = x.obj /\ create.dg = x.dg
        /\ create.zid = x.zid /\ create.rest = x.rest
    BY DEF Worker
  <2> HIDE DEF create
  <2> QED
    BY <2>1 DEF WorkerOurs, Carries, Prepared
<1> HIDE DEF adopt, rebuild, create
<1> QED
  BY <1>1, <1>5, <1>6, <1>7

\* The locals stay, and the place needs no more than what the worker carries.
LEMMA GoOnOurs ==
  ASSUME NEW R, NEW A, NEW C, NEW x \in Worker, NEW p \in PC,
         Carries(x, R, A, C), Prepared([x EXCEPT !.pc = p], R, A, C)
  PROVE  WorkerOurs([x EXCEPT !.pc = p], R, A, C)
<1> DEFINE y == [x EXCEPT !.pc = p]
<1>1. y.key = x.key /\ y.obj = x.obj /\ y.dg = x.dg /\ y.zid = x.zid /\ y.rest = x.rest
  BY DEF Worker
<1> QED
  BY <1>1 DEF WorkerOurs, Carries

\* ... which is so of a creation.
LEMMA CreateOurs ==
  ASSUME NEW R, NEW A, NEW C, NEW x \in Worker, Carries(x, R, A, C)
  PROVE  WorkerOurs([x EXCEPT !.pc = "create"], R, A, C)
<1>1. [x EXCEPT !.pc = "create"].pc = "create"
  BY DEF Worker
<1>2. Prepared([x EXCEPT !.pc = "create"], R, A, C)
  BY <1>1 DEF Prepared
<1> QED
  BY <1>2, GoOnOurs DEF PC

\* flushReclaimName, and what follows it.
LEMMA FlushReclaimNameOurs ==
  ASSUME Apart, NEW R, NEW A, NEW C, NEW x \in Worker,
         Carries(x, R, A, C), ~x.released => Classified(x.key, x.cls, R, A, C)
  PROVE  WorkerOurs(AfterFlush(x), R, A, C) /\ WorkerOurs(FlushReclaimName(x), R, A, C)
<1>1. WorkerOurs(AfterFlush(x), R, A, C)
  BY AdoptOrRebuildOurs, CreateOurs DEF AfterFlush
<1>2. ASSUME NEW p \in {"unannotate", "flush"} PROVE WorkerOurs([x EXCEPT !.pc = p], R, A, C)
  <2> DEFINE y == [x EXCEPT !.pc = p]
  <2>1. y.pc = p /\ y.released = x.released /\ y.key = x.key /\ y.cls = x.cls
    BY DEF Worker
  <2>2. Prepared(y, R, A, C)
    BY <2>1 DEF Prepared
  <2> QED
    BY <2>2, GoOnOurs DEF PC
<1> QED
  BY <1>1, <1>2 DEF FlushReclaimName

\* ensureReservedName, if there is a name.
LEMMA AfterInventoryOurs ==
  ASSUME Apart, NEW R, NEW A, NEW C, NEW x \in Worker,
         Carries(x, R, A, C), Classified(x.key, x.cls, R, A, C)
  PROVE  WorkerOurs(AfterInventory(x), R, A, C)
<1> DEFINE y == [x EXCEPT !.pc = "reserve"]
<1>1. y.pc = "reserve" /\ y.key = x.key /\ y.cls = x.cls
  BY DEF Worker
<1>2. Prepared(y, R, A, C)
  BY <1>1 DEF Prepared
<1>3. WorkerOurs(y, R, A, C)
  BY <1>2, GoOnOurs DEF PC
<1> QED
  BY <1>3, FlushReclaimNameOurs DEF AfterInventory

\* reclaimPreviousName: the old share is released.
LEMMA ReclaimPreviousNameOurs ==
  ASSUME NEW R, NEW A, NEW C, NEW x \in Worker, Carries(x, R, A, C), x.released
  PROVE  WorkerOurs(ReclaimPreviousName(x), R, A, C)
<1> DEFINE y == [x EXCEPT !.pc = "annotate"]
<1>1. y.pc = "annotate" /\ y.released = x.released
  BY DEF Worker
<1>2. Prepared(y, R, A, C)
  BY <1>1 DEF Prepared
<1>3. WorkerOurs(y, R, A, C)
  BY <1>2, GoOnOurs DEF PC
<1> QED
  BY <1>3, CreateOurs DEF ReclaimPreviousName

\* The end of a deletion: the name is looked at with what was listed.
LEMMA DeleteNameOrFinishOurs ==
  ASSUME NEW R, NEW A, NEW C, NEW x \in Worker, Carries(x, R, A, C), Listed(x.inv, R, A, C)
  PROVE  WorkerOurs(DeleteNameOrFinish(x), R, A, C)
<1>1. ASSUME NEW p \in {"dname", "final"} PROVE WorkerOurs([x EXCEPT !.pc = p], R, A, C)
  <2> DEFINE y == [x EXCEPT !.pc = p]
  <2>1. y.pc = p /\ y.inv = x.inv
    BY DEF Worker
  <2>2. Prepared(y, R, A, C)
    BY <2>1 DEF Prepared
  <2> QED
    BY <2>2, GoOnOurs DEF PC
<1> QED
  BY <1>1 DEF DeleteNameOrFinish

-----------------------------------------------------------------------------
(* What the actions have in common.                                        *)

\* Our records are of our shares.
LEMMA RecordsOwn == IInv => Records(Own, agent, cr)
  BY ForeignTokenAssumption DEF IInv, TypeOK, Own, Records, RemoteShare, ForeignShare

\* A step that makes no share and records no token needs only what it leaves
\* in the worker's hands.
LEMMA ShrinksOwn ==
  ASSUME IInv, IInv', OwnInv, Fewer(Own, agent, cr, Own', agent', cr'),
         EnvironmentsKeyed', SpecsOurs', WorkerOurs(w', Own, agent, cr)
  PROVE  OwnInv'
<1>1. w' \in Worker /\ agent' \subseteq OwnShare
  BY DEF IInv, TypeOK
<1>2. Traced(Own', agent', cr')
  BY <1>1, RecordsOwn, FewerTraced DEF OwnInv, Records
<1>3. WorkerOurs(w', Own', agent', cr')
  BY <1>1, FewerWorker
<1>4. TokenExclusive' /\ TokensAsked'
  BY PrivTokenAssumption, NoneAssumption DEF OwnInv, Fewer, TokenExclusive, TokensAsked
<1> QED
  BY <1>2, <1>3, <1>4 DEF OwnInv

\* Nobody has anything in hand after a return.
LEMMA IdleOurs == Idle.pc = "idle" /\ WorkerOurs(Idle, Own, agent, cr)
  BY IdleType DEF WorkerOurs

\* An object that is gone still has a user's spec, and no token.
LEMMA AbsentOurs ==
  ASSUME NEW s \in Share
  PROVE  Absent(s).spec \in UserSpec[s] /\ Absent(s).token = None
<1> DEFINE sp == CHOOSE x \in UserSpec[s] : TRUE
<1>1. sp \in UserSpec[s]
  BY UserSpecAssumption
<1>2. Absent(s).spec = sp /\ Absent(s).token = None
  BY DEF Absent
<1> QED
  BY <1>1, <1>2

\* A token on record is its object's own.
LEMMA RecordedOurs ==
  ASSUME OwnInv, NEW s \in Share PROVE Ours(cr[s].token, s, Own, agent, cr)
  BY DEF OwnInv, TokenExclusive, TokensAsked, Traced, Known, Ours

\* The object as the server returns it.
LEMMA PatchedOurs ==
  ASSUME IInv, OwnInv, w.pc # "idle", NEW o \in ShareObject,
         o.spec = cr[w.key].spec, o.token \in {cr[w.key].token, None}
  PROVE  Carries(Patched(w, o), Own, agent, cr)
<1>1. w \in Worker /\ w.key \in Share
  BY WorkerFields DEF IInv, TypeOK
<1>2. Carries(w, Own, agent, cr) /\ o.spec \in UserSpec[w.key]
  BY <1>1 DEF OwnInv, WorkerOurs, SpecsOurs
<1>3. Ours(o.token, w.key, Own, agent, cr)
  BY <1>1, RecordedOurs DEF Ours
<1>4. LET x == Patched(w, o)
      IN  x.obj = o /\ x.key = w.key /\ x.dg = w.dg /\ x.zid = w.zid /\ x.rest = w.rest
  BY <1>1 DEF Patched, Worker
<1> HIDE DEF OwnInv
<1> QED
  BY <1>2, <1>3, <1>4 DEF Carries

\* A patch of the worker's object that records no token.
LEMMA WriteFewer ==
  ASSUME IInv, OwnInv, NEW o, Write(o), UNCHANGED <<remote, agent>>,
         o.spec = cr[w.key].spec, o.token \in {cr[w.key].token, None}
  PROVE  Fewer(Own, agent, cr, Own', agent', cr') /\ SpecsOurs'
<1>1. w.key \in Share /\ cr \in [Share -> ShareObject]
  BY WorkerFields DEF IInv, TypeOK
<1> QED
  BY <1>1 DEF Write, Fewer, Same, Own, OwnInv, SpecsOurs

\* setNotReady and setNameConflict, then return.
LEMMA StopWithOurs ==
  ASSUME IInv, IInv', OwnInv, NEW reason, StopWith(reason),
         UNCHANGED <<env, remote, agent>>
  PROVE  OwnInv'
<1>1. w.key \in Share /\ cr \in [Share -> ShareObject]
  BY WorkerFields DEF IInv, TypeOK
<1>2. Fewer(Own, agent, cr, Own', agent', cr') /\ SpecsOurs'
  BY <1>1 DEF StopWith, SetNotReady, Fewer, Same, Own, OwnInv, SpecsOurs, ShareObject
<1>3. WorkerOurs(w', Own, agent, cr) /\ EnvironmentsKeyed'
  BY IdleOurs DEF StopWith, Requeue, OwnInv, EnvironmentsKeyed
<1> QED
  BY <1>2, <1>3, ShrinksOwn

\* A step of the worker alone.
LEMMA WorkerOnlyOurs ==
  ASSUME IInv, IInv', OwnInv, UNCHANGED <<cr, env, remote, agent>>,
         WorkerOurs(w', Own, agent, cr)
  PROVE  OwnInv'
<1>1. Fewer(Own, agent, cr, Own', agent', cr') /\ SpecsOurs' /\ EnvironmentsKeyed'
  BY DEF Fewer, Same, Own, OwnInv, SpecsOurs, EnvironmentsKeyed
<1> QED
  BY <1>1, ShrinksOwn

\* ... which is over.
LEMMA RequeueOurs ==
  ASSUME IInv, IInv', OwnInv, UNCHANGED <<cr, env, remote, agent>>, Requeue
  PROVE  OwnInv'
  BY IdleOurs, WorkerOnlyOurs DEF Requeue

-----------------------------------------------------------------------------
(* The invariant: initially, and through every kind of step.               *)

\* Nothing is shared, and every environment is keyed.
LEMMA InitOwn == Init => OwnInv
<1> SUFFICES ASSUME Init PROVE OwnInv
  OBVIOUS
<1>1. SpecsOurs /\ TokensAsked /\ TokenExclusive
  BY AbsentOurs, PrivTokenAssumption, NoneAssumption
     DEF Init, SpecsOurs, TokensAsked, TokenExclusive
<1>2. Own = {} /\ agent = {} /\ WorkerOurs(w, Own, agent, cr)
  BY IdleOurs DEF Init, Own
<1> QED
  BY <1>1, <1>2 DEF Init, OwnInv, EnvironmentsKeyed, Traced

\* What a reconcile or a deletion of s starts with.
LEMMA StartOurs ==
  ASSUME IInv, OwnInv, NEW s \in Share
  PROVE  /\ WorkerOurs(Start(s), Own, agent, cr)
         /\ \A rest \in BOOLEAN : (Keyed => rest) =>
              WorkerOurs([Start(s) EXCEPT !.via = "delete", !.rest = rest], Own, agent, cr)
<1>1. cr[s] \in ShareObject /\ cr[s].spec \in ShareSpec /\ cr[s].spec \in UserSpec[s]
  BY DEF IInv, TypeOK, ShareObject, OwnInv, SpecsOurs
<1>2. Keyed => HasZID(cr[s].spec.env)
  BY <1>1 DEF HasZID, OwnInv, EnvironmentsKeyed, ShareSpec
<1>3. Ours(cr[s].token, s, Own, agent, cr)
  BY RecordedOurs
<1>4. /\ Start(s) \in Worker /\ Start(s).pc = "inventory"
      /\ Start(s).obj = cr[s] /\ Start(s).key = s
      /\ Start(s).dg = shareApplyDigest(cr[s].spec)
      /\ Start(s).zid = HasZID(cr[s].spec.env) /\ Start(s).rest = TRUE
  BY StartType DEF Start, Locals
<1>5. shareApplyDigest(cr[s].spec).target \in Upstreams(s)
  BY <1>1 DEF shareApplyDigest, Upstreams
<1>6. Carries(Start(s), Own, agent, cr)
  BY <1>1, <1>2, <1>3, <1>4, <1>5 DEF Carries
<1>7. WorkerOurs(Start(s), Own, agent, cr)
  BY <1>4, <1>6 DEF WorkerOurs, Prepared
<1>8. ASSUME NEW rest \in BOOLEAN, Keyed => rest
      PROVE  WorkerOurs([Start(s) EXCEPT !.via = "delete", !.rest = rest], Own, agent, cr)
  <2> DEFINE y == [Start(s) EXCEPT !.via = "delete", !.rest = rest]
  <2>1. /\ y.pc = "inventory" /\ y.obj = Start(s).obj /\ y.key = Start(s).key
        /\ y.dg = Start(s).dg /\ y.zid = Start(s).zid /\ y.rest = rest
    BY <1>4 DEF Worker
  <2> HIDE DEF y
  <2>2. WorkerOurs(y, Own, agent, cr)
    BY <1>6, <1>8, <2>1 DEF WorkerOurs, Carries, Prepared
  <2> QED
    BY <2>2 DEF y
<1> QED
  BY <1>7, <1>8

\* Taking a key from the queue.
LEMMA ReconcileOwn ==
  ASSUME Apart, IInv, IInv', OwnInv, NEW s \in Share, Reconcile(s)
  PROVE  OwnInv'
<1>0. /\ Keyed => ~Fault("secret")
      /\ cr \in [Share -> ShareObject]
  BY DEF Keyed, Fault, IInv, TypeOK
<1>1. CASE ReconcileGone(s)
  BY <1>1, WorkerOnlyOurs DEF ReconcileGone, OwnInv
<1>2. ASSUME \/ AddFinalizer(s) \/ RefuseSpec(s) \/ WaitForEnvironment(s)
             \/ SecretUnreadable(s) \/ NameClaimed(s)
      PROVE  OwnInv'
  <2>1. \/ cr' = [cr EXCEPT ![s].finalizer = TRUE]
        \/ \E reason : cr' = [cr EXCEPT ![s].reason = reason]
        \/ UNCHANGED cr
    BY <1>2 DEF AddFinalizer, RefuseSpec, WaitForEnvironment, SecretUnreadable, NameClaimed,
                SetNotReady
  <2>2. UNCHANGED <<env, remote, agent, w>>
    BY <1>2 DEF AddFinalizer, RefuseSpec, WaitForEnvironment, SecretUnreadable, NameClaimed
  <2>3. \A t \in Share : cr'[t].token = cr[t].token /\ cr'[t].spec = cr[t].spec
    BY <1>0, <2>1 DEF ShareObject
  <2>4. Fewer(Own, agent, cr, Own', agent', cr')
    BY <2>2, <2>3 DEF Fewer, Same, Own
  <2>5. SpecsOurs' /\ EnvironmentsKeyed' /\ WorkerOurs(w', Own, agent, cr)
    BY <2>2, <2>3 DEF OwnInv, SpecsOurs, EnvironmentsKeyed
  <2> QED
    BY <2>4, <2>5, ShrinksOwn
<1>4. CASE StartReconcile(s)
  BY <1>4, StartOurs, WorkerOnlyOurs DEF StartReconcile
<1>5. CASE StartDelete(s)
  <2>1. PICK rest \in BOOLEAN :
          /\ IF rest \/ env[cr[s].spec.env] = "missing" THEN NoFault ELSE Fault("secret")
          /\ w' = [Start(s) EXCEPT !.via = "delete", !.rest = rest]
    BY <1>5 DEF StartDelete
  <2>2. Keyed => env[cr[s].spec.env] # "missing"
    BY DEF OwnInv, EnvironmentsKeyed, IInv, TypeOK, ShareObject, ShareSpec
  <2>3. Keyed => rest
    BY <1>0, <2>1, <2>2
  <2> QED
    BY <1>5, <2>1, <2>3, StartOurs, WorkerOnlyOurs DEF StartDelete
<1> QED
  BY <1>1, <1>2, <1>4, <1>5 DEF Reconcile

\* Users write specs of their own, and an object that goes forgets its token.
LEMMA UserOwn ==
  ASSUME IInv, IInv', OwnInv, NEW s \in Share,
         UserCreates(s) \/ UserEdits(s) \/ UserDeletes(s)
  PROVE  OwnInv'
<1>1. cr \in [Share -> ShareObject] /\ cr[s] \in ShareObject /\ Absent(s) \in ShareObject
  BY AbsentType DEF IInv, TypeOK
<1>2. PICK o : /\ cr' = [cr EXCEPT ![s] = o]
               /\ o.token \in {cr[s].token, None} /\ o.spec \in UserSpec[s]
  <2>1. CASE UserCreates(s)
    <3>1. PICK sp \in UserSpec[s] :
            cr' = [cr EXCEPT ![s] = [Absent(s) EXCEPT !.phase = "live", !.spec = sp]]
      BY <2>1 DEF UserCreates
    <3>2. LET o == [Absent(s) EXCEPT !.phase = "live", !.spec = sp]
          IN  o.token = None /\ o.spec = sp
      BY <1>1, AbsentOurs DEF ShareObject
    <3> QED
      BY <3>1, <3>2
  <2>2. CASE UserEdits(s)
    <3>1. PICK sp \in UserSpec[s] : cr' = [cr EXCEPT ![s].spec = sp]
      BY <2>2 DEF UserEdits
    <3>2. LET o == [cr[s] EXCEPT !.spec = sp] IN o.token = cr[s].token /\ o.spec = sp
      BY <1>1 DEF ShareObject
    <3>3. cr' = [cr EXCEPT ![s] = [cr[s] EXCEPT !.spec = sp]]
      BY <1>1, <3>1
    <3> QED
      BY <3>2, <3>3
  <2>3. CASE UserDeletes(s)
    <3>1. LET o == [cr[s] EXCEPT !.phase = "deleting"]
          IN  o.token = cr[s].token /\ o.spec = cr[s].spec
      BY <1>1 DEF ShareObject
    <3>2. cr[s].spec \in UserSpec[s]
      BY DEF OwnInv, SpecsOurs
    <3> QED
      BY <2>3, <3>1, <3>2, AbsentOurs DEF UserDeletes
  <2> QED
    BY <2>1, <2>2, <2>3
<1>3. UNCHANGED <<env, remote, agent, w>>
  BY DEF UserCreates, UserEdits, UserDeletes
<1>4. Fewer(Own, agent, cr, Own', agent', cr') /\ SpecsOurs'
  BY <1>1, <1>2, <1>3 DEF Fewer, Same, Own, OwnInv, SpecsOurs
<1>5. EnvironmentsKeyed' /\ WorkerOurs(w', Own, agent, cr)
  BY <1>3 DEF OwnInv, EnvironmentsKeyed
<1> QED
  BY <1>4, <1>5, ShrinksOwn

\* Environments come and go, agents restart, others use the account.
LEMMA OutsideOwn ==
  ASSUME Apart, IInv, IInv', OwnInv,
         \/ \E e \in Env : \/ EnvironmentProgresses(e)
                          \/ EnvironmentDegrades(e)
                          \/ EnvironmentUnkeyed(e)
                          \/ EnvironmentRekeyed(e)
                          \/ EnvironmentRemoved(e)
                          \/ AgentRestarts(e)
         \/ AgentShareStalls \/ ForeignShareAppears \/ ForeignShareLeaves
  PROVE  OwnInv'
<1>0. /\ env \in [Env -> EnvState] /\ agent \subseteq OwnShare
      /\ Keyed => /\ ~Fault("unkey") /\ ~Fault("removed")
                  /\ \A e \in Env : env[e] \in {"ready", "enabled"}
  BY DEF Keyed, Fault, IInv, TypeOK, OwnInv, EnvironmentsKeyed
<1>1. UNCHANGED <<cr, w>>
  BY DEF EnvironmentProgresses, EnvironmentDegrades, EnvironmentUnkeyed, EnvironmentRekeyed,
         EnvironmentRemoved, AgentRestarts, AgentShareStalls, ForeignShareAppears,
         ForeignShareLeaves
<1>2. SpecsOurs' /\ WorkerOurs(w', Own, agent, cr)
  BY <1>1 DEF OwnInv, SpecsOurs
<1>3. ASSUME NEW e \in Env,
             \/ EnvironmentProgresses(e) \/ EnvironmentDegrades(e) \/ EnvironmentUnkeyed(e)
             \/ EnvironmentRekeyed(e) \/ EnvironmentRemoved(e)
      PROVE  OwnInv'
  <2>1. /\ remote' \subseteq remote /\ agent' \subseteq agent
        /\ Keyed => env' = [env EXCEPT ![e] = "ready"] \/ env' = [env EXCEPT ![e] = "enabled"]
    BY <1>0, <1>3 DEF EnvironmentProgresses, EnvironmentDegrades, EnvironmentUnkeyed,
                      EnvironmentRekeyed, EnvironmentRemoved, EnvironmentMoves
  <2>2. EnvironmentsKeyed'
    BY <1>0, <2>1 DEF EnvironmentsKeyed
  <2>3. Fewer(Own, agent, cr, Own', agent', cr')
    BY <1>1, <2>1 DEF Fewer, Same, Own
  <2> QED
    BY <1>2, <2>2, <2>3, ShrinksOwn
<1>4. ASSUME NEW e \in Env, AgentRestarts(e) PROVE OwnInv'
  <2>1. remote' \subseteq remote /\ agent' \subseteq agent /\ EnvironmentsKeyed'
    BY <1>0, <1>4 DEF AgentRestarts, EnvironmentsKeyed
  <2>2. Fewer(Own, agent, cr, Own', agent', cr')
    BY <1>1, <2>1 DEF Fewer, Same, Own
  <2> QED
    BY <1>2, <2>1, <2>2, ShrinksOwn
<1>5. CASE AgentShareStalls
  <2>1. PICK d \in agent : agent' = (agent \ {d}) \cup {[d EXCEPT !.active = FALSE]}
    BY <1>5 DEF AgentShareStalls
  <2>2. Same(d, [d EXCEPT !.active = FALSE])
    BY <1>0 DEF Same, OwnShare
  <2>3. \A c \in agent' : \E b \in Own \cup agent : Same(b, c)
    BY <2>1, <2>2 DEF Same
  <2>4. Fewer(Own, agent, cr, Own', agent', cr') /\ EnvironmentsKeyed'
    BY <1>0, <1>1, <1>5, <2>3 DEF Fewer, AgentShareStalls, Own, EnvironmentsKeyed
  <2> QED
    BY <1>2, <2>4, ShrinksOwn
<1>6. CASE ForeignShareAppears \/ ForeignShareLeaves
  <2>1. UNCHANGED <<env, agent>> /\ Own' = Own
    BY <1>6, ForeignTokenAssumption
       DEF ForeignShareAppears, ForeignShareLeaves, Own, ForeignShare
  <2>2. Fewer(Own, agent, cr, Own', agent', cr') /\ EnvironmentsKeyed'
    BY <1>0, <1>1, <2>1 DEF Fewer, Same, EnvironmentsKeyed
  <2> QED
    BY <1>2, <2>2, ShrinksOwn
<1> QED
  BY <1>3, <1>4, <1>5, <1>6

\* What the worker and the account are known to hold during a reconcile.
LEMMA InHand ==
  ASSUME IInv, OwnInv, w.pc # "idle"
  PROVE  /\ w \in Worker /\ w.key \in Share /\ w.obj \in ShareObject /\ w.dg.target \in Target
         /\ Carries(w, Own, agent, cr) /\ Prepared(w, Own, agent, cr)
         /\ Records(Own, agent, cr) /\ Traced(Own, agent, cr)
  BY WorkerFields, RecordsOwn DEF IInv, TypeOK, OwnInv, WorkerOurs

\* An agent share of the object's own is adopted.
LEMMA AdoptOurs ==
  ASSUME IInv, OwnInv, w.pc # "idle", NEW tok, NEW url,
         Ours(tok, w.key, Own, agent, cr)
  PROVE  WorkerOurs([w EXCEPT !.pc = "mark", !.tok = tok, !.url = url], Own, agent, cr)
<1> DEFINE y == [w EXCEPT !.pc = "mark", !.tok = tok, !.url = url]
<1>1. /\ y.pc = "mark" /\ y.tok = tok /\ y.key = w.key /\ y.obj = w.obj /\ y.dg = w.dg
      /\ y.zid = w.zid /\ y.rest = w.rest
  BY InHand DEF Worker
<1> HIDE DEF y
<1>2. WorkerOurs(y, Own, agent, cr)
  BY <1>1, InHand DEF WorkerOurs, Carries, Prepared
<1> QED
  BY <1>2 DEF y

\* A share that nobody else has is released.
LEMMA ReleaseOurs ==
  ASSUME NEW R, NEW A, NEW C, NEW x \in Worker, NEW tok, NEW via,
         Carries(x, R, A, C), Harmless(tok, x.key, R),
         via = "delete" => Listed(x.inv, R, A, C)
  PROVE  WorkerOurs([x EXCEPT !.pc = "release", !.via = via, !.tok = tok], R, A, C)
<1> DEFINE y == [x EXCEPT !.pc = "release", !.via = via, !.tok = tok]
<1>1. /\ y.pc = "release" /\ y.via = via /\ y.tok = tok /\ y.key = x.key /\ y.obj = x.obj
      /\ y.dg = x.dg /\ y.zid = x.zid /\ y.rest = x.rest /\ y.inv = x.inv
  BY DEF Worker
<1> HIDE DEF y
<1>2. WorkerOurs(y, R, A, C)
  BY <1>1 DEF WorkerOurs, Carries, Prepared
<1> QED
  BY <1>2 DEF y

\* What isOurShareToken accepts after a deletion has listed the environment
\* is no other object's: what the agent alone reports is gone from the account.
LEMMA OurTokenHarmless ==
  ASSUME Apart, NEW R, NEW A, NEW C, NEW x \in Worker, Records(R, A, C),
         Carries(x, R, A, C), Listed(x.inv, R, A, C),
         NEW t, t # None, t \notin PrivToken \/ t = x.obj.token,
         isOurShareToken(x.obj, t, x.inv)
  PROVE  Harmless(t, x.key, R)
<1>1. /\ x.key \in Share /\ x.obj.spec.target \in Target
      /\ x.obj.spec.target \in Upstreams(x.key) /\ x.inv \in ShareInventoryType
  BY WorkerFields DEF Carries, Upstreams, ShareSpec
<1>2. CASE t = x.obj.token
  BY <1>2, OursHarmless DEF Carries
<1>3. CASE \E r \in FindByToken(x.inv.remote, t) : TargetsEqual(r.target, x.obj.spec.target)
  <2>1. PICK r \in x.inv.remote : r.token = t /\ TargetsEqual(r.target, x.obj.spec.target)
    BY <1>3 DEF FindByToken
  <2>2. r \in RemoteShare
    BY <1>1 DEF ShareInventoryType
  <2>3. r.token \in Token => Known(r, R, A, C)
    BY <2>1 DEF Listed
  <2> QED
    BY <1>1, <2>1, <2>2, <2>3, ServedHarmless
<1>4. CASE t \notin PrivToken /\ FindByToken(x.inv.remote, t) = {}
           /\ FindByToken(x.inv.agent, t) # {}
  BY <1>4 DEF Listed, Harmless
<1> QED
  BY <1>2, <1>3, <1>4 DEF isOurShareToken

\* The listing shows the whole environment, if it is there.
LEMMA ListedEnvironment ==
  ASSUME IInv, OwnInv, w.pc # "idle",
         NEW lf \in BOOLEAN, NEW sf \in BOOLEAN, InventoryOutcome(lf, sf)
  PROVE  /\ loadInventory(lf, sf) \in ShareInventoryType
         /\ \A r \in loadInventory(lf, sf).remote : r.token \in Token => r \in Own
         /\ Readable => \A r \in Own : r.env = w.dg.env => r \in loadInventory(lf, sf).remote
         /\ \A d \in loadInventory(lf, sf).agent : d \in agent /\ d.env = w.dg.env
<1>1. Keyed => w.zid /\ w.rest
  BY InHand DEF Carries
<1>2. Readable => ~lf
  BY <1>1 DEF InventoryOutcome, Readable
<1> QED
  BY <1>1, <1>2, LoadInventoryType DEF loadInventory, Own, Readable

\* Loading the inventory, and the decisions it leads to.
LEMMA InventoryStepsOwn ==
  ASSUME Apart, IInv, IInv', OwnInv,
         InventoryUnavailable \/ Inventory \/ HandleShareConflict \/ DeleteInventory
  PROVE  OwnInv'
<1>0. w.pc # "idle" /\ UNCHANGED <<env, remote, agent>>
  BY DEF InventoryUnavailable, Inventory, HandleShareConflict, DeleteInventory
<1>1. /\ w \in Worker /\ w.key \in Share /\ w.obj \in ShareObject /\ w.dg.target \in Target
      /\ Carries(w, Own, agent, cr) /\ Records(Own, agent, cr) /\ Traced(Own, agent, cr)
      /\ w.dg.target \in Upstreams(w.key) /\ Ours(w.obj.token, w.key, Own, agent, cr)
  BY <1>0, InHand DEF Carries
<1>2. ASSUME NEW lf \in BOOLEAN, NEW sf \in BOOLEAN, InventoryOutcome(lf, sf),
             NEW c \in classifyShare(w.obj, w.dg.target, loadInventory(lf, sf))
      PROVE  /\ c \in ClassifiedShare
             /\ ~c.foreignName => Classified(w.key, c, Own, agent, cr)
             /\ \A d \in c.agent : Known(d, Own, agent, cr)
  <2> DEFINE inv == loadInventory(lf, sf)
  <2>1. /\ inv \in ShareInventoryType
        /\ \A r \in inv.remote : r.token \in Token => r \in Own
        /\ Readable => \A r \in Own : r.env = w.dg.env => r \in inv.remote
        /\ \A d \in inv.agent : d \in agent /\ d.env = w.dg.env
    BY <1>0, <1>2, ListedEnvironment
  <2>2. c \in classifyShare(w.obj, w.dg.target, inv)
    BY <1>2
  <2> HIDE DEF inv
  <2>3. ~c.foreignName => Classified(w.key, c, Own, agent, cr)
    BY <1>1, <2>1, <2>2, ClassifiedOurs
  <2>4. \A d \in c.agent : Known(d, Own, agent, cr)
    BY <1>1, <2>1, <2>2, ClassifiedFound DEF Traced
  <2> QED
    BY <1>1, <2>1, <2>2, <2>3, <2>4, ClassifyType
<1>3. CASE InventoryUnavailable
  <2>1. PICK sf \in BOOLEAN :
          /\ InventoryOutcome(TRUE, sf)
          /\ \E c \in classifyShare(w.obj, w.dg.target, loadInventory(TRUE, sf)) :
               \/ StopWith("InventoryError")
               \/ \E d \in adoptableAgentShare(w.obj, c, w.dg.target, w.dg) :
                    /\ w' = [w EXCEPT !.pc = "mark", !.tok = d.token,
                                      !.url = AssignedURL(w.obj, d)]
                    /\ UNCHANGED <<cr, queue>>
    BY <1>3 DEF InventoryUnavailable
  <2>2. ASSUME NEW c \in classifyShare(w.obj, w.dg.target, loadInventory(TRUE, sf)),
               NEW d \in adoptableAgentShare(w.obj, c, w.dg.target, w.dg),
               w' = [w EXCEPT !.pc = "mark", !.tok = d.token, !.url = AssignedURL(w.obj, d)],
               UNCHANGED cr
        PROVE  OwnInv'
    <3>1. c \in ClassifiedShare /\ \A b \in c.agent : Known(b, Own, agent, cr)
      BY <1>2, <2>1
    <3>2. Ours(d.token, w.key, Own, agent, cr)
      BY <1>1, <3>1, AdoptableOurs
    <3>3. WorkerOurs(w', Own, agent, cr)
      BY <1>0, <2>2, <3>2, AdoptOurs
    <3> QED
      BY <1>0, <2>2, <3>3, WorkerOnlyOurs
  <2> QED
    BY <1>0, <2>1, <2>2, StopWithOurs
<1>4. CASE Inventory
  <2>1. PICK sf \in BOOLEAN :
          /\ InventoryOutcome(FALSE, sf)
          /\ \E c \in classifyShare(w.obj, w.dg.target, loadInventory(FALSE, sf)) :
               IF c.foreignName THEN StopWith("NameConflict")
               ELSE /\ w' = AfterInventory([w EXCEPT !.inv = loadInventory(FALSE, sf), !.cls = c])
                    /\ UNCHANGED <<cr, queue>>
    BY <1>4 DEF Inventory
  <2>2. ASSUME NEW c \in classifyShare(w.obj, w.dg.target, loadInventory(FALSE, sf)),
               ~c.foreignName, UNCHANGED cr,
               w' = AfterInventory([w EXCEPT !.inv = loadInventory(FALSE, sf), !.cls = c])
        PROVE  OwnInv'
    <3> DEFINE x == [w EXCEPT !.inv = loadInventory(FALSE, sf), !.cls = c]
    <3>1. c \in ClassifiedShare /\ Classified(w.key, c, Own, agent, cr)
      BY <1>2, <2>1, <2>2
    <3>2. loadInventory(FALSE, sf) \in ShareInventoryType
      BY LoadInventoryType
    <3>3. /\ x \in Worker /\ x.key = w.key /\ x.obj = w.obj /\ x.dg = w.dg /\ x.cls = c
          /\ x.zid = w.zid /\ x.rest = w.rest
      BY <1>1, <3>1, <3>2 DEF Worker
    <3> HIDE DEF x
    <3>4. Carries(x, Own, agent, cr)
      BY <1>1, <3>3 DEF Carries
    <3>5. WorkerOurs(AfterInventory(x), Own, agent, cr)
      BY <3>1, <3>3, <3>4, AfterInventoryOurs
    <3> QED
      BY <1>0, <2>2, <3>5, WorkerOnlyOurs DEF x
  <2> QED
    BY <1>0, <2>1, <2>2, StopWithOurs
<1>5. CASE HandleShareConflict
  <2>1. PICK lf \in BOOLEAN, sf \in BOOLEAN :
          /\ InventoryOutcome(lf, sf)
          /\ \E c \in classifyShare(w.obj, w.dg.target, loadInventory(lf, sf)) :
               \/ \E reason : StopWith(reason)
               \/ \E d \in adoptableAgentShare(w.obj, c, w.dg.target, w.dg) :
                    /\ ~c.foreignName
                    /\ w' = [w EXCEPT !.pc = "mark", !.tok = d.token,
                                      !.url = AssignedURL(w.obj, d)]
                    /\ UNCHANGED <<cr, queue>>
               \/ \E r \in c.remote :
                    /\ ~c.foreignName
                    /\ TargetsEqual(r.target, w.dg.target)
                    /\ w' = [w EXCEPT !.pc = "release", !.via = "conflict", !.tok = r.token]
                    /\ UNCHANGED <<cr, queue>>
    BY <1>5 DEF HandleShareConflict
  <2>3. ASSUME NEW c \in classifyShare(w.obj, w.dg.target, loadInventory(lf, sf)),
               ~c.foreignName, NEW d \in adoptableAgentShare(w.obj, c, w.dg.target, w.dg),
               w' = [w EXCEPT !.pc = "mark", !.tok = d.token, !.url = AssignedURL(w.obj, d)],
               UNCHANGED cr
        PROVE  OwnInv'
    <3>1. c \in ClassifiedShare /\ Classified(w.key, c, Own, agent, cr)
      BY <1>2, <2>1, <2>3
    <3>2. Ours(d.token, w.key, Own, agent, cr)
      BY <1>1, <3>1, AdoptableOurs DEF Classified
    <3>3. WorkerOurs(w', Own, agent, cr)
      BY <1>0, <2>3, <3>2, AdoptOurs
    <3> QED
      BY <1>0, <2>3, <3>3, WorkerOnlyOurs
  <2>4. ASSUME NEW c \in classifyShare(w.obj, w.dg.target, loadInventory(lf, sf)),
               ~c.foreignName, NEW r \in c.remote, TargetsEqual(r.target, w.dg.target),
               w' = [w EXCEPT !.pc = "release", !.via = "conflict", !.tok = r.token],
               UNCHANGED cr
        PROVE  OwnInv'
    <3>1. c \in ClassifiedShare /\ Classified(w.key, c, Own, agent, cr)
      BY <1>2, <2>1, <2>4
    <3>2. r \in RemoteShare /\ (r.token \in Token => Known(r, Own, agent, cr))
      BY <3>1 DEF ClassifiedShare, Classified
    <3>3. Harmless(r.token, w.key, Own)
      BY <1>1, <2>4, <3>2, ServedHarmless
    <3>4. WorkerOurs(w', Own, agent, cr)
      BY <1>1, <2>4, <3>3, ReleaseOurs
    <3> QED
      BY <1>0, <2>4, <3>4, WorkerOnlyOurs
  <2> QED
    BY <1>0, <2>1, <2>3, <2>4, StopWithOurs
<1>6. CASE DeleteInventory
  <2>1. PICK lf \in BOOLEAN, sf \in BOOLEAN, claimed \in BOOLEAN :
          /\ InventoryOutcome(lf, sf)
          /\ DeleteTurns(loadInventory(lf, sf), claimed, Listing(loadInventory(lf, sf), lf, claimed))
    BY <1>6, DeleteInventoryTurns
  <2> DEFINE inv == loadInventory(lf, sf)
             x   == Listing(inv, lf, claimed)
  <2>2. \/ \E t \in DeleteTokens(inv, claimed) :
             /\ isOurShareToken(w.obj, t, inv)
             /\ w' = [x EXCEPT !.pc = "release", !.tok = t]
        \/ w' = DeleteNameOrFinish(x)
    BY <2>1 DEF DeleteTurns
  <2>3. /\ inv \in ShareInventoryType
        /\ \A r \in inv.remote : r.token \in Token => r \in Own
        /\ Readable => \A r \in Own : r.env = w.dg.env => r \in inv.remote
        /\ \A d \in inv.agent : d \in agent /\ d.env = w.dg.env
    BY <1>0, <2>1, ListedEnvironment
  <2> HIDE DEF inv
  <2>4. Listed(inv, Own, agent, cr)
    BY <1>1, <2>3 DEF Listed, Traced, Same, FindByToken
  <2>5. /\ x \in Worker /\ x.key = w.key /\ x.obj = w.obj /\ x.dg = w.dg /\ x.inv = inv
        /\ x.zid = w.zid /\ x.rest = w.rest /\ x.via = "delete"
    <3>1. w.via = "delete"
      BY <1>6 DEF DeleteInventory
    <3> QED
      BY <1>1, <2>3, <3>1 DEF Worker, Listing
  <2>6. w' = DeleteNameOrFinish(x)
        \/ \E t \in DeleteTokens(inv, claimed) :
             /\ isOurShareToken(x.obj, t, x.inv)
             /\ w' = [x EXCEPT !.pc = "release", !.tok = t]
    BY <2>2, <2>5
  <2> HIDE DEF x
  <2>7. Carries(x, Own, agent, cr)
    BY <1>1, <2>5 DEF Carries
  <2>8. ASSUME NEW t \in DeleteTokens(inv, claimed), isOurShareToken(x.obj, t, x.inv),
               w' = [x EXCEPT !.pc = "release", !.tok = t]
        PROVE  WorkerOurs(w', Own, agent, cr)
    <3>1. t # None /\ (t \notin PrivToken \/ t = x.obj.token)
      <4>1. CASE w.obj.token # None
        BY <2>5, <2>8, <4>1 DEF DeleteTokens
      <4>2. CASE w.obj.token = None
        <5>1. \E d \in inv.agent \cup inv.remote : t = d.token /\ d.name # None
          BY <2>8, <4>2, NoneAssumption
             DEF DeleteTokens, FirstOf, agentByName, FindByFrontendName
        <5>2. PICK d \in inv.agent \cup inv.remote : t = d.token /\ d.name # None
          BY <5>1
        <5>3. t # None
          BY <2>3, <5>2, RemoteToken, NoneAssumption DEF ShareInventoryType, OwnShare
        <5>4. t \in Token => d \in Own \cup agent
          BY <2>3, <5>2
        <5> QED
          BY <1>1, <5>2, <5>3, <5>4, PrivTokenAssumption DEF Traced, Known
      <4> QED
        BY <4>1, <4>2
    <3>2. Harmless(t, x.key, Own)
      BY <1>1, <2>4, <2>5, <2>7, <2>8, <3>1, OurTokenHarmless
    <3>3. w' = [x EXCEPT !.pc = "release", !.via = "delete", !.tok = t]
      BY <2>5, <2>8 DEF Worker
    <3> QED
      BY <2>4, <2>5, <2>7, <3>2, <3>3, ReleaseOurs
  <2>9. WorkerOurs(w', Own, agent, cr)
    BY <2>4, <2>5, <2>6, <2>7, <2>8, DeleteNameOrFinishOurs
  <2> QED
    BY <1>0, <1>6, <2>9, WorkerOnlyOurs DEF DeleteInventory
<1> QED
  BY <1>3, <1>4, <1>5, <1>6

\* Reserving a name, and deleting one that is to be given back.
LEMMA NameStepsOwn ==
  ASSUME Apart, IInv, IInv', OwnInv,
         \/ EnsureReservedName \/ NameOfOtherAccount \/ ReserveFails
         \/ FlushReclaim \/ FlushFails \/ ClearReclaim \/ AnnotateReclaim
         \/ DeleteName \/ DeleteNameFails
  PROVE  OwnInv'
<1>0. w.pc # "idle" /\ UNCHANGED <<env, remote, agent>>
  BY DEF EnsureReservedName, NameOfOtherAccount, ReserveFails, FlushReclaim, FlushFails,
         ClearReclaim, AnnotateReclaim, DeleteName, DeleteNameFails
<1>1. /\ w \in Worker /\ w.key \in Share /\ w.obj \in ShareObject
      /\ Carries(w, Own, agent, cr) /\ Prepared(w, Own, agent, cr) /\ Records(Own, agent, cr)
  BY <1>0, InHand
<1>a. /\ cr[w.key] \in ShareObject /\ w.old \in Label /\ w.cls \in ClassifiedShare
      /\ EnvironmentsKeyed'
  BY <1>0, <1>1, WorkerFields DEF IInv, TypeOK, Worker, OwnInv, EnvironmentsKeyed
\* A patch of the reclaim annotation leaves the worker what it carries.
<1>b. ASSUME NEW o \in ShareObject, o.spec = cr[w.key].spec, o.token = cr[w.key].token,
             Write(o)
      PROVE  /\ Fewer(Own, agent, cr, Own', agent', cr') /\ SpecsOurs'
             /\ Patched(w, o) \in Worker /\ Carries(Patched(w, o), Own, agent, cr)
             /\ Patched(w, o).released = w.released /\ Patched(w, o).key = w.key
             /\ Patched(w, o).cls = w.cls
  <2>1. Fewer(Own, agent, cr, Own', agent', cr') /\ SpecsOurs'
    BY <1>0, <1>b, WriteFewer
  <2>2. Patched(w, o) \in Worker /\ Carries(Patched(w, o), Own, agent, cr)
    BY <1>0, <1>1, <1>b, PatchedType, PatchedOurs
  <2> QED
    BY <1>1, <2>1, <2>2 DEF Patched, Worker
<1>2. CASE EnsureReservedName
  <2>1. WorkerOurs(w', Own, agent, cr)
    BY <1>1, <1>2, FlushReclaimNameOurs DEF EnsureReservedName, Prepared
  <2> QED
    BY <1>2, <2>1, WorkerOnlyOurs DEF EnsureReservedName
<1>3. CASE NameOfOtherAccount \/ ReserveFails
  BY <1>0, <1>3, StopWithOurs DEF NameOfOtherAccount, ReserveFails
<1>4. CASE FlushReclaim
  <2>1. CASE Requeue
    BY <1>4, <2>1, RequeueOurs DEF FlushReclaim
  <2>2. CASE w' = [w EXCEPT !.pc = "unannotate"]
    <3> DEFINE y == [w EXCEPT !.pc = "unannotate"]
    <3>1. y.pc = "unannotate" /\ y.released = w.released /\ y.key = w.key /\ y.cls = w.cls
      BY <1>1 DEF Worker
    <3>2. ~w.released => Classified(w.key, w.cls, Own, agent, cr)
      BY <1>1, <1>4 DEF FlushReclaim, Prepared
    <3>3. Prepared(y, Own, agent, cr)
      BY <3>1, <3>2 DEF Prepared
    <3>4. WorkerOurs(y, Own, agent, cr)
      BY <1>1, <3>3, GoOnOurs DEF PC
    <3> QED
      BY <1>4, <2>2, <3>4, WorkerOnlyOurs DEF FlushReclaim
  <2> QED
    BY <1>4, <2>1, <2>2 DEF FlushReclaim
<1>5. CASE FlushFails \/ DeleteNameFails
  BY <1>5, RequeueOurs DEF FlushFails, DeleteNameFails
<1>6. CASE ClearReclaim
  <2> DEFINE o == [cr[w.key] EXCEPT !.reclaim = None]
  <2>1. o \in ShareObject /\ o.spec = cr[w.key].spec /\ o.token = cr[w.key].token
    BY <1>a DEF ShareObject, Label
  <2>2. Write(o) /\ w' = AfterFlush(Patched(w, o))
    BY <1>6 DEF ClearReclaim
  <2> HIDE DEF o
  <2>3. ~w.released => Classified(w.key, w.cls, Own, agent, cr)
    BY <1>1, <1>6 DEF ClearReclaim, Prepared
  <2>4. WorkerOurs(w', Own, agent, cr)
    BY <1>b, <2>1, <2>2, <2>3, FlushReclaimNameOurs
  <2> QED
    BY <1>a, <1>b, <2>1, <2>2, <2>4, ShrinksOwn
<1>7. CASE AnnotateReclaim
  <2> DEFINE o == [cr[w.key] EXCEPT !.reclaim = w.old]
  <2>1. o \in ShareObject /\ o.spec = cr[w.key].spec /\ o.token = cr[w.key].token
    BY <1>a DEF ShareObject
  <2>2. Write(o) /\ w' = FlushReclaimName(Patched(w, o))
    BY <1>7 DEF AnnotateReclaim
  <2> HIDE DEF o
  <2>3. w.released
    BY <1>1, <1>7 DEF AnnotateReclaim, Prepared
  <2>4. WorkerOurs(w', Own, agent, cr)
    BY <1>b, <2>1, <2>2, <2>3, FlushReclaimNameOurs
  <2> QED
    BY <1>a, <1>b, <2>1, <2>2, <2>4, ShrinksOwn
<1>8. CASE DeleteName
  <2>1. \/ Requeue
        \/ w' = [w EXCEPT !.pc = "final"]
        \/ \E r \in remote : /\ isOurShareToken(w.obj, r.token, w.inv) /\ r.name # None
                             /\ w' = [w EXCEPT !.pc = "release", !.via = "attached",
                                               !.tok = r.token]
    BY <1>8 DEF DeleteName, FindByFrontendName
  <2>2. Listed(w.inv, Own, agent, cr)
    BY <1>1, <1>8 DEF DeleteName, Prepared
  <2>3. CASE Requeue
    BY <1>8, <2>3, RequeueOurs DEF DeleteName
  <2>4. CASE w' = [w EXCEPT !.pc = "final"]
    <3> DEFINE y == [w EXCEPT !.pc = "final"]
    <3>1. y.pc = "final" /\ y.inv = w.inv
      BY <1>1 DEF Worker
    <3>2. Prepared(y, Own, agent, cr)
      BY <2>2, <3>1 DEF Prepared
    <3>3. WorkerOurs(y, Own, agent, cr)
      BY <1>1, <3>2, GoOnOurs DEF PC
    <3> QED
      BY <1>8, <2>4, <3>3, WorkerOnlyOurs DEF DeleteName
  <2>5. ASSUME NEW r \in remote, isOurShareToken(w.obj, r.token, w.inv), r.name # None,
               w' = [w EXCEPT !.pc = "release", !.via = "attached", !.tok = r.token]
        PROVE  OwnInv'
    <3>1. r.token # None /\ r.token \notin PrivToken
      <4>1. r.token # None
        BY RemoteToken, NoneAssumption DEF IInv, TypeOK
      <4>2. r.token \in Token => r \in Own
        BY DEF Own
      <4> QED
        BY <2>5, <4>1, <4>2, PrivTokenAssumption DEF OwnInv, Traced, Known
    <3>2. Harmless(r.token, w.key, Own)
      BY <1>1, <2>2, <2>5, <3>1, OurTokenHarmless
    <3>3. WorkerOurs(w', Own, agent, cr)
      BY <1>1, <2>5, <3>2, ReleaseOurs
    <3> QED
      BY <1>8, <3>3, WorkerOnlyOurs DEF DeleteName
  <2> QED
    BY <2>1, <2>3, <2>4, <2>5
<1> QED
  BY <1>2, <1>3, <1>4, <1>5, <1>6, <1>7, <1>8

\* The release of a share, up to the patch that forgets it.
LEMMA ReleaseStepsOwn ==
  ASSUME IInv, IInv', OwnInv,
         ReleaseShare \/ Unshare \/ UnshareFails \/ UnshareUnauthorized \/ ClearBinding
  PROVE  OwnInv'
<1>0. w.pc # "idle" /\ UNCHANGED env
  BY DEF ReleaseShare, Unshare, UnshareFails, UnshareUnauthorized, ClearBinding
<1>1. /\ w \in Worker /\ w.key \in Share
      /\ Carries(w, Own, agent, cr) /\ Prepared(w, Own, agent, cr)
      /\ cr \in [Share -> ShareObject] /\ cr[w.key] \in ShareObject
  BY <1>0, InHand DEF IInv, TypeOK
<1>2. EnvironmentsKeyed'
  BY <1>0 DEF OwnInv, EnvironmentsKeyed
<1>3. ASSUME w.pc \in {"release", "unshare"}, NEW p \in {"unshare", "clear"},
             w' = [w EXCEPT !.pc = p]
      PROVE  WorkerOurs(w', Own, agent, cr)
  <2> DEFINE y == [w EXCEPT !.pc = p]
  <2>1. /\ y.pc = p /\ y.tok = w.tok /\ y.key = w.key /\ y.via = w.via /\ y.inv = w.inv
    BY <1>1, <1>3 DEF Worker
  <2>2. Prepared(y, Own, agent, cr)
    BY <1>1, <1>3, <2>1 DEF Prepared
  <2> QED
    BY <1>1, <1>3, <2>2, GoOnOurs DEF PC
<1>4. ASSUME w.pc \in {"release", "unshare"}, AfterRelease
      PROVE  WorkerOurs(w', Own, agent, cr)
  BY <1>3, <1>4, IdleOurs DEF AfterRelease, Requeue
\* The share goes from the agent, from the account, or from neither.
<1>5. ASSUME remote' \subseteq remote, agent' \subseteq agent, UNCHANGED cr,
             WorkerOurs(w', Own, agent, cr)
      PROVE  OwnInv'
  <2>1. Fewer(Own, agent, cr, Own', agent', cr') /\ SpecsOurs'
    BY <1>5 DEF Fewer, Same, Own, OwnInv, SpecsOurs
  <2> QED
    BY <1>2, <1>5, <2>1, ShrinksOwn
<1>6. CASE ReleaseShare
  <2>1. /\ remote' \subseteq remote /\ agent' \subseteq agent /\ UNCHANGED cr
        /\ w.pc = "release"
    BY <1>6 DEF ReleaseShare
  <2>2. WorkerOurs(w', Own, agent, cr)
    BY <1>3, <1>4, <1>6 DEF ReleaseShare
  <2> QED
    BY <1>5, <2>1, <2>2
<1>7. CASE Unshare \/ UnshareUnauthorized
  <2>1. /\ remote' \subseteq remote /\ agent' \subseteq agent /\ UNCHANGED cr
        /\ w.pc = "unshare" /\ AfterRelease
    BY <1>7 DEF Unshare, UnshareUnauthorized, Unshared
  <2> QED
    BY <1>4, <1>5, <2>1
<1>8. CASE UnshareFails
  <2>1. remote' \subseteq remote /\ UNCHANGED agent
    BY <1>8 DEF UnshareFails, Unshared
  <2>2. WorkerOurs(w', Own, agent, cr)
    BY <1>8, IdleOurs DEF UnshareFails, StopWith, Requeue
  <2>3. \/ UNCHANGED cr
        \/ cr' = [cr EXCEPT ![w.key].reason = "HealError"]
    BY <1>8 DEF UnshareFails, StopWith, SetNotReady
  <2>4. Fewer(Own, agent, cr, Own', agent', cr') /\ SpecsOurs'
    BY <1>1, <2>1, <2>3 DEF Fewer, Same, Own, OwnInv, SpecsOurs, ShareObject
  <2> QED
    BY <1>2, <2>2, <2>4, ShrinksOwn
<1>9. CASE ClearBinding
  <2> DEFINE bound == w.obj.token # None \/ w.obj.url # None
             o == IF bound THEN clearShareBinding(cr[w.key]) ELSE cr[w.key]
             x == IF bound THEN Patched(w, o) ELSE w
             z == [x EXCEPT !.released = TRUE]
  <2>1. /\ clearShareBinding(cr[w.key]) \in ShareObject
        /\ clearShareBinding(cr[w.key]).token = None
        /\ clearShareBinding(cr[w.key]).spec = cr[w.key].spec
    BY <1>1 DEF clearShareBinding, ShareObject, Label, Reason
  <2>2. o \in ShareObject /\ o.token \in {cr[w.key].token, None} /\ o.spec = cr[w.key].spec
    BY <1>1, <2>1
  <2>3. /\ Write(o) /\ UNCHANGED <<remote, agent>>
        /\ w' = IF w.via = "delete" THEN DeleteNameOrFinish(x) ELSE ReclaimPreviousName(z)
    BY <1>9 DEF ClearBinding
  <2> HIDE DEF bound, o
  <2>4. x \in Worker /\ Carries(x, Own, agent, cr) /\ x.inv = w.inv
    <3>1. /\ Patched(w, o) \in Worker /\ Carries(Patched(w, o), Own, agent, cr)
          /\ Patched(w, o).inv = w.inv
      BY <1>0, <1>1, <2>2, PatchedType, PatchedOurs DEF Patched, Worker
    <3> QED
      BY <1>1, <3>1
  <2> HIDE DEF x
  <2>5. /\ z \in Worker /\ z.released /\ z.key = x.key /\ z.obj = x.obj /\ z.dg = x.dg
        /\ z.zid = x.zid /\ z.rest = x.rest
    BY <2>4 DEF Worker
  <2> HIDE DEF z
  <2>6. Carries(z, Own, agent, cr)
    BY <2>4, <2>5 DEF Carries
  <2>7. w.via = "delete" => Listed(w.inv, Own, agent, cr)
    BY <1>1, <1>9 DEF ClearBinding, Prepared
  <2>8. WorkerOurs(w', Own, agent, cr)
    BY <2>3, <2>4, <2>5, <2>6, <2>7, DeleteNameOrFinishOurs, ReclaimPreviousNameOurs
  <2> QED
    BY <1>2, <2>2, <2>3, <2>8, WriteFewer, ShrinksOwn
<1> QED
  BY <1>6, <1>7, <1>8, <1>9

\* A new share has a token that nobody has, or the private one its object
\* asks for, which no listed share has.
LEMMA NewOwn ==
  ASSUME Apart, IInv, OwnInv, w.pc # "idle", NEW t \in Fresh
  PROVE  /\ Requested(t) \in OwnShare /\ t \in Token /\ t # None
         /\ Requested(t).token = t /\ Requested(t).by = w.key
         /\ Requested(t).target \in Upstreams(w.key)
         /\ t \in PrivToken => t \in PrivOf(w.key) /\ Requested(t).name = None
         /\ t \notin PrivToken => \A c \in Own \cup agent : c.token # t
         /\ \A c \in Own \cup agent : c.token = t => c.by = w.key
         /\ \A s \in Share : cr[s].token = t => s = w.key
<1>1. w.obj.spec \in ShareSpec /\ w.obj.spec \in UserSpec[w.key] /\ w.key \in Share
  BY InHand, WorkerFields DEF Carries
<1>2. t \in Token /\ Requested(t) \in OwnShare
  BY FreshType, RequestedType
<1>3. /\ Requested(t).token = t /\ Requested(t).by = w.key
      /\ Requested(t).target \in Upstreams(w.key) /\ t # None
  BY <1>1, <1>2, NoneAssumption DEF Requested, Upstreams
<1>4. CASE w.dg.mode = "private" /\ w.obj.spec.priv # None
  <2>1. t = w.obj.spec.priv /\ t \in PrivToken
    BY <1>1, <1>4 DEF Fresh, ShareSpec
  <2>2. t \in PrivOf(w.key)
    BY <1>1, <1>4, <2>1 DEF PrivOf
  <2>3. Requested(t).name = None
    BY <1>4 DEF Requested
  <2>4. \A c \in Own \cup agent : c.token = t => c.by = w.key
    <3>1. SUFFICES ASSUME NEW c \in Own \cup agent, c.token = t PROVE c.by = w.key
      OBVIOUS
    <3>2. t \in PrivOf(c.by) /\ c.by \in Share
      BY <2>1, <3>1, RecordsOwn DEF OwnInv, Traced, Known, Records, OwnShare
    <3> QED
      BY <1>1, <2>2, <3>2 DEF Apart
  <2>5. \A s \in Share : cr[s].token = t => s = w.key
    BY <1>1, <2>1, <2>2 DEF OwnInv, TokensAsked, Apart
  <2> QED
    BY <1>2, <1>3, <2>1, <2>2, <2>3, <2>4, <2>5
<1>5. CASE ~(w.dg.mode = "private" /\ w.obj.spec.priv # None)
  <2>1. t \notin PrivToken /\ ~InUse(t)
    BY <1>5 DEF Fresh
  <2> QED
    BY <1>2, <1>3, <2>1 DEF InUse, Own
<1> QED
  BY <1>4, <1>5

\* The account stays traced when such a share comes.
LEMMA GrowsTraced ==
  ASSUME NEW R, NEW A, NEW C, NEW R2, NEW A2, NEW q, q.target \in Upstreams(q.by),
         q.token \in PrivToken => q.token \in PrivOf(q.by) /\ q.name = None,
         q.token \notin PrivToken => \A c \in R \cup A : c.token # q.token,
         \A c \in R \cup A : c.token = q.token => c.by = q.by,
         \A s \in Share : C[s].token = q.token => s = q.by,
         R2 \subseteq R \cup {q}, A2 \subseteq A \cup {q}, Traced(R, A, C)
  PROVE  Traced(R2, A2, C)
<1>1. SUFFICES ASSUME NEW d \in R2 \cup A2
               PROVE  /\ Known(d, R2, A2, C)
                      /\ d.token \notin PrivToken =>
                           \A c \in R2 \cup A2 : c.token = d.token => Same(c, d)
  BY DEF Traced
<1>2. \A c \in R2 \cup A2 : c \in R \cup A \/ c = q
  OBVIOUS
<1>3. CASE d = q
  BY <1>2, <1>3 DEF Known, Same
<1>4. CASE d \in R \cup A
  BY <1>2, <1>4 DEF Traced, Known, Same
<1> QED
  BY <1>2, <1>3, <1>4

\* Creating a share, recording it, and the end of a deletion.
LEMMA ShareStepsOwn ==
  ASSUME Apart, IInv, IInv', OwnInv,
         \/ CreateShare \/ CreateConflict \/ CreateRefused \/ CreateFails
         \/ MarkShareReady \/ StampDigest \/ RemoveFinalizer
  PROVE  OwnInv'
<1>0. w.pc # "idle" /\ UNCHANGED env
  BY DEF CreateShare, CreateConflict, CreateRefused, CreateFails, MarkShareReady,
         StampDigest, RemoveFinalizer
<1>1. /\ w \in Worker /\ w.key \in Share
      /\ Carries(w, Own, agent, cr) /\ Prepared(w, Own, agent, cr)
      /\ cr \in [Share -> ShareObject] /\ cr[w.key] \in ShareObject
  BY <1>0, InHand DEF IInv, TypeOK
<1>2. EnvironmentsKeyed'
  BY <1>0 DEF OwnInv, EnvironmentsKeyed
<1>3. ASSUME NEW t \in Fresh, remote' = remote \cup {Requested(t)},
             agent' \subseteq agent \cup {Requested(t)}
      PROVE  Own' \subseteq Own \cup {Requested(t)} /\ Traced(Own', agent', cr)
  <2>1. Own' \subseteq Own \cup {Requested(t)}
    BY <1>3 DEF Own
  <2> QED
    BY <1>0, <1>3, <2>1, NewOwn, GrowsTraced, InHand
<1>4. CASE CreateShare
  <2>1. PICK t \in Fresh : /\ remote' = remote \cup {Requested(t)}
                           /\ agent' = agent \cup {Requested(t)}
                           /\ w' = [w EXCEPT !.pc = "mark", !.tok = t,
                                             !.url = AssignedURL(w.obj, Requested(t))]
    BY <1>4 DEF CreateShare
  <2>2. Own' \subseteq Own \cup {Requested(t)} /\ Traced(Own', agent', cr)
    BY <1>3, <2>1
  <2>3. UNCHANGED cr
    BY <1>4 DEF CreateShare
  <2>4. ASSUME NEW tok, tok = t \/ Ours(tok, w.key, Own, agent, cr)
        PROVE  Ours(tok, w.key, Own', agent', cr')
    BY <1>0, <2>1, <2>2, <2>3, <2>4, NewOwn DEF Ours
  <2>5. /\ w'.pc = "mark" /\ w'.tok = t /\ w'.key = w.key /\ w'.obj = w.obj /\ w'.dg = w.dg
        /\ w'.zid = w.zid /\ w'.rest = w.rest
    BY <1>1, <2>1 DEF Worker
  <2>6. Carries(w', Own', agent', cr') /\ Prepared(w', Own', agent', cr')
    BY <1>1, <2>4, <2>5 DEF Carries, Prepared
  <2>7. WorkerOurs(w', Own', agent', cr')
    BY <2>6 DEF WorkerOurs
  <2>8. TokenExclusive' /\ SpecsOurs' /\ TokensAsked' /\ Traced(Own', agent', cr')
    BY <2>2, <2>3 DEF OwnInv, TokenExclusive, SpecsOurs, TokensAsked
  <2> QED
    BY <1>2, <2>7, <2>8 DEF OwnInv
<1>5. CASE CreateConflict
  <2>1. w' = [w EXCEPT !.pc = "conflict"] /\ UNCHANGED <<cr, env, remote, agent>>
    BY <1>5 DEF CreateConflict
  <2>2. [w EXCEPT !.pc = "conflict"].pc = "conflict"
    BY <1>1 DEF Worker
  <2>3. Prepared([w EXCEPT !.pc = "conflict"], Own, agent, cr)
    BY <2>2 DEF Prepared
  <2>4. WorkerOurs(w', Own, agent, cr)
    BY <1>1, <2>1, <2>3, GoOnOurs DEF PC
  <2> QED
    BY <2>1, <2>4, WorkerOnlyOurs
<1>6. CASE CreateRefused
  BY <1>0, <1>6, StopWithOurs DEF CreateRefused
<1>7. CASE CreateFails
  <2>1. StopWith("ShareError")
    BY <1>7 DEF CreateFails
  <2>2. CASE UNCHANGED <<remote, agent>>
    BY <1>0, <2>1, <2>2, StopWithOurs
  <2>3. ASSUME NEW t \in Fresh, remote' = remote \cup {Requested(t)},
               agent' \subseteq agent \cup {Requested(t)}
        PROVE  OwnInv'
    <3>1. Traced(Own', agent', cr)
      BY <1>3, <2>3
    <3>2. \A s \in Share : cr'[s].token = cr[s].token /\ cr'[s].spec = cr[s].spec
      BY <1>1, <2>1 DEF StopWith, SetNotReady, ShareObject
    <3>3. Traced(Own', agent', cr')
      BY <3>1, <3>2 DEF Traced, Known
    <3>4. TokenExclusive' /\ SpecsOurs' /\ TokensAsked'
      BY <3>2 DEF OwnInv, TokenExclusive, SpecsOurs, TokensAsked
    <3>5. WorkerOurs(w', Own', agent', cr')
      BY <2>1, IdleType DEF StopWith, Requeue, WorkerOurs
    <3> QED
      BY <1>2, <3>3, <3>4, <3>5 DEF OwnInv
  <2> QED
    BY <1>7, <2>2, <2>3 DEF CreateFails
<1>8. CASE MarkShareReady
  <2> DEFINE v == reservation(w.obj.spec.mode, cr[w.key].spec.name)
             o == [cr[w.key] EXCEPT !.token = w.tok, !.url = w.url,
                                    !.reason = "Ready", !.reservation = v]
  <2>1. Write(o) /\ w' = [Patched(w, o) EXCEPT !.pc = "stamp"]
    BY <1>8 DEF MarkShareReady
  <2>2. o.token = w.tok /\ o.spec = cr[w.key].spec
    BY <1>1 DEF ShareObject
  <2> HIDE DEF o
  <2>3. cr' = [cr EXCEPT ![w.key] = o] /\ Own' = Own /\ agent' = agent
    BY <1>8, <2>1 DEF MarkShareReady, Write, Own
  <2>4. /\ \A s \in Share : cr'[s].token = IF s = w.key THEN w.tok ELSE cr[s].token
        /\ \A s \in Share : cr'[s].spec = cr[s].spec
    BY <1>1, <2>2, <2>3
  <2>5. Ours(w.tok, w.key, Own, agent, cr)
    BY <1>1, <1>8 DEF MarkShareReady, Prepared
  <2>6. TokenExclusive' /\ TokensAsked'
    BY <2>4, <2>5, PrivTokenAssumption, NoneAssumption
       DEF OwnInv, TokenExclusive, TokensAsked, Ours
  <2>7. Traced(Own, agent, cr')
    <3>1. \A d \in Own \cup agent : d.token # None
      BY <1>0, InHand, NoneAssumption DEF Records, OwnShare
    <3> QED
      BY <1>1, <2>4, <2>5, <3>1 DEF OwnInv, Traced, Known, Ours
  <2>8. Ours(w.tok, w.key, Own, agent, cr')
    BY <2>4, <2>5 DEF Ours
  <2>9. /\ w'.pc = "stamp" /\ w'.obj = o /\ w'.key = w.key /\ w'.dg = w.dg
        /\ w'.zid = w.zid /\ w'.rest = w.rest
    BY <1>1, <2>1 DEF Patched, Worker
  <2>10. o.spec \in UserSpec[w.key]
    BY <1>1, <2>2 DEF OwnInv, SpecsOurs
  <2>11. Carries(w', Own, agent, cr') /\ Prepared(w', Own, agent, cr')
    BY <1>1, <2>2, <2>8, <2>9, <2>10 DEF Carries, Prepared
  <2>12. WorkerOurs(w', Own, agent, cr')
    BY <2>11 DEF WorkerOurs
  <2>13. SpecsOurs'
    BY <2>4 DEF OwnInv, SpecsOurs
  <2> QED
    BY <1>2, <2>3, <2>6, <2>7, <2>12, <2>13 DEF OwnInv
<1>9. CASE StampDigest
  <2>1. \A s \in Share : cr'[s].token = cr[s].token /\ cr'[s].spec = cr[s].spec
    BY <1>1, <1>9 DEF StampDigest, ShareObject
  <2>2. Fewer(Own, agent, cr, Own', agent', cr') /\ SpecsOurs'
    BY <1>9, <2>1 DEF StampDigest, Fewer, Same, Own, OwnInv, SpecsOurs
  <2>3. WorkerOurs(w', Own, agent, cr)
    BY <1>9, IdleOurs DEF StampDigest, Requeue
  <2> QED
    BY <1>2, <2>2, <2>3, ShrinksOwn
<1>10. CASE RemoveFinalizer
  <2>1. \A s \in Share : /\ cr'[s].token \in {cr[s].token, None}
                         /\ cr'[s].spec \in UserSpec[s]
    BY <1>1, <1>10, AbsentOurs DEF RemoveFinalizer, OwnInv, SpecsOurs
  <2>2. Fewer(Own, agent, cr, Own', agent', cr') /\ SpecsOurs'
    BY <1>10, <2>1 DEF RemoveFinalizer, Fewer, Same, Own, SpecsOurs
  <2>3. WorkerOurs(w', Own, agent, cr)
    BY <1>10, IdleOurs DEF RemoveFinalizer, Requeue
  <2> QED
    BY <1>2, <2>2, <2>3, ShrinksOwn
<1> QED
  BY <1>4, <1>5, <1>6, <1>7, <1>8, <1>9, <1>10

-----------------------------------------------------------------------------
(* The theorems.                                                           *)

\* Every step of the system preserves the invariant.
LEMMA NextOwn == Apart /\ IInv /\ IInv' /\ OwnInv /\ [Next]_vars => OwnInv'
<1> SUFFICES ASSUME Apart, IInv, IInv', OwnInv, [Next]_vars PROVE OwnInv'
  OBVIOUS
<1>1. ASSUME NEW s \in Share, Reconcile(s) PROVE OwnInv'
  BY <1>1, ReconcileOwn
<1>2. CASE Step
  BY <1>2, InventoryStepsOwn, NameStepsOwn, ReleaseStepsOwn, ShareStepsOwn DEF Step
<1>3. CASE Crash \/ WriteFails
  BY <1>3, IdleOurs, WorkerOnlyOurs DEF Crash, WriteFails, Requeue
<1>4. CASE Environment
  BY <1>4, UserOwn, OutsideOwn DEF Environment
<1>5. CASE UNCHANGED vars
  BY <1>5, WorkerOnlyOurs DEF vars, OwnInv
<1> QED
  BY <1>1, <1>2, <1>3, <1>4, <1>5 DEF Next

\* The invariant holds throughout when the objects are apart.
LEMMA Ownership == ASSUME Apart PROVE Spec => []OwnInv
<1>1. IInv /\ IInv' /\ OwnInv /\ [Next]_vars => OwnInv'
  BY NextOwn
<1> QED
  BY <1>1, InitOwn, Invariance, PTL DEF Spec

\* Two objects with upstreams of their own never hold one share, whatever
\* names they compete for and whatever fails: adoption and takeover
\* (classifyShare, adoptableAgentShare) look at the target.
THEOREM TokensExclusive == ASSUME Apart PROVE Spec => []TokenExclusive
<1>1. OwnInv => TokenExclusive
  BY DEF OwnInv
<1> QED
  BY <1>1, Ownership, PTL

\* ... and while the listing is readable none of them releases a share that
\* was made for another: what releaseOurs and reconcileDelete take in hand
\* (isOurShareToken) is theirs.
THEOREM ReleasesOwn == ASSUME Apart, Readable PROVE Spec => []ReleasesOwnOnly
<1>1. OwnInv => ReleasesOwnOnly
  BY DEF OwnInv, WorkerOurs, Prepared, Harmless, ReleasesOwnOnly
<1> QED
  BY <1>1, Ownership, PTL
=============================================================================
