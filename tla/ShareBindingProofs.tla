------------------------- MODULE ShareBindingProofs -------------------------
(***************************************************************************)
(* What an object is bound to.  While no answer and no write of the object *)
(* is lost, every share the operator made is recorded in its object's      *)
(* status or in the hands of the worker (EveryShareHeld), none is released *)
(* for a rebuild before the name its successor needs is reserved           *)
(* (ReservedBeforeRelease), and an object that says Ready is served        *)
(* (ReadyIsServed).  The inductive invariant says, for each place in the   *)
(* code, which shares of its object are left: the one in the worker's      *)
(* hands, the one it found, or none.                                       *)
(***************************************************************************)
EXTENDS ShareOwnershipProofs

\* The environments of the specs that users write into object s.
EnvsOf(s) == {sp.env : sp \in UserSpec[s]}

\* Nobody moves an object to another environment.
Housed == \A s \in Share : \A a, b \in EnvsOf(s) : a = b

\* No answer is lost: the call that creates a share is answered, the status
\* patch that records it follows, and what the agent or the account refuses
\* to release is not taken for released.  Lists, Status calls, names, Unshare
\* calls and the patches of setNotReady may fail, and agents restart.
Lossless ==
  Keyed /\ FaultKind \cap {"create", "crash", "write", "unauthorized", "release"} = {}

\* Shares neither stop nor fall idle by themselves, the listing is there, and
\* setNotReady is written.
Quiet == FaultKind \cap {"list", "restart", "stall", "patch"} = {}

\* Every record's token is its object's, or in the hands of the worker.
HeldBy(x, R, C) ==
  \A r \in R : C[r.by].token = r.token \/ (x.pc = "mark" /\ x.key = r.by)

\* An object that says Ready has a share, unless it is just being replaced.
Served(x, R, A, C) ==
  \A s \in Share : C[s].phase = "live" /\ C[s].reason = "Ready" =>
    \/ \E r \in R \cap A : r.token = C[s].token /\ r.by = s
    \/ x.pc \in {"unshare", "clear"} /\ x.key = s

\* The agents run nothing that the account does not list.
Backed(R, A) == \A d \in A : \E r \in R : r.token = d.token

\* A token is recorded, and an object deleted, only behind the finalizer.
Finalized(C) ==
  \A s \in Share : /\ C[s].phase = "absent" => ~C[s].finalizer
                   /\ C[s].token # None \/ C[s].phase = "deleting" => C[s].finalizer

\* Every share is in the environment of its object.
At(R, A) == \A d \in R \cup A : d.env \in EnvsOf(d.by)

\* An old name waits to be deleted only where no share is left.
Pending(R, C) == \A s \in Share : C[s].reclaim # None => Mine(s, R) = {}

\* Ready objects have a token.
ReadyBound(C) == \A s \in Share : C[s].reason = "Ready" => C[s].token # None

\* The worker's copy of its object.
Base(x, C) ==
  /\ C[x.key].finalizer
  /\ x.obj.token = C[x.key].token /\ x.obj.reclaim = C[x.key].reclaim
  /\ x.dg.env \in EnvsOf(x.key)
  /\ x.via \in {"delete", "attached"} => C[x.key].phase = "deleting"

\* What the inventory showed: each share left of the object was found, and
\* nothing else was.
Seen(x, R) ==
  \A r \in Mine(x.key, R) :
    x.cls.remote # {} /\ \A c \in x.cls.remote \cup x.cls.agent : c.token = r.token
NothingOurs(x) ==
  /\ x.cls.agent = {}
  /\ \A c \in x.cls.remote : ~TargetsEqual(c.target, x.dg.target) /\ c.token # x.obj.token
Found(x, R, A) ==
  /\ Seen(x, R)
  /\ x.obj.reclaim # None => NothingOurs(x)
  /\ Quiet => x.cls.agent \subseteq A

\* Before and after the old share is released.
Early(x) == x.pc \in {"reserve", "flush", "unannotate"} /\ ~x.released
Late(x) ==
  \/ x.pc \in {"clear", "annotate", "create", "conflict", "dname", "final"}
  \/ x.pc \in {"flush", "unannotate"} /\ x.released

\* Which shares of its object are left at each place, and what is reserved.
Place(x, R, A, C, N) ==
  /\ x.pc \in {"inventory", "reserve"} => ~x.released
  /\ Early(x) => Found(x, R, A)
  /\ x.pc \in {"mark", "release", "unshare"} => \A r \in Mine(x.key, R) : r.token = x.tok
  /\ Late(x) => Mine(x.key, R) = {}
  /\ x.pc = "mark" /\ Quiet => \E d \in A : d.token = x.tok /\ d.by = x.key
  /\ x.pc = "unshare" => \A d \in A : ~(d.token = x.tok /\ d.env = x.dg.env)
  /\ x.pc \in {"flush", "unannotate"} => x.obj.reclaim # None
  /\ x.pc = "create" \/ (x.pc \in {"release", "unshare", "clear"} /\ x.via = "rebuild")
       => C[x.key].reclaim = None
  /\ x.pc \in {"release", "unshare"} /\ x.via = "rebuild" => x.obj.spec.name \in N \cup {None}
  /\ x.pc \in {"release", "unshare"} /\ Quiet => x.via # "conflict"
  /\ x.pc = "dname" => x.via = "delete"
  /\ x.pc = "clear" => x.via \in {"rebuild", "delete"}

Binds(x, R, A, C, N) == x.pc # "idle" => Base(x, C) /\ Place(x, R, A, C, N)

\* What holds whatever the worker does.
Account(R, A, C) ==
  /\ Backed(R, A) /\ Finalized(C) /\ At(R, A) /\ Pending(R, C)
  /\ Quiet => A \subseteq R /\ ReadyBound(C)

BindInv ==
  /\ Account(Own, agent, cr)
  /\ HeldBy(w, Own, cr)
  /\ Quiet => Served(w, Own, agent, cr)
  /\ Binds(w, Own, agent, cr, names)

-----------------------------------------------------------------------------
(* The decisions.                                                          *)

\* What a found agent share serves tells whose it is.
Targeted(x) ==
  /\ x.dg.target \in Upstreams(x.key)
  /\ \A d \in x.cls.agent : d.target \in Upstreams(d.by)

\* From "adopt" on: what is adopted or released is the share that is left,
\* and a share is made only where none is left.
LEMMA AdoptOrRebuildBinds ==
  ASSUME Apart, NEW R, NEW A, NEW C, NEW N, NEW x \in Worker, Targeted(x),
         Base(x, C), C[x.key].reclaim = None, Seen(x, R),
         \A r \in Mine(x.key, R) : r.token = x.obj.token,
         Quiet => x.cls.agent \subseteq A,
         x.obj.spec.name \in N \cup {None} \/ NothingOurs(x)
  PROVE  Binds(AdoptOrRebuild(x), R, A, C, N)
<1> DEFINE ready == adoptableAgentShare(x.obj, x.cls, x.dg.target, x.dg)
           ours  == {r \in x.cls.remote : \/ TargetsEqual(r.target, x.dg.target)
                                          \/ r.token = x.obj.token}
           drop  == FirstOf(x.cls.agent, ours)
           d     == CHOOSE d \in ready : TRUE
           r     == CHOOSE r \in drop : TRUE
           adopt == [x EXCEPT !.pc = "mark", !.tok = d.token,
                              !.url = AssignedURL(x.obj, d)]
           rebuild == [x EXCEPT !.pc = "release", !.via = "rebuild",
                                !.tok = r.token,
                                !.old = liveFrontendName(x.obj, x.cls),
                                !.prev = x.obj.reservation = "reserved"]
           create == [x EXCEPT !.pc = "create"]
<1>1. AdoptOrRebuild(x) = IF ready # {} THEN adopt ELSE IF drop # {} THEN rebuild ELSE create
  BY DEF AdoptOrRebuild
<1>2. x.key \in Share /\ x.cls.agent \subseteq OwnShare
  BY WorkerFields DEF ClassifiedShare
<1>3. \A q \in ready : q \in x.cls.agent /\ q.by = x.key
  <2>1. \A q \in ready : q \in x.cls.agent /\ TargetsEqual(q.target, x.dg.target)
    BY DEF adoptableAgentShare, agentShareMatchesSpec
  <2>2. \A q \in x.cls.agent : q.by \in Share
    BY <1>2 DEF OwnShare
  <2> HIDE DEF ready
  <2> QED
    BY <1>2, <2>1, <2>2, TargetTells DEF Targeted
<1>4. drop \subseteq x.cls.agent \cup x.cls.remote
  BY DEF FirstOf
<1>5. drop = {} => x.cls.agent = {} /\ Mine(x.key, R) = {}
  BY DEF FirstOf, Seen
<1>6. NothingOurs(x) => drop = {}
  BY DEF FirstOf, NothingOurs
<1> HIDE DEF ready, ours, drop
<1>7. ASSUME ready # {} PROVE Binds(adopt, R, A, C, N)
  <2>1. d \in ready
    BY <1>7
  <2> HIDE DEF d
  <2>2. adopt.pc = "mark" /\ adopt.tok = d.token /\ adopt.key = x.key
        /\ adopt.obj = x.obj /\ adopt.dg = x.dg /\ adopt.via = x.via
    BY DEF Worker
  <2> HIDE DEF adopt
  <2>3. Base(adopt, C)
    BY <2>2 DEF Base
  <2>4. \A q \in Mine(x.key, R) : q.token = d.token
    BY <1>3, <2>1 DEF Seen
  <2>5. Quiet => d \in A /\ d.by = x.key
    BY <1>3, <2>1
  <2>6. Place(adopt, R, A, C, N)
    BY <2>2, <2>4, <2>5 DEF Place, Early, Late
  <2> QED
    BY <2>3, <2>6 DEF Binds
<1>8. ASSUME drop # {} PROVE Binds(rebuild, R, A, C, N)
  <2>1. r \in drop
    BY <1>8
  <2> HIDE DEF r
  <2>2. rebuild.pc = "release" /\ rebuild.via = "rebuild" /\ rebuild.tok = r.token
        /\ rebuild.key = x.key /\ rebuild.obj = x.obj /\ rebuild.dg = x.dg
    BY DEF Worker
  <2> HIDE DEF rebuild
  <2>3. Base(rebuild, C)
    BY <2>2 DEF Base
  <2>4. \A q \in Mine(x.key, R) : q.token = r.token
    BY <1>4, <2>1 DEF Seen
  <2>5. x.obj.spec.name \in N \cup {None}
    BY <1>6, <1>8
  <2>6. Place(rebuild, R, A, C, N)
    BY <2>2, <2>4, <2>5 DEF Place, Early, Late
  <2> QED
    BY <2>3, <2>6 DEF Binds
<1>9. ASSUME drop = {} PROVE Binds(create, R, A, C, N)
  <2>1. create.pc = "create" /\ create.key = x.key /\ create.obj = x.obj /\ create.dg = x.dg
        /\ create.via = x.via
    BY DEF Worker
  <2> HIDE DEF create
  <2>2. Base(create, C)
    BY <2>1 DEF Base
  <2>3. Place(create, R, A, C, N)
    BY <1>5, <1>9, <2>1 DEF Place, Early, Late
  <2> QED
    BY <2>2, <2>3 DEF Binds
<1> HIDE DEF adopt, rebuild, create
<1> QED
  BY <1>1, <1>7, <1>8, <1>9

\* A creation, where no share is left and no name waits to be deleted.
LEMMA CreateBinds ==
  ASSUME NEW R, NEW A, NEW C, NEW N, NEW x \in Worker, Base(x, C),
         C[x.key].reclaim = None, Mine(x.key, R) = {}
  PROVE  Binds([x EXCEPT !.pc = "create"], R, A, C, N)
<1> DEFINE y == [x EXCEPT !.pc = "create"]
<1>1. y.pc = "create" /\ y.key = x.key /\ y.obj = x.obj /\ y.dg = x.dg /\ y.via = x.via
  BY DEF Worker
<1> HIDE DEF y
<1>2. Binds(y, R, A, C, N)
  BY <1>1 DEF Binds, Base, Place, Early, Late
<1> QED
  BY <1>2 DEF y

\* After the annotation is dealt with.
LEMMA AfterFlushBinds ==
  ASSUME Apart, NEW R, NEW A, NEW C, NEW N, NEW x \in Worker,
         Base(x, C), C[x.key].reclaim = None,
         x.released => Mine(x.key, R) = {},
         \A r \in Mine(x.key, R) : r.token = x.obj.token,
         ~x.released => /\ Targeted(x) /\ Seen(x, R)
                        /\ Quiet => x.cls.agent \subseteq A
                        /\ x.obj.spec.name \in N \cup {None} \/ NothingOurs(x)
  PROVE  Binds(AfterFlush(x), R, A, C, N)
  BY AdoptOrRebuildBinds, CreateBinds DEF AfterFlush

\* flushReclaimName: a pending name is dealt with where nothing is left.
LEMMA FlushReclaimNameBinds ==
  ASSUME Apart, NEW R, NEW A, NEW C, NEW N, NEW x \in Worker, Base(x, C),
         x.released => Mine(x.key, R) = {},
         \A r \in Mine(x.key, R) : r.token = x.obj.token,
         ~x.released => Targeted(x) /\ Found(x, R, A) /\ x.obj.spec.name \in N \cup {None}
  PROVE  Binds(FlushReclaimName(x), R, A, C, N)
<1>1. CASE x.obj.reclaim = None
  <2>1. C[x.key].reclaim = None
    BY <1>1 DEF Base
  <2>2. Binds(AfterFlush(x), R, A, C, N)
    BY <2>1, AfterFlushBinds DEF Found
  <2> QED
    BY <1>1, <2>2 DEF FlushReclaimName
<1>2. ASSUME x.obj.reclaim # None, NEW p \in {"unannotate", "flush"}
      PROVE  Binds([x EXCEPT !.pc = p], R, A, C, N)
  <2> DEFINE y == [x EXCEPT !.pc = p]
  <2>1. y.pc = p /\ y.key = x.key /\ y.obj = x.obj /\ y.dg = x.dg /\ y.via = x.via
        /\ y.released = x.released /\ y.cls = x.cls
    BY DEF Worker
  <2> HIDE DEF y
  <2>2. Base(y, C)
    BY <2>1 DEF Base
  <2>3. ~x.released => Found(y, R, A)
    BY <2>1 DEF Found, Seen, NothingOurs
  <2>4. Place(y, R, A, C, N)
    BY <1>2, <2>1, <2>3 DEF Place, Early, Late
  <2>5. Binds(y, R, A, C, N)
    BY <2>2, <2>4 DEF Binds
  <2> QED
    BY <2>5 DEF y
<1> QED
  BY <1>1, <1>2 DEF FlushReclaimName

\* ensureReservedName, if there is a name.
LEMMA AfterInventoryBinds ==
  ASSUME Apart, NEW R, NEW A, NEW C, NEW N, NEW x \in Worker, Base(x, C),
         ~x.released, Targeted(x), Found(x, R, A),
         \A r \in Mine(x.key, R) : r.token = x.obj.token
  PROVE  Binds(AfterInventory(x), R, A, C, N)
<1> DEFINE y == [x EXCEPT !.pc = "reserve"]
<1>1. y.pc = "reserve" /\ y.key = x.key /\ y.obj = x.obj /\ y.dg = x.dg /\ y.via = x.via
      /\ y.released = x.released /\ y.cls = x.cls
  BY DEF Worker
<1> HIDE DEF y
<1>2. Found(y, R, A)
  BY <1>1 DEF Found, Seen, NothingOurs
<1>3. Binds(y, R, A, C, N)
  BY <1>1, <1>2 DEF Binds, Base, Place, Early, Late
<1>4. x.obj.spec.name = None => Binds(FlushReclaimName(x), R, A, C, N)
  BY FlushReclaimNameBinds
<1> QED
  BY <1>3, <1>4 DEF AfterInventory, y

\* reclaimPreviousName, after the old share was released.
LEMMA ReclaimPreviousNameBinds ==
  ASSUME NEW R, NEW A, NEW C, NEW N, NEW x \in Worker, Base(x, C),
         C[x.key].reclaim = None, Mine(x.key, R) = {}
  PROVE  Binds(ReclaimPreviousName(x), R, A, C, N)
<1> DEFINE y == [x EXCEPT !.pc = "annotate"]
<1>1. y.pc = "annotate" /\ y.key = x.key /\ y.obj = x.obj /\ y.dg = x.dg /\ y.via = x.via
  BY DEF Worker
<1> HIDE DEF y
<1>2. Binds(y, R, A, C, N)
  BY <1>1 DEF Binds, Base, Place, Early, Late
<1> QED
  BY <1>2, CreateBinds DEF ReclaimPreviousName, y

\* The end of a deletion.
LEMMA DeleteNameOrFinishBinds ==
  ASSUME NEW R, NEW A, NEW C, NEW N, NEW x \in Worker, Base(x, C),
         x.via = "delete", Mine(x.key, R) = {}
  PROVE  Binds(DeleteNameOrFinish(x), R, A, C, N)
<1>1. ASSUME NEW p \in {"dname", "final"} PROVE Binds([x EXCEPT !.pc = p], R, A, C, N)
  <2> DEFINE y == [x EXCEPT !.pc = p]
  <2>1. y.pc = p /\ y.key = x.key /\ y.obj = x.obj /\ y.dg = x.dg /\ y.via = x.via
    BY DEF Worker
  <2> HIDE DEF y
  <2>2. Binds(y, R, A, C, N)
    BY <1>1, <2>1 DEF Binds, Base, Place, Early, Late
  <2> QED
    BY <2>2 DEF y
<1> QED
  BY <1>1 DEF DeleteNameOrFinish

\* What c shows of object k: the share it has, or nothing.
Shows(c, k, o, t, R, A) ==
  /\ \A r \in Mine(k, R) :
       c.remote # {} /\ \A q \in c.remote \cup c.agent : q.token = r.token
  /\ Mine(k, R) = {} =>
       /\ c.agent = {}
       /\ \A q \in c.remote : ~TargetsEqual(q.target, t) /\ q.token # o.token
  /\ c.agent \subseteq A

\* classifyShare shows it, of an inventory with a listing.
LEMMA InventoryShows ==
  ASSUME Apart, NEW R, NEW A, NEW C, Records(R, A, C), Traced(R, A, C), Backed(R, A),
         NEW k \in Share, NEW o \in ShareObject, Ours(o.token, k, R, A, C),
         NEW t \in Upstreams(k), t \in Target,
         NEW inv \in ShareInventoryType, NEW e,
         \A r \in inv.remote : r.token \in Token => r \in R,
         \A r \in R : r.env = e => r \in inv.remote,
         \A d \in inv.agent : d \in A /\ d.env = e,
         \A r \in Mine(k, R) : r.token = o.token /\ r.env = e,
         NEW c \in classifyShare(o, t, inv), ~c.foreignName
  PROVE  Shows(c, k, o, t, R, A)
<1> DEFINE remotes == FirstOf(FindByToken(inv.remote, o.token),
                        FirstOf(FindByFrontendName(inv.remote, o.spec.name),
                                FindByToken(inv.remote, o.spec.priv)))
           agents  == FirstOf(FindByToken(inv.agent, o.token),
                              agentByName(inv.agent, o.spec.name))
           holders == {h \in FindByFrontendName(inv.remote, o.spec.name) :
                         /\ ~TargetsEqual(h.target, t)
                         /\ h.token # o.token}
           found   == FirstOf(holders, remotes)
<1>1. c \in [remote : Pick(found), agent : Pick(agents), foreignName : {holders # {}}]
  BY DEF classifyShare
<1>2. found \subseteq inv.remote
  BY DEF FirstOf, FindByToken, FindByFrontendName
<1>3. \A d \in agents : /\ d \in inv.agent
                        /\ d.token = o.token \/ (d.name = o.spec.name /\ d.name # None)
  BY DEF FirstOf, FindByToken, agentByName, FindByFrontendName
<1>4. holders = {}
  <2> HIDE DEF holders, found, agents
  <2> QED
    BY <1>1
<1>5. \A r \in inv.remote : r.name = o.spec.name /\ r.name # None =>
         TargetsEqual(r.target, t) \/ r.token = o.token
  BY <1>4 DEF FindByFrontendName
<1>6. \A r \in inv.remote : r.token = o.token =>
        found # {} /\ \A q \in found : q.token = o.token
  <2> HIDE DEF holders
  <2> QED
    BY <1>4 DEF FirstOf, FindByToken
<1> HIDE DEF holders, found, agents, remotes
<1>7. c.remote \subseteq found /\ c.agent \subseteq agents /\ (found # {} => c.remote # {})
  BY <1>1 DEF Pick
\* An agent share found by name is the object's: its record holds the name.
<1>8. ASSUME NEW d \in agents PROVE d.token = o.token /\ \E r \in Mine(k, R) : TRUE
  <2>1. d \in A /\ d.env = e /\ Known(d, R, A, C) /\ d.token \in Token /\ d.token # None
    BY <1>3, NoneAssumption DEF Traced, Records, OwnShare
  <2>2. PICK r \in R : r.token = d.token
    BY <2>1 DEF Backed
  <2>3. r.by \in Share /\ r.target \in Upstreams(r.by)
    BY DEF Records, OwnShare, Traced, Known
  <2>4. CASE d.token = o.token
    BY <2>1, <2>2, <2>4 DEF Ours, Mine
  <2>5. CASE d.token # o.token
    <3>1. d.name = o.spec.name /\ d.name # None
      BY <1>3, <2>5
    <3>2. Same(r, d)
      BY <2>1, <2>2, <3>1 DEF Traced, Known, Same
    <3>3. r \in inv.remote /\ TargetsEqual(r.target, t)
      BY <1>5, <2>1, <2>2, <2>5, <3>1, <3>2 DEF Same
    <3>4. r.by = k
      BY <2>3, <3>3, TargetTells
    <3> QED
      BY <2>2, <3>4 DEF Mine
  <2> QED
    BY <2>4, <2>5
<1>9. ASSUME NEW q \in c.remote, TargetsEqual(q.target, t) \/ q.token = o.token
      PROVE  \E r \in Mine(k, R) : TRUE
  <2>1. q \in inv.remote /\ q \in RemoteShare /\ q.token # None
    BY <1>2, <1>7, RemoteToken, NoneAssumption DEF ShareInventoryType
  <2>2. q.token \in Token
    <3>1. CASE TargetsEqual(q.target, t)
      BY <2>1, <3>1, SameTargetIsOwn
    <3>2. CASE q.token = o.token
      BY <2>1, <3>2 DEF ShareObject
    <3> QED
      BY <1>9, <3>1, <3>2
  <2>3. q \in R /\ q.by \in Share /\ q.target \in Upstreams(q.by)
    BY <2>1, <2>2 DEF Records, OwnShare, Traced, Known
  <2>4. q.by = k
    <3>1. CASE TargetsEqual(q.target, t)
      BY <2>3, <3>1, TargetTells
    <3>2. CASE q.token = o.token
      BY <2>1, <2>3, <3>2 DEF Ours
    <3> QED
      BY <1>9, <3>1, <3>2
  <2> QED
    BY <2>3, <2>4 DEF Mine
<1>10. ASSUME NEW r \in Mine(k, R)
       PROVE  c.remote # {} /\ \A q \in c.remote \cup c.agent : q.token = r.token
  <2>1. r \in inv.remote /\ r.token = o.token
    BY DEF Mine
  <2> QED
    BY <1>6, <1>7, <1>8, <2>1
<1> QED
  BY <1>3, <1>7, <1>8, <1>9, <1>10 DEF Shows

-----------------------------------------------------------------------------
(* What the actions have in common.                                        *)

\* A patch of conditions, an edit or a deletion: tokens, annotations and
\* finalizers stay, and nothing gets ready.
Steady(C, C2) ==
  \A s \in Share :
    /\ C2[s].token = C[s].token
    /\ C2[s].reclaim \in {C[s].reclaim, None}
    /\ C[s].finalizer => C2[s].finalizer /\ C2[s].reclaim = C[s].reclaim
    /\ C[s].finalizer /\ C[s].phase = "deleting" => C2[s].phase = "deleting"
    /\ C2[s].reason = "Ready" => C[s].reason = "Ready"
    /\ C2[s].phase = "live" /\ C2[s].reason = "Ready" => C[s].phase = "live"

\* Agent shares go, or become inactive.
FewerAgents(A, A2) ==
  \A d \in A2 : \E c \in A : c.token = d.token /\ c.env = d.env /\ c.by = d.by

\* The worker stands still while something of this kind happens.
LEMMA BindsStay ==
  ASSUME NEW R, NEW A, NEW C, NEW N, NEW R2, NEW A2, NEW C2, NEW N2, NEW x \in Worker,
         Steady(C, C2), R2 \subseteq R, FewerAgents(A, A2), Quiet => A2 = A, N \subseteq N2,
         Binds(x, R, A, C, N)
  PROVE  Binds(x, R2, A2, C2, N2)
<1> SUFFICES ASSUME x.pc # "idle" PROVE Base(x, C2) /\ Place(x, R2, A2, C2, N2)
  BY DEF Binds
<1>1. Base(x, C) /\ Place(x, R, A, C, N) /\ x.key \in Share
  BY WorkerFields DEF Binds
<1>2. /\ C2[x.key].token = C[x.key].token /\ C2[x.key].reclaim = C[x.key].reclaim
      /\ C2[x.key].finalizer
      /\ C[x.key].phase = "deleting" => C2[x.key].phase = "deleting"
  BY <1>1 DEF Base, Steady
<1>3. Base(x, C2)
  BY <1>1, <1>2 DEF Base
<1>4. Mine(x.key, R2) \subseteq Mine(x.key, R)
  BY DEF Mine
<1>5. Early(x) => Found(x, R2, A2)
  BY <1>1, <1>4 DEF Place, Found, Seen
<1>6. x.pc = "unshare" => \A d \in A2 : ~(d.token = x.tok /\ d.env = x.dg.env)
  BY <1>1 DEF Place, FewerAgents
<1>7. Place(x, R2, A2, C2, N2)
  BY <1>1, <1>2, <1>4, <1>5, <1>6 DEF Place
<1> QED
  BY <1>3, <1>7

\* What is left to show of a step that makes no share and records no token.
LEMMA AccountBinds ==
  ASSUME BindInv, Steady(cr, cr'), Finalized(cr'),
         Own' \subseteq Own, FewerAgents(agent, agent'), Backed(Own', agent'),
         Quiet => agent' \subseteq Own'
  PROVE  Account(Own', agent', cr')
<1>1. At(Own', agent')
  BY DEF BindInv, Account, At, FewerAgents
<1>2. Pending(Own', cr')
  BY DEF BindInv, Account, Pending, Mine, Steady
<1>3. Quiet => ReadyBound(cr')
  BY DEF BindInv, Account, ReadyBound, Steady
<1> QED
  BY <1>1, <1>2, <1>3 DEF Account

\* A step that leaves the shares and what is recorded of them alone.
LEMMA ShareLess ==
  ASSUME IInv, BindInv, Steady(cr, cr'), Finalized(cr'), Own' = Own, agent' = agent
  PROVE  /\ Account(Own', agent', cr')
         /\ \A x : HeldBy(x, Own, cr) => HeldBy(x, Own', cr')
         /\ \A x : Served(x, Own, agent, cr) => Served(x, Own', agent', cr')
<1>0. Own' \subseteq Own /\ FewerAgents(agent, agent') /\ Backed(Own', agent')
      /\ (Quiet => agent' \subseteq Own')
  BY DEF FewerAgents, BindInv, Account
<1>1. Account(Own', agent', cr')
  BY <1>0, AccountBinds
<1>2. \A r \in Own : cr'[r.by].token = cr[r.by].token
  BY RecordsOwn DEF Steady, Records, OwnShare
<1>3. \A x : Served(x, Own, agent, cr) => Served(x, Own', agent', cr')
  BY DEF Served, Steady
<1> QED
  BY <1>1, <1>2, <1>3 DEF HeldBy

\* Something happens outside the worker.
LEMMA OutsideStays ==
  ASSUME IInv, BindInv, Steady(cr, cr'), Finalized(cr'), UNCHANGED w,
         Own' \subseteq Own, FewerAgents(agent, agent'), Backed(Own', agent'),
         Quiet => Own' = Own /\ agent' = agent, names \subseteq names'
  PROVE  BindInv'
<1>1. Account(Own', agent', cr')
  BY AccountBinds DEF BindInv, Account
<1>2. Binds(w, Own', agent', cr', names')
  BY BindsStay DEF IInv, TypeOK, BindInv
<1>3. \A r \in Own : r.by \in Share
  BY RecordsOwn DEF Records, OwnShare
<1>4. HeldBy(w, Own', cr')
  BY <1>3 DEF BindInv, HeldBy, Steady
<1>5. Quiet => Served(w, Own', agent', cr')
  BY DEF BindInv, Served, Steady
<1> QED
  BY <1>1, <1>2, <1>4, <1>5 DEF BindInv

\* The worker goes on, and changes no object and no share.
LEMMA GoesOnBinds ==
  ASSUME BindInv, UNCHANGED <<cr, remote, agent>>, w.pc \notin {"mark", "unshare", "clear"},
         Binds(w', Own, agent, cr, names')
  PROVE  BindInv'
<1>1. Own' = Own
  BY DEF Own
<1>2. HeldBy(w', Own, cr)
  BY DEF BindInv, HeldBy
<1>3. Quiet => Served(w', Own, agent, cr)
  BY DEF BindInv, Served
<1> QED
  BY <1>1, <1>2, <1>3 DEF BindInv

\* ... or returns.
LEMMA RequeueBinds ==
  ASSUME BindInv, UNCHANGED <<cr, remote, agent>>, w.pc \notin {"mark", "unshare", "clear"},
         Requeue
  PROVE  BindInv'
  BY IdleType, GoesOnBinds DEF Requeue, Binds

\* The condition that a reconcile returns with.
LEMMA StopsSteady ==
  ASSUME IInv, BindInv, NEW k \in Share, NEW reason, reason # "Ready",
         cr' = [cr EXCEPT ![k].reason = reason] \/ cr' = cr
  PROVE  Steady(cr, cr') /\ Finalized(cr')
<1>1. \A s \in Share : /\ cr'[s].token = cr[s].token /\ cr'[s].reclaim = cr[s].reclaim
                       /\ cr'[s].finalizer = cr[s].finalizer /\ cr'[s].phase = cr[s].phase
                       /\ cr'[s].reason \in {cr[s].reason, reason}
  BY DEF IInv, TypeOK, ShareObject
<1> QED
  BY <1>1 DEF Steady, Finalized, BindInv, Account

\* setNotReady and setNameConflict, then return.
LEMMA StopBinds ==
  ASSUME IInv, BindInv, NEW reason, StopWith(reason), reason # "Ready",
         UNCHANGED <<remote, agent>>, w.pc \notin {"idle", "mark", "unshare", "clear"}
  PROVE  BindInv'
<1>1. w.key \in Share /\ Own' = Own
  BY WorkerFields DEF IInv, TypeOK, Own
<1>2. Steady(cr, cr') /\ Finalized(cr')
  BY <1>1, StopsSteady DEF StopWith, SetNotReady
<1>3. HeldBy(w', Own, cr) /\ (Quiet => Served(w', Own, agent, cr))
  BY DEF BindInv, HeldBy, Served
<1>4. Account(Own', agent', cr') /\ HeldBy(w', Own', cr')
      /\ (Quiet => Served(w', Own', agent', cr'))
  BY <1>1, <1>2, <1>3, ShareLess
<1>5. Binds(w', Own', agent', cr', names')
  BY IdleType DEF StopWith, Requeue, Binds
<1> QED
  BY <1>4, <1>5 DEF BindInv

\* What is known of the object under reconciliation.
LEMMA InBinding ==
  ASSUME Housed, IInv, OwnInv, BindInv, w.pc # "idle"
  PROVE  /\ Base(w, cr) /\ Place(w, Own, agent, cr, names) /\ w.key \in Share /\ w \in Worker
         /\ w.obj \in ShareObject /\ cr \in [Share -> ShareObject] /\ cr[w.key] \in ShareObject
         /\ w.pc # "mark" => \A r \in Mine(w.key, Own) : r.token = w.obj.token
         /\ \A d \in Own \cup agent : d.by = w.key => d.env = w.dg.env
         /\ \A d \in Own \cup agent : /\ d.by \in Share /\ d.token \in Token /\ d.token # None
                                      /\ d.env \in EnvsOf(d.by)
<1>1. /\ Base(w, cr) /\ Place(w, Own, agent, cr, names) /\ w.key \in Share /\ w \in Worker
      /\ w.obj \in ShareObject /\ cr \in [Share -> ShareObject] /\ cr[w.key] \in ShareObject
  BY InHand DEF BindInv, Binds, IInv, TypeOK
<1>2. w.pc # "mark" => \A r \in Mine(w.key, Own) : r.token = w.obj.token
  BY <1>1 DEF BindInv, HeldBy, Mine, Base
<1>3. \A d \in Own \cup agent : /\ d.by \in Share /\ d.token \in Token /\ d.token # None
                                /\ d.env \in EnvsOf(d.by)
  BY RecordsOwn, NoneAssumption DEF Records, OwnShare, BindInv, Account, At
<1>4. \A d \in Own \cup agent : d.by = w.key => d.env = w.dg.env
  BY <1>1, <1>3 DEF Base, Housed
<1> QED
  BY <1>1, <1>2, <1>3, <1>4

\* Agent shares whose record goes go with it.
LEMMA BackedStays ==
  ASSUME Housed, IInv, OwnInv, BindInv, FewerAgents(agent, agent'), Own' \subseteq Own,
         \A r \in Own \ Own', d \in agent' : ~(d.token = r.token /\ d.env = r.env)
  PROVE  Backed(Own', agent')
<1>1. SUFFICES ASSUME NEW d \in agent' PROVE \E r \in Own' : r.token = d.token
  BY DEF Backed
<1>2. PICK c \in agent : c.token = d.token /\ c.env = d.env /\ c.by = d.by
  BY DEF FewerAgents
<1>3. PICK r \in Own : r.token = c.token
  BY DEF BindInv, Account, Backed
<1>4. r.by = c.by /\ c.by \in Share
  BY <1>3, RecordsOwn DEF OwnInv, Traced, Known, Records, OwnShare
<1>5. r.env = d.env
  BY <1>2, <1>4 DEF BindInv, Account, At, Housed
<1> QED
  BY <1>2, <1>3, <1>5

-----------------------------------------------------------------------------
(* The invariant: initially, and through every kind of step.               *)

\* Nothing is shared and nothing recorded.
LEMMA InitBinds == Init => BindInv
<1> SUFFICES ASSUME Init PROVE BindInv
  OBVIOUS
<1>1. Own = {} /\ agent = {} /\ w.pc = "idle"
  BY IdleType DEF Init, Own
<1>2. \A s \in Share : /\ cr[s].phase = "absent" /\ ~cr[s].finalizer /\ cr[s].token = None
                       /\ cr[s].reclaim = None /\ cr[s].reason = "unset"
  BY DEF Init, Absent
<1> QED
  BY <1>1, <1>2 DEF BindInv, Account, Backed, Finalized, At, Pending, Mine, ReadyBound,
                    HeldBy, Served, Binds

\* Taking a key from the queue.
LEMMA ReconcileBinds ==
  ASSUME IInv, OwnInv, BindInv, NEW s \in Share, Reconcile(s)
  PROVE  BindInv'
<1>0. cr \in [Share -> ShareObject] /\ UNCHANGED <<remote, agent, names>> /\ w.pc = "idle"
      /\ Own' = Own
  BY DEF IInv, TypeOK, Reconcile, ReconcileGone, AddFinalizer, RefuseSpec, WaitForEnvironment,
         SecretUnreadable, NameClaimed, StartReconcile, StartDelete, Taken, Live, Valid, Own
<1>1. ASSUME Steady(cr, cr'), Finalized(cr'), UNCHANGED w PROVE BindInv'
  BY <1>0, <1>1, OutsideStays DEF FewerAgents, BindInv, Account
<1>2. CASE ReconcileGone(s)
  BY <1>0, <1>1, <1>2 DEF ReconcileGone, Steady, BindInv, Account
<1>3. CASE AddFinalizer(s)
  <2>1. \A t \in Share :
          /\ cr'[t].token = cr[t].token /\ cr'[t].reclaim = cr[t].reclaim
          /\ cr'[t].phase = cr[t].phase /\ cr'[t].reason = cr[t].reason
          /\ cr'[t].finalizer = (IF t = s THEN TRUE ELSE cr[t].finalizer)
    BY <1>0, <1>3 DEF AddFinalizer, ShareObject
  <2> QED
    BY <1>1, <1>3, <2>1 DEF AddFinalizer, Steady, Finalized, BindInv, Account
<1>4. ASSUME \/ RefuseSpec(s) \/ WaitForEnvironment(s) \/ SecretUnreadable(s) \/ NameClaimed(s)
      PROVE  BindInv'
  <2>1. /\ UNCHANGED w
        /\ \E reason : /\ reason # "Ready"
                       /\ cr' = [cr EXCEPT ![s].reason = reason] \/ cr' = cr
    BY <1>4 DEF RefuseSpec, WaitForEnvironment, SecretUnreadable, NameClaimed, SetNotReady,
                RefusalReason
  <2> QED
    BY <1>1, <2>1, StopsSteady
<1>5. CASE StartReconcile(s) \/ StartDelete(s)
  <2>1. /\ cr[s].finalizer /\ cr[s] \in ShareObject /\ cr[s].spec \in UserSpec[s]
        /\ cr[s].spec \in ShareSpec /\ UNCHANGED cr
    BY <1>0, <1>5 DEF StartReconcile, StartDelete, Valid, Live, BindInv, Account, Finalized,
                      OwnInv, SpecsOurs, ShareObject
  <2>2. /\ Start(s) \in Worker /\ Start(s).pc = "inventory" /\ Start(s).key = s
        /\ Start(s).obj = cr[s] /\ Start(s).dg.env = cr[s].spec.env
        /\ Start(s).via = "rebuild" /\ ~Start(s).released
    BY StartType DEF Start, Locals, shareApplyDigest
  <2>3. cr[s].spec.env \in EnvsOf(s)
    BY <2>1 DEF EnvsOf
  <2>4. /\ w'.pc = "inventory" /\ ~w'.released /\ w'.key = s /\ w'.obj = cr[s] /\ w'.dg.env = cr[s].spec.env
        /\ w'.via \in {"delete", "attached"} => cr[s].phase = "deleting"
    <3>1. CASE StartReconcile(s)
      BY <2>2, <3>1 DEF StartReconcile
    <3>2. CASE StartDelete(s)
      <4>1. PICK rest : w' = [Start(s) EXCEPT !.via = "delete", !.rest = rest]
        BY <3>2 DEF StartDelete
      <4> QED
        BY <2>2, <3>2, <4>1 DEF StartDelete, Worker
    <3> QED
      BY <1>5, <3>1, <3>2
  <2>5. Binds(w', Own, agent, cr, names')
    BY <2>1, <2>3, <2>4 DEF Binds, Base, Place, Early, Late
  <2> QED
    BY <1>0, <2>1, <2>5, GoesOnBinds
<1> QED
  BY <1>2, <1>3, <1>4, <1>5 DEF Reconcile

\* Users create, edit and delete; the worker's object has its finalizer.
LEMMA UserBinds ==
  ASSUME IInv, OwnInv, BindInv, NEW s \in Share,
         UserCreates(s) \/ UserEdits(s) \/ UserDeletes(s)
  PROVE  BindInv'
<1>0. /\ cr \in [Share -> ShareObject] /\ cr[s] \in ShareObject /\ Absent(s) \in ShareObject
      /\ UNCHANGED <<remote, agent, names, w>> /\ Own' = Own
      /\ Finalized(cr)
  BY AbsentType DEF IInv, TypeOK, UserCreates, UserEdits, UserDeletes, Own, BindInv, Account
<1>1. Absent(s).phase = "absent" /\ ~Absent(s).finalizer /\ Absent(s).token = None
      /\ Absent(s).reclaim = None /\ Absent(s).reason = "unset"
  BY DEF Absent
<1>2. Steady(cr, cr') /\ Finalized(cr')
  <2>1. CASE UserCreates(s)
    <3>1. PICK sp \in UserSpec[s] :
            cr' = [cr EXCEPT ![s] = [Absent(s) EXCEPT !.phase = "live", !.spec = sp]]
      BY <2>1 DEF UserCreates
    <3>2. LET o == [Absent(s) EXCEPT !.phase = "live", !.spec = sp]
          IN  o.token = None /\ o.reclaim = None /\ ~o.finalizer /\ o.reason = "unset"
              /\ o.phase = "live"
      BY <1>0, <1>1 DEF ShareObject
    <3>3. cr[s].token = None /\ ~cr[s].finalizer
      BY <1>0, <2>1 DEF UserCreates, Finalized
    <3> QED
      BY <1>0, <3>1, <3>2, <3>3 DEF Steady, Finalized
  <2>2. CASE UserEdits(s)
    <3>1. PICK sp : cr' = [cr EXCEPT ![s].spec = sp]
      BY <2>2 DEF UserEdits
    <3>2. \A t \in Share :
            /\ cr'[t].token = cr[t].token /\ cr'[t].reclaim = cr[t].reclaim
            /\ cr'[t].phase = cr[t].phase /\ cr'[t].reason = cr[t].reason
            /\ cr'[t].finalizer = cr[t].finalizer
      BY <1>0, <3>1 DEF ShareObject
    <3> QED
      BY <1>0, <3>2 DEF Steady, Finalized
  <2>3. CASE UserDeletes(s) /\ cr[s].finalizer
    <3>1. \A t \in Share :
            /\ cr'[t].token = cr[t].token /\ cr'[t].reclaim = cr[t].reclaim
            /\ cr'[t].phase = (IF t = s THEN "deleting" ELSE cr[t].phase)
            /\ cr'[t].reason = cr[t].reason /\ cr'[t].finalizer = cr[t].finalizer
      BY <1>0, <2>3 DEF UserDeletes, ShareObject
    <3> QED
      BY <1>0, <2>3, <3>1 DEF Steady, Finalized
  <2>4. CASE UserDeletes(s) /\ ~cr[s].finalizer
    <3>1. cr' = [cr EXCEPT ![s] = Absent(s)] /\ cr[s].token = None
      BY <1>0, <2>4 DEF UserDeletes, Finalized
    <3> QED
      BY <1>0, <1>1, <2>4, <3>1 DEF Steady, Finalized
  <2> QED
    BY <2>1, <2>2, <2>3, <2>4
<1> QED
  BY <1>0, <1>2, OutsideStays DEF FewerAgents, BindInv, Account

\* Environments come and go, agents restart, others use the account.
LEMMA OutsideBinds ==
  ASSUME Housed, Lossless, IInv, OwnInv, BindInv,
         \/ \E e \in Env : \/ EnvironmentProgresses(e)
                          \/ EnvironmentDegrades(e)
                          \/ EnvironmentUnkeyed(e)
                          \/ EnvironmentRekeyed(e)
                          \/ EnvironmentRemoved(e)
                          \/ AgentRestarts(e)
         \/ AgentShareStalls \/ ForeignShareAppears \/ ForeignShareLeaves
  PROVE  BindInv'
<1>0. /\ UNCHANGED <<cr, w>> /\ names \subseteq names' /\ agent \subseteq OwnShare
      /\ Steady(cr, cr') /\ Finalized(cr')
  BY DEF EnvironmentProgresses, EnvironmentDegrades, EnvironmentUnkeyed, EnvironmentRekeyed,
         EnvironmentRemoved, AgentRestarts, AgentShareStalls, ForeignShareAppears,
         ForeignShareLeaves, Steady, BindInv, Account, IInv, TypeOK
<1>1. ~Fault("removed") /\ (Quiet => ~Fault("restart") /\ ~Fault("stall"))
  BY DEF Lossless, Keyed, Quiet, Fault
<1>2. ASSUME NEW e \in Env,
             \/ EnvironmentProgresses(e) \/ EnvironmentDegrades(e) \/ EnvironmentUnkeyed(e)
             \/ EnvironmentRekeyed(e) \/ EnvironmentRemoved(e)
      PROVE  BindInv'
  <2>1. UNCHANGED <<remote, agent>>
    BY <1>1, <1>2 DEF EnvironmentProgresses, EnvironmentDegrades, EnvironmentUnkeyed,
                      EnvironmentRekeyed, EnvironmentRemoved
  <2> QED
    BY <1>0, <2>1, OutsideStays DEF FewerAgents, BindInv, Account, Own
<1>3. ASSUME NEW e \in Env, AgentRestarts(e) PROVE BindInv'
  <2>1. /\ agent' \subseteq agent /\ \A d \in agent' : d.env # e
        /\ remote' \subseteq remote /\ \A r \in remote \ remote' : r.env = e
        /\ ~Quiet
    BY <1>1, <1>3 DEF AgentRestarts
  <2>2. Own' \subseteq Own /\ \A r \in Own \ Own' : r.env = e
    BY <2>1 DEF Own
  <2>3. FewerAgents(agent, agent')
    BY <2>1 DEF FewerAgents
  <2>4. Backed(Own', agent')
    BY <2>1, <2>2, <2>3, BackedStays
  <2> QED
    BY <1>0, <2>1, <2>2, <2>3, <2>4, OutsideStays
<1>4. CASE AgentShareStalls
  <2>1. PICK d \in agent : agent' = (agent \ {d}) \cup {[d EXCEPT !.active = FALSE]}
    BY <1>4 DEF AgentShareStalls
  <2>2. LET c == [d EXCEPT !.active = FALSE]
        IN  c.token = d.token /\ c.env = d.env /\ c.by = d.by
    BY <1>0 DEF OwnShare
  <2>3. FewerAgents(agent, agent') /\ Own' = Own /\ ~Quiet
    BY <1>1, <1>4, <2>1, <2>2 DEF FewerAgents, AgentShareStalls, Own
  <2>4. Backed(Own', agent')
    BY <2>3, BackedStays
  <2> QED
    BY <1>0, <2>3, <2>4, OutsideStays
<1>5. CASE ForeignShareAppears \/ ForeignShareLeaves
  <2>1. UNCHANGED agent /\ Own' = Own
    BY <1>5, ForeignTokenAssumption
       DEF ForeignShareAppears, ForeignShareLeaves, Own, ForeignShare
  <2> QED
    BY <1>0, <2>1, OutsideStays DEF FewerAgents, BindInv, Account
<1> QED
  BY <1>2, <1>3, <1>4, <1>5

\* An inventory whose listing succeeded finds the object's share.
LEMMA InventoryFinds ==
  ASSUME Apart, Housed, Keyed, IInv, OwnInv, BindInv, w.pc \in {"inventory", "conflict"},
         NEW sf \in BOOLEAN, InventoryOutcome(FALSE, sf),
         NEW c \in classifyShare(w.obj, w.dg.target, loadInventory(FALSE, sf)),
         ~c.foreignName
  PROVE  /\ Shows(c, w.key, w.obj, w.dg.target, Own, agent)
         /\ \A d \in c.agent : d.target \in Upstreams(d.by)
         /\ c \in ClassifiedShare
<1> DEFINE inv == loadInventory(FALSE, sf)
<1>1. /\ w \in Worker /\ w.key \in Share /\ w.obj \in ShareObject /\ w.dg.target \in Target
      /\ Carries(w, Own, agent, cr) /\ Records(Own, agent, cr) /\ Traced(Own, agent, cr)
      /\ w.dg.target \in Upstreams(w.key) /\ Ours(w.obj.token, w.key, Own, agent, cr)
  BY InHand DEF Carries
<1>2. w.zid
  BY <1>1 DEF Carries
<1>3. /\ inv \in ShareInventoryType
      /\ \A r \in inv.remote : r.token \in Token => r \in Own
      /\ \A r \in Own : r.env = w.dg.env => r \in inv.remote
      /\ \A d \in inv.agent : d \in agent /\ d.env = w.dg.env
  BY <1>2, LoadInventoryType DEF loadInventory, Own
<1>4. \A r \in Mine(w.key, Own) : r.token = w.obj.token /\ r.env = w.dg.env
  BY InBinding DEF Mine
<1>5. Backed(Own, agent)
  BY DEF BindInv, Account
<1>6. c \in classifyShare(w.obj, w.dg.target, inv)
  OBVIOUS
<1> HIDE DEF inv
<1>7. Shows(c, w.key, w.obj, w.dg.target, Own, agent)
  BY <1>1, <1>3, <1>4, <1>5, <1>6, InventoryShows
<1>8. \A d \in c.agent : d.target \in Upstreams(d.by)
  BY <1>7 DEF Shows, OwnInv, Traced, Known
<1>9. c \in ClassifiedShare
  BY <1>3, <1>6, ClassifyType
<1> QED
  BY <1>7, <1>8, <1>9

\* An agent share is adopted: it is the one share of the object.
LEMMA AdoptBinds ==
  ASSUME Housed, IInv, OwnInv, BindInv, w.pc \in {"inventory", "conflict"},
         UNCHANGED <<cr, remote, agent>>, NEW d, NEW url,
         \A r \in Mine(w.key, Own) : r.token = d.token,
         Quiet => d \in agent /\ d.by = w.key,
         w' = [w EXCEPT !.pc = "mark", !.tok = d.token, !.url = url]
  PROVE  BindInv'
<1>1. Base(w, cr) /\ w \in Worker
  BY InBinding
<1>2. /\ w'.pc = "mark" /\ w'.tok = d.token /\ w'.key = w.key /\ w'.obj = w.obj
      /\ w'.dg = w.dg /\ w'.via = w.via
  BY <1>1 DEF Worker
<1>3. Binds(w', Own, agent, cr, names')
  BY <1>1, <1>2 DEF Binds, Base, Place, Early, Late
<1> QED
  BY <1>3, GoesOnBinds

\* Loading the inventory, and the decisions it leads to.
LEMMA InventoryStepsBind ==
  ASSUME Apart, Housed, Keyed, IInv, IInv', OwnInv, BindInv,
         InventoryUnavailable \/ Inventory \/ HandleShareConflict \/ DeleteInventory
  PROVE  BindInv'
<1>0. w.pc \in {"inventory", "conflict"} /\ UNCHANGED <<env, remote, agent, names>>
  BY DEF InventoryUnavailable, Inventory, HandleShareConflict, DeleteInventory
<1>1. /\ w \in Worker /\ w.key \in Share /\ w.obj \in ShareObject /\ Base(w, cr)
      /\ w.dg.target \in Upstreams(w.key) /\ w.dg.target \in Target
      /\ Place(w, Own, agent, cr, names)
      /\ \A r \in Mine(w.key, Own) : r.token = w.obj.token
      /\ Traced(Own, agent, cr) /\ Records(Own, agent, cr)
  BY <1>0, InHand, InBinding DEF Carries
\* A found agent share with the object's target is the object's.
<1>2. \A d \in agent, x \in Upstreams(w.key) : TargetsEqual(d.target, x) => d.by = w.key
  BY <1>1, TargetTells DEF Traced, Known, Records, OwnShare
<1>3. CASE InventoryUnavailable
  <2>1. PICK sf \in BOOLEAN :
          /\ InventoryOutcome(TRUE, sf)
          /\ \E c \in classifyShare(w.obj, w.dg.target, loadInventory(TRUE, sf)) :
               \/ StopWith("InventoryError")
               \/ \E d \in adoptableAgentShare(w.obj, c, w.dg.target, w.dg) :
                    /\ w' = [w EXCEPT !.pc = "mark", !.tok = d.token,
                                      !.url = AssignedURL(w.obj, d)]
                    /\ UNCHANGED <<cr, queue>>
    BY <1>3 DEF InventoryUnavailable
  <2>2. ASSUME NEW c \in classifyShare(w.obj, w.dg.target, loadInventory(TRUE, sf)),
               NEW d \in adoptableAgentShare(w.obj, c, w.dg.target, w.dg),
               w' = [w EXCEPT !.pc = "mark", !.tok = d.token, !.url = AssignedURL(w.obj, d)],
               UNCHANGED cr
        PROVE  BindInv'
    <3>1. c.agent \subseteq loadInventory(TRUE, sf).agent
      BY ClassifiedFound
    <3>2. d \in agent /\ TargetsEqual(d.target, w.dg.target)
      BY <3>1 DEF loadInventory, adoptableAgentShare, agentShareMatchesSpec
    <3>3. d.by = w.key
      BY <1>1, <1>2, <3>2
    <3>4. PICK r \in Own : r.token = d.token
      BY <3>2 DEF BindInv, Account, Backed
    <3>5. r.by = w.key
      BY <3>2, <3>3, <3>4 DEF OwnInv, Traced, Known
    <3>6. \A q \in Mine(w.key, Own) : q.token = d.token
      BY <1>1, <3>4, <3>5 DEF Mine
    <3> QED
      BY <1>0, <2>2, <3>2, <3>3, <3>6, AdoptBinds
  <2> QED
    BY <1>0, <2>1, <2>2, StopBinds
<1>4. CASE Inventory
  <2>1. PICK sf \in BOOLEAN :
          /\ InventoryOutcome(FALSE, sf)
          /\ \E c \in classifyShare(w.obj, w.dg.target, loadInventory(FALSE, sf)) :
               IF c.foreignName THEN StopWith("NameConflict")
               ELSE /\ w' = AfterInventory([w EXCEPT !.inv = loadInventory(FALSE, sf), !.cls = c])
                    /\ UNCHANGED <<cr, queue>>
    BY <1>4 DEF Inventory
  <2>2. ASSUME NEW c \in classifyShare(w.obj, w.dg.target, loadInventory(FALSE, sf)),
               ~c.foreignName, UNCHANGED cr,
               w' = AfterInventory([w EXCEPT !.inv = loadInventory(FALSE, sf), !.cls = c])
        PROVE  BindInv'
    <3> DEFINE x == [w EXCEPT !.inv = loadInventory(FALSE, sf), !.cls = c]
    <3>1. /\ Shows(c, w.key, w.obj, w.dg.target, Own, agent)
          /\ \A d \in c.agent : d.target \in Upstreams(d.by)
          /\ c \in ClassifiedShare
      BY <1>0, <2>1, <2>2, InventoryFinds
    <3>2. loadInventory(FALSE, sf) \in ShareInventoryType
      BY LoadInventoryType
    <3>3. /\ x \in Worker /\ x.key = w.key /\ x.obj = w.obj /\ x.dg = w.dg /\ x.cls = c
          /\ x.via = w.via /\ x.released = w.released
      BY <1>1, <3>1, <3>2 DEF Worker
    <3> HIDE DEF x
    <3>4. w.obj.reclaim # None => Mine(w.key, Own) = {}
      BY <1>1 DEF Base, BindInv, Account, Pending
    <3>5. Found(x, Own, agent)
      BY <3>1, <3>3, <3>4 DEF Found, Seen, NothingOurs, Shows
    <3>6. Targeted(x) /\ Base(x, cr) /\ \A r \in Mine(x.key, Own) : r.token = x.obj.token
      BY <1>1, <3>1, <3>3 DEF Targeted, Base
    <3>7. ~x.released
      BY <1>1, <1>4, <3>3 DEF Inventory, Place
    <3>8. Binds(w', Own, agent, cr, names')
      BY <2>2, <3>3, <3>5, <3>6, <3>7, AfterInventoryBinds DEF x
    <3> QED
      BY <1>0, <2>2, <3>8, GoesOnBinds
  <2> QED
    BY <1>0, <2>1, <2>2, StopBinds
<1>5. CASE HandleShareConflict
  <2>0. w.pc = "conflict" /\ Mine(w.key, Own) = {}
    BY <1>1, <1>5 DEF HandleShareConflict, Place, Late
  <2>1. PICK lf \in BOOLEAN, sf \in BOOLEAN :
          /\ InventoryOutcome(lf, sf)
          /\ \E c \in classifyShare(w.obj, w.dg.target, loadInventory(lf, sf)) :
               \/ StopWith("InventoryError") \/ StopWith("NameConflict")
               \/ StopWith("ShareError")
               \/ \E d \in adoptableAgentShare(w.obj, c, w.dg.target, w.dg) :
                    ~lf /\ ~c.foreignName
               \/ \E r \in c.remote : /\ ~lf /\ ~c.foreignName
                                      /\ TargetsEqual(r.target, w.dg.target)
    BY <1>5 DEF HandleShareConflict
  <2>2. ASSUME NEW c \in classifyShare(w.obj, w.dg.target, loadInventory(lf, sf)),
               ~c.foreignName, ~lf
        PROVE  /\ adoptableAgentShare(w.obj, c, w.dg.target, w.dg) = {}
               /\ \A r \in c.remote : ~TargetsEqual(r.target, w.dg.target)
    <3>1. c.agent = {} /\ \A r \in c.remote : ~TargetsEqual(r.target, w.dg.target)
      BY <1>0, <2>0, <2>1, <2>2, InventoryFinds DEF Shows
    <3> QED
      BY <3>1 DEF adoptableAgentShare
  <2> QED
    BY <1>0, <2>0, <2>1, <2>2, StopBinds
<1>6. CASE DeleteInventory
  <2>1. PICK lf \in BOOLEAN, sf \in BOOLEAN, claimed \in BOOLEAN :
          /\ InventoryOutcome(lf, sf)
          /\ DeleteTurns(loadInventory(lf, sf), claimed, Listing(loadInventory(lf, sf), lf, claimed))
    BY <1>6, DeleteInventoryTurns
  <2> DEFINE inv == loadInventory(lf, sf)
             x   == Listing(inv, lf, claimed)
  <2>2. inv \in ShareInventoryType
    BY LoadInventoryType
  <2>3. \/ \E t \in DeleteTokens(inv, claimed) : w' = [x EXCEPT !.pc = "release", !.tok = t]
        \/ /\ \/ DeleteTokens(inv, claimed) = {}
              \/ \E t \in DeleteTokens(inv, claimed) : ~isOurShareToken(w.obj, t, inv)
           /\ w' = DeleteNameOrFinish(x)
    BY <2>1 DEF DeleteTurns
  <2> HIDE DEF inv
  <2>4. /\ x \in Worker /\ x.key = w.key /\ x.obj = w.obj /\ x.dg = w.dg /\ x.via = "delete"
    BY <1>1, <1>6, <2>2 DEF Worker, DeleteInventory, Listing
  <2> HIDE DEF x
  <2>5. Base(x, cr)
    BY <1>1, <1>6, <2>4 DEF Base, DeleteInventory
  <2>6. w.obj.token # None => DeleteTokens(inv, claimed) = {w.obj.token}
    BY DEF DeleteTokens
  <2>7. w.obj.token = None => Mine(w.key, Own) = {}
    BY <1>0, <1>1, InBinding DEF Mine
  <2>8. ASSUME NEW t \in DeleteTokens(inv, claimed), w' = [x EXCEPT !.pc = "release", !.tok = t]
        PROVE  Binds(w', Own, agent, cr, names')
    <3>1. /\ w'.pc = "release" /\ w'.tok = t /\ w'.key = w.key /\ w'.obj = w.obj
          /\ w'.dg = w.dg /\ w'.via = "delete"
      BY <2>4, <2>8 DEF Worker
    <3>2. \A r \in Mine(w.key, Own) : r.token = t
      BY <1>1, <2>6, <2>7, <2>8
    <3> QED
      BY <2>4, <2>5, <3>1, <3>2 DEF Binds, Base, Place, Early, Late
  <2>9. ASSUME \/ DeleteTokens(inv, claimed) = {}
               \/ \E t \in DeleteTokens(inv, claimed) : ~isOurShareToken(w.obj, t, inv)
        PROVE  Mine(w.key, Own) = {}
    BY <2>6, <2>7, <2>9 DEF isOurShareToken
  <2>10. CASE w' = DeleteNameOrFinish(x) /\ Mine(w.key, Own) = {}
    <3>1. Binds(DeleteNameOrFinish(x), Own, agent, cr, names')
      BY <2>4, <2>5, <2>10, DeleteNameOrFinishBinds
    <3> QED
      BY <1>0, <1>6, <2>10, <3>1, GoesOnBinds DEF DeleteInventory
  <2>11. ASSUME NEW t \in DeleteTokens(inv, claimed), w' = [x EXCEPT !.pc = "release", !.tok = t]
         PROVE  BindInv'
    BY <1>0, <1>6, <2>8, <2>11, GoesOnBinds DEF DeleteInventory
  <2> QED
    BY <2>3, <2>9, <2>10, <2>11
<1> QED
  BY <1>3, <1>4, <1>5, <1>6

\* A patch of the object that records no token and leaves its conditions.
LEMMA WritesBind ==
  ASSUME IInv, BindInv, w.pc \notin {"idle", "mark", "unshare", "clear"},
         NEW o, cr' = [cr EXCEPT ![w.key] = o], UNCHANGED <<remote, agent>>,
         o.token = cr[w.key].token, o.finalizer = cr[w.key].finalizer,
         o.phase = cr[w.key].phase, o.reason = cr[w.key].reason,
         o.reclaim # None => Mine(w.key, Own) = {},
         Binds(w', Own, agent, cr', names')
  PROVE  BindInv'
<1>1. w.key \in Share /\ cr \in [Share -> ShareObject] /\ Own' = Own
  BY WorkerFields DEF IInv, TypeOK, Own
<1>2. \A s \in Share :
        /\ cr'[s].token = cr[s].token /\ cr'[s].finalizer = cr[s].finalizer
        /\ cr'[s].phase = cr[s].phase /\ cr'[s].reason = cr[s].reason
        /\ cr'[s].reclaim = IF s = w.key THEN o.reclaim ELSE cr[s].reclaim
  BY <1>1
<1>3. Account(Own, agent, cr')
  BY <1>2 DEF BindInv, Account, Finalized, Pending, ReadyBound
<1>4. HeldBy(w', Own, cr')
  BY <1>2, RecordsOwn DEF BindInv, HeldBy, Records, OwnShare
<1>5. Quiet => Served(w', Own, agent, cr')
  BY <1>2 DEF BindInv, Served
<1> QED
  BY <1>1, <1>3, <1>4, <1>5 DEF BindInv

\* Reserving a name, and deleting one that is to be given back.
LEMMA NameStepsBind ==
  ASSUME Apart, Housed, IInv, IInv', OwnInv, BindInv,
         \/ EnsureReservedName \/ NameOfOtherAccount \/ ReserveFails
         \/ FlushReclaim \/ FlushFails \/ ClearReclaim \/ AnnotateReclaim
         \/ DeleteName \/ DeleteNameFails
  PROVE  BindInv'
<1>0. w.pc \in {"reserve", "flush", "unannotate", "annotate", "dname"}
      /\ UNCHANGED <<env, remote, agent>>
  BY DEF EnsureReservedName, NameOfOtherAccount, ReserveFails, FlushReclaim, FlushFails,
         ClearReclaim, AnnotateReclaim, DeleteName, DeleteNameFails
<1>1. /\ w \in Worker /\ w.key \in Share /\ Base(w, cr) /\ Place(w, Own, agent, cr, names)
      /\ \A r \in Mine(w.key, Own) : r.token = w.obj.token
      /\ cr \in [Share -> ShareObject] /\ cr[w.key] \in ShareObject
      /\ Prepared(w, Own, agent, cr) /\ Carries(w, Own, agent, cr)
      /\ w.old \in Label
  BY <1>0, InHand, InBinding DEF Worker
<1>2. Early(w) => Targeted(w)
  BY <1>1 DEF Early, Prepared, Classified, Known, Targeted, Carries
<1>3. CASE EnsureReservedName
  <2>1. Early(w) /\ ~w.released /\ w.obj.spec.name \in names'
    BY <1>1, <1>3 DEF EnsureReservedName, Place, Early
  <2>2. Found(w, Own, agent)
    BY <1>1, <2>1 DEF Place
  <2>3. Binds(FlushReclaimName(w), Own, agent, cr, names')
    BY <1>1, <1>2, <2>1, <2>2, FlushReclaimNameBinds
  <2> QED
    BY <1>0, <1>3, <2>3, GoesOnBinds DEF EnsureReservedName
<1>4. CASE NameOfOtherAccount \/ ReserveFails
  BY <1>0, <1>4, StopBinds DEF NameOfOtherAccount, ReserveFails
<1>5. CASE FlushFails \/ DeleteNameFails
  BY <1>0, <1>5, RequeueBinds DEF FlushFails, DeleteNameFails
<1>6. CASE FlushReclaim
  <2>1. CASE Requeue
    BY <1>0, <1>6, <2>1, RequeueBinds DEF FlushReclaim
  <2>2. CASE w' = [w EXCEPT !.pc = "unannotate"]
    <3>1. /\ w'.pc = "unannotate" /\ w'.key = w.key /\ w'.obj = w.obj /\ w'.dg = w.dg
          /\ w'.via = w.via /\ w'.released = w.released /\ w'.cls = w.cls
      BY <1>1, <2>2 DEF Worker
    <3>2. ~w.released => Found(w', Own, agent)
      BY <1>1, <1>6, <3>1 DEF FlushReclaim, Place, Early, Found, Seen, NothingOurs
    <3>3. w.released => Mine(w.key, Own) = {}
      BY <1>1, <1>6 DEF FlushReclaim, Place, Late
    <3>4. w.obj.reclaim # None
      BY <1>1, <1>6 DEF FlushReclaim, Place
    <3>5. Place(w', Own, agent, cr, names')
      BY <3>1, <3>2, <3>3, <3>4 DEF Place, Early, Late
    <3>6. Binds(w', Own, agent, cr, names')
      BY <1>1, <3>1, <3>5 DEF Binds, Base
    <3> QED
      BY <1>0, <1>6, <3>6, GoesOnBinds DEF FlushReclaim
  <2> QED
    BY <1>6, <2>1, <2>2 DEF FlushReclaim
<1>7. CASE ClearReclaim
  <2> DEFINE o == [cr[w.key] EXCEPT !.reclaim = None]
             x == Patched(w, o)
  <2>1. /\ o.token = cr[w.key].token /\ o.finalizer = cr[w.key].finalizer
        /\ o.phase = cr[w.key].phase /\ o.reason = cr[w.key].reason /\ o.reclaim = None
        /\ o \in ShareObject
    BY <1>1 DEF ShareObject, Label
  <2>2. Write(o) /\ w' = AfterFlush(x)
    BY <1>7 DEF ClearReclaim
  <2>3. cr' = [cr EXCEPT ![w.key] = o]
    BY <2>2 DEF Write
  <2> HIDE DEF o
  <2>4. /\ x \in Worker /\ x.key = w.key /\ x.obj = o /\ x.dg = w.dg /\ x.via = w.via
        /\ x.released = w.released /\ x.cls = w.cls
    BY <1>0, <1>1, <2>1, PatchedType DEF Patched, Worker
  <2> HIDE DEF x
  <2>5. Base(x, cr') /\ cr'[x.key].reclaim = None
    BY <1>1, <2>1, <2>3, <2>4 DEF Base
  <2>6. x.released => Mine(x.key, Own) = {}
    BY <1>1, <1>7, <2>4 DEF ClearReclaim, Place, Late
  <2>7. \A r \in Mine(x.key, Own) : r.token = x.obj.token
    BY <1>1, <2>1, <2>4 DEF Base
  <2>8. ~x.released => /\ Targeted(x) /\ Seen(x, Own) /\ NothingOurs(x)
                       /\ Quiet => x.cls.agent \subseteq agent
    <3>1. SUFFICES ASSUME ~w.released
                   PROVE  /\ Targeted(x) /\ Seen(x, Own) /\ NothingOurs(x)
                          /\ Quiet => x.cls.agent \subseteq agent
      BY <2>4
    <3>2. Early(w)
      BY <1>7, <3>1 DEF Early, ClearReclaim
    <3>3. Found(w, Own, agent) /\ w.obj.reclaim # None /\ w.obj.token = o.token
      BY <1>1, <1>7, <2>1, <3>2 DEF ClearReclaim, Place, Base
    <3> QED
      BY <1>2, <2>4, <3>2, <3>3 DEF Targeted, Found, Seen, NothingOurs
  <2>9. Binds(AfterFlush(x), Own, agent, cr', names')
    BY <2>4, <2>5, <2>6, <2>7, <2>8, AfterFlushBinds
  <2> QED
    BY <1>0, <2>1, <2>2, <2>3, <2>9, WritesBind
<1>8. CASE AnnotateReclaim
  <2> DEFINE o == [cr[w.key] EXCEPT !.reclaim = w.old]
             x == Patched(w, o)
  <2>1. /\ o.token = cr[w.key].token /\ o.finalizer = cr[w.key].finalizer
        /\ o.phase = cr[w.key].phase /\ o.reason = cr[w.key].reason
        /\ o \in ShareObject
    BY <1>1 DEF ShareObject
  <2>2. Write(o) /\ w' = FlushReclaimName(x)
    BY <1>8 DEF AnnotateReclaim
  <2>3. cr' = [cr EXCEPT ![w.key] = o]
    BY <2>2 DEF Write
  <2> HIDE DEF o
  <2>4. /\ x \in Worker /\ x.key = w.key /\ x.obj = o /\ x.dg = w.dg /\ x.via = w.via
        /\ x.released = w.released
    BY <1>0, <1>1, <2>1, PatchedType DEF Patched, Worker
  <2> HIDE DEF x
  <2>5. Base(x, cr')
    BY <1>1, <2>1, <2>3, <2>4 DEF Base
  <2>6. x.released /\ Mine(w.key, Own) = {}
    BY <1>1, <1>8, <2>4 DEF AnnotateReclaim, Place, Late, Prepared
  <2>7. Binds(FlushReclaimName(x), Own, agent, cr', names')
    BY <2>4, <2>5, <2>6, FlushReclaimNameBinds
  <2> QED
    BY <1>0, <2>1, <2>2, <2>3, <2>6, <2>7, WritesBind
<1>9. CASE DeleteName
  <2>1. \/ Requeue
        \/ w' = [w EXCEPT !.pc = "final"]
        \/ \E r \in remote : w' = [w EXCEPT !.pc = "release", !.via = "attached", !.tok = r.token]
    BY <1>9 DEF DeleteName, FindByFrontendName
  <2>2. Mine(w.key, Own) = {} /\ cr[w.key].phase = "deleting" /\ w.pc = "dname"
    BY <1>1, <1>9 DEF DeleteName, Place, Late, Base
  <2>3. CASE Requeue
    BY <1>9, <2>2, <2>3, RequeueBinds DEF DeleteName
  <2>4. CASE w' = [w EXCEPT !.pc = "final"]
    <3>1. w'.pc = "final" /\ w'.key = w.key /\ w'.obj = w.obj /\ w'.dg = w.dg /\ w'.via = w.via
      BY <1>1, <2>4 DEF Worker
    <3>2. Binds(w', Own, agent, cr, names')
      BY <1>1, <2>2, <3>1 DEF Binds, Base, Place, Early, Late
    <3> QED
      BY <1>9, <2>2, <3>2, GoesOnBinds DEF DeleteName
  <2>5. ASSUME NEW t, w' = [w EXCEPT !.pc = "release", !.via = "attached", !.tok = t]
        PROVE  BindInv'
    <3>1. w'.pc = "release" /\ w'.key = w.key /\ w'.obj = w.obj /\ w'.dg = w.dg
          /\ w'.via = "attached"
      BY <1>1, <2>5 DEF Worker
    <3>2. Binds(w', Own, agent, cr, names')
      BY <1>1, <2>2, <3>1 DEF Binds, Base, Place, Early, Late
    <3> QED
      BY <1>9, <2>2, <3>2, GoesOnBinds DEF DeleteName
  <2> QED
    BY <2>1, <2>3, <2>4, <2>5
<1> QED
  BY <1>3, <1>4, <1>5, <1>6, <1>7, <1>8, <1>9

\* The controller is asked for the share, or acted before its answer was lost.
LEMMA UnsharedBinds ==
  ASSUME Housed, IInv, OwnInv, BindInv, w.pc = "unshare", UNCHANGED agent,
         Own' \subseteq Own, \A r \in Own \ Own' : r.token = w.tok /\ r.env = w.dg.env,
         Steady(cr, cr'), Finalized(cr'),
         Quiet => \/ w'.pc = "clear" /\ w'.key = w.key
                  \/ cr'[w.key].phase # "live"
                  \/ cr'[w.key].reason # "Ready",
         w'.pc # "mark", Binds(w', Own', agent', cr', names')
  PROVE  BindInv'
<1>1. /\ Place(w, Own, agent, cr, names)
      /\ \A d \in Own \cup agent : d.by \in Share /\ d.token # None
  BY InBinding
<1>2. \A r \in Own \ Own', d \in agent : ~(d.token = r.token /\ d.env = r.env)
  BY <1>1 DEF Place
<1>3. FewerAgents(agent, agent')
  BY DEF FewerAgents
<1>4. Backed(Own', agent')
  BY <1>2, <1>3, BackedStays
<1>5. Quiet => agent' \subseteq Own'
  BY <1>2 DEF BindInv, Account
<1>6. Account(Own', agent', cr')
  BY <1>3, <1>4, <1>5, AccountBinds
<1>7. HeldBy(w', Own', cr')
  BY <1>1 DEF BindInv, HeldBy, Steady
<1>8. Quiet => Served(w', Own', agent', cr')
  <2>1. SUFFICES ASSUME Quiet, NEW s \in Share, cr'[s].phase = "live", cr'[s].reason = "Ready"
                 PROVE  \/ \E r \in Own' \cap agent' : r.token = cr'[s].token /\ r.by = s
                        \/ w'.pc \in {"unshare", "clear"} /\ w'.key = s
    BY DEF Served
  <2>2. CASE s = w.key
    BY <2>1, <2>2
  <2>3. CASE s # w.key
    <3>1. PICK r \in Own \cap agent : r.token = cr[s].token /\ r.by = s
      BY <2>1, <2>3 DEF BindInv, Served, Steady
    <3>2. r \in Own'
      BY <1>2, <3>1
    <3> QED
      BY <2>1, <3>1, <3>2 DEF Steady
  <2> QED
    BY <2>2, <2>3
<1> QED
  BY <1>6, <1>7, <1>8 DEF BindInv

\* The release of a share, up to the patch that forgets it.
LEMMA ReleaseStepsBind ==
  ASSUME Apart, Housed, Lossless, IInv, IInv', OwnInv, BindInv,
         ReleaseShare \/ Unshare \/ UnshareFails \/ UnshareUnauthorized \/ ClearBinding
  PROVE  BindInv'
<1>0. w.pc \in {"release", "unshare", "clear"} /\ UNCHANGED <<env, names>>
  BY DEF ReleaseShare, Unshare, UnshareFails, UnshareUnauthorized, ClearBinding
<1>1. /\ w \in Worker /\ w.key \in Share /\ Base(w, cr) /\ Place(w, Own, agent, cr, names)
      /\ cr \in [Share -> ShareObject] /\ cr[w.key] \in ShareObject
      /\ Prepared(w, Own, agent, cr) /\ Carries(w, Own, agent, cr)
      /\ \A d \in Own \cup agent : d.by = w.key => d.env = w.dg.env
      /\ \A d \in Own \cup agent : d.by \in Share /\ d.token \in Token
  BY <1>0, InHand, InBinding
<1>2. w.zid /\ w.rest /\ ~Fault("release") /\ ~Fault("unauthorized")
  BY <1>1 DEF Carries, Lossless, Fault
<1>3. Steady(cr, cr) /\ Finalized(cr)
  BY DEF Steady, BindInv, Account
<1>4. CASE ReleaseShare
  <2>1. /\ w.pc = "release" /\ agent' = {d \in agent : ~(d.token = w.tok /\ d.env = w.dg.env)}
        /\ w' = [w EXCEPT !.pc = "unshare"] /\ UNCHANGED <<cr, remote>>
    BY <1>2, <1>4 DEF ReleaseShare, UnshareDue
  <2>2. /\ w'.pc = "unshare" /\ w'.key = w.key /\ w'.obj = w.obj /\ w'.dg = w.dg
        /\ w'.via = w.via /\ w'.tok = w.tok
    BY <1>1, <2>1 DEF Worker
  <2>3. Own' = Own /\ FewerAgents(agent, agent')
    BY <2>1 DEF Own, FewerAgents
  <2>4. Backed(Own', agent')
    BY <2>3, BackedStays
  <2>5. Account(Own', agent', cr')
    BY <1>3, <2>1, <2>3, <2>4, AccountBinds DEF BindInv, Account
  <2>6. HeldBy(w', Own', cr')
    BY <2>1, <2>3 DEF BindInv, HeldBy
  <2>7. Quiet => Served(w', Own', agent', cr')
    <3>1. SUFFICES ASSUME Quiet, NEW s \in Share, cr[s].phase = "live", cr[s].reason = "Ready"
                   PROVE  \/ \E r \in Own' \cap agent' : r.token = cr[s].token /\ r.by = s
                          \/ w'.pc \in {"unshare", "clear"} /\ w'.key = s
      BY <2>1 DEF Served
    <3>2. PICK r \in Own \cap agent : r.token = cr[s].token /\ r.by = s
      BY <2>1, <3>1 DEF BindInv, Served
    <3>3. r.token = w.tok => r.by = w.key
      BY <1>1, <2>1, <3>1 DEF Prepared, Harmless, Readable, Quiet, Lossless
    <3> QED
      BY <2>1, <2>2, <2>3, <3>2, <3>3
  <2>8. Place(w', Own', agent', cr', names')
    <3>1. \A d \in agent' : ~(d.token = w.tok /\ d.env = w.dg.env)
      BY <2>1
    <3>2. names' = names /\ cr' = cr
      BY <1>0, <2>1
    <3> QED
      BY <1>1, <2>1, <2>2, <2>3, <3>1, <3>2 DEF Place, Early, Late
  <2>9. Base(w', cr')
    BY <1>1, <2>1, <2>2 DEF Base
  <2> QED
    BY <2>5, <2>6, <2>7, <2>8, <2>9 DEF BindInv, Binds
<1>5. CASE Unshare
  <2>1. /\ w.pc = "unshare" /\ UNCHANGED <<cr, agent>> /\ AfterRelease
        /\ remote' = {r \in remote : ~(r.token = w.tok /\ r.env = w.dg.env)}
    BY <1>5 DEF Unshare, Unshared
  <2>2. Own' = {r \in Own : ~(r.token = w.tok /\ r.env = w.dg.env)}
    BY <2>1 DEF Own
  <2>3. Mine(w.key, Own') = {}
    BY <1>1, <2>1, <2>2 DEF Mine, Place
  <2>4. CASE w.via \in {"rebuild", "delete"}
    <3>1. /\ w'.pc = "clear" /\ w'.key = w.key /\ w'.obj = w.obj /\ w'.dg = w.dg
          /\ w'.via = w.via
      BY <1>1, <2>1, <2>4 DEF AfterRelease, Worker
    <3>2. Binds(w', Own', agent', cr', names')
      BY <1>1, <2>1, <2>3, <2>4, <3>1 DEF Binds, Base, Place, Early, Late
    <3> QED
      BY <1>3, <2>1, <2>2, <3>1, <3>2, UnsharedBinds
  <2>5. CASE w.via \notin {"rebuild", "delete"}
    <3>1. w'.pc = "idle"
      BY <2>1, <2>5, IdleType DEF AfterRelease, Requeue
    <3>2. Quiet => cr[w.key].phase = "deleting"
      BY <1>1, <2>1, <2>5, WorkerFields DEF Place, Base, Via, Worker
    <3> QED
      BY <1>3, <2>1, <2>2, <3>1, <3>2, UnsharedBinds DEF Binds
  <2> QED
    BY <2>4, <2>5
<1>6. CASE UnshareFails
  <2>1. /\ w.pc = "unshare" /\ UNCHANGED agent /\ w'.pc = "idle"
        /\ remote' \in {remote, {r \in remote : ~(r.token = w.tok /\ r.env = w.dg.env)}}
    BY <1>6, IdleType DEF UnshareFails, Unshared, StopWith, Requeue
  <2>2. Own' \subseteq Own /\ \A r \in Own \ Own' : r.token = w.tok /\ r.env = w.dg.env
    BY <2>1 DEF Own
  <2>3. CASE w.via \in {"rebuild", "conflict"}
    <3>1. cr' = [cr EXCEPT ![w.key].reason = "HealError"] \/ (~Quiet /\ cr' = cr)
      BY <1>6, <2>3 DEF UnshareFails, StopWith, SetNotReady, Quiet
    <3>2. Steady(cr, cr') /\ Finalized(cr')
      <4>1. cr' = [cr EXCEPT ![w.key].reason = "HealError"] \/ cr' = cr
        BY <3>1
      <4>2. w.key \in Share /\ "HealError" # "Ready"
        BY <1>1
      <4> QED
        BY <4>1, <4>2, StopsSteady
    <3>3. Quiet => cr'[w.key].reason = "HealError"
      BY <1>1, <3>1 DEF ShareObject
    <3> QED
      BY <2>1, <2>2, <3>2, <3>3, UnsharedBinds DEF Binds
  <2>4. CASE w.via \notin {"rebuild", "conflict"}
    <3>1. UNCHANGED cr /\ cr[w.key].phase = "deleting"
      BY <1>1, <1>6, <2>4 DEF UnshareFails, Base, Via, Worker
    <3> QED
      BY <1>3, <2>1, <2>2, <3>1, UnsharedBinds DEF Binds
  <2> QED
    BY <2>3, <2>4
<1>7. CASE UnshareUnauthorized
  BY <1>2, <1>7 DEF UnshareUnauthorized
<1>8. CASE ClearBinding
  <2> DEFINE bound == w.obj.token # None \/ w.obj.url # None
             o == IF bound THEN clearShareBinding(cr[w.key]) ELSE cr[w.key]
             x == IF bound THEN Patched(w, o) ELSE w
             z == [x EXCEPT !.released = TRUE]
  <2>1. /\ w.pc = "clear" /\ Mine(w.key, Own) = {} /\ w.via \in {"rebuild", "delete"}
        /\ w.via = "rebuild" => cr[w.key].reclaim = None
        /\ UNCHANGED <<remote, agent>>
    BY <1>1, <1>8 DEF ClearBinding, Place, Late
  <2>2. /\ clearShareBinding(cr[w.key]) \in ShareObject
        /\ clearShareBinding(cr[w.key]).token = None
        /\ clearShareBinding(cr[w.key]).reason = "Healing"
        /\ clearShareBinding(cr[w.key]).reclaim = cr[w.key].reclaim
        /\ clearShareBinding(cr[w.key]).finalizer = cr[w.key].finalizer
        /\ clearShareBinding(cr[w.key]).phase = cr[w.key].phase
    BY <1>1 DEF clearShareBinding, ShareObject, Label, Reason
  <2>3. /\ o \in ShareObject /\ o.reclaim = cr[w.key].reclaim
        /\ o.finalizer = cr[w.key].finalizer /\ o.phase = cr[w.key].phase
        /\ o.token = None /\ (o = cr[w.key] \/ o.reason = "Healing")
    BY <1>1, <2>2 DEF Base
  <2>4. /\ cr' = [cr EXCEPT ![w.key] = o]
        /\ w' = IF w.via = "delete" THEN DeleteNameOrFinish(x) ELSE ReclaimPreviousName(z)
    BY <1>8 DEF ClearBinding, Write
  <2>5. x \in Worker /\ x.key = w.key /\ x.obj.token = o.token /\ x.obj.reclaim = o.reclaim
        /\ x.dg = w.dg /\ x.via = w.via
    <3>1. bound => /\ Patched(w, o) \in Worker /\ Patched(w, o).key = w.key
                   /\ Patched(w, o).obj = o /\ Patched(w, o).dg = w.dg
                   /\ Patched(w, o).via = w.via
      <4> HIDE DEF o
      <4> QED
        BY <1>0, <1>1, <2>3, PatchedType DEF Patched, Worker
    <3> QED
      BY <1>1, <2>3, <3>1 DEF Base
  <2> HIDE DEF bound, o, x
  <2>6. z \in Worker /\ z.key = x.key /\ z.obj = x.obj /\ z.dg = x.dg /\ z.via = x.via
    BY <2>5 DEF Worker
  <2> HIDE DEF z
  <2>7. \A s \in Share :
          /\ cr'[s].finalizer = cr[s].finalizer /\ cr'[s].phase = cr[s].phase
          /\ cr'[s].reclaim = cr[s].reclaim
          /\ s # w.key => cr'[s] = cr[s]
          /\ s = w.key => cr'[s] = o
    BY <1>1, <2>3, <2>4
  <2>8. Base(x, cr') /\ Base(z, cr')
    BY <1>1, <2>5, <2>6, <2>7 DEF Base
  <2>9. Binds(w', Own, agent, cr', names')
    <3>1. CASE w.via = "delete"
      <4>1. Binds(DeleteNameOrFinish(x), Own, agent, cr', names')
        BY <2>1, <2>5, <2>8, <3>1, DeleteNameOrFinishBinds
      <4> QED
        BY <2>4, <3>1, <4>1
    <3>2. CASE w.via = "rebuild"
      <4>1. cr'[z.key].reclaim = None /\ Mine(z.key, Own) = {}
        BY <1>1, <2>1, <2>5, <2>6, <2>7, <3>2
      <4>2. Binds(ReclaimPreviousName(z), Own, agent, cr', names')
        BY <2>6, <2>8, <4>1, ReclaimPreviousNameBinds
      <4> QED
        BY <2>4, <3>2, <4>2
    <3> QED
      BY <2>1, <3>1, <3>2
  <2>10. Quiet => cr'[w.key].reason # "Ready"
    BY <1>1, <2>3, <2>7 DEF BindInv, Account, ReadyBound
  <2>11. Own' = Own
    BY <2>1 DEF Own
  <2>12. Account(Own, agent, cr')
    <3>1. Finalized(cr')
      BY <1>1, <2>3, <2>7 DEF BindInv, Account, Finalized
    <3>2. Pending(Own, cr')
      BY <2>7 DEF BindInv, Account, Pending
    <3>3. Quiet => ReadyBound(cr')
      BY <1>1, <2>7, <2>10 DEF BindInv, Account, ReadyBound
    <3> QED
      BY <3>1, <3>2, <3>3 DEF BindInv, Account
  <2>13. HeldBy(w', Own, cr')
    BY <1>1, <2>1, <2>7 DEF BindInv, HeldBy, Mine
  <2>14. Quiet => Served(w', Own, agent, cr')
    BY <1>1, <2>7, <2>10 DEF BindInv, Served
  <2> QED
    BY <2>1, <2>9, <2>11, <2>12, <2>13, <2>14 DEF BindInv
<1> QED
  BY <1>4, <1>5, <1>6, <1>7, <1>8

\* Creating a share, recording it, and the end of a deletion.
LEMMA ShareStepsBind ==
  ASSUME Apart, Housed, Lossless, IInv, IInv', OwnInv, BindInv,
         \/ CreateShare \/ CreateConflict \/ CreateRefused \/ CreateFails
         \/ MarkShareReady \/ StampDigest \/ RemoveFinalizer
  PROVE  BindInv'
<1>0. w.pc \in {"create", "mark", "stamp", "final"}
  BY DEF CreateShare, CreateConflict, CreateRefused, CreateFails, MarkShareReady,
         StampDigest, RemoveFinalizer
<1>1. /\ w \in Worker /\ w.key \in Share /\ Base(w, cr) /\ Place(w, Own, agent, cr, names)
      /\ cr \in [Share -> ShareObject] /\ cr[w.key] \in ShareObject
      /\ \A d \in Own \cup agent : d.by \in Share /\ d.token \in Token /\ d.token # None
      /\ Finalized(cr)
  BY <1>0, InHand, InBinding DEF BindInv, Account
<1>2. CASE CreateShare
  <2>1. PICK t \in Fresh : /\ remote' = remote \cup {Requested(t)}
                           /\ agent' = agent \cup {Requested(t)}
                           /\ w' = [w EXCEPT !.pc = "mark", !.tok = t,
                                             !.url = AssignedURL(w.obj, Requested(t))]
    BY <1>2 DEF CreateShare
  <2> DEFINE q == Requested(t)
  <2>2. /\ w.pc = "create" /\ UNCHANGED <<cr, names>> /\ Mine(w.key, Own) = {}
        /\ cr[w.key].reclaim = None
    BY <1>1, <1>2 DEF CreateShare, Place, Late
  <2>3. q.token = t /\ q.by = w.key /\ t \in Token /\ q.env = w.dg.env
    BY <1>0, <2>1, NewOwn DEF Requested
  <2> HIDE DEF q
  <2>4. Own' = Own \cup {q} /\ agent' = agent \cup {q}
    BY <2>1, <2>3 DEF Own, q
  <2>5. /\ w'.pc = "mark" /\ w'.tok = t /\ w'.key = w.key /\ w'.obj = w.obj /\ w'.dg = w.dg
        /\ w'.via = w.via
    BY <1>1, <2>1 DEF Worker
  <2>6. Mine(w.key, Own') = {q} /\ \A s \in Share \ {w.key} : Mine(s, Own') = Mine(s, Own)
    BY <2>2, <2>3, <2>4 DEF Mine
  <2>7. Account(Own', agent', cr')
    <3>1. Backed(Own', agent')
      BY <2>4 DEF BindInv, Account, Backed
    <3>2. At(Own', agent')
      BY <1>1, <2>3, <2>4 DEF BindInv, Account, At, Base
    <3>3. Pending(Own', cr')
      BY <2>2, <2>6 DEF BindInv, Account, Pending
    <3> QED
      BY <2>2, <2>4, <3>1, <3>2, <3>3 DEF BindInv, Account
  <2>8. HeldBy(w', Own', cr')
    BY <2>2, <2>3, <2>4, <2>5 DEF BindInv, HeldBy
  <2>9. Quiet => Served(w', Own', agent', cr')
    BY <2>2, <2>4 DEF BindInv, Served
  <2>10. Place(w', Own', agent', cr', names')
    BY <2>3, <2>4, <2>5, <2>6 DEF Place, Early, Late
  <2>11. Base(w', cr')
    BY <1>1, <2>2, <2>5 DEF Base
  <2> QED
    BY <2>7, <2>8, <2>9, <2>10, <2>11 DEF BindInv, Binds
<1>3. CASE CreateConflict
  <2>1. w.pc = "create" /\ Mine(w.key, Own) = {} /\ UNCHANGED <<cr, remote, agent>>
    BY <1>1, <1>3 DEF CreateConflict, Place, Late
  <2>2. w'.pc = "conflict" /\ w'.key = w.key /\ w'.obj = w.obj /\ w'.dg = w.dg
        /\ w'.via = w.via
    BY <1>1, <1>3 DEF CreateConflict, Worker
  <2>3. Binds(w', Own, agent, cr, names')
    BY <1>1, <2>1, <2>2 DEF Binds, Base, Place, Early, Late
  <2> QED
    BY <2>1, <2>3, GoesOnBinds
<1>4. CASE CreateRefused
  BY <1>4, StopBinds DEF CreateRefused
<1>5. CASE CreateFails
  BY <1>5 DEF CreateFails, Lossless, Fault
<1>6. CASE MarkShareReady
  <2> DEFINE v == reservation(w.obj.spec.mode, cr[w.key].spec.name)
             o == [cr[w.key] EXCEPT !.token = w.tok, !.url = w.url,
                                    !.reason = "Ready", !.reservation = v]
  <2>1. /\ Write(o) /\ w' = [Patched(w, o) EXCEPT !.pc = "stamp"] /\ w.pc = "mark"
        /\ UNCHANGED <<remote, agent, names>>
    BY <1>6 DEF MarkShareReady
  <2>2. /\ o.token = w.tok /\ o.finalizer = cr[w.key].finalizer /\ o.phase = cr[w.key].phase
        /\ o.reclaim = cr[w.key].reclaim
    BY <1>1 DEF ShareObject
  <2> HIDE DEF o
  <2>3. Own' = Own /\ cr' = [cr EXCEPT ![w.key] = o]
    BY <2>1 DEF Own, Write
  <2>4. \A s \in Share :
          /\ cr'[s].finalizer = cr[s].finalizer /\ cr'[s].phase = cr[s].phase
          /\ cr'[s].reclaim = cr[s].reclaim
          /\ s # w.key => cr'[s] = cr[s]
          /\ s = w.key => cr'[s] = o
    BY <1>1, <2>2, <2>3
  <2>5. Quiet => \E d \in Own \cap agent : d.token = w.tok /\ d.by = w.key
    BY <1>1, <2>1 DEF Place, BindInv, Account
  <2>6. \A r \in Mine(w.key, Own) : r.token = w.tok
    BY <1>1, <2>1 DEF Place
  <2>7. Account(Own, agent, cr')
    <3>1. Finalized(cr')
      BY <1>1, <2>4 DEF Finalized, Base
    <3>2. Pending(Own, cr')
      BY <2>4 DEF BindInv, Account, Pending
    <3>3. Quiet => ReadyBound(cr')
      BY <1>1, <2>2, <2>4, <2>5 DEF BindInv, Account, ReadyBound
    <3> QED
      BY <3>1, <3>2, <3>3 DEF BindInv, Account
  <2>8. HeldBy(w', Own, cr')
    BY <1>1, <2>2, <2>4, <2>6 DEF BindInv, HeldBy, Mine
  <2>9. Quiet => Served(w', Own, agent, cr')
    <3>1. SUFFICES ASSUME Quiet, NEW s \in Share, cr'[s].phase = "live",
                          cr'[s].reason = "Ready"
                   PROVE  \E r \in Own \cap agent : r.token = cr'[s].token /\ r.by = s
      BY DEF Served
    <3>2. CASE s = w.key
      BY <2>2, <2>4, <2>5, <3>1, <3>2
    <3>3. CASE s # w.key
      BY <2>1, <2>4, <3>1, <3>3 DEF BindInv, Served
    <3> QED
      BY <3>2, <3>3
  <2>10. /\ w'.pc = "stamp" /\ w'.obj = o /\ w'.key = w.key /\ w'.dg = w.dg /\ w'.via = w.via
    BY <1>1, <2>1 DEF Patched, Worker
  <2>11. Binds(w', Own, agent, cr', names')
    BY <1>1, <2>4, <2>10 DEF Binds, Base, Place, Early, Late
  <2> QED
    BY <2>1, <2>3, <2>7, <2>8, <2>9, <2>11 DEF BindInv
<1>7. CASE StampDigest
  <2>1. \A s \in Share :
          /\ cr'[s].token = cr[s].token /\ cr'[s].finalizer = cr[s].finalizer
          /\ cr'[s].phase = cr[s].phase /\ cr'[s].reason = cr[s].reason
          /\ cr'[s].reclaim = cr[s].reclaim
    BY <1>1, <1>7 DEF StampDigest, ShareObject
  <2>2. Steady(cr, cr') /\ Finalized(cr')
    BY <1>1, <2>1 DEF Steady, Finalized
  <2>3. Own' = Own /\ agent' = agent /\ w.pc = "stamp" /\ w'.pc = "idle"
    BY <1>7, IdleType DEF StampDigest, Requeue, Own
  <2>4. HeldBy(w', Own, cr) /\ (Quiet => Served(w', Own, agent, cr))
    BY <2>3 DEF BindInv, HeldBy, Served
  <2>5. Account(Own', agent', cr') /\ HeldBy(w', Own', cr')
        /\ (Quiet => Served(w', Own', agent', cr'))
    BY <2>2, <2>3, <2>4, ShareLess
  <2> QED
    BY <2>3, <2>5 DEF BindInv, Binds
<1>8. CASE RemoveFinalizer
  <2>1. w.pc = "final" /\ Mine(w.key, Own) = {} /\ UNCHANGED <<remote, agent>>
    BY <1>1, <1>8 DEF RemoveFinalizer, Place, Late
  <2>2. CASE Requeue /\ UNCHANGED cr
    BY <2>1, <2>2, RequeueBinds
  <2>3. CASE cr' = [cr EXCEPT ![w.key] = Absent(w.key)] /\ w' = Idle
    <3>1. /\ Absent(w.key).phase = "absent" /\ ~Absent(w.key).finalizer
          /\ Absent(w.key).token = None /\ Absent(w.key).reclaim = None
          /\ Absent(w.key).reason = "unset"
      BY DEF Absent
    <3>2. \A s \in Share : cr'[s] = IF s = w.key THEN Absent(w.key) ELSE cr[s]
      BY <1>1, <2>3
    <3>3. Own' = Own /\ w'.pc = "idle"
      BY <2>1, <2>3, IdleType DEF Own
    <3>4. Account(Own, agent, cr')
      BY <3>1, <3>2 DEF BindInv, Account, Finalized, Pending, ReadyBound
    <3>5. HeldBy(w', Own, cr')
      BY <1>1, <2>1, <3>2 DEF BindInv, HeldBy, Mine
    <3>6. Quiet => Served(w', Own, agent, cr')
      BY <2>1, <3>1, <3>2 DEF BindInv, Served
    <3> QED
      BY <2>1, <3>3, <3>4, <3>5, <3>6 DEF BindInv, Binds
  <2> QED
    BY <1>8, <2>2, <2>3 DEF RemoveFinalizer
<1> QED
  BY <1>2, <1>3, <1>4, <1>5, <1>6, <1>7, <1>8

-----------------------------------------------------------------------------
(* The theorems.                                                           *)

\* Every step of the system preserves the invariant.
LEMMA NextBinds ==
  ASSUME Apart, Housed, Lossless
  PROVE  IInv /\ IInv' /\ OwnInv /\ BindInv /\ [Next]_vars => BindInv'
<1> SUFFICES ASSUME IInv, IInv', OwnInv, BindInv, [Next]_vars PROVE BindInv'
  OBVIOUS
<1>1. ASSUME NEW s \in Share, Reconcile(s) PROVE BindInv'
  BY <1>1, ReconcileBinds
<1>2. CASE Step
  BY <1>2, InventoryStepsBind, NameStepsBind, ReleaseStepsBind, ShareStepsBind
     DEF Step, Lossless
<1>3. CASE Crash \/ WriteFails
  BY <1>3 DEF Crash, WriteFails, Lossless, Fault
<1>4. CASE Environment
  BY <1>4, UserBinds, OutsideBinds DEF Environment
<1>5. CASE UNCHANGED vars
  <2>1. UNCHANGED <<cr, w, remote, agent, names>> /\ Own' = Own
    BY <1>5 DEF vars, Own
  <2> QED
    BY <2>1, OutsideStays DEF Steady, FewerAgents, BindInv, Account
<1> QED
  BY <1>1, <1>2, <1>3, <1>4, <1>5 DEF Next

\* The invariant holds throughout.
LEMMA BindingInvariance == ASSUME Apart, Housed, Lossless PROVE Spec => []BindInv
<1>1. IInv /\ IInv' /\ OwnInv /\ BindInv /\ [Next]_vars => BindInv'
  BY NextBinds
<1> QED
  BY <1>1, InitBinds, Invariance, Ownership, PTL DEF Spec

\* While no answer and no write is lost, no share outlives the operator's knowledge of its
\* token: across any edits, renames, deletions, failed calls and restarts of
\* agents, each one is in the status of its object, or the worker has it in
\* hand on the way from the creation to markShareReady.
THEOREM SharesHeld == ASSUME Apart, Housed, Lossless PROVE Spec => []EveryShareHeld
<1>1. BindInv => EveryShareHeld
  <2>1. SUFFICES ASSUME BindInv, NEW r \in Own PROVE Held(r)
    BY DEF EveryShareHeld
  <2>2. CASE cr[r.by].token = r.token
    BY <2>2 DEF Held
  <2>3. CASE w.pc = "mark" /\ w.key = r.by
    BY <2>1, <2>3 DEF BindInv, Binds, Place, Mine, Held
  <2> QED
    BY <2>1, <2>2, <2>3 DEF BindInv, HeldBy
<1> QED
  BY <1>1, BindingInvariance, PTL

\* ... the name that a rebuild needs is reserved before the old share is
\* touched (ensureReservedName comes before releaseAndClear), also while an
\* old name is still to be deleted, ...
THEOREM NameReservedFirst ==
  ASSUME Apart, Housed, Lossless PROVE Spec => []ReservedBeforeRelease
<1>1. BindInv => ReservedBeforeRelease
  BY DEF BindInv, Binds, Place, ReservedBeforeRelease
<1> QED
  BY <1>1, BindingInvariance, PTL

\* ... and, as long as shares keep running by themselves and setNotReady is
\* written, an object that says Ready is served: no reconcile takes a share from under its condition
\* without saying so (clearShareBinding, releaseOurs).
THEOREM ReadyServed ==
  ASSUME Apart, Housed, Lossless, Quiet PROVE Spec => []ReadyIsServed
<1>1. BindInv => ReadyIsServed
  BY DEF BindInv, Served, ReadyIsServed, Own
<1> QED
  BY <1>1, BindingInvariance, PTL

-----------------------------------------------------------------------------
(* The refinement: every step of the reconciler is one of ShareBinding, or *)
(* none.                                                                   *)

\* What is taken up, directly or after more calls, is an agent's share.
LEMMA TakesToken ==
  ASSUME NEW x \in Worker
  PROVE  /\ AdoptOrRebuild(x).pc = "mark" => AdoptOrRebuild(x).tok \in Token
         /\ AfterFlush(x).pc = "mark" => AfterFlush(x).tok \in Token
         /\ FlushReclaimName(x).pc = "mark" => FlushReclaimName(x).tok \in Token
         /\ AfterInventory(x).pc = "mark" => AfterInventory(x).tok \in Token
<1>1. AdoptOrRebuild(x).pc = "mark" => AdoptOrRebuild(x).tok \in Token
  <2> DEFINE ready == adoptableAgentShare(x.obj, x.cls, x.dg.target, x.dg)
             ours  == {r \in x.cls.remote : \/ TargetsEqual(r.target, x.dg.target)
                                            \/ r.token = x.obj.token}
             drop  == FirstOf(x.cls.agent, ours)
             d     == CHOOSE d \in ready : TRUE
             r     == CHOOSE r \in drop : TRUE
             adopt == [x EXCEPT !.pc = "mark", !.tok = d.token,
                                !.url = AssignedURL(x.obj, d)]
             rebuild == [x EXCEPT !.pc = "release", !.via = "rebuild",
                                  !.tok = r.token,
                                  !.old = liveFrontendName(x.obj, x.cls),
                                  !.prev = x.obj.reservation = "reserved"]
             create == [x EXCEPT !.pc = "create"]
  <2>1. AdoptOrRebuild(x) = IF ready # {} THEN adopt ELSE IF drop # {} THEN rebuild ELSE create
    BY DEF AdoptOrRebuild
  <2>2. ready \subseteq OwnShare
    BY WorkerFields DEF ClassifiedShare, adoptableAgentShare
  <2>3. ready # {} => d \in ready
    OBVIOUS
  <2>4. ready # {} => d.token \in Token
    BY <2>2, <2>3 DEF OwnShare
  <2> HIDE DEF ready, d, drop, r
  <2>5. adopt.tok = d.token /\ rebuild.pc = "release" /\ create.pc = "create"
    BY DEF Worker
  <2> QED
    BY <2>1, <2>4, <2>5
<1>2. AfterFlush(x).pc = "mark" => AfterFlush(x).tok \in Token
  BY <1>1, AtType DEF AfterFlush, PC
<1>3. FlushReclaimName(x).pc = "mark" => FlushReclaimName(x).tok \in Token
  BY <1>2, AtType DEF FlushReclaimName, PC
<1> QED
  BY <1>2, <1>1, <1>3, AtType DEF AfterInventory, PC

\* Nothing is made, and no token is recorded or dropped.
LEMMA SharesGo ==
  ASSUME Own' \subseteq Own, \A s \in Share : cr'[s].token = cr[s].token, Hand' = Hand
  PROVE  Binding!Next
<1>1. Ledger' \subseteq Ledger
  BY DEF Ledger
<1>2. Bound' = Bound
  BY DEF Bound
<1> QED
  BY <1>1, <1>2 DEF Binding!Next, Binding!Go

\* The worker gets a share in hand, with the token that its object will have.
LEMMA TakenVacant ==
  ASSUME IInv', OwnInv', BindInv', w'.pc = "mark", w'.tok \in Token,
         \A s \in Share : cr'[s].token = cr[s].token
  PROVE  /\ w'.key \in Share /\ Hand' = {[token |-> w'.tok, by |-> w'.key]}
         /\ \A r \in Ledger' : r.token = w'.tok => r.by = w'.key
         /\ \A r \in Ledger' : r.by = w'.key => r.token = w'.tok
         /\ \A o \in Share \ {w'.key} : Bound[o] # w'.tok
<1>1. w'.key \in Share /\ Hand' = {[token |-> w'.tok, by |-> w'.key]}
  BY WorkerFields DEF IInv, TypeOK, Hand
<1>2. Ours(w'.tok, w'.key, Own', agent', cr')
  BY DEF OwnInv, WorkerOurs, Prepared
<1>3. /\ \A s \in Share : cr'[s].token = w'.tok => s = w'.key
      /\ \A d \in Own' : d.token = w'.tok => d.by = w'.key
  BY <1>2, NoneAssumption DEF Ours
<1>4. \A r \in Own' : r.by = w'.key => r.token = w'.tok
  BY DEF BindInv, Binds, Place, Mine
<1> QED
  BY <1>1, <1>3, <1>4 DEF Ledger, Bound

\* A share that is there already is taken up.
LEMMA TakesUp ==
  ASSUME IInv', OwnInv', BindInv', w.pc # "mark", w'.pc = "mark" => w'.tok \in Token,
         Own' = Own, \A s \in Share : cr'[s].token = cr[s].token
  PROVE  Binding!Next
<1>1. CASE w'.pc # "mark"
  BY <1>1, SharesGo DEF Hand
<1>2. CASE w'.pc = "mark"
  <2>1. Ledger' = Ledger /\ Bound' = Bound /\ Hand = {}
    BY DEF Ledger, Bound, Hand
  <2>2. Binding!TakeUp(w'.key)
    BY <1>2, <2>1, TakenVacant DEF Binding!TakeUp, Binding!Vacant, Binding!Of
  <2> QED
    BY <1>2, <2>2, TakenVacant DEF Binding!Next
<1> QED
  BY <1>1, <1>2

\* A return, with a condition or without.
LEMMA ReturnGoes ==
  ASSUME IInv, w.pc # "mark", Own' \subseteq Own,
         \/ Requeue /\ UNCHANGED cr
         \/ \E reason : StopWith(reason)
  PROVE  Binding!Next
<1>1. w'.pc = "idle"
  BY IdleType DEF Requeue, StopWith
<1>2. ASSUME NEW reason, StopWith(reason), NEW s \in Share
      PROVE  cr'[s].token = cr[s].token
  <2>1. cr[s] \in ShareObject /\ cr'[s] \in {cr[s], [cr[s] EXCEPT !.reason = reason]}
    BY <1>2 DEF StopWith, SetNotReady, IInv, TypeOK
  <2> QED
    BY <2>1 DEF ShareObject
<1>3. \A s \in Share : cr'[s].token = cr[s].token
  BY <1>2
<1> QED
  BY <1>1, <1>3, SharesGo DEF Hand

\* An object forgets its token.
LEMMA Forgets ==
  ASSUME IInv, w.pc # "mark", w'.pc # "mark", NEW s \in Share, Own' = Own,
         Mine(s, Own) = {}, NEW o, o.token = None, cr' = [cr EXCEPT ![s] = o]
  PROVE  Binding!Next
<1>1. \A t \in Share : cr'[t].token = IF t = s THEN None ELSE cr[t].token
  BY DEF IInv, TypeOK
<1>2. Ledger' = Ledger /\ Hand' = Hand /\ Hand = {}
  BY DEF Ledger, Hand
<1>3. Bound' = [Bound EXCEPT ![s] = None]
  BY <1>1 DEF Bound
<1>4. Binding!Of(s) = {}
  BY DEF Binding!Of, Ledger, Mine
<1> QED
  BY <1>2, <1>3, <1>4 DEF Binding!Forget, Binding!Next

\* Taking a key from the queue.
LEMMA ReconcileKeeps ==
  ASSUME IInv, NEW s \in Share, Reconcile(s) PROVE Binding!Next
<1>1. w.pc = "idle" /\ UNCHANGED remote
  BY DEF Reconcile, ReconcileGone, AddFinalizer, RefuseSpec, WaitForEnvironment,
         SecretUnreadable, NameClaimed, StartReconcile, StartDelete, Taken, Live, Valid
<1>2. w'.pc # "mark"
  <2>1. CASE StartReconcile(s)
    BY <2>1, StartType DEF StartReconcile
  <2>2. CASE StartDelete(s)
    <3>1. PICK rest \in BOOLEAN : w' = [Start(s) EXCEPT !.via = "delete", !.rest = rest]
      BY <2>2 DEF StartDelete
    <3> QED
      BY <3>1, StartType DEF Worker
  <2>3. CASE ~StartReconcile(s) /\ ~StartDelete(s)
    BY <1>1, <2>3 DEF Reconcile, ReconcileGone, AddFinalizer, RefuseSpec,
                      WaitForEnvironment, SecretUnreadable, NameClaimed
  <2> QED
    BY <2>1, <2>2, <2>3
<1>3. \A t \in Share : cr'[t].token = cr[t].token
  <2>1. \/ UNCHANGED cr
        \/ cr' = [cr EXCEPT ![s].finalizer = TRUE]
        \/ \E reason : cr' = [cr EXCEPT ![s].reason = reason]
    BY DEF Reconcile, ReconcileGone, AddFinalizer, RefuseSpec, WaitForEnvironment,
           SecretUnreadable, NameClaimed, SetNotReady, StartReconcile, StartDelete
  <2>2. CASE cr' = [cr EXCEPT ![s].finalizer = TRUE]
    BY <2>2 DEF IInv, TypeOK, ShareObject
  <2>3. ASSUME NEW reason, cr' = [cr EXCEPT ![s].reason = reason]
        PROVE  \A t \in Share : cr'[t].token = cr[t].token
    BY <2>3 DEF IInv, TypeOK, ShareObject
  <2> QED
    BY <2>1, <2>2, <2>3
<1> QED
  BY <1>1, <1>2, <1>3, SharesGo DEF Hand, Own

\* Users: an object without a finalizer has no token to lose.
LEMMA UserKeeps ==
  ASSUME IInv, BindInv, NEW s \in Share, UserCreates(s) \/ UserEdits(s) \/ UserDeletes(s)
  PROVE  Binding!Next
<1>1. UNCHANGED <<remote, w>>
  BY DEF UserCreates, UserEdits, UserDeletes
<1>2. ~cr[s].finalizer => cr[s].token = None
  BY DEF BindInv, Account, Finalized
<1>3. cr[s] \in ShareObject /\ cr \in [Share -> ShareObject]
  BY DEF IInv, TypeOK
<1>4. Absent(s).token = None
  BY DEF Absent
<1>5. CASE UserCreates(s)
  <2>1. PICK sp : cr' = [cr EXCEPT ![s] = [Absent(s) EXCEPT !.phase = "live", !.spec = sp]]
    BY <1>5 DEF UserCreates
  <2>2. cr[s].token = None
    BY <1>2, <1>5 DEF UserCreates, BindInv, Account, Finalized
  <2>3. [Absent(s) EXCEPT !.phase = "live", !.spec = sp].token = None
    BY <1>4, AbsentType DEF ShareObject
  <2>4. \A t \in Share : cr'[t].token = cr[t].token
    BY <1>3, <2>1, <2>2, <2>3
  <2> QED
    BY <1>1, <2>4, SharesGo DEF Own, Hand
<1>6. CASE UserEdits(s)
  <2>1. PICK sp : cr' = [cr EXCEPT ![s].spec = sp]
    BY <1>6 DEF UserEdits
  <2>2. \A t \in Share : cr'[t].token = cr[t].token
    BY <1>3, <2>1 DEF ShareObject
  <2> QED
    BY <1>1, <2>2, SharesGo DEF Own, Hand
<1>7. CASE UserDeletes(s)
  <2>1. [cr[s] EXCEPT !.phase = "deleting"].token = cr[s].token
    BY <1>3 DEF ShareObject
  <2>2. \A t \in Share : cr'[t].token = cr[t].token
    BY <1>2, <1>3, <1>4, <1>7, <2>1 DEF UserDeletes
  <2> QED
    BY <1>1, <2>2, SharesGo DEF Own, Hand
<1> QED
  BY <1>5, <1>6, <1>7

\* Shares go by themselves, and those of others come and go.
LEMMA OutsideKeeps ==
  ASSUME IInv,
         \/ \E e \in Env : \/ EnvironmentProgresses(e)
                          \/ EnvironmentDegrades(e)
                          \/ EnvironmentUnkeyed(e)
                          \/ EnvironmentRekeyed(e)
                          \/ EnvironmentRemoved(e)
                          \/ AgentRestarts(e)
         \/ AgentShareStalls \/ ForeignShareAppears \/ ForeignShareLeaves
  PROVE  Binding!Next
<1>1. UNCHANGED <<cr, w>>
  BY DEF EnvironmentProgresses, EnvironmentDegrades, EnvironmentUnkeyed, EnvironmentRekeyed,
         EnvironmentRemoved, AgentRestarts, AgentShareStalls, ForeignShareAppears,
         ForeignShareLeaves
<1>2. \A r \in remote' : r \in remote \/ r.token \notin Token
  BY ForeignTokenAssumption
     DEF EnvironmentProgresses, EnvironmentDegrades, EnvironmentUnkeyed, EnvironmentRekeyed,
         EnvironmentRemoved, AgentRestarts, AgentShareStalls, ForeignShareAppears,
         ForeignShareLeaves, ForeignShare
<1>3. Own' \subseteq Own
  BY <1>2 DEF Own
<1> QED
  BY <1>1, <1>3, SharesGo DEF Hand

\* A patch of the object that leaves its token.
LEMMA WriteKeeps ==
  ASSUME IInv, NEW o, Write(o), o.token = cr[w.key].token
  PROVE  \A s \in Share : cr'[s].token = cr[s].token
  BY DEF Write, IInv, TypeOK

\* The decisions after an inventory: a share is taken up, or none is.
LEMMA InventoryStepsKeep ==
  ASSUME IInv, IInv', OwnInv', BindInv',
         InventoryUnavailable \/ Inventory \/ HandleShareConflict \/ DeleteInventory
  PROVE  Binding!Next
<1>1. w.pc \in {"inventory", "conflict"} /\ Own' = Own
  BY DEF InventoryUnavailable, Inventory, HandleShareConflict, DeleteInventory, Own
<1>2. w \in Worker /\ w.obj \in ShareObject
  BY WorkerFields DEF IInv, TypeOK
<1>3. ASSUME NEW lf \in BOOLEAN, NEW sf \in BOOLEAN,
             NEW c \in classifyShare(w.obj, w.dg.target, loadInventory(lf, sf)),
             NEW d \in adoptableAgentShare(w.obj, c, w.dg.target, w.dg), UNCHANGED cr,
             w' = [w EXCEPT !.pc = "mark", !.tok = d.token, !.url = AssignedURL(w.obj, d)]
      PROVE  Binding!Next
  <2>1. c \in ClassifiedShare
    BY LoadInventoryType, ClassifyType
  <2>2. d.token \in Token
    BY <2>1 DEF adoptableAgentShare, ClassifiedShare, OwnShare
  <2>3. w'.tok = d.token
    BY <1>2, <1>3 DEF Worker
  <2> QED
    BY <1>1, <1>3, <2>2, <2>3, TakesUp
<1>4. CASE InventoryUnavailable
  <2>1. \E sf \in BOOLEAN :
          \E c \in classifyShare(w.obj, w.dg.target, loadInventory(TRUE, sf)) :
            \/ StopWith("InventoryError")
            \/ \E d \in adoptableAgentShare(w.obj, c, w.dg.target, w.dg) :
                 /\ w' = [w EXCEPT !.pc = "mark", !.tok = d.token,
                                   !.url = AssignedURL(w.obj, d)]
                 /\ UNCHANGED cr
    BY <1>4 DEF InventoryUnavailable
  <2> QED
    BY <1>1, <1>3, <2>1, ReturnGoes
<1>5. CASE Inventory
  <2>0. PICK sf \in BOOLEAN :
          \E c \in classifyShare(w.obj, w.dg.target, loadInventory(FALSE, sf)) :
            \/ StopWith("NameConflict")
            \/ /\ w' = AfterInventory([w EXCEPT !.inv = loadInventory(FALSE, sf), !.cls = c])
               /\ UNCHANGED cr
    BY <1>5 DEF Inventory
  <2>1. PICK c \in classifyShare(w.obj, w.dg.target, loadInventory(FALSE, sf)) :
          \/ StopWith("NameConflict")
          \/ /\ w' = AfterInventory([w EXCEPT !.inv = loadInventory(FALSE, sf), !.cls = c])
             /\ UNCHANGED cr
    BY <2>0
  <2> DEFINE x == [w EXCEPT !.inv = loadInventory(FALSE, sf), !.cls = c]
  <2>2. x \in Worker
    BY <1>2, LoadInventoryType, ClassifyType DEF Worker
  <2>3. AfterInventory(x).pc = "mark" => AfterInventory(x).tok \in Token
    BY <2>2, TakesToken
  <2> QED
    BY <1>1, <2>1, <2>3, TakesUp, ReturnGoes
<1>6. CASE HandleShareConflict
  <2>1. \E lf, sf \in BOOLEAN :
          \E c \in classifyShare(w.obj, w.dg.target, loadInventory(lf, sf)) :
            \/ \E reason : StopWith(reason)
            \/ \E d \in adoptableAgentShare(w.obj, c, w.dg.target, w.dg) :
                 /\ w' = [w EXCEPT !.pc = "mark", !.tok = d.token,
                                   !.url = AssignedURL(w.obj, d)]
                 /\ UNCHANGED cr
            \/ \E r : /\ w' = [w EXCEPT !.pc = "release", !.via = "conflict", !.tok = r.token]
                      /\ UNCHANGED cr
    BY <1>6 DEF HandleShareConflict
  <2>2. ASSUME NEW r, UNCHANGED cr,
               w' = [w EXCEPT !.pc = "release", !.via = "conflict", !.tok = r.token]
        PROVE  Binding!Next
    BY <1>1, <1>2, <2>2, SharesGo DEF Worker, Hand
  <2> QED
    BY <1>1, <1>3, <2>1, <2>2, ReturnGoes
<1>7. CASE DeleteInventory
  <2>1. UNCHANGED cr
    BY <1>7 DEF DeleteInventory
  <2>2. PICK lf \in BOOLEAN, sf \in BOOLEAN, claimed \in BOOLEAN :
          /\ InventoryOutcome(lf, sf)
          /\ DeleteTurns(loadInventory(lf, sf), claimed, Listing(loadInventory(lf, sf), lf, claimed))
    BY <1>7, DeleteInventoryTurns
  <2> DEFINE inv == loadInventory(lf, sf)
             x   == Listing(inv, lf, claimed)
  <2>3. x \in Worker /\ ((\E t : w' = [x EXCEPT !.pc = "release", !.tok = t])
                          \/ w' = DeleteNameOrFinish(x))
    <3>1. inv \in ShareInventoryType
      BY LoadInventoryType
    <3>2. (\E t : w' = [x EXCEPT !.pc = "release", !.tok = t]) \/ w' = DeleteNameOrFinish(x)
      BY <2>2 DEF DeleteTurns
    <3> HIDE DEF inv
    <3>3. x \in Worker
      BY <1>2, <3>1 DEF Worker, Listing
    <3> QED
      BY <3>2, <3>3
  <2> HIDE DEF x
  <2>4. w'.pc # "mark"
    BY <2>3 DEF DeleteNameOrFinish, Worker
  <2> QED
    BY <1>1, <2>1, <2>4, SharesGo DEF Hand
<1> QED
  BY <1>4, <1>5, <1>6, <1>7

\* Reserving and deleting names, and the annotation between them.
LEMMA NameStepsKeep ==
  ASSUME IInv, IInv', OwnInv', BindInv',
         \/ EnsureReservedName \/ NameOfOtherAccount \/ ReserveFails
         \/ FlushReclaim \/ FlushFails \/ ClearReclaim \/ AnnotateReclaim
         \/ DeleteName \/ DeleteNameFails
  PROVE  Binding!Next
<1>1. w.pc # "mark" /\ Own' = Own
  BY DEF EnsureReservedName, NameOfOtherAccount, ReserveFails, FlushReclaim, FlushFails,
         ClearReclaim, AnnotateReclaim, DeleteName, DeleteNameFails, Own
<1>2. w \in Worker /\ w.key \in Share /\ cr[w.key] \in ShareObject /\ w.old \in Label
  BY WorkerFields DEF IInv, TypeOK, Worker
<1>3. CASE EnsureReservedName
  BY <1>1, <1>2, <1>3, TakesToken, TakesUp DEF EnsureReservedName
<1>4. CASE NameOfOtherAccount \/ ReserveFails \/ FlushFails \/ DeleteNameFails
  <2>1. (Requeue /\ UNCHANGED cr) \/ \E reason : StopWith(reason)
    BY <1>4 DEF NameOfOtherAccount, ReserveFails, FlushFails, DeleteNameFails
  <2> QED
    BY <1>1, <2>1, ReturnGoes
<1>5. CASE FlushReclaim
  <2>1. UNCHANGED cr /\ (Requeue \/ w' = [w EXCEPT !.pc = "unannotate"])
    BY <1>5 DEF FlushReclaim
  <2>2. CASE w' = [w EXCEPT !.pc = "unannotate"]
    BY <1>1, <1>2, <2>1, <2>2, SharesGo DEF Hand, Worker
  <2> QED
    BY <1>1, <2>1, <2>2, ReturnGoes
<1>6. CASE ClearReclaim
  <2> DEFINE o == [cr[w.key] EXCEPT !.reclaim = None]
  <2>1. Write(o) /\ w' = AfterFlush(Patched(w, o))
    BY <1>6 DEF ClearReclaim
  <2>2. o \in ShareObject /\ o.token = cr[w.key].token
    BY <1>2 DEF ShareObject, Label
  <2> HIDE DEF o
  <2>3. Patched(w, o) \in Worker
    BY <1>2, <2>2, PatchedType
  <2>4. \A s \in Share : cr'[s].token = cr[s].token
    BY <2>1, <2>2, WriteKeeps
  <2> QED
    BY <1>1, <2>1, <2>3, <2>4, TakesToken, TakesUp
<1>7. CASE AnnotateReclaim
  <2> DEFINE o == [cr[w.key] EXCEPT !.reclaim = w.old]
  <2>1. Write(o) /\ w' = FlushReclaimName(Patched(w, o))
    BY <1>7 DEF AnnotateReclaim
  <2>2. o \in ShareObject /\ o.token = cr[w.key].token
    BY <1>2 DEF ShareObject
  <2> HIDE DEF o
  <2>3. Patched(w, o) \in Worker
    BY <1>2, <2>2, PatchedType
  <2>4. \A s \in Share : cr'[s].token = cr[s].token
    BY <2>1, <2>2, WriteKeeps
  <2> QED
    BY <1>1, <2>1, <2>3, <2>4, TakesToken, TakesUp
<1>8. CASE DeleteName
  <2>1. UNCHANGED cr /\ \/ Requeue
                        \/ w' = [w EXCEPT !.pc = "final"]
                        \/ \E t : w' = [w EXCEPT !.pc = "release", !.via = "attached", !.tok = t]
    BY <1>8 DEF DeleteName
  <2>2. CASE ~Requeue
    BY <1>1, <1>2, <2>1, <2>2, SharesGo DEF Hand, Worker
  <2> QED
    BY <1>1, <2>1, <2>2, ReturnGoes
<1> QED
  BY <1>3, <1>4, <1>5, <1>6, <1>7, <1>8

\* Releasing a share, and forgetting its token when it is gone.
LEMMA ReleaseStepsKeep ==
  ASSUME IInv, BindInv,
         ReleaseShare \/ Unshare \/ UnshareFails \/ UnshareUnauthorized \/ ClearBinding
  PROVE  Binding!Next
<1>1. w.pc \in {"release", "unshare", "clear"} /\ Own' \subseteq Own
  BY DEF ReleaseShare, Unshare, UnshareFails, UnshareUnauthorized, ClearBinding, Own, Unshared
<1>2. w \in Worker /\ w.key \in Share /\ cr[w.key] \in ShareObject
  BY WorkerFields DEF IInv, TypeOK
<1>3. CASE ReleaseShare \/ Unshare \/ UnshareFails \/ UnshareUnauthorized
  <2>1. \/ Requeue /\ UNCHANGED cr
        \/ \E reason : StopWith(reason)
        \/ UNCHANGED cr /\ \E p \in {"unshare", "clear"} : w' = [w EXCEPT !.pc = p]
    BY <1>3 DEF ReleaseShare, Unshare, UnshareFails, UnshareUnauthorized, AfterRelease
  <2>2. CASE UNCHANGED cr /\ \E p \in {"unshare", "clear"} : w' = [w EXCEPT !.pc = p]
    BY <1>1, <1>2, <2>2, SharesGo DEF Hand, Worker
  <2> QED
    BY <1>1, <2>1, <2>2, ReturnGoes
<1>4. CASE ClearBinding
  <2> DEFINE bound == w.obj.token # None \/ w.obj.url # None
             o == IF bound THEN clearShareBinding(cr[w.key]) ELSE cr[w.key]
             x == IF bound THEN Patched(w, o) ELSE w
  <2>1. /\ Write(o) /\ UNCHANGED remote /\ w.pc = "clear"
        /\ w' = IF w.via = "delete" THEN DeleteNameOrFinish(x)
                ELSE ReclaimPreviousName([x EXCEPT !.released = TRUE])
    BY <1>4 DEF ClearBinding
  <2>2. /\ clearShareBinding(cr[w.key]) \in ShareObject
        /\ clearShareBinding(cr[w.key]).token = None
    BY <1>2 DEF clearShareBinding, ShareObject, Label, Reason
  <2>3. o \in ShareObject /\ (o.token = None \/ o = cr[w.key])
    BY <1>2, <2>2
  <2> HIDE DEF o
  <2>4. x \in Worker
    BY <1>2, <2>3, PatchedType
  <2> HIDE DEF x
  <2>5. [x EXCEPT !.released = TRUE] \in Worker
    BY <2>4 DEF Worker
  <2>6. w'.pc # "mark"
    BY <2>1, <2>4, <2>5 DEF DeleteNameOrFinish, ReclaimPreviousName, Worker
  <2>7. Own' = Own /\ Mine(w.key, Own) = {}
    BY <2>1 DEF Own, BindInv, Binds, Place, Late
  <2>8. CASE o.token = None
    BY <1>1, <1>2, <2>1, <2>6, <2>7, <2>8, Forgets DEF Write
  <2>9. CASE o = cr[w.key]
    <3>1. \A s \in Share : cr'[s].token = cr[s].token
      BY <2>1, <2>9, WriteKeeps
    <3> QED
      BY <1>1, <2>6, <3>1, SharesGo DEF Hand
  <2> QED
    BY <2>3, <2>8, <2>9
<1> QED
  BY <1>3, <1>4

\* Making a share and recording it.
LEMMA ShareStepsKeep ==
  ASSUME Lossless, IInv, IInv', OwnInv', BindInv, BindInv',
         \/ CreateShare \/ CreateConflict \/ CreateRefused \/ CreateFails
         \/ MarkShareReady \/ StampDigest \/ RemoveFinalizer
  PROVE  Binding!Next
<1>1. w \in Worker /\ w.key \in Share /\ cr[w.key] \in ShareObject
  BY WorkerFields DEF IInv, TypeOK
<1>2. CASE CreateShare
  <2>1. PICK t \in Fresh :
          /\ remote' = remote \cup {Requested(t)}
          /\ w' = [w EXCEPT !.pc = "mark", !.tok = t, !.url = AssignedURL(w.obj, Requested(t))]
    BY <1>2 DEF CreateShare
  <2>2. UNCHANGED cr /\ w.pc = "create" /\ Mine(w.key, Own) = {}
    BY <1>2 DEF CreateShare, BindInv, Binds, Place, Late
  <2>3. t \in Token /\ w'.pc = "mark" /\ w'.tok = t /\ w'.key = w.key
    BY <1>1, <2>1, FreshType DEF Worker
  <2>4. Requested(t).token = t /\ Requested(t).by = w.key
    BY DEF Requested
  <2>5. Own' = Own \cup {Requested(t)}
    BY <2>1, <2>3, <2>4 DEF Own
  <2>6. Ledger' = Ledger \cup {[token |-> t, by |-> w.key]}
    BY <2>4, <2>5 DEF Ledger
  <2>7. /\ Hand' = {[token |-> t, by |-> w.key]} /\ Hand = {}
        /\ \A r \in Ledger' : r.token = t => r.by = w.key
        /\ \A o \in Share \ {w.key} : Bound[o] # t
    BY <2>2, <2>3, TakenVacant DEF Hand
  <2>8. Binding!Of(w.key) = {}
    BY <2>2 DEF Binding!Of, Ledger, Mine
  <2>9. Bound' = Bound
    BY <2>2 DEF Bound
  <2>10. Binding!Vacant(t, w.key)
    BY <2>6, <2>7 DEF Binding!Vacant
  <2>11. Binding!Make(w.key)
    BY <2>3, <2>6, <2>7, <2>8, <2>9, <2>10 DEF Binding!Make
  <2> QED
    BY <1>1, <2>11 DEF Binding!Next
<1>3. CASE CreateConflict
  <2>1. w.pc # "mark" /\ w'.pc # "mark" /\ UNCHANGED cr /\ Own' = Own
    BY <1>1, <1>3 DEF CreateConflict, Worker, Own
  <2> QED
    BY <2>1, SharesGo DEF Hand
<1>4. CASE CreateRefused
  BY <1>4, ReturnGoes DEF CreateRefused, Own
<1>5. CASE CreateFails
  BY <1>5 DEF CreateFails, Lossless, Fault
<1>6. CASE MarkShareReady
  <2> DEFINE v == reservation(w.obj.spec.mode, cr[w.key].spec.name)
             o == [cr[w.key] EXCEPT !.token = w.tok, !.url = w.url,
                                    !.reason = "Ready", !.reservation = v]
  <2>1. Write(o) /\ w' = [Patched(w, o) EXCEPT !.pc = "stamp"] /\ w.pc = "mark" /\ Own' = Own
    BY <1>6 DEF MarkShareReady, Own
  <2>2. o.token = w.tok
    BY <1>1 DEF ShareObject
  <2> HIDE DEF o
  <2>3. \A s \in Share : cr'[s].token = IF s = w.key THEN w.tok ELSE cr[s].token
    BY <2>1, <2>2 DEF Write, IInv, TypeOK
  <2>4. Bound' = [Bound EXCEPT ![w.key] = w.tok]
    BY <2>3 DEF Bound
  <2>5. w'.pc = "stamp"
    BY <1>1, <2>1 DEF Patched, Worker
  <2>6. Ledger' = Ledger /\ Hand' = {} /\ Hand = {[token |-> w.tok, by |-> w.key]}
    BY <2>1, <2>5 DEF Ledger, Hand
  <2>7. Binding!Record
    BY <2>4, <2>6 DEF Binding!Record
  <2> QED
    BY <2>7 DEF Binding!Next
<1>7. CASE StampDigest
  <2>1. w.pc # "mark" /\ w'.pc # "mark" /\ Own' = Own
    BY <1>7, IdleType DEF StampDigest, Requeue, Own
  <2>2. \A s \in Share : cr'[s].token = cr[s].token
    BY <1>1, <1>7 DEF StampDigest, IInv, TypeOK, ShareObject
  <2> QED
    BY <2>1, <2>2, SharesGo DEF Hand
<1>8. CASE RemoveFinalizer
  <2>1. w.pc = "final" /\ Mine(w.key, Own) = {} /\ Own' = Own
    BY <1>8 DEF RemoveFinalizer, Own, BindInv, Binds, Place, Late
  <2>2. CASE Requeue /\ UNCHANGED cr
    BY <2>1, <2>2, ReturnGoes
  <2>3. CASE cr' = [cr EXCEPT ![w.key] = Absent(w.key)] /\ w' = Idle
    BY <1>1, <2>1, <2>3, IdleType, Forgets DEF Absent
  <2> QED
    BY <1>8, <2>2, <2>3 DEF RemoveFinalizer
<1> QED
  BY <1>2, <1>3, <1>4, <1>5, <1>6, <1>7, <1>8

\* While no answer and no write is lost, what the reconciler does to shares and statuses,
\* in whatever order edits, failed calls and restarts let it, is what
\* ShareBinding allows: one share at a time for an object, made or taken up
\* (createOrShare, adoptableAgentShare), then recorded (markShareReady), and
\* its token dropped only after it (clearShareBinding).
THEOREM BindingKept == ASSUME Apart, Housed, Lossless PROVE Spec => KeepsBinding
<1>1. Init => Binding!Init
  <2> SUFFICES ASSUME Init PROVE Binding!Init
    OBVIOUS
  <2>1. Own = {} /\ Hand = {}
    BY IdleType DEF Init, Own, Hand
  <2>2. \A s \in Share : cr[s].token = None
    BY DEF Init, Absent
  <2> QED
    BY <2>1, <2>2 DEF Binding!Init, Ledger, Bound
<1>2. IInv /\ IInv' /\ OwnInv' /\ BindInv /\ BindInv' /\ [Next]_vars
        => [Binding!Next]_<<Ledger, Bound, Hand>>
  <2> SUFFICES ASSUME IInv, IInv', OwnInv', BindInv, BindInv', [Next]_vars
               PROVE  Binding!Next \/ UNCHANGED <<Ledger, Bound, Hand>>
    OBVIOUS
  <2>1. ASSUME NEW s \in Share, Reconcile(s) PROVE Binding!Next
    BY <2>1, ReconcileKeeps
  <2>2. CASE Step
    BY <2>2, InventoryStepsKeep, NameStepsKeep, ReleaseStepsKeep, ShareStepsKeep DEF Step
  <2>3. CASE Crash \/ WriteFails
    BY <2>3 DEF Crash, WriteFails, Lossless, Fault
  <2>4. CASE Environment
    BY <2>4, UserKeeps, OutsideKeeps DEF Environment
  <2>5. CASE UNCHANGED vars
    BY <2>5 DEF vars, Ledger, Own, Bound, Hand
  <2> QED
    BY <2>1, <2>2, <2>3, <2>4, <2>5 DEF Next
<1> QED
  BY <1>1, <1>2, Invariance, Ownership, BindingInvariance, PTL
     DEF Spec, KeepsBinding, Binding!Spec

=============================================================================
