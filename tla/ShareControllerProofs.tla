----------------------- MODULE ShareControllerProofs -----------------------
(***************************************************************************)
(* Theorems about ShareController for every number of ZrokShares,          *)
(* environments, names and tokens and every bound on edits and faults.     *)
(***************************************************************************)
EXTENDS ShareController, TLAPS

-----------------------------------------------------------------------------
(* The parts a reconcile is made of.                                       *)

\* An object that is gone is a well-formed record: a user's spec, no status.
LEMMA AbsentType == ASSUME NEW s \in Share PROVE Absent(s) \in ShareObject
<1> DEFINE sp == CHOOSE x \in UserSpec[s] : TRUE
<1>1. sp \in UserSpec[s]
  BY UserSpecAssumption
<1>2. sp \in ShareSpec
  BY <1>1, UserSpecAssumption
<1> HIDE DEF sp
<1>3. Absent(s) = [phase |-> "absent", finalizer |-> FALSE, spec |-> sp,
                   token |-> None, url |-> None, reservation |-> "unset",
                   reason |-> "unset", digest |-> None, reclaim |-> None]
  BY DEF Absent, sp
<1>4. /\ "unset" \in Reservation
      /\ "unset" \in Reason
      /\ None \in Label
      /\ None \in Digest \cup {None}
  BY DEF Label, Reservation, Reason
<1> QED
  BY <1>2, <1>3, <1>4 DEF ShareObject

\* The digest of a spec is a digest.
LEMMA DigestType == ASSUME NEW sp \in ShareSpec PROVE shareApplyDigest(sp) \in Digest
  BY DEF ShareSpec, Digest, shareApplyDigest, Mode

\* A reconcile that has just begun holds well-formed locals.
LEMMA LocalsType ==
  ASSUME NEW pc \in PC, NEW s \in Share, NEW o \in ShareObject,
         NEW zid \in BOOLEAN, NEW rest \in BOOLEAN
  PROVE  Locals(pc, s, o, zid, rest) \in Worker
<1>1. o.spec \in ShareSpec
  BY DEF ShareObject
<1>2. shareApplyDigest(o.spec) \in Digest
  BY <1>1, DigestType
<1>3. NoInventory \in ShareInventoryType
  BY DEF NoInventory, ShareInventoryType
<1>4. [remote |-> {}, agent |-> {}, foreignName |-> FALSE] \in ClassifiedShare
  BY DEF ClassifiedShare
<1> QED
  BY <1>2, <1>3, <1>4 DEF Locals, Worker, Via, Label

\* The worker at rest.
LEMMA IdleType == Idle \in Worker /\ Idle.pc = "idle"
<1> DEFINE s == CHOOSE x \in Share : TRUE
<1>1. s \in Share
  BY ShareAssumption
<1>2. Absent(s) \in ShareObject
  BY <1>1, AbsentType
<1>3. Idle = Locals("idle", s, Absent(s), FALSE, FALSE)
  BY DEF Idle
<1> HIDE DEF s
<1>4. Idle \in Worker
  BY <1>1, <1>2, <1>3, LocalsType DEF PC
<1> QED
  BY <1>3, <1>4 DEF Locals

\* classifyShare picks from the inventory it is given.
LEMMA ClassifyType ==
  ASSUME NEW o, NEW desired, NEW inv \in ShareInventoryType,
         NEW c \in classifyShare(o, desired, inv)
  PROVE  c \in ClassifiedShare
<1> DEFINE remotes == FirstOf(FindByToken(inv.remote, o.token),
                        FirstOf(FindByFrontendName(inv.remote, o.spec.name),
                                FindByToken(inv.remote, o.spec.priv)))
           agents  == FirstOf(FindByToken(inv.agent, o.token),
                              agentByName(inv.agent, o.spec.name))
           holders == {h \in FindByFrontendName(inv.remote, o.spec.name) :
                         /\ ~TargetsEqual(h.target, desired)
                         /\ h.token # o.token}
           found   == FirstOf(holders, remotes)
<1>1. remotes \subseteq inv.remote /\ holders \subseteq inv.remote
  BY DEF FirstOf, FindByToken, FindByFrontendName
<1>2. found \subseteq inv.remote
  BY <1>1 DEF FirstOf
<1>3. agents \subseteq inv.agent
  BY DEF FirstOf, FindByToken, agentByName, FindByFrontendName
<1>4. c \in [remote : Pick(found), agent : Pick(agents), foreignName : {holders # {}}]
  BY DEF classifyShare
<1> HIDE DEF remotes, agents, holders, found
<1>5. inv.remote \subseteq RemoteShare /\ inv.agent \subseteq OwnShare
  BY DEF ShareInventoryType
<1>6. \A p \in Pick(found) : p \subseteq RemoteShare
  BY <1>2, <1>5 DEF Pick
<1>7. \A p \in Pick(agents) : p \subseteq OwnShare
  BY <1>3, <1>5 DEF Pick
<1> QED
  BY <1>4, <1>6, <1>7 DEF ClassifiedShare

\* A share's frontend label is a name, a token, or nothing.
LEMMA FrontendNameType ==
  ASSUME NEW r \in RemoteShare PROVE FrontendName(r) \in Label
  BY DEF RemoteShare, OwnShare, ForeignShare, FrontendName, Label

\* So is the URL that markShareReady records.
LEMMA AssignedURLType ==
  ASSUME NEW o, NEW d \in OwnShare PROVE AssignedURL(o, d) \in Label
<1>1. d.token \in Label
  BY DEF OwnShare, Label
<1>2. FrontendName(d) \in Label
  BY FrontendNameType DEF RemoteShare
<1> QED
  BY <1>1, <1>2 DEF AssignedURL, Label

\* The old name a rename finds is such a label.
LEMMA LiveFrontendNameType ==
  ASSUME NEW o \in ShareObject, NEW cls \in ClassifiedShare
  PROVE  liveFrontendName(o, cls) \in Label
<1> DEFINE S == FirstOf(FrontendNames(cls.agent),
                  FirstOf(FrontendNames(cls.remote), {o.url}))
<1>1. FrontendNames(cls.agent) \subseteq Label
  BY FrontendNameType DEF FrontendNames, ClassifiedShare, RemoteShare
<1>2. FrontendNames(cls.remote) \subseteq Label
  BY FrontendNameType DEF FrontendNames, ClassifiedShare
<1>3. o.url \in Label
  BY DEF ShareObject
<1>4. S \subseteq Label /\ S # {}
  BY <1>1, <1>2, <1>3 DEF FirstOf
<1>5. liveFrontendName(o, cls) = CHOOSE n \in S : TRUE
  BY DEF liveFrontendName
<1> HIDE DEF S
<1> QED
  BY <1>4, <1>5

-----------------------------------------------------------------------------
(* Whose shares the worker may take in hand.                               *)

\* A share that serves a ZrokShare's upstream is one the operator made:
\* TargetsEqual against spec.upstream is the test of ownership.
LEMMA SameTargetIsOwn ==
  ASSUME NEW r \in RemoteShare, NEW t \in Target, TargetsEqual(r.target, t)
  PROVE  r.token \in Token
<1>1. CASE r \in OwnShare
  BY <1>1 DEF OwnShare
<1>2. CASE r \in ForeignShare
  <2>1. r.target \in ForeignTarget
    BY <1>2 DEF ForeignShare
  <2> QED
    BY <2>1, ForeignTargetAssumption DEF TargetsEqual
<1> QED
  BY <1>1, <1>2 DEF RemoteShare

\* Nothing without a token is listed.
LEMMA RemoteToken ==
  ASSUME NEW r \in RemoteShare PROVE r.token \in Token \cup ForeignToken
  BY DEF RemoteShare, OwnShare, ForeignShare

\* What isOurShareToken accepts is a token of the operator's own.
LEMMA OurTokenIsOwn ==
  ASSUME NEW o \in ShareObject, NEW inv \in ShareInventoryType,
         NEW t \in Token \cup ForeignToken, isOurShareToken(o, t, inv)
  PROVE  t \in Token
<1>1. CASE t = o.token
  BY <1>1, NoneAssumption DEF ShareObject
<1>2. CASE \E r \in FindByToken(inv.remote, t) : TargetsEqual(r.target, o.spec.target)
  <2>1. PICK r \in FindByToken(inv.remote, t) : TargetsEqual(r.target, o.spec.target)
    BY <1>2
  <2>2. r \in RemoteShare /\ r.token = t
    BY <2>1 DEF FindByToken, ShareInventoryType
  <2>3. o.spec.target \in Target
    BY DEF ShareObject, ShareSpec
  <2> QED
    BY <2>1, <2>2, <2>3, SameTargetIsOwn
<1>3. CASE FindByToken(inv.agent, t) # {}
  BY <1>3 DEF FindByToken, ShareInventoryType, OwnShare
<1> QED
  BY <1>1, <1>2, <1>3 DEF isOurShareToken

-----------------------------------------------------------------------------
(* Each way a reconcile goes on leaves the worker well formed.             *)

\* What AdoptOrRebuild needs to know of the worker's record.
LEMMA WorkerFields ==
  ASSUME NEW x \in Worker
  PROVE  /\ x.obj \in ShareObject
         /\ x.obj.spec \in ShareSpec
         /\ x.obj.token \in Token \cup {None}
         /\ x.dg \in Digest
         /\ x.dg.target \in Target
         /\ x.cls \in ClassifiedShare
         /\ x.inv \in ShareInventoryType
         /\ x.key \in Share
<1>1. x.obj \in ShareObject /\ x.dg \in Digest
  BY DEF Worker
<1> QED
  BY <1>1 DEF Worker, ShareObject, Digest

\* Adoption, release and creation.
LEMMA AdoptOrRebuildType ==
  ASSUME NEW x \in Worker
  PROVE  AdoptOrRebuild(x) \in Worker /\ AdoptOrRebuild(x).pc # "reserve"
<1> DEFINE ready == adoptableAgentShare(x.obj, x.cls, x.dg.target, x.dg)
           ours  == {r \in x.cls.remote : \/ TargetsEqual(r.target, x.dg.target)
                                          \/ r.token = x.obj.token}
           drop  == FirstOf(x.cls.agent, ours)
           d     == CHOOSE d \in ready : TRUE
           r     == CHOOSE r \in drop : TRUE
           adopt == [x EXCEPT !.pc = "mark", !.tok = d.token,
                              !.url = AssignedURL(x.obj, d)]
           rebuild == [x EXCEPT !.pc = "release", !.via = "rebuild",
                                !.tok = r.token,
                                !.old = liveFrontendName(x.obj, x.cls),
                                !.prev = x.obj.reservation = "reserved"]
           create == [x EXCEPT !.pc = "create"]
<1>1. AdoptOrRebuild(x) = IF ready # {} THEN adopt ELSE IF drop # {} THEN rebuild ELSE create
  BY DEF AdoptOrRebuild
<1>2. ready \subseteq OwnShare
  BY WorkerFields DEF adoptableAgentShare, ClassifiedShare
<1>3. \A q \in drop : q.token \in Token
  <2> SUFFICES ASSUME NEW q \in drop PROVE q.token \in Token
    OBVIOUS
  <2>1. CASE q \in x.cls.agent
    BY <2>1, WorkerFields DEF ClassifiedShare, OwnShare
  <2>2. CASE q \in ours
    <3>1. q \in RemoteShare
      BY <2>2, WorkerFields DEF ClassifiedShare
    <3>2. CASE TargetsEqual(q.target, x.dg.target)
      BY <3>1, <3>2, WorkerFields, SameTargetIsOwn
    <3>3. CASE q.token = x.obj.token
      BY <3>1, <3>3, WorkerFields, RemoteToken, NoneAssumption
    <3> QED
      BY <2>2, <3>2, <3>3
  <2> QED
    BY <2>1, <2>2 DEF FirstOf
<1> HIDE DEF ready, ours, drop
<1>4. ASSUME ready # {} PROVE adopt \in Worker /\ adopt.pc = "mark"
  <2>1. d \in OwnShare
    BY <1>2, <1>4
  <2> HIDE DEF d
  <2>2. d.token \in Token /\ AssignedURL(x.obj, d) \in Label
    BY <2>1, AssignedURLType DEF OwnShare
  <2> QED
    BY <2>2 DEF Worker, PC
<1>5. ASSUME drop # {} PROVE rebuild \in Worker /\ rebuild.pc = "release"
  <2>1. r.token \in Token
    BY <1>3, <1>5
  <2> HIDE DEF r
  <2>2. liveFrontendName(x.obj, x.cls) \in Label
    BY WorkerFields, LiveFrontendNameType
  <2>3. (x.obj.reservation = "reserved") \in BOOLEAN
    OBVIOUS
  <2> QED
    BY <2>1, <2>2, <2>3 DEF Worker, PC, Via
<1>6. create \in Worker /\ create.pc = "create"
  BY DEF Worker, PC
<1> HIDE DEF adopt, rebuild, create
<1> QED
  BY <1>1, <1>4, <1>5, <1>6

\* flushReclaimName and what follows it.
LEMMA AfterFlushType ==
  ASSUME NEW x \in Worker
  PROVE  AfterFlush(x) \in Worker /\ AfterFlush(x).pc # "reserve"
<1>1. [x EXCEPT !.pc = "create"] \in Worker /\ [x EXCEPT !.pc = "create"].pc = "create"
  BY DEF Worker, PC
<1> QED
  BY <1>1, AdoptOrRebuildType DEF AfterFlush

\* flushReclaimName: the annotation decides where to go on.
LEMMA FlushReclaimNameType ==
  ASSUME NEW x \in Worker
  PROVE  FlushReclaimName(x) \in Worker /\ FlushReclaimName(x).pc # "reserve"
<1> DEFINE p == IF x.obj.reclaim = x.obj.spec.name THEN "unannotate" ELSE "flush"
<1>1. p \in PC /\ p # "reserve"
  BY DEF PC
<1> HIDE DEF p
<1>2. [x EXCEPT !.pc = p] \in Worker /\ [x EXCEPT !.pc = p].pc = p
  BY <1>1 DEF Worker
<1> QED
  BY <1>1, <1>2, AfterFlushType DEF FlushReclaimName, p

\* ensureReservedName is reached only with a name to reserve.
LEMMA AfterInventoryType ==
  ASSUME NEW x \in Worker
  PROVE  /\ AfterInventory(x) \in Worker
         /\ AfterInventory(x).pc = "reserve" => AfterInventory(x).obj.spec.name # None
<1>1. CASE x.obj.spec.name = None
  BY <1>1, FlushReclaimNameType DEF AfterInventory
<1>2. CASE x.obj.spec.name # None
  <2>1. [x EXCEPT !.pc = "reserve"] \in Worker
    BY DEF Worker, PC
  <2>2. [x EXCEPT !.pc = "reserve"].obj = x.obj
    BY DEF Worker
  <2> QED
    BY <1>2, <2>1, <2>2 DEF AfterInventory
<1> QED
  BY <1>1, <1>2

\* reclaimPreviousName: to the annotation, or straight to the creation.
LEMMA ReclaimPreviousNameType ==
  ASSUME NEW x \in Worker
  PROVE  ReclaimPreviousName(x) \in Worker /\ ReclaimPreviousName(x).pc # "reserve"
  BY DEF ReclaimPreviousName, Worker, PC

\* The end of a deletion: the name, or the finalizer.
LEMMA DeleteNameOrFinishType ==
  ASSUME NEW x \in Worker
  PROVE  DeleteNameOrFinish(x) \in Worker /\ DeleteNameOrFinish(x).pc # "reserve"
  BY DEF DeleteNameOrFinish, Worker, PC

-----------------------------------------------------------------------------
(* The building blocks of the actions, in a state that satisfies IInv.     *)

\* A reconcile that returns.
LEMMA RequeueType ==
  ASSUME IInv, Requeue
  PROVE  w' \in Worker /\ w'.pc = "idle" /\ queue' \subseteq Share
<1>1. w.key \in Share /\ queue \subseteq Share
  BY WorkerFields DEF IInv, TypeOK
<1> QED
  BY <1>1, IdleType DEF Requeue

\* A condition on one object.
LEMMA ReasonType ==
  ASSUME IInv, NEW s \in Share, NEW reason \in Reason
  PROVE  [cr EXCEPT ![s].reason = reason] \in [Share -> ShareObject]
<1>1. cr[s] \in ShareObject
  BY DEF IInv, TypeOK
<1>2. [cr[s] EXCEPT !.reason = reason] \in ShareObject
  BY <1>1 DEF ShareObject
<1> QED
  BY <1>2 DEF IInv, TypeOK

\* setNotReady and setNameConflict, whether the patch was written or its error
\* discarded, touch nothing but the reason of one object.
LEMMA SetNotReadyType ==
  ASSUME IInv, NEW s \in Share, NEW reason \in Reason, SetNotReady(s, reason)
  PROVE  /\ cr' \in [Share -> ShareObject]
         /\ \E r \in Reason : cr' = [cr EXCEPT ![s].reason = r]
<1>1. cr \in [Share -> ShareObject] /\ cr[s] \in ShareObject
  BY DEF IInv, TypeOK
<1>2. CASE cr' = [cr EXCEPT ![s].reason = reason]
  BY <1>2, ReasonType
<1>3. CASE cr' = cr
  <2>1. [cr[s] EXCEPT !.reason = cr[s].reason] = cr[s] /\ cr[s].reason \in Reason
    BY <1>1 DEF ShareObject
  <2>2. [cr EXCEPT ![s].reason = cr[s].reason] = cr
    BY <1>1, <2>1
  <2> QED
    BY <1>1, <1>3, <2>1, <2>2
<1> QED
  BY <1>2, <1>3 DEF SetNotReady

\* setNotReady or setNameConflict, then return.
LEMMA StopWithType ==
  ASSUME IInv, NEW reason \in Reason, StopWith(reason)
  PROVE  /\ cr' \in [Share -> ShareObject]
         /\ \E r \in Reason : cr' = [cr EXCEPT ![w.key].reason = r]
         /\ w' \in Worker /\ w'.pc = "idle"
         /\ queue' \subseteq Share
<1>1. w.key \in Share
  BY WorkerFields DEF IInv, TypeOK
<1> QED
  BY <1>1, RequeueType, SetNotReadyType DEF StopWith

\* A patch of the worker's object.
LEMMA WriteType ==
  ASSUME IInv, NEW o \in ShareObject, Write(o)
  PROVE  cr' \in [Share -> ShareObject] /\ queue' \subseteq Share
<1>1. w.key \in Share /\ queue \subseteq Share
  BY WorkerFields DEF IInv, TypeOK
<1> QED
  BY <1>1 DEF Write, IInv, TypeOK

\* The object as the server returns it becomes the worker's copy.
LEMMA PatchedType ==
  ASSUME NEW x \in Worker, NEW o \in ShareObject
  PROVE  Patched(x, o) \in Worker /\ Patched(x, o).obj = o
  BY DEF Patched, Worker

\* A new place in the code, the locals as they were.
LEMMA AtType ==
  ASSUME NEW x \in Worker, NEW p \in PC
  PROVE  /\ [x EXCEPT !.pc = p] \in Worker
         /\ [x EXCEPT !.pc = p].pc = p
         /\ [x EXCEPT !.pc = p].obj = x.obj
  BY DEF Worker

\* Faults stay within their bound.
LEMMA FaultType ==
  ASSUME IInv, NEW kind, Fault(kind) PROVE faults' \in 0 .. MaxFaults
  BY BoundsAssumption DEF IInv, TypeOK, Fault

\* ... and so do the faults of an inventory.
LEMMA InventoryOutcomeType ==
  ASSUME IInv, NEW lf \in BOOLEAN, NEW sf \in BOOLEAN, InventoryOutcome(lf, sf)
  PROVE  faults' \in 0 .. MaxFaults
<1> DEFINE cost == (IF lf /\ w.rest THEN 1 ELSE 0) + (IF sf THEN 1 ELSE 0)
<1>1. cost \in 0 .. 2
  OBVIOUS
<1>2. faults + cost <= MaxFaults /\ faults' = faults + cost
  BY DEF InventoryOutcome
<1> HIDE DEF cost
<1> QED
  BY <1>1, <1>2, BoundsAssumption DEF IInv, TypeOK

\* The inventory holds shares of the two systems.
LEMMA LoadInventoryType ==
  ASSUME IInv, NEW lf \in BOOLEAN, NEW sf \in BOOLEAN
  PROVE  loadInventory(lf, sf) \in ShareInventoryType
  BY DEF loadInventory, ShareInventoryType, IInv, TypeOK

\* A reconcile of s begins.
LEMMA StartType ==
  ASSUME IInv, NEW s \in Share PROVE Start(s) \in Worker /\ Start(s).pc = "inventory"
<1>1. cr[s] \in ShareObject
  BY DEF IInv, TypeOK
<1>2. HasZID(cr[s].spec.env) \in BOOLEAN
  BY DEF HasZID
<1>3. Start(s) \in Worker
  BY <1>1, <1>2, LocalsType DEF Start, PC
<1> QED
  BY <1>3 DEF Start, Locals

\* The share the agent is asked for is one of the operator's own.
LEMMA RequestedType ==
  ASSUME IInv, NEW t \in Token PROVE Requested(t) \in OwnShare
<1>1. w.obj.spec \in ShareSpec /\ w.dg \in Digest /\ w.key \in Share
  BY WorkerFields DEF IInv, TypeOK
<1> QED
  BY <1>1 DEF Requested, OwnShare, ShareSpec, Digest, Mode

\* ... and its token too.
LEMMA FreshType == ASSUME IInv PROVE Fresh \subseteq Token
<1>1. w.obj.spec.priv \in PrivToken \cup {None}
  BY WorkerFields DEF IInv, TypeOK, ShareSpec
<1> QED
  BY <1>1, PrivTokenAssumption DEF Fresh

-----------------------------------------------------------------------------
(* The invariant: initially, and through every kind of step.               *)

\* The program starts with nothing shared and nothing to do.
LEMMA InitInv == Init => IInv
<1> SUFFICES ASSUME Init PROVE IInv
  OBVIOUS
<1>1. cr \in [Share -> ShareObject]
  BY AbsentType DEF Init
<1>2. w \in Worker /\ w.pc = "idle"
  BY IdleType DEF Init
<1>3. env \in [Env -> EnvState] /\ edits \in 0 .. MaxEdits /\ faults \in 0 .. MaxFaults
  BY BoundsAssumption DEF Init, EnvState
<1> QED
  BY <1>1, <1>2, <1>3 DEF Init, IInv, TypeOK, NameToReserve

\* Taking a key from the queue: the checks before the first call.
LEMMA ReconcileInv ==
  ASSUME IInv, NEW s \in Share, Reconcile(s) PROVE IInv'
<1> USE DEF IInv, TypeOK, NameToReserve
<1>1. CASE ReconcileGone(s)
  BY <1>1 DEF ReconcileGone
<1>2. CASE AddFinalizer(s)
  <2>1. cr[s] \in ShareObject
    OBVIOUS
  <2>2. [cr[s] EXCEPT !.finalizer = TRUE] \in ShareObject
    BY <2>1 DEF ShareObject
  <2>3. cr' \in [Share -> ShareObject]
    BY <1>2, <2>2 DEF AddFinalizer
  <2> QED
    BY <1>2, <2>3 DEF AddFinalizer
<1>3. CASE RefuseSpec(s)
  <2>1. RefusalReason(cr[s].spec) \in Reason
    BY DEF RefusalReason, Reason
  <2>2. cr' \in [Share -> ShareObject]
    BY <1>3, <2>1, SetNotReadyType DEF RefuseSpec
  <2>3. queue' \subseteq Share
    BY <1>3 DEF RefuseSpec
  <2> QED
    BY <1>3, <2>2, <2>3 DEF RefuseSpec
<1>4. CASE WaitForEnvironment(s)
  <2>1. cr' \in [Share -> ShareObject]
    BY <1>4, SetNotReadyType DEF WaitForEnvironment, Reason
  <2> QED
    BY <1>4, <2>1 DEF WaitForEnvironment
<1>5. CASE SecretUnreadable(s)
  <2>1. cr' \in [Share -> ShareObject]
    BY <1>5, SetNotReadyType DEF SecretUnreadable, Reason
  <2>2. faults' \in 0 .. MaxFaults
    BY <1>5, FaultType DEF SecretUnreadable
  <2> QED
    BY <1>5, <2>1, <2>2 DEF SecretUnreadable
<1>6. CASE NameClaimed(s)
  <2>1. cr' \in [Share -> ShareObject]
    BY <1>6, SetNotReadyType DEF NameClaimed, Reason
  <2> QED
    BY <1>6, <2>1 DEF NameClaimed
<1>7. CASE StartReconcile(s)
  <2>1. w' \in Worker /\ w'.pc = "inventory"
    BY <1>7, StartType DEF StartReconcile
  <2> QED
    BY <1>7, <2>1 DEF StartReconcile
<1>8. CASE StartDelete(s)
  <2>1. PICK rest \in BOOLEAN :
          /\ IF rest \/ env[cr[s].spec.env] = "missing" THEN NoFault ELSE Fault("secret")
          /\ w' = [Start(s) EXCEPT !.via = "delete", !.rest = rest]
    BY <1>8 DEF StartDelete
  <2>2. faults' \in 0 .. MaxFaults
    BY <2>1, FaultType DEF NoFault
  <2>3. Start(s) \in Worker /\ Start(s).pc = "inventory"
    BY StartType
  <2>4. w' \in Worker /\ w'.pc = "inventory"
    BY <2>1, <2>3 DEF Worker, Via
  <2> QED
    BY <1>8, <2>2, <2>4 DEF StartDelete
<1> QED
  BY <1>1, <1>2, <1>3, <1>4, <1>5, <1>6, <1>7, <1>8 DEF Reconcile

\* What follows a state of an environment is a state of an environment.
LEMMA FollowsType == ASSUME NEW st \in EnvState PROVE Follows(st) \subseteq EnvState
  BY DEF EnvState, Follows

\* A step of the ZrokEnvironment controller, whatever it does to the recorded and the
\* connected environment, leaves the shared variables of their types.
LEMMA EnvironmentMovesType ==
  ASSUME env \in [Env -> EnvState], queue \subseteq Share,
         NEW e \in Env, NEW to, EnvironmentMoves(e, to)
  PROVE  env' \in [Env -> EnvState] /\ queue' \subseteq Share
<1>1. to \in EnvState
  BY FollowsType DEF EnvironmentMoves
<1> QED
  BY <1>1 DEF EnvironmentMoves, SharesOf

\* Users, environments, agents and other users of the account.
LEMMA EnvironmentInv == ASSUME IInv, Environment PROVE IInv'
<1> USE DEF IInv, TypeOK, NameToReserve
<1>1. ASSUME NEW s \in Share, UserCreates(s) PROVE IInv'
  <2>1. PICK sp \in UserSpec[s] :
          cr' = [cr EXCEPT ![s] = [Absent(s) EXCEPT !.phase = "live", !.spec = sp]]
    BY <1>1 DEF UserCreates
  <2>2. sp \in ShareSpec /\ Absent(s) \in ShareObject
    BY UserSpecAssumption, AbsentType
  <2>3. [Absent(s) EXCEPT !.phase = "live", !.spec = sp] \in ShareObject
    BY <2>2 DEF ShareObject
  <2>4. cr' \in [Share -> ShareObject]
    BY <2>1, <2>3
  <2> QED
    BY <1>1, <2>4, BoundsAssumption DEF UserCreates, Edit
<1>2. ASSUME NEW s \in Share, UserEdits(s) PROVE IInv'
  <2>1. PICK sp \in UserSpec[s] : cr' = [cr EXCEPT ![s].spec = sp]
    BY <1>2 DEF UserEdits
  <2>2. sp \in ShareSpec /\ cr[s] \in ShareObject
    BY UserSpecAssumption
  <2>3. [cr[s] EXCEPT !.spec = sp] \in ShareObject
    BY <2>2 DEF ShareObject
  <2>4. cr' \in [Share -> ShareObject]
    BY <2>1, <2>3
  <2> QED
    BY <1>2, <2>4, BoundsAssumption DEF UserEdits, Edit
<1>3. ASSUME NEW s \in Share, UserDeletes(s) PROVE IInv'
  <2>1. cr[s] \in ShareObject /\ Absent(s) \in ShareObject
    BY AbsentType
  <2>2. [cr[s] EXCEPT !.phase = "deleting"] \in ShareObject
    BY <2>1 DEF ShareObject
  <2>3. cr' \in [Share -> ShareObject]
    BY <1>3, <2>1, <2>2 DEF UserDeletes
  <2> QED
    BY <1>3, <2>3, BoundsAssumption DEF UserDeletes, Edit
<1>4. ASSUME NEW e \in Env, EnvironmentProgresses(e) \/ EnvironmentRekeyed(e) PROVE IInv'
  <2>1. env' \in [Env -> EnvState] /\ queue' \subseteq Share
    BY <1>4, EnvironmentMovesType DEF EnvironmentProgresses, EnvironmentRekeyed
  <2> QED
    BY <1>4, <2>1 DEF EnvironmentProgresses, EnvironmentRekeyed
<1>5. ASSUME NEW e \in Env, EnvironmentDegrades(e) \/ EnvironmentUnkeyed(e) PROVE IInv'
  <2>1. env' \in [Env -> EnvState] /\ queue' \subseteq Share
    BY <1>5, EnvironmentMovesType DEF EnvironmentDegrades, EnvironmentUnkeyed
  <2>2. faults' \in 0 .. MaxFaults
    BY <1>5, FaultType DEF EnvironmentDegrades, EnvironmentUnkeyed
  <2> QED
    BY <1>5, <2>1, <2>2 DEF EnvironmentDegrades, EnvironmentUnkeyed
<1>6. ASSUME NEW e \in Env, EnvironmentRemoved(e) PROVE IInv'
  <2>1. env' \in [Env -> EnvState] /\ queue' \subseteq Share
    BY <1>6, EnvironmentMovesType DEF EnvironmentRemoved
  <2>2. faults' \in 0 .. MaxFaults
    BY <1>6, FaultType DEF EnvironmentRemoved
  <2> QED
    BY <1>6, <2>1, <2>2 DEF EnvironmentRemoved
<1>7. ASSUME NEW e \in Env, AgentRestarts(e) PROVE IInv'
  <2>1. faults' \in 0 .. MaxFaults
    BY <1>7, FaultType DEF AgentRestarts
  <2> QED
    BY <1>7, <2>1 DEF AgentRestarts
<1>8. CASE AgentShareStalls
  <2>1. faults' \in 0 .. MaxFaults
    BY <1>8, FaultType DEF AgentShareStalls
  <2>2. PICK d \in agent : agent' = (agent \ {d}) \cup {[d EXCEPT !.active = FALSE]}
    BY <1>8 DEF AgentShareStalls
  <2>3. [d EXCEPT !.active = FALSE] \in OwnShare
    BY DEF OwnShare
  <2> QED
    BY <1>8, <2>1, <2>2, <2>3 DEF AgentShareStalls
<1>9. CASE ForeignShareAppears
  <2>1. faults' \in 0 .. MaxFaults
    BY <1>9, FaultType DEF ForeignShareAppears
  <2>2. PICK r \in ForeignShare : /\ remote' = remote \cup {r}
                                  /\ names' = names \cup ({r.name} \ {None})
    BY <1>9 DEF ForeignShareAppears
  <2>3. remote' \subseteq RemoteShare
    BY <2>2 DEF RemoteShare
  <2>4. names' \subseteq Name
    BY <2>2 DEF ForeignShare
  <2> QED
    BY <1>9, <2>1, <2>3, <2>4 DEF ForeignShareAppears
<1>10. CASE ForeignShareLeaves
  BY <1>10 DEF ForeignShareLeaves
<1> QED
  BY <1>1, <1>2, <1>3, <1>4, <1>5, <1>6, <1>7, <1>8, <1>9, <1>10 DEF Environment

\* A restart of the manager.
LEMMA CrashInv == ASSUME IInv, Crash PROVE IInv'
<1>1. faults' \in 0 .. MaxFaults
  BY FaultType DEF Crash
<1>2. w' \in Worker /\ w'.pc = "idle"
  BY IdleType DEF Crash
<1> QED
  BY <1>1, <1>2 DEF Crash, IInv, TypeOK, NameToReserve

\* A write to the object that fails.
LEMMA WriteFailsInv == ASSUME IInv, WriteFails PROVE IInv'
<1>1. faults' \in 0 .. MaxFaults
  BY FaultType DEF WriteFails
<1> QED
  BY <1>1, RequeueType DEF WriteFails, IInv, TypeOK, NameToReserve

\* What the worker holds once reconcileDelete has its inventory.
Listing(inv, failed, claimed) ==
  [w EXCEPT !.inv = inv, !.listErr = failed, !.other = claimed]

\* It releases a share the inventory says is its own, or goes on to the name.
DeleteTurns(inv, claimed, x) ==
  \/ \E t \in DeleteTokens(inv, claimed) :
       /\ isOurShareToken(w.obj, t, inv)
       /\ w' = [x EXCEPT !.pc = "release", !.tok = t]
  \/ /\ \/ DeleteTokens(inv, claimed) = {}
        \/ \E t \in DeleteTokens(inv, claimed) : ~isOurShareToken(w.obj, t, inv)
     /\ w' = DeleteNameOrFinish(x)

\* reconcileDelete does one of the two, with what loadInventory gave it.
LEMMA DeleteInventoryTurns ==
  ASSUME DeleteInventory
  PROVE  \E lf \in BOOLEAN, sf \in BOOLEAN, claimed \in BOOLEAN :
           /\ InventoryOutcome(lf, sf)
           /\ DeleteTurns(loadInventory(lf, sf), claimed, Listing(loadInventory(lf, sf), lf, claimed))
<1> DEFINE claimed == otherShareWithFrontendName(w.key, w.dg.name, cr) # {}
<1>1. \E lf \in BOOLEAN, sf \in BOOLEAN :
        /\ InventoryOutcome(lf, sf)
        /\ DeleteTurns(loadInventory(lf, sf), claimed, Listing(loadInventory(lf, sf), lf, claimed))
  BY Zenon DEF DeleteInventory, DeleteTurns, Listing
<1>2. claimed \in BOOLEAN
  OBVIOUS
<1> HIDE DEF claimed
<1> QED
  BY <1>1, <1>2

\* Loading the inventory, and the decisions it leads to.
LEMMA InventoryStepsInv ==
  ASSUME IInv,
         InventoryUnavailable \/ Inventory \/ HandleShareConflict \/ DeleteInventory
  PROVE  IInv'
<1> USE DEF IInv, TypeOK, NameToReserve
\* An agent share is adopted from a classified inventory.
<1>1. ASSUME NEW inv \in ShareInventoryType,
             NEW c \in classifyShare(w.obj, w.dg.target, inv),
             NEW d \in adoptableAgentShare(w.obj, c, w.dg.target, w.dg),
             w' = [w EXCEPT !.pc = "mark", !.tok = d.token, !.url = AssignedURL(w.obj, d)]
      PROVE  w' \in Worker /\ w'.pc = "mark"
  <2>1. d \in OwnShare
    BY <1>1, ClassifyType DEF adoptableAgentShare, ClassifiedShare
  <2>2. d.token \in Token /\ AssignedURL(w.obj, d) \in Label
    BY <2>1, AssignedURLType DEF OwnShare
  <2> QED
    BY <1>1, <2>2 DEF Worker, PC
<1>2. CASE InventoryUnavailable
  <2>1. PICK sf \in BOOLEAN :
          /\ InventoryOutcome(TRUE, sf)
          /\ \E c \in classifyShare(w.obj, w.dg.target, loadInventory(TRUE, sf)) :
               LET ready == adoptableAgentShare(w.obj, c, w.dg.target, w.dg)
               IN  IF ready = {} THEN StopWith("InventoryError")
                   ELSE \E d \in ready :
                          /\ w' = [w EXCEPT !.pc = "mark", !.tok = d.token,
                                            !.url = AssignedURL(w.obj, d)]
                          /\ UNCHANGED <<cr, queue>>
    BY <1>2 DEF InventoryUnavailable
  <2>2. faults' \in 0 .. MaxFaults
    BY <2>1, InventoryOutcomeType
  <2>3. loadInventory(TRUE, sf) \in ShareInventoryType
    BY LoadInventoryType
  <2>4. PICK c \in classifyShare(w.obj, w.dg.target, loadInventory(TRUE, sf)) :
          \/ StopWith("InventoryError")
          \/ \E d \in adoptableAgentShare(w.obj, c, w.dg.target, w.dg) :
               /\ w' = [w EXCEPT !.pc = "mark", !.tok = d.token,
                                 !.url = AssignedURL(w.obj, d)]
               /\ UNCHANGED <<cr, queue>>
    BY <2>1
  <2>5. CASE StopWith("InventoryError")
    BY <1>2, <2>2, <2>5, StopWithType DEF InventoryUnavailable, Reason
  <2>6. CASE \E d \in adoptableAgentShare(w.obj, c, w.dg.target, w.dg) :
               /\ w' = [w EXCEPT !.pc = "mark", !.tok = d.token,
                                 !.url = AssignedURL(w.obj, d)]
               /\ UNCHANGED <<cr, queue>>
    <3>1. w' \in Worker /\ w'.pc = "mark"
      BY <1>1, <2>3, <2>6
    <3> QED
      BY <1>2, <2>2, <2>6, <3>1 DEF InventoryUnavailable
  <2> QED
    BY <2>4, <2>5, <2>6
<1>3. CASE Inventory
  <2>1. PICK sf \in BOOLEAN :
          /\ InventoryOutcome(FALSE, sf)
          /\ \E c \in classifyShare(w.obj, w.dg.target, loadInventory(FALSE, sf)) :
               \/ StopWith("NameConflict")
               \/ /\ w' = AfterInventory([w EXCEPT !.inv = loadInventory(FALSE, sf), !.cls = c])
                  /\ UNCHANGED <<cr, queue>>
    BY <1>3 DEF Inventory
  <2>2. faults' \in 0 .. MaxFaults
    BY <2>1, InventoryOutcomeType
  <2>3. loadInventory(FALSE, sf) \in ShareInventoryType
    BY LoadInventoryType
  <2>4. CASE StopWith("NameConflict")
    BY <1>3, <2>2, <2>4, StopWithType DEF Inventory, Reason
  <2>5. ASSUME NEW c \in classifyShare(w.obj, w.dg.target, loadInventory(FALSE, sf)),
               w' = AfterInventory([w EXCEPT !.inv = loadInventory(FALSE, sf), !.cls = c]),
               UNCHANGED <<cr, queue>>
        PROVE  IInv'
    <3>1. c \in ClassifiedShare
      BY <2>3, ClassifyType
    <3>2. [w EXCEPT !.inv = loadInventory(FALSE, sf), !.cls = c] \in Worker
      BY <2>3, <3>1 DEF Worker
    <3>3. w' \in Worker /\ (w'.pc = "reserve" => w'.obj.spec.name # None)
      BY <2>5, <3>2, AfterInventoryType
    <3> QED
      BY <1>3, <2>2, <2>5, <3>3 DEF Inventory
  <2> QED
    BY <2>1, <2>4, <2>5
<1>4. CASE HandleShareConflict
  <2>1. PICK lf \in BOOLEAN, sf \in BOOLEAN :
          /\ InventoryOutcome(lf, sf)
          /\ \E c \in classifyShare(w.obj, w.dg.target, loadInventory(lf, sf)) :
               \/ StopWith("InventoryError")
               \/ StopWith("NameConflict")
               \/ StopWith("ShareError")
               \/ \E d \in adoptableAgentShare(w.obj, c, w.dg.target, w.dg) :
                    /\ w' = [w EXCEPT !.pc = "mark", !.tok = d.token,
                                      !.url = AssignedURL(w.obj, d)]
                    /\ UNCHANGED <<cr, queue>>
               \/ \E r \in c.remote :
                    /\ TargetsEqual(r.target, w.dg.target)
                    /\ w' = [w EXCEPT !.pc = "release", !.via = "conflict", !.tok = r.token]
                    /\ UNCHANGED <<cr, queue>>
    BY <1>4 DEF HandleShareConflict
  <2>2. faults' \in 0 .. MaxFaults
    BY <2>1, InventoryOutcomeType
  <2>3. loadInventory(lf, sf) \in ShareInventoryType
    BY LoadInventoryType
  <2>4. PICK c \in classifyShare(w.obj, w.dg.target, loadInventory(lf, sf)) :
               \/ StopWith("InventoryError")
               \/ StopWith("NameConflict")
               \/ StopWith("ShareError")
               \/ \E d \in adoptableAgentShare(w.obj, c, w.dg.target, w.dg) :
                    /\ w' = [w EXCEPT !.pc = "mark", !.tok = d.token,
                                      !.url = AssignedURL(w.obj, d)]
                    /\ UNCHANGED <<cr, queue>>
               \/ \E r \in c.remote :
                    /\ TargetsEqual(r.target, w.dg.target)
                    /\ w' = [w EXCEPT !.pc = "release", !.via = "conflict", !.tok = r.token]
                    /\ UNCHANGED <<cr, queue>>
    BY <2>1
  <2>5. ASSUME NEW reason \in {"InventoryError", "NameConflict", "ShareError"},
               StopWith(reason)
        PROVE  IInv'
    <3>1. reason \in Reason
      BY DEF Reason
    <3> QED
      BY <1>4, <2>2, <2>5, <3>1, StopWithType DEF HandleShareConflict
  <2>6. ASSUME NEW d \in adoptableAgentShare(w.obj, c, w.dg.target, w.dg),
               w' = [w EXCEPT !.pc = "mark", !.tok = d.token, !.url = AssignedURL(w.obj, d)],
               UNCHANGED <<cr, queue>>
        PROVE  IInv'
    <3>1. w' \in Worker /\ w'.pc = "mark"
      BY <1>1, <2>3, <2>6
    <3> QED
      BY <1>4, <2>2, <2>6, <3>1 DEF HandleShareConflict
  <2>7. ASSUME NEW r \in c.remote, TargetsEqual(r.target, w.dg.target),
               w' = [w EXCEPT !.pc = "release", !.via = "conflict", !.tok = r.token],
               UNCHANGED <<cr, queue>>
        PROVE  IInv'
    <3>1. r \in RemoteShare
      BY <2>3, ClassifyType DEF ClassifiedShare
    <3>2. r.token \in Token
      BY <2>7, <3>1, SameTargetIsOwn, WorkerFields
    <3>3. w' \in Worker /\ w'.pc = "release"
      BY <2>7, <3>2 DEF Worker, PC, Via
    <3> QED
      BY <1>4, <2>2, <2>7, <3>3 DEF HandleShareConflict
  <2> QED
    BY <2>4, <2>5, <2>6, <2>7
<1>5. CASE DeleteInventory
  <2>1. PICK lf \in BOOLEAN, sf \in BOOLEAN, claimed \in BOOLEAN :
          /\ InventoryOutcome(lf, sf)
          /\ DeleteTurns(loadInventory(lf, sf), claimed, Listing(loadInventory(lf, sf), lf, claimed))
    BY <1>5, DeleteInventoryTurns
  <2>2. faults' \in 0 .. MaxFaults
    BY <2>1, InventoryOutcomeType
  <2> DEFINE inv == loadInventory(lf, sf)
             x   == Listing(inv, lf, claimed)
  <2>3. inv \in ShareInventoryType
    BY LoadInventoryType
  <2>4. w' = DeleteNameOrFinish(x)
        \/ \E t \in DeleteTokens(inv, claimed) : w' = [x EXCEPT !.pc = "release", !.tok = t]
    BY <2>1 DEF DeleteTurns
  <2> HIDE DEF inv
  <2>5. x \in Worker
    BY <2>3 DEF Worker, Listing
  <2> HIDE DEF x
  <2>6. ASSUME NEW t \in DeleteTokens(inv, claimed),
               w' = [x EXCEPT !.pc = "release", !.tok = t]
        PROVE  w' \in Worker /\ w'.pc = "release"
    <3>1. t \in Token
      <4>1. CASE w.obj.token # None
        BY <4>1, <2>6, WorkerFields DEF DeleteTokens
      <4>2. CASE w.obj.token = None
        <5>1. \/ \E d \in inv.agent : t = d.token
              \/ \E r \in inv.remote : t = r.token /\ TargetsEqual(r.target, w.dg.target)
          BY <4>2, <2>6 DEF DeleteTokens, FirstOf, agentByName, FindByFrontendName
        <5> QED
          BY <5>1, <2>3, SameTargetIsOwn, WorkerFields DEF ShareInventoryType, OwnShare
      <4> QED
        BY <4>1, <4>2
    <3> QED
      BY <2>5, <2>6, <3>1 DEF Worker, PC
  <2>7. w' \in Worker /\ w'.pc # "reserve"
    BY <2>4, <2>5, <2>6, DeleteNameOrFinishType DEF x
  <2> QED
    BY <1>5, <2>2, <2>7 DEF DeleteInventory
<1> QED
  BY <1>2, <1>3, <1>4, <1>5

\* Reserving a name, and deleting one that is to be given back.
LEMMA NameStepsInv ==
  ASSUME IInv,
         \/ EnsureReservedName \/ NameOfOtherAccount \/ ReserveFails
         \/ FlushReclaim \/ FlushFails \/ ClearReclaim \/ AnnotateReclaim
         \/ DeleteName \/ DeleteNameFails
  PROVE  IInv'
<1> USE DEF IInv, TypeOK, NameToReserve
<1>0. w.obj.spec.name \in Name \cup {None}
  BY WorkerFields DEF ShareSpec
<1>1. CASE EnsureReservedName
  <2>1. names' \subseteq Name
    BY <1>0, <1>1 DEF EnsureReservedName
  <2>2. w' \in Worker /\ w'.pc # "reserve"
    BY <1>1, FlushReclaimNameType DEF EnsureReservedName
  <2> QED
    BY <1>1, <2>1, <2>2 DEF EnsureReservedName
<1>2. CASE NameOfOtherAccount
  BY <1>2, StopWithType DEF NameOfOtherAccount, Reason
<1>3. CASE ReserveFails
  <2>1. names' \subseteq Name
    BY <1>0, <1>3 DEF ReserveFails
  <2>2. faults' \in 0 .. MaxFaults
    BY <1>3, FaultType DEF ReserveFails
  <2> QED
    BY <1>3, <2>1, <2>2, StopWithType DEF ReserveFails, Reason
<1>4. CASE FlushReclaim
  <2>1. CASE Requeue
    BY <1>4, <2>1, RequeueType DEF FlushReclaim
  <2>2. CASE w' = [w EXCEPT !.pc = "unannotate"] /\ UNCHANGED queue
    <3>1. w' \in Worker /\ w'.pc = "unannotate"
      BY <2>2, AtType DEF PC
    <3> QED
      BY <1>4, <2>2, <3>1 DEF FlushReclaim
  <2> QED
    BY <1>4, <2>1, <2>2 DEF FlushReclaim
<1>5. CASE FlushFails
  <2>1. faults' \in 0 .. MaxFaults
    BY <1>5, FaultType DEF FlushFails
  <2>2. names' \subseteq Name
    BY <1>5 DEF FlushFails
  <2> QED
    BY <1>5, <2>1, <2>2, RequeueType DEF FlushFails
<1>6. CASE ClearReclaim
  <2> DEFINE o == [cr[w.key] EXCEPT !.reclaim = None]
  <2>1. cr[w.key] \in ShareObject
    BY WorkerFields
  <2>2. o \in ShareObject
    BY <2>1 DEF ShareObject, Label
  <2>3. Write(o) /\ w' = AfterFlush(Patched(w, o))
    BY <1>6 DEF ClearReclaim
  <2> HIDE DEF o
  <2>4. w' \in Worker /\ w'.pc # "reserve"
    BY <2>2, <2>3, PatchedType, AfterFlushType
  <2> QED
    BY <1>6, <2>2, <2>3, <2>4, WriteType DEF ClearReclaim
<1>7. CASE AnnotateReclaim
  <2> DEFINE o == [cr[w.key] EXCEPT !.reclaim = w.old]
  <2>1. cr[w.key] \in ShareObject /\ w.old \in Label
    BY WorkerFields DEF Worker
  <2>2. o \in ShareObject
    BY <2>1 DEF ShareObject
  <2>3. Write(o) /\ w' = FlushReclaimName(Patched(w, o))
    BY <1>7 DEF AnnotateReclaim
  <2> HIDE DEF o
  <2>4. w' \in Worker /\ w'.pc # "reserve"
    BY <2>2, <2>3, PatchedType, FlushReclaimNameType
  <2> QED
    BY <1>7, <2>2, <2>3, <2>4, WriteType DEF AnnotateReclaim
<1>8. CASE DeleteName
  <2>1. names' \subseteq Name
    BY <1>8 DEF DeleteName
  <2>2. \/ Requeue
        \/ w' = [w EXCEPT !.pc = "final"] /\ UNCHANGED queue
        \/ \E r \in remote : /\ isOurShareToken(w.obj, r.token, w.inv)
                             /\ w' = [w EXCEPT !.pc = "release", !.via = "attached",
                                               !.tok = r.token]
                             /\ UNCHANGED queue
    BY <1>8 DEF DeleteName, FindByFrontendName
  <2>3. CASE Requeue
    BY <1>8, <2>1, <2>3, RequeueType DEF DeleteName
  <2>4. CASE w' = [w EXCEPT !.pc = "final"] /\ UNCHANGED queue
    <3>1. w' \in Worker /\ w'.pc = "final"
      BY <2>4, AtType DEF PC
    <3> QED
      BY <1>8, <2>1, <2>4, <3>1 DEF DeleteName
  <2>5. ASSUME NEW r \in remote, isOurShareToken(w.obj, r.token, w.inv),
               w' = [w EXCEPT !.pc = "release", !.via = "attached", !.tok = r.token],
               UNCHANGED queue
        PROVE  IInv'
    <3>1. r.token \in Token \cup ForeignToken
      BY RemoteToken
    <3>2. r.token \in Token
      BY <2>5, <3>1, OurTokenIsOwn, WorkerFields
    <3>3. w' \in Worker /\ w'.pc = "release"
      BY <2>5, <3>2 DEF Worker, PC, Via
    <3> QED
      BY <1>8, <2>1, <2>5, <3>3 DEF DeleteName
  <2> QED
    BY <2>2, <2>3, <2>4, <2>5
<1>9. CASE DeleteNameFails
  <2>1. faults' \in 0 .. MaxFaults
    BY <1>9, FaultType DEF DeleteNameFails
  <2>2. names' \subseteq Name
    BY <1>9 DEF DeleteNameFails
  <2> QED
    BY <1>9, <2>1, <2>2, RequeueType DEF DeleteNameFails
<1> QED
  BY <1>1, <1>2, <1>3, <1>4, <1>5, <1>6, <1>7, <1>8, <1>9

\* Releasing a share, creating one, and recording it.
LEMMA ShareStepsInv ==
  ASSUME IInv,
         \/ ReleaseShare \/ Unshare \/ UnshareFails \/ UnshareUnauthorized
         \/ ClearBinding \/ CreateShare \/ CreateConflict \/ CreateRefused
         \/ CreateFails \/ MarkShareReady \/ StampDigest \/ RemoveFinalizer
  PROVE  IInv'
<1> USE DEF IInv, TypeOK, NameToReserve
<1>0. w.key \in Share /\ cr[w.key] \in ShareObject
  BY WorkerFields
<1>a. ASSUME AfterRelease
      PROVE  w' \in Worker /\ w'.pc # "reserve" /\ queue' \subseteq Share
  <2>1. CASE Requeue
    BY <2>1, RequeueType
  <2>2. CASE w' = [w EXCEPT !.pc = "clear"] /\ UNCHANGED queue
    <3>1. w' \in Worker /\ w'.pc = "clear"
      BY <2>2, AtType DEF PC
    <3> QED
      BY <2>2, <3>1
  <2> QED
    BY <1>a, <2>1, <2>2 DEF AfterRelease
<1>1. CASE ReleaseShare
  <2>1. faults' \in 0 .. MaxFaults /\ agent' \subseteq OwnShare
    BY <1>1, FaultType DEF ReleaseShare, NoFault
  <2>2. w' \in Worker /\ w'.pc # "reserve" /\ queue' \subseteq Share
    <3>1. CASE AfterRelease
      BY <3>1, <1>a
    <3>2. CASE w' = [w EXCEPT !.pc = "unshare"] /\ UNCHANGED queue
      <4>1. w' \in Worker /\ w'.pc = "unshare"
        BY <3>2, AtType DEF PC
      <4> QED
        BY <3>2, <4>1
    <3> QED
      BY <1>1, <3>1, <3>2 DEF ReleaseShare
  <2> QED
    BY <1>1, <2>1, <2>2 DEF ReleaseShare
<1>2. CASE Unshare
  BY <1>2, <1>a DEF Unshare, Unshared
<1>3. CASE UnshareFails
  <2>1. faults' \in 0 .. MaxFaults
    BY <1>3, FaultType DEF UnshareFails
  <2>2. /\ cr' \in [Share -> ShareObject]
        /\ w' \in Worker /\ w'.pc = "idle" /\ queue' \subseteq Share
    BY <1>3, StopWithType, RequeueType DEF UnshareFails, Reason
  <2> QED
    BY <1>3, <2>1, <2>2 DEF UnshareFails, Unshared
<1>4. CASE UnshareUnauthorized
  BY <1>4, <1>a, FaultType DEF UnshareUnauthorized
<1>5. CASE ClearBinding
  <2> DEFINE bound == w.obj.token # None \/ w.obj.url # None
             o == IF bound THEN clearShareBinding(cr[w.key]) ELSE cr[w.key]
             x == IF bound THEN Patched(w, o) ELSE w
  <2>1. clearShareBinding(cr[w.key]) \in ShareObject
    BY <1>0 DEF clearShareBinding, ShareObject, Label, Reason
  <2>2. o \in ShareObject
    BY <1>0, <2>1
  <2>3. x \in Worker
    BY <2>2, PatchedType
  <2>4. /\ Write(o)
        /\ w' = IF w.via = "delete" THEN DeleteNameOrFinish(x)
                ELSE ReclaimPreviousName([x EXCEPT !.released = TRUE])
    BY <1>5 DEF ClearBinding
  <2> HIDE DEF bound, o, x
  <2>5. [x EXCEPT !.released = TRUE] \in Worker
    BY <2>3 DEF Worker
  <2>6. w' \in Worker /\ w'.pc # "reserve"
    BY <2>3, <2>4, <2>5, DeleteNameOrFinishType, ReclaimPreviousNameType
  <2> QED
    BY <1>5, <2>2, <2>4, <2>6, WriteType DEF ClearBinding
<1>6. CASE CreateShare
  <2>1. PICK t \in Fresh : /\ remote' = remote \cup {Requested(t)}
                           /\ agent' = agent \cup {Requested(t)}
                           /\ w' = [w EXCEPT !.pc = "mark", !.tok = t,
                                             !.url = AssignedURL(w.obj, Requested(t))]
    BY <1>6 DEF CreateShare
  <2>2. t \in Token /\ Requested(t) \in OwnShare
    BY FreshType, RequestedType
  <2>3. remote' \subseteq RemoteShare /\ agent' \subseteq OwnShare
    BY <2>1, <2>2 DEF RemoteShare
  <2>4. AssignedURL(w.obj, Requested(t)) \in Label
    BY <2>2, AssignedURLType
  <2>5. w' \in Worker /\ w'.pc = "mark"
    BY <2>1, <2>2, <2>4 DEF Worker, PC
  <2> QED
    BY <1>6, <2>3, <2>5 DEF CreateShare
<1>7. CASE CreateConflict
  <2>1. w' \in Worker /\ w'.pc = "conflict"
    BY <1>7, AtType DEF CreateConflict, PC
  <2> QED
    BY <1>7, <2>1 DEF CreateConflict
<1>8. CASE CreateRefused
  BY <1>8, StopWithType DEF CreateRefused, Reason
<1>9. CASE CreateFails
  <2>1. faults' \in 0 .. MaxFaults
    BY <1>9, FaultType DEF CreateFails
  <2>2. remote' \subseteq RemoteShare /\ agent' \subseteq OwnShare
    BY <1>9, FreshType, RequestedType DEF CreateFails, RemoteShare
  <2> QED
    BY <1>9, <2>1, <2>2, StopWithType DEF CreateFails, Reason
<1>10. CASE MarkShareReady
  <2> DEFINE v == reservation(w.obj.spec.mode, cr[w.key].spec.name)
             o == [cr[w.key] EXCEPT !.token = w.tok, !.url = w.url,
                                    !.reason = "Ready", !.reservation = v]
  <2>1. v \in Reservation
    BY DEF reservation, Reservation
  <2>2. w.tok \in Token \cup {None} /\ w.url \in Label
    BY DEF Worker
  <2>3. Write(o) /\ w' = [Patched(w, o) EXCEPT !.pc = "stamp"]
    BY <1>10 DEF MarkShareReady
  <2> HIDE DEF v
  <2>4. o \in ShareObject
    BY <1>0, <2>1, <2>2 DEF ShareObject, Reason
  <2> HIDE DEF o
  <2>5. w' \in Worker /\ w'.pc = "stamp"
    BY <2>3, <2>4, PatchedType, AtType DEF PC
  <2> QED
    BY <1>10, <2>3, <2>4, <2>5, WriteType DEF MarkShareReady
<1>11. CASE StampDigest
  <2>1. [cr[w.key] EXCEPT !.digest = w.dg] \in ShareObject
    BY <1>0, WorkerFields DEF ShareObject
  <2>2. cr' \in [Share -> ShareObject]
    BY <1>0, <1>11, <2>1 DEF StampDigest
  <2> QED
    BY <1>11, <2>2, RequeueType DEF StampDigest
<1>12. CASE RemoveFinalizer
  <2>1. cr' \in [Share -> ShareObject]
    BY <1>0, <1>12, AbsentType DEF RemoveFinalizer
  <2>2. w' \in Worker /\ w'.pc = "idle" /\ queue' \subseteq Share
    BY <1>0, <1>12, IdleType, RequeueType DEF RemoveFinalizer
  <2> QED
    BY <1>12, <2>1, <2>2 DEF RemoveFinalizer
<1> QED
  BY <1>1, <1>2, <1>3, <1>4, <1>5, <1>6, <1>7, <1>8, <1>9, <1>10, <1>11, <1>12

-----------------------------------------------------------------------------
(* The theorems.                                                           *)

\* Every step of the system preserves the invariant.
LEMMA NextInv == IInv /\ [Next]_vars => IInv'
<1> SUFFICES ASSUME IInv, [Next]_vars PROVE IInv'
  OBVIOUS
<1>1. ASSUME NEW s \in Share, Reconcile(s) PROVE IInv'
  BY <1>1, ReconcileInv
<1>2. CASE Step
  BY <1>2, InventoryStepsInv, NameStepsInv, ShareStepsInv DEF Step
<1>3. CASE Crash
  BY <1>3, CrashInv
<1>4. CASE Environment
  BY <1>4, EnvironmentInv
<1>5. CASE UNCHANGED vars
  BY <1>5 DEF vars, IInv, TypeOK, NameToReserve
<1>6. CASE WriteFails
  BY <1>6, WriteFailsInv
<1> QED
  BY <1>1, <1>2, <1>3, <1>4, <1>5, <1>6 DEF Next

\* The inductive invariant holds throughout: types, a name to reserve when
\* one is reserved, and no foreign token in the worker's hands.
THEOREM Invariance == Spec => []IInv
  BY InitInv, NextInv, PTL DEF Spec

\* Type correctness: in particular, no status ever records the token of a
\* share the operator did not make (markShareReady), and the worker never
\* holds one to release (releaseOurs, reconcileDelete).
THEOREM TypeCorrect == Spec => []TypeOK
<1>1. IInv => TypeOK
  BY DEF IInv
<1> QED
  BY <1>1, Invariance, PTL

\* A step that changes remote shares and the worker at once keeps every
\* foreign share: Unshare is only called with tokens of the operator's own.
LEMMA ForeignKept ==
  ASSUME IInv, Next, w' # w, NEW r \in remote, r.token \in ForeignToken
  PROVE  r \in remote'
<1>1. w.tok \notin ForeignToken
  BY ForeignTokenAssumption, NoneAssumption DEF IInv, TypeOK, Worker
<1>2. r \in Unshared
  BY <1>1 DEF Unshared
<1>3. ASSUME NEW s \in Share, Reconcile(s) PROVE r \in remote'
  BY <1>3 DEF Reconcile, ReconcileGone, AddFinalizer, RefuseSpec, WaitForEnvironment,
              SecretUnreadable, NameClaimed, StartReconcile, StartDelete
<1>4. CASE Step
  <2>1. CASE Unshare \/ UnshareFails
    BY <1>2, <2>1 DEF Unshare, UnshareFails
  <2>2. CASE CreateShare \/ CreateFails
    BY <2>2 DEF CreateShare, CreateFails
  <2>3. CASE InventoryUnavailable \/ Inventory \/ HandleShareConflict \/ DeleteInventory
    BY <2>3 DEF InventoryUnavailable, Inventory, HandleShareConflict, DeleteInventory
  <2>4. CASE EnsureReservedName \/ NameOfOtherAccount \/ ReserveFails
    BY <2>4 DEF EnsureReservedName, NameOfOtherAccount, ReserveFails
  <2>5. CASE FlushReclaim \/ FlushFails \/ ClearReclaim \/ AnnotateReclaim
    BY <2>5 DEF FlushReclaim, FlushFails, ClearReclaim, AnnotateReclaim
  <2>6. CASE ReleaseShare \/ UnshareUnauthorized \/ ClearBinding
    BY <2>6 DEF ReleaseShare, UnshareUnauthorized, ClearBinding
  <2>7. CASE CreateConflict \/ CreateRefused \/ MarkShareReady \/ StampDigest
    BY <2>7 DEF CreateConflict, CreateRefused, MarkShareReady, StampDigest
  <2>8. CASE DeleteName \/ DeleteNameFails \/ RemoveFinalizer
    BY <2>8 DEF DeleteName, DeleteNameFails, RemoveFinalizer
  <2> QED
    BY <1>4, <2>1, <2>2, <2>3, <2>4, <2>5, <2>6, <2>7, <2>8 DEF Step
<1>5. CASE Crash \/ WriteFails
  BY <1>5 DEF Crash, WriteFails
<1>6. CASE Environment
  <2>1. w' = w
    BY <1>6 DEF Environment, UserCreates, UserEdits, UserDeletes, EnvironmentProgresses,
                EnvironmentDegrades, EnvironmentUnkeyed, EnvironmentRekeyed,
                EnvironmentRemoved, AgentRestarts, AgentShareStalls, ForeignShareAppears,
                ForeignShareLeaves
  <2> QED
    BY <2>1
<1> QED
  BY <1>3, <1>4, <1>5, <1>6 DEF Next

\* The operator never unshares what it did not make: for every set of
\* objects, specs and faults, no step of the worker removes a foreign share.
THEOREM ForeignSharesUntouched == Spec => ForeignUntouched
<1>1. IInv /\ [Next]_vars =>
        [w' # w => \A r \in remote : r.token \in ForeignToken => r \in remote']_vars
  BY ForeignKept DEF vars
<1> QED
  BY <1>1, Invariance, PTL DEF Spec, ForeignUntouched
-----------------------------------------------------------------------------
(* No key is lost.                                                         *)

\* y carries on the reconcile that x is in.
CarriesOn(x, y) == y.pc # "idle" /\ y.key = x.key

\* From one call to the next the worker keeps its key.
LEMMA AtCarriesOn ==
  ASSUME NEW x \in Worker, NEW p, p # "idle"
  PROVE  CarriesOn(x, [x EXCEPT !.pc = p])
  BY DEF CarriesOn, Worker

\* Adoption, release and creation, ...
LEMMA AdoptOrRebuildCarriesOn ==
  ASSUME NEW x \in Worker PROVE CarriesOn(x, AdoptOrRebuild(x))
<1>1. ASSUME NEW t, NEW u PROVE CarriesOn(x, [x EXCEPT !.pc = "mark", !.tok = t, !.url = u])
  BY DEF CarriesOn, Worker
<1>2. ASSUME NEW t, NEW n, NEW b
      PROVE  CarriesOn(x, [x EXCEPT !.pc = "release", !.via = "rebuild", !.tok = t,
                                    !.old = n, !.prev = b])
  BY DEF CarriesOn, Worker
<1>3. CarriesOn(x, [x EXCEPT !.pc = "create"])
  BY AtCarriesOn
<1> HIDE DEF CarriesOn
<1> QED
  BY <1>1, <1>2, <1>3 DEF AdoptOrRebuild

\* ... what comes before them, ...
LEMMA FlushCarriesOn ==
  ASSUME NEW x \in Worker
  PROVE  /\ CarriesOn(x, AfterFlush(x)) /\ CarriesOn(x, FlushReclaimName(x))
         /\ CarriesOn(x, AfterInventory(x))
<1>1. CarriesOn(x, AfterFlush(x))
  BY AdoptOrRebuildCarriesOn, AtCarriesOn DEF AfterFlush
<1>2. CarriesOn(x, FlushReclaimName(x))
  BY <1>1, AtCarriesOn DEF FlushReclaimName
<1> QED
  BY <1>1, <1>2, AtCarriesOn DEF AfterInventory

\* ... and what comes after a release.
LEMMA ReleasedCarriesOn ==
  ASSUME NEW x \in Worker
  PROVE  CarriesOn(x, ReclaimPreviousName(x)) /\ CarriesOn(x, DeleteNameOrFinish(x))
  BY AtCarriesOn DEF ReclaimPreviousName, DeleteNameOrFinish

\* A step of a reconcile leaves the other objects alone and ends with the key
\* queued, or is not the last.
Minds ==
  /\ \A s \in Share \ {w.key} : cr'[s] = cr[s]
  /\ queue \subseteq queue'
  /\ w.key \in queue' \/ CarriesOn(w, w')

\* The ends of a reconcile.
LEMMA RequeueMinds ==
  ASSUME IInv, \/ \E reason : StopWith(reason)
               \/ Requeue /\ UNCHANGED cr
  PROVE  Minds
<1>1. w.key \in Share /\ cr \in [Share -> ShareObject]
  BY WorkerFields DEF IInv, TypeOK
<1> QED
  BY <1>1 DEF StopWith, SetNotReady, Requeue, Minds

\* A patch is not one.
LEMMA WriteMinds ==
  ASSUME IInv, NEW o, Write(o), CarriesOn(w, w') PROVE Minds
<1>1. w.key \in Share /\ cr \in [Share -> ShareObject]
  BY WorkerFields DEF IInv, TypeOK
<1> QED
  BY <1>1 DEF Write, Minds

\* Nor is a call to one of the other systems that succeeds.
LEMMA CallMinds ==
  ASSUME UNCHANGED <<cr, queue>>, CarriesOn(w, w') PROVE Minds
  BY DEF Minds

\* The inventory and what is decided on it.
LEMMA InventoryStepsMind ==
  ASSUME IInv, InventoryUnavailable \/ Inventory \/ HandleShareConflict \/ DeleteInventory
  PROVE  Minds
<1>0. w \in Worker
  BY DEF IInv, TypeOK
<1>1. ASSUME NEW t, NEW u PROVE CarriesOn(w, [w EXCEPT !.pc = "mark", !.tok = t, !.url = u])
  BY <1>0 DEF CarriesOn, Worker
<1>2. ASSUME NEW v, NEW t PROVE CarriesOn(w, [w EXCEPT !.pc = "release", !.via = v, !.tok = t])
  BY <1>0 DEF CarriesOn, Worker
<1> HIDE DEF CarriesOn
<1>3. CASE InventoryUnavailable
  <2>1. \/ \E reason : StopWith(reason)
        \/ /\ \E t, u : w' = [w EXCEPT !.pc = "mark", !.tok = t, !.url = u]
           /\ UNCHANGED <<cr, queue>>
    BY <1>3 DEF InventoryUnavailable
  <2>2. ASSUME NEW t, NEW u, w' = [w EXCEPT !.pc = "mark", !.tok = t, !.url = u],
               UNCHANGED <<cr, queue>>
        PROVE  Minds
    BY <1>1, <2>2, CallMinds
  <2> QED
    BY <2>1, <2>2, RequeueMinds
<1>6. CASE HandleShareConflict
  <2>1. \/ \E reason : StopWith(reason)
        \/ /\ \E t, u : w' = [w EXCEPT !.pc = "mark", !.tok = t, !.url = u]
           /\ UNCHANGED <<cr, queue>>
        \/ /\ \E t : w' = [w EXCEPT !.pc = "release", !.via = "conflict", !.tok = t]
           /\ UNCHANGED <<cr, queue>>
    BY <1>6 DEF HandleShareConflict
  <2>2. ASSUME NEW t, NEW u, w' = [w EXCEPT !.pc = "mark", !.tok = t, !.url = u],
               UNCHANGED <<cr, queue>>
        PROVE  Minds
    BY <1>1, <2>2, CallMinds
  <2>3. ASSUME NEW t, w' = [w EXCEPT !.pc = "release", !.via = "conflict", !.tok = t],
               UNCHANGED <<cr, queue>>
        PROVE  Minds
    BY <1>2, <2>3, CallMinds
  <2> QED
    BY <2>1, <2>2, <2>3, RequeueMinds
<1>4. CASE Inventory
  <2>1. PICK sf \in BOOLEAN :
          \E c \in classifyShare(w.obj, w.dg.target, loadInventory(FALSE, sf)) :
             \/ StopWith("NameConflict")
             \/ /\ w' = AfterInventory([w EXCEPT !.inv = loadInventory(FALSE, sf), !.cls = c])
                /\ UNCHANGED <<cr, queue>>
    BY <1>4 DEF Inventory
  <2>2. PICK c \in classifyShare(w.obj, w.dg.target, loadInventory(FALSE, sf)) :
             \/ StopWith("NameConflict")
             \/ /\ w' = AfterInventory([w EXCEPT !.inv = loadInventory(FALSE, sf), !.cls = c])
                /\ UNCHANGED <<cr, queue>>
    BY <2>1
  <2> DEFINE x == [w EXCEPT !.inv = loadInventory(FALSE, sf), !.cls = c]
  <2>3. loadInventory(FALSE, sf) \in ShareInventoryType
    BY LoadInventoryType
  <2>4. c \in ClassifiedShare
    BY <2>3, ClassifyType
  <2>5. x \in Worker /\ x.key = w.key
    BY <1>0, <2>3, <2>4 DEF Worker
  <2> HIDE DEF x
  <2>6. CarriesOn(w, AfterInventory(x))
    BY <2>5, FlushCarriesOn DEF CarriesOn
  <2> QED
    BY <2>2, <2>6, RequeueMinds, CallMinds DEF x
<1>5. CASE DeleteInventory
  <2>1. PICK lf \in BOOLEAN, sf \in BOOLEAN, claimed \in BOOLEAN :
          /\ InventoryOutcome(lf, sf)
          /\ DeleteTurns(loadInventory(lf, sf), claimed, Listing(loadInventory(lf, sf), lf, claimed))
    BY <1>5, DeleteInventoryTurns
  <2> DEFINE inv == loadInventory(lf, sf)
             x   == Listing(inv, lf, claimed)
  <2>2. (\E t : w' = [x EXCEPT !.pc = "release", !.tok = t]) \/ w' = DeleteNameOrFinish(x)
    BY <2>1 DEF DeleteTurns
  <2>3. inv \in ShareInventoryType
    BY LoadInventoryType
  <2> HIDE DEF inv
  <2>4. x \in Worker /\ x.key = w.key
    BY <1>0, <2>3 DEF Worker, Listing
  <2> HIDE DEF x
  <2>6. CarriesOn(x, w')
    <3>1. CASE \E t : w' = [x EXCEPT !.pc = "release", !.tok = t]
      BY <2>4, <3>1 DEF CarriesOn, Worker
    <3> QED
      BY <2>4, <2>2, <3>1, ReleasedCarriesOn
  <2>7. CarriesOn(w, w') /\ UNCHANGED <<cr, queue>>
    BY <1>5, <2>4, <2>6 DEF CarriesOn, DeleteInventory
  <2> QED
    BY <2>7, CallMinds
<1> QED
  BY <1>3, <1>4, <1>5, <1>6

\* Names.
LEMMA NameStepsMind ==
  ASSUME IInv,
         \/ EnsureReservedName \/ NameOfOtherAccount \/ ReserveFails
         \/ FlushReclaim \/ FlushFails \/ ClearReclaim \/ AnnotateReclaim
         \/ DeleteName \/ DeleteNameFails
  PROVE  Minds
<1>0. w \in Worker /\ w.key \in Share /\ cr[w.key] \in ShareObject /\ w.old \in Label
  BY WorkerFields DEF IInv, TypeOK, Worker
<1>1. CASE NameOfOtherAccount \/ ReserveFails
  BY <1>1, RequeueMinds DEF NameOfOtherAccount, ReserveFails
<1>2. CASE FlushFails \/ DeleteNameFails
  BY <1>2, RequeueMinds DEF FlushFails, DeleteNameFails
<1>3. CASE EnsureReservedName
  <2>1. UNCHANGED <<cr, queue>> /\ CarriesOn(w, w')
    BY <1>0, <1>3, FlushCarriesOn DEF EnsureReservedName
  <2> QED
    BY <2>1, CallMinds
<1>4. CASE FlushReclaim
  <2>1. \/ Requeue /\ UNCHANGED cr
        \/ UNCHANGED <<cr, queue>> /\ w' = [w EXCEPT !.pc = "unannotate"]
    BY <1>4 DEF FlushReclaim
  <2> QED
    BY <1>0, <2>1, RequeueMinds, CallMinds, AtCarriesOn
<1>5. CASE DeleteName
  <2>1. \/ Requeue /\ UNCHANGED cr
        \/ UNCHANGED <<cr, queue>> /\ w' = [w EXCEPT !.pc = "final"]
        \/ /\ UNCHANGED <<cr, queue>>
           /\ \E t : w' = [w EXCEPT !.pc = "release", !.via = "attached", !.tok = t]
    BY <1>5 DEF DeleteName
  <2>2. ASSUME NEW t
        PROVE  CarriesOn(w, [w EXCEPT !.pc = "release", !.via = "attached", !.tok = t])
    BY <1>0 DEF CarriesOn, Worker
  <2> QED
    BY <1>0, <2>1, <2>2, RequeueMinds, CallMinds, AtCarriesOn
<1>6. CASE ClearReclaim
  <2> DEFINE o == [cr[w.key] EXCEPT !.reclaim = None]
  <2>1. o \in ShareObject
    BY <1>0 DEF ShareObject, Label
  <2>2. Write(o) /\ w' = AfterFlush(Patched(w, o))
    BY <1>6 DEF ClearReclaim
  <2> HIDE DEF o
  <2>3. Patched(w, o) \in Worker /\ Patched(w, o).key = w.key
    BY <1>0, <2>1, PatchedType DEF Patched, Worker
  <2>4. CarriesOn(w, w')
    BY <2>2, <2>3, FlushCarriesOn DEF CarriesOn
  <2> QED
    BY <2>2, <2>4, WriteMinds
<1>7. CASE AnnotateReclaim
  <2> DEFINE o == [cr[w.key] EXCEPT !.reclaim = w.old]
  <2>1. o \in ShareObject
    BY <1>0 DEF ShareObject
  <2>2. Write(o) /\ w' = FlushReclaimName(Patched(w, o))
    BY <1>7 DEF AnnotateReclaim
  <2> HIDE DEF o
  <2>3. Patched(w, o) \in Worker /\ Patched(w, o).key = w.key
    BY <1>0, <2>1, PatchedType DEF Patched, Worker
  <2>4. CarriesOn(w, w')
    BY <2>2, <2>3, FlushCarriesOn DEF CarriesOn
  <2> QED
    BY <2>2, <2>4, WriteMinds
<1> QED
  BY <1>1, <1>2, <1>3, <1>4, <1>5, <1>6, <1>7

\* Shares.
LEMMA ShareStepsMind ==
  ASSUME IInv,
         \/ ReleaseShare \/ Unshare \/ UnshareFails \/ UnshareUnauthorized
         \/ ClearBinding \/ CreateShare \/ CreateConflict \/ CreateRefused
         \/ CreateFails \/ MarkShareReady \/ StampDigest \/ RemoveFinalizer
  PROVE  Minds
<1>0. /\ w \in Worker /\ w.key \in Share /\ cr \in [Share -> ShareObject]
      /\ cr[w.key] \in ShareObject
  BY WorkerFields DEF IInv, TypeOK
<1>1. CASE ReleaseShare \/ Unshare \/ UnshareUnauthorized
  <2>1. \/ Requeue /\ UNCHANGED cr
        \/ UNCHANGED <<cr, queue>> /\ \E p \in {"unshare", "clear"} : w' = [w EXCEPT !.pc = p]
    BY <1>1 DEF ReleaseShare, Unshare, UnshareUnauthorized, AfterRelease
  <2> QED
    BY <1>0, <2>1, RequeueMinds, CallMinds, AtCarriesOn
<1>2. CASE UnshareFails \/ CreateRefused \/ CreateFails
  BY <1>2, RequeueMinds DEF UnshareFails, CreateRefused, CreateFails
<1>3. CASE CreateShare
  <2>1. UNCHANGED <<cr, queue>> /\ \E t, u : w' = [w EXCEPT !.pc = "mark", !.tok = t, !.url = u]
    BY <1>3 DEF CreateShare
  <2>2. CarriesOn(w, w')
    BY <1>0, <2>1 DEF CarriesOn, Worker
  <2> QED
    BY <2>1, <2>2, CallMinds
<1>4. CASE CreateConflict
  BY <1>0, <1>4, CallMinds, AtCarriesOn DEF CreateConflict
<1>5. CASE ClearBinding
  <2> DEFINE bound == w.obj.token # None \/ w.obj.url # None
             o == IF bound THEN clearShareBinding(cr[w.key]) ELSE cr[w.key]
             x == IF bound THEN Patched(w, o) ELSE w
  <2>1. clearShareBinding(cr[w.key]) \in ShareObject
    BY <1>0 DEF clearShareBinding, ShareObject, Label, Reason
  <2>2. o \in ShareObject
    BY <1>0, <2>1
  <2>3. /\ Write(o)
        /\ w' = IF w.via = "delete" THEN DeleteNameOrFinish(x)
                ELSE ReclaimPreviousName([x EXCEPT !.released = TRUE])
    BY <1>5 DEF ClearBinding
  <2> HIDE DEF bound, o
  <2>4. x \in Worker /\ x.key = w.key
    BY <1>0, <2>2, PatchedType DEF Patched, Worker
  <2> HIDE DEF x
  <2>5. [x EXCEPT !.released = TRUE] \in Worker /\ [x EXCEPT !.released = TRUE].key = w.key
    BY <2>4 DEF Worker
  <2>6. CarriesOn(w, w')
    BY <2>3, <2>4, <2>5, ReleasedCarriesOn DEF CarriesOn
  <2> QED
    BY <2>3, <2>6, WriteMinds
<1>6. CASE MarkShareReady
  <2>1. PICK o : Write(o) /\ w' = [Patched(w, o) EXCEPT !.pc = "stamp"]
    BY <1>6 DEF MarkShareReady
  <2>2. CarriesOn(w, w')
    BY <1>0, <2>1 DEF CarriesOn, Patched, Worker
  <2> QED
    BY <2>1, <2>2, WriteMinds
<1>7. CASE StampDigest
  BY <1>0, <1>7 DEF StampDigest, Requeue, Minds
<1>8. CASE RemoveFinalizer
  BY <1>0, <1>8 DEF RemoveFinalizer, Requeue, Minds
<1> QED
  BY <1>1, <1>2, <1>3, <1>4, <1>5, <1>6, <1>7, <1>8

\* The object says why it was refused, unless the patch that says so failed.
Reports(s) ==
  /\ Refused(s)
  /\ "patch" \notin FaultKind => cr[s].reason = RefusalReason(cr[s].spec)

\* Every key is in mind, or its object was refused and says so.
KeysKnown == \A s \in Share : cr[s].phase # "absent" => Minded(s) \/ Reports(s)

\* What a reconcile does before its first call is done, or begins, with its
\* key; a key that is dropped is that of an object that is gone or refused.
LEMMA ReconcileMinds ==
  ASSUME IInv, KeysKnown, NEW s \in Share, Reconcile(s) PROVE KeysKnown'
<1>0. cr \in [Share -> ShareObject] /\ w.pc = "idle" /\ s \in queue
  BY DEF IInv, TypeOK, Reconcile, ReconcileGone, AddFinalizer, RefuseSpec, WaitForEnvironment,
         SecretUnreadable, NameClaimed, StartReconcile, StartDelete, Valid, Live, Taken
<1>1. \A t \in Share \ {s} : cr'[t] = cr[t] /\ (t \in queue => t \in queue')
  BY <1>0 DEF Reconcile, ReconcileGone, AddFinalizer, RefuseSpec, WaitForEnvironment,
              SecretUnreadable, NameClaimed, SetNotReady, StartReconcile, StartDelete
<1>2. cr'[s].phase # "absent" => s \in queue' \/ (w'.pc # "idle" /\ w'.key = s) \/ Reports(s)'
  <2>1. CASE ReconcileGone(s)
    BY <2>1 DEF ReconcileGone
  <2>2. CASE RefuseSpec(s)
    <3>1. CASE cr' = cr
      <4>1. ASSUME "patch" \notin FaultKind
            PROVE  cr[s].reason = RefusalReason(cr[s].spec)
        <5>1. cr[s] = [cr[s] EXCEPT !.reason = RefusalReason(cr[s].spec)]
          BY <1>0, <2>2, <3>1, <4>1 DEF RefuseSpec, SetNotReady
        <5> QED
          BY <1>0, <5>1 DEF ShareObject
      <4> QED
        BY <2>2, <3>1, <4>1 DEF RefuseSpec, Reports, Refused, Valid, Live
    <3>2. CASE cr' # cr
      BY <1>0, <2>2, <3>2 DEF RefuseSpec
    <3> QED
      BY <3>1, <3>2
  <2>3. CASE StartReconcile(s) \/ StartDelete(s)
    <3>1. Start(s).pc = "inventory" /\ Start(s).key = s
      BY DEF Start, Locals
    <3>2. Start(s) \in Worker
      BY StartType
    <3>3. w' = Start(s) \/ \E rest \in BOOLEAN : w' = [Start(s) EXCEPT !.via = "delete", !.rest = rest]
      BY <2>3 DEF StartReconcile, StartDelete
    <3> HIDE DEF Start
    <3>4. w'.pc = "inventory" /\ w'.key = s
      BY <3>1, <3>2, <3>3 DEF Worker
    <3> QED
      BY <3>4
  <2>4. CASE AddFinalizer(s) \/ WaitForEnvironment(s) \/ SecretUnreadable(s) \/ NameClaimed(s)
    BY <1>0, <2>4 DEF AddFinalizer, WaitForEnvironment, SecretUnreadable, NameClaimed
  <2> QED
    BY <2>1, <2>2, <2>3, <2>4 DEF Reconcile
<1> QED
  BY <1>0, <1>1, <1>2 DEF KeysKnown, Minded, Reports, Refused

\* Nobody else takes a key out of the queue, and an edit puts one in.
LEMMA EnvironmentMinds ==
  ASSUME IInv, KeysKnown, Environment PROVE KeysKnown'
<1>0. cr \in [Share -> ShareObject]
  BY DEF IInv, TypeOK
<1>1. w' = w /\ queue \subseteq queue'
  BY DEF Environment, UserCreates, UserEdits, UserDeletes, EnvironmentProgresses,
         EnvironmentDegrades, EnvironmentUnkeyed, EnvironmentRekeyed, EnvironmentRemoved,
         EnvironmentMoves, AgentRestarts, AgentShareStalls, ForeignShareAppears, ForeignShareLeaves
<1>2. \A s \in Share : cr'[s] = cr[s] \/ s \in queue'
  BY <1>0 DEF Environment, UserCreates, UserEdits, UserDeletes, EnvironmentProgresses,
         EnvironmentDegrades, EnvironmentUnkeyed, EnvironmentRekeyed, EnvironmentRemoved,
         EnvironmentMoves, AgentRestarts, AgentShareStalls, ForeignShareAppears, ForeignShareLeaves
<1> QED
  BY <1>1, <1>2 DEF KeysKnown, Minded, Reports, Refused

\* Every step keeps all keys.
LEMMA NextMinds == ASSUME IInv, KeysKnown, [Next]_vars PROVE KeysKnown'
<1>0. ASSUME Minds, w.pc # "idle" PROVE KeysKnown'
  BY <1>0 DEF Minds, CarriesOn, KeysKnown, Minded, Reports, Refused
<1>1. CASE Step
  <2>1. Minds
    BY <1>1, InventoryStepsMind, NameStepsMind, ShareStepsMind DEF Step
  <2>2. w.pc # "idle"
    BY <1>1 DEF Step, InventoryUnavailable, Inventory, EnsureReservedName, NameOfOtherAccount,
         ReserveFails, FlushReclaim, FlushFails, ClearReclaim, ReleaseShare, Unshare, UnshareFails,
         UnshareUnauthorized, ClearBinding, AnnotateReclaim, CreateShare, CreateConflict,
         CreateRefused, CreateFails, HandleShareConflict, MarkShareReady, StampDigest,
         DeleteInventory, DeleteName, DeleteNameFails, RemoveFinalizer
  <2> QED
    BY <1>0, <2>1, <2>2
<1>2. CASE Crash
  BY <1>2 DEF Crash, KeysKnown, Minded
<1>3. CASE WriteFails
  <2>1. Minds
    BY <1>3, RequeueMinds DEF WriteFails
  <2> QED
    BY <1>0, <1>3, <2>1 DEF WriteFails
<1>4. CASE UNCHANGED vars
  BY <1>4 DEF vars, KeysKnown, Minded, Reports, Refused
<1> QED
  BY <1>1, <1>2, <1>3, <1>4, ReconcileMinds, EnvironmentMinds DEF Next

\* It holds throughout.
LEMMA KeysAreKnown == Spec => []KeysKnown
<1>1. Init => KeysKnown
  <2>1. \A s \in Share : Absent(s).phase = "absent"
    BY DEF Absent
  <2> QED
    BY <2>1 DEF Init, KeysKnown
<1>2. IInv /\ KeysKnown /\ [Next]_vars => KeysKnown'
  BY NextMinds
<1> QED
  BY <1>1, <1>2, Invariance, PTL DEF Spec

\* For every number of objects, whatever their specs, whatever calls and
\* writes fail, status patches whose errors setNotReady discards among them,
\* and however often the manager crashes: a key leaves the queue only for the
\* worker's hands, or with an object that is gone or whose spec is refused.
THEOREM KeysKept == Spec => []NoKeyLost
<1>1. KeysKnown => NoKeyLost
  BY DEF KeysKnown, NoKeyLost, Reports
<1> QED
  BY <1>1, KeysAreKnown, PTL

\* While the patches of setNotReady are written, an object whose refusal was
\* the end of it says so: Reconcile drops no key with a condition of an earlier
\* spec, or none, left on the object.  Without the assumption it may.
THEOREM RefusalsReported ==
  ASSUME "patch" \notin FaultKind PROVE Spec => []RefusalReported
<1>1. KeysKnown => RefusalReported
  BY DEF KeysKnown, RefusalReported, Reports, Refused
<1> QED
  BY <1>1, KeysAreKnown, PTL
=============================================================================
