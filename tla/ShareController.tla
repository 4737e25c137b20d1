-------------------------- MODULE ShareController --------------------------
(***************************************************************************)
(* ZrokShareReconciler (internal/controller/share_controller.go): the one  *)
(* worker of the zrokshare controller, the ZrokShare objects in the API    *)
(* server, and the two systems it drives over the network: the zrok        *)
(* controller's REST API (shares and reserved names of our account) and    *)
(* the agent of each environment (the shares it runs).                     *)
(*                                                                         *)
(* A reconcile is a sequence of steps, one per call that leaves the        *)
(* process; everything the code does between two calls belongs to the step *)
(* of the first.  Between two steps users edit objects, agents restart,    *)
(* other people use the same account, and the manager may crash.           *)
(*                                                                         *)
(* The worker reads objects from its cache as they are now.  Every status  *)
(* or annotation patch re-reads the object, so w.obj is refreshed by it    *)
(* while w.dg keeps what the reconcile read when it began.                 *)
(***************************************************************************)
EXTENDS ShareInventory, EnvironmentStates

CONSTANTS
  UserSpec,         \* UserSpec[s]: the specs users write into object s
  ForeignName,      \* names that belong to another zrok account
  RefusedTarget,    \* upstreams --restrict-upstream refuses (none: flag off)
  RefusedBackend,   \* socks, under --restrict-upstream
  ForeignEnv,       \* where foreign shares may appear
  MaxEdits,         \* bound: user creations, edits and deletions
  FaultKind,        \* what may go wrong in a run
  MaxFaults         \* bound: failed calls, crashes, restarts, foreign steps;
                    \* a condition patch whose error is discarded is not counted

ASSUME ShareAssumption == Share # {}
ASSUME UserSpecAssumption ==
  /\ UserSpec \in [Share -> SUBSET ShareSpec]
  /\ \A s \in Share : UserSpec[s] # {}
ASSUME ForeignNameAssumption == ForeignName \subseteq Name
ASSUME ForeignEnvAssumption == ForeignEnv \subseteq Env \cup {None}
ASSUME BoundsAssumption == MaxEdits \in Nat /\ MaxFaults \in Nat

VARIABLES
  cr,      \* the ZrokShare objects in the API server
  env,     \* the state of each ZrokEnvironment
  remote,  \* shares the zrok controller knows
  agent,   \* shares the agents run
  names,   \* reserved names of our account
  queue,   \* keys in the controller's work queue, timers included
  w,       \* the worker: where the reconcile is and what it holds
  edits,   \* user operations so far
  faults   \* faults and foreign steps so far

vars == <<cr, env, remote, agent, names, queue, w, edits, faults>>

-----------------------------------------------------------------------------
(* The environments are seen through their status (EnvironmentStates).     *)
EnvReady(e) == env[e] \in {"ready", "unkeyed"}
HasZID(e)   == env[e] \in {"enabled", "ready"}

Reservation == {"unset", "reserved", "ephemeral", "private"}

\* Reasons of the Ready condition; Ready=True has reason "Ready".
Reason ==
  {"unset", "Ready", "Healing", "InvalidSpec", "UpstreamNotAllowed",
   "BackendModeNotAllowed", "EnvironmentMissing", "WaitingForEnvironment", "SecretError",
   "NameConflict", "InventoryError", "NameError", "HealError", "ShareError"}

Label == Name \cup Token \cup ForeignToken \cup {None}

\* A ZrokShare: spec, finalizer, status and the two annotations.
ShareObject ==
  [phase : {"absent", "live", "deleting"}, finalizer : BOOLEAN,
   spec : ShareSpec, token : Token \cup {None}, url : Label,
   reservation : Reservation, reason : Reason,
   digest : Digest \cup {None}, reclaim : Label]

Absent(s) ==
  [phase |-> "absent", finalizer |-> FALSE,
   spec |-> CHOOSE sp \in UserSpec[s] : TRUE, token |-> None, url |-> None,
   reservation |-> "unset", reason |-> "unset", digest |-> None, reclaim |-> None]

PC == {"idle", "inventory", "reserve", "flush", "unannotate", "release",
       "unshare", "clear", "annotate", "create", "conflict", "mark", "stamp",
       "dname", "final"}
Via == {"rebuild", "conflict", "delete", "attached"}

RemoteShare == OwnShare \cup ForeignShare

\* One reconcile's view, and what classifyShare makes of it.
ShareInventoryType == [remote : SUBSET RemoteShare, agent : SUBSET OwnShare]
ClassifiedShare ==
  [remote : SUBSET RemoteShare, agent : SUBSET OwnShare, foreignName : BOOLEAN]

\* The worker's locals.  via says for whom a token is released.
Worker ==
  [pc : PC, key : Share, obj : ShareObject, dg : Digest, zid : BOOLEAN,
   rest : BOOLEAN, listErr : BOOLEAN,
   inv : ShareInventoryType, cls : ClassifiedShare,
   via : Via, tok : Token \cup {None}, url : Label,
   old : Label, prev : BOOLEAN, released : BOOLEAN, other : BOOLEAN]

NoInventory == [remote |-> {}, agent |-> {}]

\* The locals of a reconcile of s that has read object o.
Locals(pc, s, o, zid, rest) ==
  [pc |-> pc, key |-> s, obj |-> o, dg |-> shareApplyDigest(o.spec),
   zid |-> zid, rest |-> rest, listErr |-> FALSE, inv |-> NoInventory,
   cls |-> [remote |-> {}, agent |-> {}, foreignName |-> FALSE],
   via |-> "rebuild", tok |-> None, url |-> None, old |-> None,
   prev |-> FALSE, released |-> FALSE, other |-> FALSE]

\* A reconcile of s begins.
Start(s) == Locals("inventory", s, cr[s], HasZID(cr[s].spec.env), TRUE)

\* No reconcile is running: the locals hold nothing.
Idle ==
  LET s == CHOOSE s \in Share : TRUE IN Locals("idle", s, Absent(s), FALSE, FALSE)

Init ==
  /\ cr = [s \in Share |-> Absent(s)]
  /\ env = [e \in Env |-> "ready"]
  /\ remote = {}
  /\ agent = {}
  /\ names = {}
  /\ queue = {}
  /\ w = Idle
  /\ edits = 0
  /\ faults = 0

-----------------------------------------------------------------------------
(* Helpers of the steps.                                                   *)

Fault(kind) ==
  /\ kind \in FaultKind
  /\ faults < MaxFaults
  /\ faults' = faults + 1
NoFault == faults' = faults

\* Mutant of Requeue: the result asks for no requeue.
ForgetKey == w' = Idle /\ UNCHANGED queue

\* The reconcile returns; RequeueAfter or an error puts the key back.
Requeue == w' = Idle /\ queue' = queue \cup {w.key}

\* setNotReady, setNameConflict: the condition is patched onto the object as it
\* is now.  The error of the patch is discarded, and then the object says what
\* it said before; no later step asks whether it was written.
SetNotReady(s, reason) ==
  \/ cr' = [cr EXCEPT ![s].reason = reason]
  \/ "patch" \in FaultKind /\ cr' = cr

StopWith(reason) == SetNotReady(w.key, reason) /\ Requeue

\* A patch of the object leaves the worker holding what the server returned.
Patched(x, o) == [x EXCEPT !.obj = o]

\* Every write to an object is an event for its key.
Write(o) ==
  /\ cr' = [cr EXCEPT ![w.key] = o]
  /\ queue' = IF o = cr[w.key] THEN queue ELSE queue \cup {w.key}

\* AssignedURL: the frontend's label; a private share's token, if the object
\* still says private.
AssignedURL(o, r) ==
  IF r.mode = "public" THEN FrontendName(r)
  ELSE IF o.spec.mode = "private" THEN r.token ELSE None

\* From "adopt" on: adopt, release what is ours and drifted, or create.
AdoptOrRebuild(x) ==
  LET ready == adoptableAgentShare(x.obj, x.cls, x.dg.target, x.dg)
      ours  == {r \in x.cls.remote : \/ TargetsEqual(r.target, x.dg.target)
                                     \/ r.token = x.obj.token}
      drop  == FirstOf(x.cls.agent, ours)
  IN  IF ready # {}
      THEN LET d == CHOOSE d \in ready : TRUE
           IN  [x EXCEPT !.pc = "mark", !.tok = d.token,
                         !.url = AssignedURL(x.obj, d)]
      ELSE IF drop # {}
      THEN [x EXCEPT !.pc = "release", !.via = "rebuild",
                     !.tok = (CHOOSE r \in drop : TRUE).token,
                     !.old = liveFrontendName(x.obj, x.cls),
                     !.prev = x.obj.reservation = "reserved"]
      ELSE [x EXCEPT !.pc = "create"]

\* Where a reconcile goes on after flushReclaimName: to the creation when it
\* has already released the old share, else to the adoption.
AfterFlush(x) == IF x.released THEN [x EXCEPT !.pc = "create"] ELSE AdoptOrRebuild(x)

\* flushReclaimName: nothing pending, a pending name that is wanted again, or
\* a name to delete.
FlushReclaimName(x) ==
  IF x.obj.reclaim = None THEN AfterFlush(x)
  ELSE [x EXCEPT !.pc = IF x.obj.reclaim = x.obj.spec.name
                        THEN "unannotate" ELSE "flush"]

\* Mutant of ReclaimPreviousName: the old name is left to itself.
KeepPreviousName(x) == [x EXCEPT !.pc = "create"]

\* reclaimPreviousName, after the old share was released.
ReclaimPreviousName(x) ==
  IF \/ ~x.prev
     \/ x.old = None
     \/ x.old = x.obj.spec.name
     \/ x.obj.spec.policy = "Retain"
  THEN [x EXCEPT !.pc = "create"]
  ELSE [x EXCEPT !.pc = "annotate"]

\* reconcileDelete after the share is gone: delete the name, or finish.
DeleteNameOrFinish(x) ==
  [x EXCEPT !.pc = IF /\ x.rest
                      /\ x.obj.spec.policy # "Retain"
                      /\ x.dg.name # None
                      /\ ~x.other
                   THEN "dname" ELSE "final"]

-----------------------------------------------------------------------------
(* Reconcile, up to the first call that leaves the process.                *)

Taken(s) == w.pc = "idle" /\ s \in queue

\* The key's object is gone: NotFound is ignored.
ReconcileGone(s) ==
  /\ Taken(s)
  /\ cr[s].phase = "absent"
  /\ queue' = queue \ {s}
  /\ UNCHANGED <<cr, env, remote, agent, names, w, edits, faults>>

\* ensureFinalizerAndLabels: the Update's own event brings the key back.
AddFinalizer(s) ==
  /\ Taken(s)
  /\ cr[s].phase = "live"
  /\ ~cr[s].finalizer
  /\ cr' = [cr EXCEPT ![s].finalizer = TRUE]
  /\ UNCHANGED <<env, remote, agent, names, queue, w, edits, faults>>

InvalidSpec(sp) ==
  \/ sp.mode = "private" /\ sp.name # None
  \/ sp.mode = "public" /\ sp.priv # None

NotAllowed(sp) == sp.target \in RefusedTarget \/ sp.backend \in RefusedBackend

RefusalReason(sp) ==
  CASE InvalidSpec(sp) -> "InvalidSpec"
    [] ~InvalidSpec(sp) /\ sp.target \in RefusedTarget -> "UpstreamNotAllowed"
    [] OTHER -> "BackendModeNotAllowed"

\* A live object with its finalizer: the checks of Reconcile come in order.
Live(s) == Taken(s) /\ cr[s].phase = "live" /\ cr[s].finalizer
Valid(s) == Live(s) /\ ~InvalidSpec(cr[s].spec) /\ ~NotAllowed(cr[s].spec)

\* Mutant of RefuseSpec: the refusal is not reported.
RefuseSpecQuietly(s) ==
  /\ Live(s)
  /\ ~Valid(s)
  /\ queue' = queue \ {s}
  /\ UNCHANGED <<cr, env, remote, agent, names, w, edits, faults>>

\* Nothing is requeued: only the next edit, or the event of a patch that was
\* written and changed something, brings the key back.
RefuseSpec(s) ==
  /\ Live(s)
  /\ ~Valid(s)
  /\ SetNotReady(s, RefusalReason(cr[s].spec))
  /\ queue' = IF cr' = cr THEN queue \ {s} ELSE queue
  /\ UNCHANGED <<env, remote, agent, names, w, edits, faults>>

WaitForEnvironment(s) ==
  /\ Valid(s)
  /\ ~EnvReady(cr[s].spec.env)
  /\ SetNotReady(s, IF env[cr[s].spec.env] = "missing"
                    THEN "EnvironmentMissing" ELSE "WaitingForEnvironment")
  /\ UNCHANGED <<env, remote, agent, names, queue, w, edits, faults>>

\* readEnableToken or readBasicAuth fails.
SecretUnreadable(s) ==
  /\ Valid(s)
  /\ EnvReady(cr[s].spec.env)
  /\ Fault("secret")
  /\ SetNotReady(s, "SecretError")
  /\ UNCHANGED <<env, remote, agent, names, queue, w, edits>>

Claimants(s) == otherShareWithFrontendName(s, cr[s].spec.name, cr)

\* Mutant of NameClaimed: the conflict is reported and not looked at again.
NameClaimedForGood(s) ==
  /\ Valid(s)
  /\ EnvReady(cr[s].spec.env)
  /\ Claimants(s) # {}
  /\ SetNotReady(s, "NameConflict")
  /\ queue' = IF cr' = cr THEN queue \ {s} ELSE queue
  /\ UNCHANGED <<env, remote, agent, names, w, edits, faults>>

\* setNameConflict asks for another look in two minutes.
NameClaimed(s) ==
  /\ Valid(s)
  /\ EnvReady(cr[s].spec.env)
  /\ Claimants(s) # {}
  /\ SetNotReady(s, "NameConflict")
  /\ UNCHANGED <<env, remote, agent, names, queue, w, edits, faults>>

StartReconcile(s) ==
  /\ Valid(s)
  /\ EnvReady(cr[s].spec.env)
  /\ Claimants(s) = {}
  /\ w' = Start(s)
  /\ queue' = queue \ {s}
  /\ UNCHANGED <<cr, env, remote, agent, names, edits, faults>>

\* reconcileDelete: without an environment or its enable token, REST is
\* skipped (rest = FALSE); a missing token Secret counts as a fault.
StartDelete(s) ==
  /\ Taken(s)
  /\ cr[s].phase = "deleting"
  /\ \E rest \in BOOLEAN :
       /\ env[cr[s].spec.env] = "missing" => ~rest
       /\ IF rest \/ env[cr[s].spec.env] = "missing" THEN NoFault ELSE Fault("secret")
       /\ w' = [Start(s) EXCEPT !.via = "delete", !.rest = rest]
  /\ queue' = queue \ {s}
  /\ UNCHANGED <<cr, env, remote, agent, names, edits>>

-----------------------------------------------------------------------------
(* The inventory: ListShares of the environment and the agent's Status.    *)

\* What loadInventory returns when the listing or the Status call fails.
loadInventory(listFails, statusFails) ==
  [remote |-> IF listFails \/ ~w.zid THEN {}
              ELSE {r \in remote : r.env = w.dg.env},
   agent  |-> IF statusFails THEN {} ELSE {d \in agent : d.env = w.dg.env}]

\* The listing fails by a fault, and always without an enable token; without
\* an EnvZID it is not tried.
InventoryOutcome(listFails, statusFails) ==
  /\ listFails => w.zid
  /\ ~w.rest /\ w.zid => listFails
  /\ listFails /\ w.rest => "list" \in FaultKind
  /\ statusFails => "status" \in FaultKind
  /\ LET cost == (IF listFails /\ w.rest THEN 1 ELSE 0) + (IF statusFails THEN 1 ELSE 0)
     IN  faults + cost <= MaxFaults /\ faults' = faults + cost

\* Reconcile with a failed listing: stay ready on the agent's word, or stop.
InventoryUnavailable ==
  /\ w.pc = "inventory" /\ w.via = "rebuild"
  /\ \E statusFails \in BOOLEAN :
       /\ InventoryOutcome(TRUE, statusFails)
       /\ LET inv == loadInventory(TRUE, statusFails)
          IN  \E c \in classifyShare(w.obj, w.dg.target, inv) :
                LET ready == adoptableAgentShare(w.obj, c, w.dg.target, w.dg)
                IN  IF ready = {} THEN StopWith("InventoryError")
                    ELSE \E d \in ready :
                           /\ w' = [w EXCEPT !.pc = "mark", !.tok = d.token,
                                             !.url = AssignedURL(w.obj, d)]
                           /\ UNCHANGED <<cr, queue>>
  /\ UNCHANGED <<env, remote, agent, names, edits>>

\* Mutants of AfterInventory: a name is reserved even if none is asked for;
\* the name is not reserved before the old share is touched.
ReserveAlways(x) == [x EXCEPT !.pc = "reserve"]
ReserveNever(x) == FlushReclaimName(x)

\* ensureReservedName has nothing to do without a nameSelection.
AfterInventory(x) ==
  IF x.obj.spec.name = None THEN FlushReclaimName(x) ELSE [x EXCEPT !.pc = "reserve"]

\* Reconcile with a listing: a name held by a foreign share stops it here,
\* before anything was written anywhere.
Inventory ==
  /\ w.pc = "inventory" /\ w.via = "rebuild"
  /\ \E statusFails \in BOOLEAN :
       /\ InventoryOutcome(FALSE, statusFails)
       /\ LET inv == loadInventory(FALSE, statusFails)
          IN  \E c \in classifyShare(w.obj, w.dg.target, inv) :
                LET x == [w EXCEPT !.inv = inv, !.cls = c]
                IN  IF c.foreignName THEN StopWith("NameConflict")
                    ELSE w' = AfterInventory(x) /\ UNCHANGED <<cr, queue>>
  /\ UNCHANGED <<env, remote, agent, names, edits>>

\* ensureReservedName: CreateShareName (409 is success), UpdateShareName.
EnsureReservedName ==
  /\ w.pc = "reserve"
  /\ w.obj.spec.name \notin ForeignName
  /\ names' = names \cup {w.obj.spec.name}
  /\ w' = FlushReclaimName(w)
  /\ UNCHANGED <<cr, env, remote, agent, queue, edits, faults>>

\* UpdateShareName answers 401 for another account's name.
NameOfOtherAccount ==
  /\ w.pc = "reserve"
  /\ w.obj.spec.name \in ForeignName
  /\ StopWith("NameConflict")
  /\ UNCHANGED <<env, remote, agent, names, edits, faults>>

\* Either call fails, before or after the server created the name.
ReserveFails ==
  /\ w.pc = "reserve"
  /\ Fault("name")
  /\ \/ UNCHANGED names
     \/ w.obj.spec.name \notin ForeignName /\ names' = names \cup {w.obj.spec.name}
  /\ StopWith("NameError")
  /\ UNCHANGED <<env, remote, agent, edits>>

-----------------------------------------------------------------------------
(* flushReclaimName: DeleteShareName of the name the annotation keeps.     *)

Attached(n) == \E r \in remote : r.name = n

\* DeleteShareName in the namespace of the object's nameSelection.  Without a
\* nameSelection the namespace token is empty and no name is found (404).
Deletable(n) == n \in names /\ w.obj.spec.name # None

FlushReclaim ==
  /\ w.pc = "flush"
  /\ IF Deletable(w.obj.reclaim) /\ Attached(w.obj.reclaim)
     THEN Requeue /\ UNCHANGED names              \* 409: try again in 3s
     ELSE /\ names' = IF Deletable(w.obj.reclaim) THEN names \ {w.obj.reclaim} ELSE names
          /\ w' = [w EXCEPT !.pc = "unannotate"]
          /\ UNCHANGED queue
  /\ UNCHANGED <<cr, env, remote, agent, edits, faults>>

FlushFails ==
  /\ w.pc = "flush"
  /\ Fault("name")
  /\ \/ UNCHANGED names
     \/ ~Attached(w.obj.reclaim) /\ Deletable(w.obj.reclaim) /\ names' = names \ {w.obj.reclaim}
  /\ Requeue
  /\ UNCHANGED <<cr, env, remote, agent, edits>>

\* patchShareAnnotation with an empty value.
ClearReclaim ==
  /\ w.pc = "unannotate"
  /\ LET o == [cr[w.key] EXCEPT !.reclaim = None]
     IN  Write(o) /\ w' = AfterFlush(Patched(w, o))
  /\ UNCHANGED <<env, remote, agent, names, edits, faults>>

-----------------------------------------------------------------------------
(* releaseOurs: the agent's ReleaseShare, whose error is ignored, then the *)
(* controller's Unshare.                                                   *)

\* The share w.tok is gone: go on with what the release was for.
AfterRelease ==
  IF w.via \in {"rebuild", "delete"}
  THEN w' = [w EXCEPT !.pc = "clear"] /\ UNCHANGED queue
  ELSE Requeue

\* Mutant of UnshareDue: the guard on EnvZID is the wrong way round.
UnshareWithoutZID == ~w.zid /\ w.rest

\* The controller is asked as well, if there is an EnvZID and a token.
UnshareDue == w.zid /\ w.rest

ReleaseShare ==
  /\ w.pc = "release"
  /\ \/ /\ agent' = {d \in agent : ~(d.token = w.tok /\ d.env = w.dg.env)}
        /\ NoFault
     \/ Fault("release") /\ UNCHANGED agent
  /\ IF UnshareDue THEN w' = [w EXCEPT !.pc = "unshare"] /\ UNCHANGED queue
                   ELSE AfterRelease
  /\ UNCHANGED <<cr, env, remote, names, edits>>

\* Unshare in this environment; a share that is not there is a 404: success.
Unshared == {r \in remote : ~(r.token = w.tok /\ r.env = w.dg.env)}

Unshare ==
  /\ w.pc = "unshare"
  /\ remote' = Unshared
  /\ AfterRelease
  /\ UNCHANGED <<cr, env, agent, names, edits, faults>>

\* The call fails, before or after the server acted on it.
UnshareFails ==
  /\ w.pc = "unshare"
  /\ Fault("unshare")
  /\ remote' \in {remote, Unshared}
  /\ IF w.via \in {"rebuild", "conflict"} THEN StopWith("HealError")
                                          ELSE Requeue /\ UNCHANGED cr
  /\ UNCHANGED <<env, agent, names, edits>>

\* While deleting, a 401 leaves the remote share behind.
UnshareUnauthorized ==
  /\ w.pc = "unshare" /\ w.via = "delete"
  /\ Fault("unauthorized")
  /\ AfterRelease
  /\ UNCHANGED <<cr, env, remote, agent, names, edits>>

\* Mutant of clearShareBinding: Ready stays true.
clearShareToken(o) == [o EXCEPT !.token = None, !.url = None]

clearShareBinding(o) ==
  [o EXCEPT !.token = None, !.url = None, !.reason = "Healing"]

\* clearShareBinding is skipped when the worker's copy holds no binding.
ClearBinding ==
  /\ w.pc = "clear"
  /\ LET bound == w.obj.token # None \/ w.obj.url # None
         o == IF bound THEN clearShareBinding(cr[w.key]) ELSE cr[w.key]
         x == IF bound THEN Patched(w, o) ELSE w
     IN  /\ Write(o)
         /\ w' = IF w.via = "delete" THEN DeleteNameOrFinish(x)
                 ELSE ReclaimPreviousName([x EXCEPT !.released = TRUE])
  /\ UNCHANGED <<env, remote, agent, names, edits, faults>>

\* patchShareAnnotation(reclaim-name, oldName), then flushReclaimName.
AnnotateReclaim ==
  /\ w.pc = "annotate"
  /\ LET o == [cr[w.key] EXCEPT !.reclaim = w.old]
     IN  Write(o) /\ w' = FlushReclaimName(Patched(w, o))
  /\ UNCHANGED <<env, remote, agent, names, edits, faults>>

-----------------------------------------------------------------------------
(* SharePublic and SharePrivate.                                           *)

\* The share the agent is asked for: mode, backend and credentials as read
\* when the reconcile began, the rest from the object as last patched.
Requested(t) ==
  [token |-> t, env |-> w.dg.env, target |-> w.obj.spec.target,
   name |-> IF w.dg.mode = "public" THEN w.obj.spec.name ELSE None,
   mode |-> w.dg.mode, backend |-> w.dg.backend,
   closed |-> w.obj.spec.closed, opts |-> w.obj.spec.opts,
   auth |-> w.dg.auth, active |-> TRUE, by |-> w.key]

\* A token nobody remembers, or the one the user asks for.
InUse(t) ==
  \/ \E r \in remote \cup agent : r.token = t
  \/ \E s \in Share : cr[s].token = t \/ cr[s].url = t \/ cr[s].reclaim = t
Fresh ==
  IF w.dg.mode = "private" /\ w.obj.spec.priv # None
  THEN {t \in {w.obj.spec.priv} : ~\E r \in remote : r.token = t}
  ELSE {t \in Token \ PrivToken : ~InUse(t)}

WantedName == Requested(None).name

\* The environment is there, and the name is ours and free.
Creatable ==
  /\ env[w.dg.env] # "missing"
  /\ WantedName # None => WantedName \in names /\ ~Attached(WantedName)

CreateShare ==
  /\ w.pc = "create"
  /\ Creatable
  /\ \E t \in Fresh :
       /\ remote' = remote \cup {Requested(t)}
       /\ agent' = agent \cup {Requested(t)}
       /\ w' = [w EXCEPT !.pc = "mark", !.tok = t,
                         !.url = AssignedURL(w.obj, Requested(t))]
  /\ UNCHANGED <<cr, env, names, queue, edits, faults>>

\* 409: the name is attached to some share of the account.
CreateConflict ==
  /\ w.pc = "create"
  /\ env[w.dg.env] # "missing"
  /\ WantedName \in names /\ Attached(WantedName)
  /\ w' = [w EXCEPT !.pc = "conflict"]
  /\ UNCHANGED <<cr, env, remote, agent, names, queue, edits, faults>>

\* No agent, a name that is not reserved, or a private token in use.
CreateRefused ==
  /\ w.pc = "create"
  /\ \/ env[w.dg.env] = "missing"
     \/ WantedName # None /\ WantedName \notin names
     \/ w.dg.mode = "private" /\ Fresh = {}
  /\ StopWith("ShareError")
  /\ UNCHANGED <<env, remote, agent, names, edits, faults>>

\* The call fails or times out: nothing was made, or the share exists
\* remotely, and perhaps in the agent, and nobody was told its token.
CreateFails ==
  /\ w.pc = "create"
  /\ Fault("create")
  /\ \/ UNCHANGED <<remote, agent>>
     \/ /\ Creatable
        /\ \E t \in Fresh :
             /\ remote' = remote \cup {Requested(t)}
             /\ agent' \in {agent, agent \cup {Requested(t)}}
  /\ StopWith("ShareError")
  /\ UNCHANGED <<env, names, edits>>

\* handleShareConflict: a new inventory and the same ownership rules.
HandleShareConflict ==
  /\ w.pc = "conflict"
  /\ \E listFails, statusFails \in BOOLEAN :
       /\ InventoryOutcome(listFails, statusFails)
       /\ LET inv == loadInventory(listFails, statusFails)
          IN  \E c \in classifyShare(w.obj, w.dg.target, inv) :
                LET ready == adoptableAgentShare(w.obj, c, w.dg.target, w.dg)
                    ours  == {r \in c.remote : TargetsEqual(r.target, w.dg.target)}
                IN  CASE listFails -> StopWith("InventoryError")
                      [] ~listFails /\ c.foreignName -> StopWith("NameConflict")
                      [] ~listFails /\ ~c.foreignName /\ ready # {} ->
                           \E d \in ready :
                             /\ w' = [w EXCEPT !.pc = "mark", !.tok = d.token,
                                               !.url = AssignedURL(w.obj, d)]
                             /\ UNCHANGED <<cr, queue>>
                      [] ~listFails /\ ~c.foreignName /\ ready = {} /\ ours # {} ->
                           \E r \in ours :
                             /\ w' = [w EXCEPT !.pc = "release",
                                               !.via = "conflict", !.tok = r.token]
                             /\ UNCHANGED <<cr, queue>>
                      [] OTHER -> StopWith("ShareError")
  /\ UNCHANGED <<env, remote, agent, names, edits>>

-----------------------------------------------------------------------------
(* markShareReady: the status patch, then the applied-digest annotation.   *)

reservation(mode, name) ==
  IF mode = "private" THEN "private"
  ELSE IF name # None THEN "reserved" ELSE "ephemeral"

MarkShareReady ==
  /\ w.pc = "mark"
  /\ LET o == [cr[w.key] EXCEPT
                 !.token = w.tok, !.url = w.url, !.reason = "Ready",
                 !.reservation = reservation(w.obj.spec.mode, cr[w.key].spec.name)]
     IN  Write(o) /\ w' = [Patched(w, o) EXCEPT !.pc = "stamp"]
  /\ UNCHANGED <<env, remote, agent, names, edits, faults>>

StampDigest ==
  /\ w.pc = "stamp"
  /\ cr' = [cr EXCEPT ![w.key].digest = w.dg]
  /\ Requeue
  /\ UNCHANGED <<env, remote, agent, names, edits, faults>>

-----------------------------------------------------------------------------
(* reconcileDelete.                                                        *)

\* The token to release: the status token, or found under the name when no
\* other object claims it.
DeleteTokens(inv, claimed) ==
  IF w.obj.token # None THEN {w.obj.token}
  ELSE IF claimed THEN {}
  ELSE FirstOf({d.token : d \in agentByName(inv.agent, w.dg.name)},
               {r.token : r \in {q \in FindByFrontendName(inv.remote, w.dg.name) :
                                   TargetsEqual(q.target, w.dg.target)}})

DeleteInventory ==
  /\ w.pc = "inventory" /\ w.via = "delete"
  /\ \E listFails, statusFails \in BOOLEAN :
       /\ InventoryOutcome(listFails, statusFails)
       /\ LET inv     == loadInventory(listFails, statusFails)
              claimed == otherShareWithFrontendName(w.key, w.dg.name, cr) # {}
              toks    == DeleteTokens(inv, claimed)
              x       == [w EXCEPT !.inv = inv, !.listErr = listFails,
                                   !.other = claimed]
          IN  \/ \E t \in toks :
                   /\ isOurShareToken(w.obj, t, inv)
                   /\ w' = [x EXCEPT !.pc = "release", !.tok = t]
              \/ /\ \/ toks = {}
                    \/ \E t \in toks : ~isOurShareToken(w.obj, t, inv)
                 /\ w' = DeleteNameOrFinish(x)
  /\ UNCHANGED <<cr, env, remote, agent, names, queue, edits>>

\* Mutant of InventoryLost: a failed listing passes for an empty one.
InventoryNeverLost == FALSE

\* The inventory says nothing about who holds the name.
InventoryLost == w.zid /\ w.listErr

\* DeleteShareName.  409: release the attached share if it is ours, retry if
\* the listing failed, else leave the name.  401, 404: the name stays away.
DeleteName ==
  /\ w.pc = "dname"
  /\ IF Deletable(w.dg.name) /\ Attached(w.dg.name)
     THEN /\ UNCHANGED names
          /\ \E r \in FindByFrontendName(remote, w.dg.name) :
               IF isOurShareToken(w.obj, r.token, w.inv)
               THEN /\ w' = [w EXCEPT !.pc = "release", !.via = "attached",
                                      !.tok = r.token]
                    /\ UNCHANGED queue
               ELSE IF InventoryLost THEN Requeue
               ELSE w' = [w EXCEPT !.pc = "final"] /\ UNCHANGED queue
     ELSE /\ names' = IF Deletable(w.dg.name) THEN names \ {w.dg.name} ELSE names
          /\ w' = [w EXCEPT !.pc = "final"]
          /\ UNCHANGED queue
  /\ UNCHANGED <<cr, env, remote, agent, edits, faults>>

DeleteNameFails ==
  /\ w.pc = "dname"
  /\ Fault("name")
  /\ \/ UNCHANGED names
     \/ ~Attached(w.dg.name) /\ Deletable(w.dg.name) /\ names' = names \ {w.dg.name}
  /\ Requeue
  /\ UNCHANGED <<cr, env, remote, agent, edits>>

\* The Update carries a resource version: an object that changed under the
\* worker makes it fail, and the delete is retried.
RemoveFinalizer ==
  /\ w.pc = "final"
  /\ IF cr[w.key] = w.obj
     THEN /\ cr' = [cr EXCEPT ![w.key] = Absent(w.key)]
          /\ w' = Idle
          /\ queue' = queue \cup {w.key}
     ELSE Requeue /\ UNCHANGED cr
  /\ UNCHANGED <<env, remote, agent, names, edits, faults>>

\* The manager restarts: the locals are lost, the objects come back from the
\* initial list.
Crash ==
  /\ w.pc # "idle"
  /\ Fault("crash")
  /\ w' = Idle
  /\ queue' = queue \cup {s \in Share : cr[s].phase # "absent"}
  /\ UNCHANGED <<cr, env, remote, agent, names, edits>>

\* A write to the object fails and the reconcile returns its error: all that
\* the calls before it did stays, and only this key comes back.
WriteFails ==
  /\ w.pc \in {"unannotate", "clear", "annotate", "mark", "stamp", "final"}
  /\ Fault("write")
  /\ Requeue
  /\ UNCHANGED <<cr, env, remote, agent, names, edits>>

-----------------------------------------------------------------------------
(* Users.                                                                  *)

Edit == edits < MaxEdits /\ edits' = edits + 1

UserCreates(s) ==
  /\ cr[s].phase = "absent"
  /\ Edit
  /\ \E sp \in UserSpec[s] :
       cr' = [cr EXCEPT ![s] = [Absent(s) EXCEPT !.phase = "live", !.spec = sp]]
  /\ queue' = queue \cup {s}
  /\ UNCHANGED <<env, remote, agent, names, w, faults>>

UserEdits(s) ==
  /\ cr[s].phase # "absent"
  /\ Edit
  /\ \E sp \in UserSpec[s] \ {cr[s].spec} : cr' = [cr EXCEPT ![s].spec = sp]
  /\ queue' = queue \cup {s}
  /\ UNCHANGED <<env, remote, agent, names, w, faults>>

\* Without a finalizer the object is gone at once.
UserDeletes(s) ==
  /\ cr[s].phase = "live"
  /\ Edit
  /\ cr' = [cr EXCEPT ![s] = IF cr[s].finalizer
                             THEN [cr[s] EXCEPT !.phase = "deleting"] ELSE Absent(s)]
  /\ queue' = queue \cup {s}
  /\ UNCHANGED <<env, remote, agent, names, w, faults>>

-----------------------------------------------------------------------------
(* The environments, their agents, and other users of the account.         *)

\* mapEnvToShares.
SharesOf(e) == {s \in Share : cr[s].phase # "absent" /\ cr[s].spec.env = e}

\* The status of an environment changes as EnvironmentContract allows.
EnvironmentMoves(e, to) ==
  /\ to \in Follows(env[e])
  /\ env' = [env EXCEPT ![e] = to]
  /\ queue' = queue \cup SharesOf(e)

\* The environment controller brings an environment up (again).
EnvironmentProgresses(e) ==
  /\ \/ env[e] = "missing" /\ EnvironmentMoves(e, "pending")
     \/ env[e] = "pending" /\ EnvironmentMoves(e, "enabled")
     \/ env[e] = "enabled" /\ EnvironmentMoves(e, "ready")
  /\ UNCHANGED <<cr, remote, agent, names, w, edits, faults>>

\* It finds the EnvZID that it cleared in the Secret again.
EnvironmentRekeyed(e) ==
  /\ env[e] = "unkeyed"
  /\ EnvironmentMoves(e, "ready")
  /\ UNCHANGED <<cr, remote, agent, names, w, edits, faults>>

\* Its agent becomes unreachable: Ready turns false.
EnvironmentDegrades(e) ==
  /\ Fault("env")
  /\ \/ env[e] = "ready" /\ EnvironmentMoves(e, "enabled")
     \/ env[e] = "unkeyed" /\ EnvironmentMoves(e, "pending")
  /\ UNCHANGED <<cr, remote, agent, names, w, edits>>

\* A cache that does not show the identity Secret yet: EnvZID is cleared,
\* and Ready stays as it is.
EnvironmentUnkeyed(e) ==
  /\ Fault("unkey")
  /\ \/ env[e] = "ready" /\ EnvironmentMoves(e, "unkeyed")
     \/ env[e] = "enabled" /\ EnvironmentMoves(e, "pending")
  /\ UNCHANGED <<cr, remote, agent, names, w, edits>>

\* The environment controller lets an environment go.  It began to when no
\* live share referred to it, but shares may have come since; disabling it
\* unshares what it shared.
EnvironmentRemoved(e) ==
  /\ Fault("removed")
  /\ EnvironmentMoves(e, "missing")
  /\ remote' = {r \in remote : r.env # e}
  /\ agent' = {d \in agent : d.env # e}
  /\ UNCHANGED <<cr, names, w, edits>>

\* The agent pod restarts with an empty registry; the shares it stopped in
\* time are gone remotely as well.
AgentRestarts(e) ==
  /\ Fault("restart")
  /\ agent' = {d \in agent : d.env # e}
  /\ \E gone \in SUBSET {r \in remote \cap agent : r.env = e} : remote' = remote \ gone
  /\ agent' # agent
  /\ UNCHANGED <<cr, env, names, queue, w, edits>>

\* An agent share loses its connection: Status no longer says active.
AgentShareStalls ==
  /\ Fault("stall")
  /\ \E d \in agent : d.active /\ agent' = (agent \ {d}) \cup {[d EXCEPT !.active = FALSE]}
  /\ UNCHANGED <<cr, env, remote, names, queue, w, edits>>

\* Someone shares under a name of this account, here or elsewhere.
ForeignShareAppears ==
  /\ Fault("foreign")
  /\ \E r \in ForeignShare :
       /\ r.env \in ForeignEnv
       /\ r.name # None => r.name \notin ForeignName /\ ~Attached(r.name)
       /\ FindByToken(remote, r.token) = {}
       /\ remote' = remote \cup {r}
       /\ names' = names \cup ({r.name} \ {None})
  /\ UNCHANGED <<cr, env, agent, queue, w, edits>>

ForeignShareLeaves ==
  /\ \E r \in remote : r.token \in ForeignToken /\ remote' = remote \ {r}
  /\ UNCHANGED <<cr, env, agent, names, queue, w, edits, faults>>

-----------------------------------------------------------------------------
Reconcile(s) ==
  \/ ReconcileGone(s)
  \/ AddFinalizer(s)
  \/ RefuseSpec(s)
  \/ WaitForEnvironment(s)
  \/ SecretUnreadable(s)
  \/ NameClaimed(s)
  \/ StartReconcile(s)
  \/ StartDelete(s)

\* The steps of a reconcile under way.
Step ==
  \/ InventoryUnavailable
  \/ Inventory
  \/ EnsureReservedName
  \/ NameOfOtherAccount
  \/ ReserveFails
  \/ FlushReclaim
  \/ FlushFails
  \/ ClearReclaim
  \/ ReleaseShare
  \/ Unshare
  \/ UnshareFails
  \/ UnshareUnauthorized
  \/ ClearBinding
  \/ AnnotateReclaim
  \/ CreateShare
  \/ CreateConflict
  \/ CreateRefused
  \/ CreateFails
  \/ HandleShareConflict
  \/ MarkShareReady
  \/ StampDigest
  \/ DeleteInventory
  \/ DeleteName
  \/ DeleteNameFails
  \/ RemoveFinalizer

Environment ==
  \/ \E s \in Share : UserCreates(s) \/ UserEdits(s) \/ UserDeletes(s)
  \/ \E e \in Env : \/ EnvironmentProgresses(e)
                   \/ EnvironmentDegrades(e)
                   \/ EnvironmentUnkeyed(e)
                   \/ EnvironmentRekeyed(e)
                   \/ EnvironmentRemoved(e)
                   \/ AgentRestarts(e)
  \/ AgentShareStalls
  \/ ForeignShareAppears
  \/ ForeignShareLeaves

Next == (\E s \in Share : Reconcile(s)) \/ Step \/ Crash \/ WriteFails \/ Environment

Spec == Init /\ [][Next]_vars

\* A reconcile under way goes on, and a key that keeps being ready in the
\* work queue is served: the queue is first-in first-out.  An environment does
\* not stay unkeyed (EnvironmentController!Converges).
Fairness ==
  /\ WF_vars(Step)
  /\ \A s \in Share : SF_vars(Reconcile(s))
  /\ \A e \in Env : WF_vars(EnvironmentRekeyed(e))
FairSpec == Spec /\ Fairness
-----------------------------------------------------------------------------
(* Properties.                                                             *)

\* Every variable has its type.  The token in the worker's hands, to adopt, to
\* release or to report, is never that of a share the operator did not make.
TypeOK ==
  /\ cr \in [Share -> ShareObject]
  /\ env \in [Env -> EnvState]
  /\ remote \subseteq RemoteShare
  /\ agent \subseteq OwnShare
  /\ names \subseteq Name
  /\ queue \subseteq Share
  /\ w \in Worker
  /\ edits \in 0 .. MaxEdits
  /\ faults \in 0 .. MaxFaults

\* ensureReservedName is called only with a name: with the types, this is what
\* every step relies on.
NameToReserve == w.pc = "reserve" => w.obj.spec.name # None
IInv == TypeOK /\ NameToReserve

\* No step of the worker removes a share the operator did not make, whatever
\* name it holds and whatever failed before (share_inventory.go: "never
\* Unshare that holder").
ForeignUntouched ==
  [][w' # w => \A r \in remote : r.token \in ForeignToken => r \in remote']_vars

Own == {r \in remote : r.token \in Token}

\* Whoever is being released for a rebuild, the name its successor needs is
\* reserved already: a refused name never costs a working share
\* (ensureReservedName comes before releaseAndClear).
ReservedBeforeRelease ==
  w.pc \in {"release", "unshare"} /\ w.via = "rebuild" =>
    w.obj.spec.name \in names \cup {None}

\* The token is recorded, or in the hands of the worker.
Held(r) ==
  \/ cr[r.by].token = r.token
  \/ w.pc # "idle" /\ w.key = r.by /\ w.tok = r.token

\* A later reconcile finds the share again under its reserved name.
Discoverable(r) ==
  /\ cr[r.by].phase # "absent"
  /\ r.name # None
  /\ r.name = cr[r.by].spec.name
  /\ TargetsEqual(r.target, cr[r.by].spec.target)

\* Without faults no share outlives the operator's knowledge of its token:
\* across any edits and deletions, each share the operator made is recorded
\* in its object's status or is the one the worker is dealing with.
EveryShareHeld == \A r \in Own : Held(r)

\* Lost answers, crashes and failed calls leave no share behind that a later
\* reconcile cannot find.
NoOrphans == \A r \in Own : Held(r) \/ Discoverable(r)

\* An object that says Ready has a share that the controller lists and the
\* agent runs, unless the worker is replacing it right now.
ReadyIsServed ==
  \A s \in Share :
    cr[s].phase = "live" /\ cr[s].reason = "Ready" =>
      \/ \E r \in remote \cap agent : r.token = cr[s].token /\ r.by = s
      \/ w.pc \in {"unshare", "clear"} /\ w.key = s

\* A share is released only on behalf of the object it was made for.
ReleasesOwnOnly ==
  w.pc \in {"release", "unshare"} =>
    \A r \in Own : r.token = w.tok => r.by = w.key

\* No two objects hold the same share.
TokenExclusive ==
  \A s, t \in Share : s # t /\ cr[s].token # None => cr[s].token # cr[t].token

\* The shares, the recorded tokens and the share in the worker's hands.
Ledger == {[token |-> r.token, by |-> r.by] : r \in Own}
Bound  == [s \in Share |-> cr[s].token]
Hand   == IF w.pc = "mark" THEN {[token |-> w.tok, by |-> w.key]} ELSE {}
Binding == INSTANCE ShareBinding WITH shares <- Ledger, bound <- Bound, hand <- Hand

\* The reconciler implements ShareBinding: SharePublic is called only for an
\* object none of whose shares is left, markShareReady records the token of the
\* one share the object has and of no other object's, and clearShareBinding and
\* the finalizer drop a token only after the share behind it is gone.
KeepsBinding == Binding!Spec

\* The spec, as it is now, is one that Reconcile refuses without a requeue.
Refused(s) ==
  /\ cr[s].phase = "live" /\ cr[s].finalizer
  /\ InvalidSpec(cr[s].spec) \/ NotAllowed(cr[s].spec)

\* Somebody will look at s again without being asked to.
Minded(s) == s \in queue \/ (w.pc # "idle" /\ w.key = s)

\* No object is lost sight of: whatever call fails, whatever status patch is
\* not written, wherever the manager crashes and however a reconcile ends, the
\* key of each object is queued or in the worker's hands, or its spec, as it
\* is now, is refused for good.  A return without RequeueAfter on any other
\* path, or after an edit it has not seen, would leave a share drifted, or a
\* deletion unfinished, until somebody edits the object.
NoKeyLost == \A s \in Share : cr[s].phase # "absent" => Minded(s) \/ Refused(s)

\* An object whose refusal was the end of it says so: the one return without a
\* requeue leaves no Ready condition, and no reason of an earlier spec, behind
\* (share-lifecycle.md: "validate -->|no| fail[Ready=False]").
RefusalReported ==
  \A s \in Share :
    Refused(s) /\ ~Minded(s) => cr[s].reason = RefusalReason(cr[s].spec)

\* Object s rests at its spec: Ready, with an active agent share made for it
\* that matches what the agent reports of a share.
Settled(s) ==
  /\ cr[s].reason = "Ready"
  /\ \E d \in agent : /\ d.token = cr[s].token /\ d.by = s
                      /\ agentShareMatchesSpec(cr[s], d, cr[s].spec.target)

\* The share of s was made with the options the spec asks for now, which the
\* agent does not report and only the applied digest can tell.
OptionsApplied(s) ==
  \E d \in agent : /\ d.token = cr[s].token
                   /\ d.opts = cr[s].spec.opts
                   /\ d.auth = cr[s].spec.auth

\* Something outside the operator keeps s from its share.
Blocked(s) ==
  LET sp == cr[s].spec
  IN  \/ InvalidSpec(sp) \/ NotAllowed(sp)
      \/ ~EnvReady(sp.env)
      \/ sp.name \in ForeignName
      \/ \E r \in remote : r.token \in ForeignToken /\ r.name # None /\ r.name = sp.name

\* Two specs ask for one name.  The code gives it to neither while they do: the
\* object that has been Ready under it says NameConflict as well.
Contended(s) == Claimants(s) # {}

\* Two renames crossed: each of two objects asks for the name that the share of
\* the other still serves, and neither gives its share up first.
Serves(t, n) == n # None /\ \E r \in Own : r.by = t /\ r.name = n
Crossed(s) ==
  \E t \in Share \ {s} : Serves(t, cr[s].spec.name) /\ Serves(s, cr[t].spec.name)

Gone(s) == cr[s].phase = "absent"

\* Once edits and faults cease, every object rests at its spec, is kept from it
\* by something outside, or is gone, and no error path, requeue or lost event
\* leaves it short of that.  The operator gets in the way of its own objects in
\* two cases only: two specs that ask for one name, and two renames that crossed.
\* Every deletion completes.
Converges ==
  \A s \in Share :
    <>[](\/ Gone(s)
         \/ /\ cr[s].phase = "live"
            /\ Settled(s) \/ Blocked(s) \/ Contended(s) \/ Crossed(s))

\* ... and its options are the ones the spec asks for (share-lifecycle.md:
\* "Annotation applied-digest covers oauth/basicAuth/insecure/accessGrants").
OptionsConverge ==
  \A s \in Share :
    <>[](Gone(s) \/ (cr[s].phase = "live" /\ (OptionsApplied(s) \/ Blocked(s))))

\* "Two CRs same reserved name: NameConflict on the second" (share-lifecycle.md):
\* an object that rests at its spec is not put into NameConflict by another one
\* that asks for its name later.
ConflictOnSecond ==
  [][\A s \in Share : Settled(s) => cr'[s].reason # "NameConflict"]_vars

\* A name that an object has been ready under goes back to the account, is
\* asked for, or is attached to a share, once the object rests at its spec:
\* a rename reclaims the old name through its annotation whatever call to zrok
\* or the agent fails on the way, and however renames follow each other or
\* fall between its steps (share-lifecycle.md: "DeleteShareName the old label").
ServedNameReclaimed ==
  \A s \in Share, n \in Name :
    /\ <>(cr[s].reason = "Ready" /\ cr[s].url = n)
    /\ <>[](cr[s].phase = "live" /\ Settled(s))
    => <>[](n \in names => Attached(n) \/ \E t \in Share : cr[t].spec.name = n)
=============================================================================
