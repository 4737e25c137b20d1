----------------------- MODULE EnvironmentController -----------------------
(***************************************************************************)
(* ZrokEnvironmentReconciler (internal/controller/environment_controller.go*)
(* with internal/agent): one ZrokEnvironment, its identity Secret, PVC,    *)
(* Service, Deployment and NetworkPolicy, the agent pod Kubernetes runs    *)
(* from them, and the environments enabled in the zrok account.            *)
(*                                                                         *)
(* A reconcile is a sequence of steps, one per call that changes something *)
(* outside the process.  Between two steps users edit, Kubernetes starts,  *)
(* stops and collects, and the manager may crash.  The reconciles of       *)
(* different environments share no state.                                  *)
(***************************************************************************)
EXTENDS EnvironmentStates, Integers, FiniteSets

CONSTANTS
  ZID,                 \* identities the zrok controller hands out to us
  PlantedZID,          \* identities in Secrets that others put in place
  Image, AllowedImage, \* agent images; --allowed-agent-images and the default
  Host, Port,          \* what API endpoints are made of
  DefaultHost,         \* the host of DefaultAPIEndpoint
  BlockedHost,         \* loopback, link-local and metadata hosts
  AllowedAPIHost,      \* --allowed-api-hosts: "host" and "host:port" entries
  AgentNetworkPolicy,  \* --agent-network-policy
  UserSpec,            \* the specs users write into the object
  None,
  MaxEdits,            \* bound: user operations
  FaultKind,           \* what may go wrong in a run
  MaxFaults            \* bound: failed calls, crashes, outside interference

Endpoint ==
  [scheme : {"https", "http"}, userinfo : BOOLEAN,
   host : Host \cup {None}, port : Port \cup {None}]
EnvironmentSpec ==
  [image : Image, api : Endpoint, policy : {"Delete", "Retain"}]

ASSUME UserSpecAssumption == UserSpec \subseteq EnvironmentSpec /\ UserSpec # {}
ASSUME AllowedAPIHostAssumption ==
  AllowedAPIHost \subseteq [host : Host, port : Port \cup {None}]
ASSUME ZIDAssumption ==
  /\ ZID \cap PlantedZID = {}
  /\ None \notin ZID \cup PlantedZID \cup Image \cup Host \cup Port
ASSUME BoundsAssumption == MaxEdits \in Nat /\ MaxFaults \in Nat
ASSUME FlagAssumption == AgentNetworkPolicy \in BOOLEAN

VARIABLES
  obj,      \* the ZrokEnvironment in the API server
  claimed,  \* a ZrokShare that is not being deleted refers to it
  secret,   \* its identity Secret
  kids,     \* PVC, Service, Deployment and NetworkPolicy
  past,     \* children whose owner is an earlier, deleted object
  home,     \* the identity seeded into the PVC
  pod,      \* the identity the agent pod runs with, None: no pod is ready
  remote,   \* environments enabled in the account and not retained
  queue,    \* the key is in the work queue, timers included
  w,        \* the worker: where the reconcile is and what it holds
  edits, faults

vars == <<obj, claimed, secret, kids, past, home, pod, remote, queue, w, edits, faults>>
world == <<secret, kids, past, home, pod>>

-----------------------------------------------------------------------------
\* Ready=True has reason "Ready".
Reason == {"unset", "Ready", "SecretError", "ImageNotAllowed", "EndpointNotAllowed",
           "EnableError", "PVCError", "ServiceError", "DeploymentError",
           "NetworkPolicyError", "WaitingForAgent", "ConsoleUnreachable", "SharesExist"}

Object ==
  [phase : {"absent", "live", "deleting"}, finalizer : BOOLEAN,
   spec : EnvironmentSpec, zid : ZID \cup {None}, reason : Reason]

Absent ==
  [phase |-> "absent", finalizer |-> FALSE, spec |-> CHOOSE sp \in UserSpec : TRUE,
   zid |-> None, reason |-> "unset"]

\* owner "env": this object controls it; "past": an earlier one did; "other":
\* someone else's Secret under our name.
Secret == [owner : {"env", "past", "other"}, zid : ZID \cup PlantedZID \cup {None}]
NoSecret == [owner |-> "none", zid |-> None]

Kid == {"pvc", "service", "deployment", "policy"}
Kids ==
  [pvc : BOOLEAN, service : {"none", "ok", "edited", "hijacked"},
   deployment : Image \cup {None}, policy : BOOLEAN]
NoKids == [pvc |-> FALSE, service |-> "none", deployment |-> None, policy |-> FALSE]

PC == {"idle", "enable", "create", "undo", "record", "pvc", "service", "deployment",
       "policy", "probe", "mark", "disable", "teardown", "final"}

\* zid: what Enable returned; verdict: what the probe of the agent found.
Worker == [pc : PC, obj : Object, zid : ZID \cup {None}, verdict : Reason]
Locals(pc, o) == [pc |-> pc, obj |-> o, zid |-> None, verdict |-> "unset"]
Idle == Locals("idle", Absent)

Init ==
  /\ obj = Absent /\ claimed = FALSE
  /\ secret = NoSecret /\ kids = NoKids /\ past = {}
  /\ home = None /\ pod = None /\ remote = {}
  /\ queue = FALSE /\ w = Idle
  /\ edits = 0 /\ faults = [all |-> 0, losses |-> 0]

-----------------------------------------------------------------------------
(* Endpoint and image checks.                                              *)

NormalizeAPIHosts == AllowedAPIHost \cup {[host |-> DefaultHost, port |-> None]}

\* An entry without a port allows every port of its host.
ValidateAPIEndpoint(u) ==
  /\ u.scheme = "https" /\ ~u.userinfo
  /\ u.host # None /\ u.host \notin BlockedHost
  /\ \E a \in NormalizeAPIHosts :
       /\ a.host = u.host
       /\ a.port \in {None, IF u.port = "443" THEN None ELSE u.port}

ImageAllowed(sp) == sp.image \in AllowedImage

-----------------------------------------------------------------------------
(* Helpers of the steps.                                                   *)

\* Something goes wrong; a Loss is what may cost the operator its knowledge
\* of an environment.
Fault(kind) ==
  /\ kind \in FaultKind
  /\ faults.all < MaxFaults
  /\ faults' = [faults EXCEPT !.all = @ + 1]
Loss(kind) ==
  /\ kind \in FaultKind
  /\ faults.all < MaxFaults
  /\ faults' = [all |-> faults.all + 1, losses |-> faults.losses + 1]
NoFault == faults' = faults

\* Mutant of Return: nothing asks for another look.
ReturnForGood(o) == w' = Idle /\ obj' = o /\ queue' = (queue \/ o # obj)

\* The reconcile returns an error or RequeueAfter, with the object as o.
Return(o) == w' = Idle /\ obj' = o /\ queue' = TRUE

\* setNotReady or another status patch that ends the reconcile.  Its own
\* error is ignored.
StopWith(reason) ==
  \/ NoFault /\ Return([obj EXCEPT !.reason = reason])
  \/ Fault("patch") /\ Return(obj)

\* A status patch that the reconcile goes on after: the worker holds what
\* the server returned.
PatchStatus(o, pc) ==
  /\ obj' = o
  /\ w' = [w EXCEPT !.pc = pc, !.obj = o]
  /\ queue' = (queue \/ o # obj)

Goto(pc) == w' = [w EXCEPT !.pc = pc]

Taken == w.pc = "idle" /\ queue

-----------------------------------------------------------------------------
(* Reconcile, up to ensureEnabled.                                         *)

ReconcileGone ==
  /\ Taken
  /\ obj.phase = "absent"
  /\ queue' = FALSE
  /\ UNCHANGED <<obj, claimed, world, remote, w, edits, faults>>

AddFinalizer ==
  /\ Taken
  /\ obj.phase = "live"
  /\ ~obj.finalizer
  /\ obj' = [obj EXCEPT !.finalizer = TRUE]
  /\ UNCHANGED <<claimed, world, remote, queue, w, edits, faults>>

Live == Taken /\ obj.phase = "live" /\ obj.finalizer

\* readEnableToken fails.
SecretUnreadable ==
  /\ Live
  /\ Fault("token")
  /\ Return([obj EXCEPT !.reason = "SecretError"])
  /\ UNCHANGED <<claimed, world, remote, edits>>

ImageRefused ==
  /\ Live
  /\ ~ImageAllowed(obj.spec)
  /\ StopWith("ImageNotAllowed")
  /\ UNCHANGED <<claimed, world, remote, edits>>

Enabling == Live /\ ImageAllowed(obj.spec)

\* Mutant of AdoptIdentity: a Secret counts whoever owns it.
AdoptAnyIdentity ==
  /\ Enabling
  /\ secret # NoSecret /\ secret.zid # None
  /\ obj.zid \in {None, secret.zid}
  /\ obj' = [obj EXCEPT !.zid = secret.zid]
  /\ w' = Locals("pvc", obj')
  /\ queue' = (obj' # obj)
  /\ UNCHANGED <<claimed, world, remote, edits, faults>>

\* Mutant of AdoptIdentity: an empty status is not filled in.
AdoptRecordedIdentity ==
  /\ Enabling
  /\ secret.owner = "env" /\ secret.zid # None
  /\ obj.zid = secret.zid
  /\ w' = Locals("pvc", obj)
  /\ queue' = FALSE
  /\ UNCHANGED <<obj, claimed, world, remote, edits, faults>>

\* adoptIdentitySecret: the Secret's zid is, or becomes, the status's.
AdoptIdentity ==
  /\ Enabling
  /\ secret.owner = "env" /\ secret.zid # None
  /\ obj.zid \in {None, secret.zid}
  /\ obj' = [obj EXCEPT !.zid = secret.zid]
  /\ w' = Locals("pvc", obj')
  /\ queue' = (obj' # obj)
  /\ UNCHANGED <<claimed, world, remote, edits, faults>>

\* An unowned or incomplete Secret is deleted; a zid that is not the
\* status's is an error and stays one.
RejectIdentity ==
  /\ Enabling
  /\ secret # NoSecret
  /\ secret.owner # "env" \/ secret.zid = None \/ obj.zid \notin {None, secret.zid}
  /\ IF secret.owner # "env" \/ secret.zid = None
     THEN secret' = NoSecret /\ past' = past \ {"secret"}
     ELSE UNCHANGED <<secret, past>>
  /\ StopWith("EnableError")
  /\ UNCHANGED <<claimed, kids, home, pod, remote, edits>>

\* No Secret, or one the cache does not show yet: EnvZID is cleared, and a
\* failure to clear it is ignored.
IdentityMissing ==
  /\ Enabling
  /\ \/ secret = NoSecret /\ NoFault /\ obj' = [obj EXCEPT !.zid = None]
     \/ secret = NoSecret /\ Fault("patch") /\ obj' = obj
     \/ secret # NoSecret /\ Loss("stale") /\ obj' = [obj EXCEPT !.zid = None]
  /\ w' = Locals("enable", obj')
  /\ queue' = (obj' # obj)
  /\ UNCHANGED <<claimed, world, remote, edits>>

-----------------------------------------------------------------------------
(* ensureEnabled: Enable, the Secret, and the status.                      *)

\* Fresh: an identity the zrok controller has not given out.
InUse == {r.zid : r \in remote} \cup {obj.zid, secret.zid, home, pod, w.zid, w.obj.zid}
Fresh == ZID \ InUse

Enabled(zid) == remote \cup {[zid |-> zid, api |-> w.obj.spec.api]}

Enable ==
  /\ w.pc = "enable"
  /\ ValidateAPIEndpoint(w.obj.spec.api)
  /\ \E zid \in Fresh :
       /\ remote' = Enabled(zid)
       /\ w' = [w EXCEPT !.pc = "create", !.zid = zid]
  /\ UNCHANGED <<obj, claimed, world, queue, edits, faults>>

EnableRefused ==
  /\ w.pc = "enable"
  /\ ~ValidateAPIEndpoint(w.obj.spec.api)
  /\ StopWith("EndpointNotAllowed")
  /\ UNCHANGED <<claimed, world, remote, edits>>

\* resolveUniqueID or Enable fails, or only Enable's answer is lost.
EnableFails ==
  /\ w.pc = "enable"
  /\ \/ Fault("enable") /\ UNCHANGED remote
     \/ /\ Loss("lost")
        /\ ValidateAPIEndpoint(w.obj.spec.api)
        /\ \E zid \in Fresh : remote' = Enabled(zid)
  /\ Return([obj EXCEPT !.reason = "EnableError"])
  /\ UNCHANGED <<claimed, world, edits>>

\* Create of the Secret; AlreadyExists if there is one by now.
CreateSecret ==
  /\ w.pc = "create"
  /\ IF secret = NoSecret
     THEN secret' = [owner |-> "env", zid |-> w.zid] /\ Goto("record") /\ queue' = TRUE
     ELSE Goto("undo") /\ UNCHANGED <<secret, queue>>
  /\ UNCHANGED <<obj, claimed, kids, past, home, pod, remote, edits, faults>>

\* Create fails, or the Secret is stored and the answer lost.
CreateSecretFails ==
  /\ w.pc = "create"
  /\ \/ Fault("create") /\ UNCHANGED secret
     \/ /\ Fault("lostcreate")
        /\ secret = NoSecret
        /\ secret' = [owner |-> "env", zid |-> w.zid]
  /\ Goto("undo")
  /\ UNCHANGED <<obj, claimed, kids, past, home, pod, remote, queue, edits>>

Without(zid) == {r \in remote : r.zid # zid}

\* Mutant of DisableOrphan: the environment just enabled is forgotten.
KeepOrphan ==
  /\ w.pc = "undo"
  /\ NoFault
  /\ Return([obj EXCEPT !.reason = "EnableError"])
  /\ UNCHANGED <<claimed, world, remote, edits>>

\* Disable what Enable just returned; its error is ignored.
DisableOrphan ==
  /\ w.pc = "undo"
  /\ \/ NoFault /\ remote' = Without(w.zid)
     \/ Loss("undo") /\ UNCHANGED remote
  /\ Return([obj EXCEPT !.reason = "EnableError"])
  /\ UNCHANGED <<claimed, world, edits>>

RecordZID ==
  /\ w.pc = "record"
  /\ PatchStatus([obj EXCEPT !.zid = w.zid], "pvc")
  /\ UNCHANGED <<claimed, world, remote, edits, faults>>

\* The status patch fails: only the Secret knows the zid now.
RecordFails ==
  /\ w.pc = "record"
  /\ Loss("record")
  /\ Return([obj EXCEPT !.reason = "EnableError"])
  /\ UNCHANGED <<claimed, world, remote, edits>>

-----------------------------------------------------------------------------
(* The children.                                                           *)

\* Get and Create; AlreadyExists is ignored.
EnsurePVC ==
  /\ w.pc = "pvc"
  /\ kids' = [kids EXCEPT !.pvc = TRUE]
  /\ Goto("service")
  /\ queue' = (queue \/ kids' # kids)
  /\ UNCHANGED <<obj, claimed, secret, past, home, pod, remote, edits, faults>>

\* Created when missing, updated when its selector or ports differ.
EnsureService ==
  /\ w.pc = "service"
  /\ kids.service # "hijacked"
  /\ kids' = [kids EXCEPT !.service = "ok"]
  /\ Goto("deployment")
  /\ queue' = (queue \/ kids' # kids)
  /\ UNCHANGED <<obj, claimed, secret, past, home, pod, remote, edits, faults>>

\* A Service of another type is deleted; the next reconcile makes a new one.
ServiceHijacked ==
  /\ w.pc = "service"
  /\ kids.service = "hijacked"
  /\ kids' = [kids EXCEPT !.service = "none"]
  /\ past' = past \ {"service"}
  /\ StopWith("ServiceError")
  /\ UNCHANGED <<claimed, secret, home, pod, remote, edits>>

\* A changed template restarts the pod (strategy Recreate).
EnsureDeployment ==
  /\ w.pc = "deployment"
  /\ kids' = [kids EXCEPT !.deployment = w.obj.spec.image]
  /\ pod' = IF kids' = kids THEN pod ELSE None
  /\ Goto("policy")
  /\ queue' = (queue \/ kids' # kids)
  /\ UNCHANGED <<obj, claimed, secret, past, home, remote, edits, faults>>

EnsureNetworkPolicy ==
  /\ w.pc = "policy"
  /\ kids' = [kids EXCEPT !.policy = AgentNetworkPolicy]
  /\ past' = IF AgentNetworkPolicy THEN past ELSE past \ {"policy"}
  /\ Goto("probe")
  /\ queue' = (queue \/ kids' # kids)
  /\ UNCHANGED <<obj, claimed, secret, home, pod, remote, edits, faults>>

\* A write to a child fails.
EnsureFails ==
  /\ w.pc \in {"pvc", "service", "deployment", "policy"}
  /\ Fault("child")
  /\ Return([obj EXCEPT !.reason = CASE w.pc = "pvc" -> "PVCError"
                                     [] w.pc = "service" -> "ServiceError"
                                     [] w.pc = "deployment" -> "DeploymentError"
                                     [] OTHER -> "NetworkPolicyError"])
  /\ UNCHANGED <<claimed, world, remote, edits>>

\* isAgentReady, then the agent's Status through the Service.
ProbeAgent ==
  /\ w.pc = "probe"
  /\ \E v \in {"Ready", "ConsoleUnreachable", "WaitingForAgent"} :
       /\ (v = "WaitingForAgent") = (kids.deployment = None \/ pod = None)
       /\ kids.service # "ok" => v # "Ready"
       /\ IF v = "ConsoleUnreachable" /\ kids.service = "ok"
          THEN Fault("status") ELSE NoFault
       /\ w' = [w EXCEPT !.pc = "mark", !.verdict = v]
  /\ UNCHANGED <<obj, claimed, world, remote, queue, edits>>

MarkVerdict ==
  /\ w.pc = "mark"
  /\ Return([obj EXCEPT !.reason = w.verdict])
  /\ UNCHANGED <<claimed, world, remote, edits, faults>>

-----------------------------------------------------------------------------
(* reconcileDelete.                                                        *)

Deleting == Taken /\ obj.phase = "deleting"

\* Mutant of StartDelete: nobody asks for the shares.
StartDeleteAnyway ==
  /\ Deleting
  /\ w' = Locals(IF obj.spec.policy = "Retain" \/ obj.zid = None
                 THEN "teardown" ELSE "disable", obj)
  /\ queue' = FALSE
  /\ UNCHANGED <<obj, claimed, world, remote, edits, faults>>

DeleteBlocked ==
  /\ Deleting
  /\ claimed
  /\ StopWith("SharesExist")
  /\ UNCHANGED <<claimed, world, remote, edits>>

\* Disable is due unless the policy is Retain or the status knows no EnvZID.
StartDelete ==
  /\ Deleting
  /\ ~claimed
  /\ w' = Locals(IF obj.spec.policy = "Retain" \/ obj.zid = None
                 THEN "teardown" ELSE "disable", obj)
  /\ queue' = FALSE
  /\ UNCHANGED <<obj, claimed, world, remote, edits, faults>>

\* The zrok controller knows the environment at the endpoint the spec names.
Disablable == \E r \in remote : r.zid = w.obj.zid /\ r.api = w.obj.spec.api

Disable ==
  /\ w.pc = "disable"
  /\ Disablable
  /\ remote' = Without(w.obj.zid)
  /\ Goto("teardown")
  /\ UNCHANGED <<obj, claimed, world, queue, edits, faults>>

\* The token cannot be read, the endpoint is refused, the call fails, or its
\* answer is lost; the zrok controller refuses to disable what it does not
\* know.  All of them are retried.
DisableFails ==
  /\ w.pc = "disable"
  /\ \/ Fault("disable") /\ UNCHANGED remote
     \/ Fault("lostdisable") /\ Disablable /\ remote' = Without(w.obj.zid)
     \/ ~Disablable /\ NoFault /\ UNCHANGED remote
  /\ Return(obj)
  /\ UNCHANGED <<claimed, world, edits>>

\* The children that survive: deletions that fail are ignored, and Retain
\* keeps the PVC.
Teardown ==
  /\ w.pc = "teardown"
  /\ LET retained == IF w.obj.spec.policy = "Retain" THEN {"pvc"} ELSE {}
     IN  \E left \in SUBSET (Kid \cup {"secret"}) :
           /\ retained \subseteq left
           /\ IF left = retained THEN NoFault ELSE Fault("delete")
           /\ secret' = IF "secret" \in left THEN secret ELSE NoSecret
           /\ kids' = [k \in Kid |-> IF k \in left THEN kids[k] ELSE NoKids[k]]
           /\ past' = past \cap left
           /\ home' = IF "pvc" \in left THEN home ELSE None
           /\ pod' = IF "deployment" \in left THEN pod ELSE None
  /\ Goto("final")
  /\ UNCHANGED <<obj, claimed, remote, queue, edits>>

\* What the collector will find without an owner.
Orphaned ==
  past \cup {k \in Kid : kids[k] # NoKids[k]}
       \cup (IF secret.owner \in {"env", "past"} THEN {"secret"} ELSE {})

\* The Update carries a resource version.  A retained environment is handed
\* over to the owner of the account.
RemoveFinalizer ==
  /\ w.pc = "final"
  /\ IF obj = w.obj
     THEN /\ obj' = Absent
          /\ past' = Orphaned
          /\ secret' = IF secret.owner = "env" THEN [secret EXCEPT !.owner = "past"] ELSE secret
          /\ remote' = IF obj.spec.policy = "Retain" THEN Without(obj.zid) ELSE remote
          /\ w' = Idle
          /\ queue' = TRUE
     ELSE Return(obj) /\ UNCHANGED <<past, secret, remote>>
  /\ UNCHANGED <<claimed, kids, home, pod, edits, faults>>

-----------------------------------------------------------------------------
(* The manager, the users and Kubernetes.                                  *)

\* The manager restarts, or an API write fails and the reconcile returns the
\* error: the locals are lost, the object comes back from the initial list.
Crash ==
  /\ w.pc # "idle"
  /\ Loss("crash")
  /\ Return(obj)
  /\ UNCHANGED <<claimed, world, remote, edits>>

Edit == edits < MaxEdits /\ edits' = edits + 1

UserCreates ==
  /\ obj.phase = "absent"
  /\ Edit
  /\ \E sp \in UserSpec : obj' = [Absent EXCEPT !.phase = "live", !.spec = sp]
  /\ queue' = TRUE
  /\ UNCHANGED <<claimed, world, remote, w, faults>>

UserEdits ==
  /\ obj.phase # "absent"
  /\ Edit
  /\ \E sp \in UserSpec \ {obj.spec} : obj' = [obj EXCEPT !.spec = sp]
  /\ queue' = TRUE
  /\ UNCHANGED <<claimed, world, remote, w, faults>>

\* Without a finalizer the object is gone at once.
UserDeletes ==
  /\ obj.phase = "live"
  /\ Edit
  /\ obj' = IF obj.finalizer THEN [obj EXCEPT !.phase = "deleting"] ELSE Absent
  /\ queue' = TRUE
  /\ UNCHANGED <<claimed, world, remote, w, faults>>

\* Shares that refer to the environment come and go.
SharesChange ==
  /\ Edit
  /\ claimed' = ~claimed
  /\ UNCHANGED <<obj, world, remote, queue, w, faults>>

\* Someone else's Secret takes the name of ours.
SecretPlanted ==
  /\ secret = NoSecret
  /\ Fault("plant")
  /\ \E zid \in PlantedZID : secret' = [owner |-> "other", zid |-> zid]
  /\ UNCHANGED <<obj, claimed, kids, past, home, pod, remote, queue, w, edits>>

\* The identity Secret is deleted, or loses its envZID.
SecretLost ==
  /\ secret.owner = "env"
  /\ Loss("secretlost")
  /\ secret' \in {NoSecret, [secret EXCEPT !.zid = None]}
  /\ secret' # secret
  /\ queue' = TRUE
  /\ UNCHANGED <<obj, claimed, kids, past, home, pod, remote, w, edits>>

\* A child without its PVC, Service, Deployment or policy k.
Lose(k) ==
  /\ k = "pvc" => pod = None
  /\ kids' = [kids EXCEPT ![k] = NoKids[k]]
  /\ kids' # kids
  /\ past' = past \ {k}
  /\ home' = IF k = "pvc" THEN None ELSE home
  /\ pod' = IF k = "deployment" THEN None ELSE pod
  /\ queue' = TRUE

\* Someone deletes a child or changes the Service.
ChildrenDisturbed ==
  /\ Fault("disturb")
  /\ \/ \E k \in Kid : Lose(k)
     \/ /\ kids.service = "ok"
        /\ \E s \in {"edited", "hijacked"} : kids' = [kids EXCEPT !.service = s]
        /\ queue' = TRUE
        /\ UNCHANGED <<past, home, pod>>
  /\ UNCHANGED <<obj, claimed, secret, remote, w, edits>>

\* The garbage collector removes what a deleted object owned.
Collect ==
  /\ \/ \E k \in past \cap Kid : Lose(k) /\ UNCHANGED secret
     \/ /\ "secret" \in past
        /\ secret' = NoSecret
        /\ past' = past \ {"secret"}
        /\ queue' = TRUE
        /\ UNCHANGED <<kids, home, pod>>
  /\ UNCHANGED <<obj, claimed, remote, w, edits, faults>>

\* The seed init container copies the Secret's identity into an empty home
\* only; then the agent starts with what the home holds.  A PVC that is
\* being deleted cannot be mounted.
PodStarts ==
  /\ pod = None
  /\ kids.deployment # None /\ kids.pvc /\ "pvc" \notin past
  /\ secret # NoSecret
  /\ home' = IF home = None THEN secret.zid ELSE home
  /\ home' # None
  /\ pod' = home'
  /\ queue' = TRUE
  /\ UNCHANGED <<obj, claimed, secret, kids, past, remote, w, edits, faults>>

PodDies ==
  /\ pod # None
  /\ Fault("pod")
  /\ pod' = None
  /\ queue' = TRUE
  /\ UNCHANGED <<obj, claimed, secret, kids, past, home, remote, w, edits>>

-----------------------------------------------------------------------------
Reconcile ==
  \/ ReconcileGone \/ AddFinalizer \/ SecretUnreadable \/ ImageRefused
  \/ AdoptIdentity \/ RejectIdentity \/ IdentityMissing
  \/ DeleteBlocked \/ StartDelete

Step ==
  \/ Enable \/ EnableRefused \/ EnableFails
  \/ CreateSecret \/ CreateSecretFails \/ DisableOrphan \/ RecordZID \/ RecordFails
  \/ EnsurePVC \/ EnsureService \/ ServiceHijacked \/ EnsureDeployment
  \/ EnsureNetworkPolicy \/ EnsureFails \/ ProbeAgent \/ MarkVerdict
  \/ Disable \/ DisableFails \/ Teardown \/ RemoveFinalizer

Environment ==
  \/ UserCreates \/ UserEdits \/ UserDeletes \/ SharesChange
  \/ SecretPlanted \/ SecretLost \/ ChildrenDisturbed
  \/ Collect \/ PodStarts \/ PodDies

Next == Reconcile \/ Step \/ Crash \/ Environment

Spec == Init /\ [][Next]_vars

\* The queue is served, a reconcile goes on, and Kubernetes does its part:
\* it starts the pod of a Deployment and collects what has no owner.
Fairness ==
  /\ WF_vars(Reconcile) /\ WF_vars(Step)
  /\ WF_vars(PodStarts) /\ WF_vars(Collect)
FairSpec == Spec /\ Fairness

-----------------------------------------------------------------------------
(* Properties.                                                             *)

\* Every variable has its type.  The EnvZID in the status and in the worker's
\* hands is always one that Enable gave to this operator, never one found in
\* a Secret that the object does not own.
TypeOK ==
  /\ obj \in Object /\ claimed \in BOOLEAN
  /\ secret \in Secret \cup {NoSecret}
  /\ kids \in Kids
  /\ past \subseteq Kid \cup {"secret"}
  /\ home \in ZID \cup PlantedZID \cup {None}
  /\ pod \in ZID \cup PlantedZID \cup {None}
  /\ remote \subseteq [zid : ZID, api : Endpoint]
  /\ queue \in BOOLEAN
  /\ w \in Worker
  /\ edits \in 0 .. MaxEdits
  /\ faults \in [all : 0 .. MaxFaults, losses : 0 .. MaxFaults]

LeavingPC == {"disable", "teardown", "final"}
ChildPC == {"pvc", "service", "deployment", "policy", "probe", "mark"}

\* What a reconcile under way relies on while users and Kubernetes interfere:
\* the object stays until the reconcile lets it go, the children are made
\* for a recorded EnvZID, and a deletion is not taken back.
ObjectHeld ==
  /\ w.pc # "idle" => obj.finalizer
  /\ w.pc \in LeavingPC => obj.phase = "deleting"
  /\ w.pc \in ChildPC => obj.zid # None
  /\ w.pc \in {"create", "undo", "record"} => w.zid # None
  /\ obj.phase = "absent" => ~obj.finalizer
  /\ ~obj.finalizer => obj.phase # "deleting" /\ obj.zid = None /\ obj.reason = "unset"

\* The identity in the Secret that the object owns came from Enable.
IdentityOurs == secret.owner = "env" => secret.zid \in ZID \cup {None}

IInv == TypeOK /\ ObjectHeld /\ IdentityOurs /\ faults.losses <= faults.all

\* What the other controllers are promised (EnvironmentContract).
state ==
  IF obj.phase = "absent" THEN "missing" ELSE StateOf(obj.zid # None, obj.reason = "Ready")
leaving == w.pc \in LeavingPC
Contract == INSTANCE EnvironmentContract
              WITH state <- state, claimed <- claimed, leaving <- leaving

\* The reconciler keeps the contract: EnvZID and Ready change one at a time,
\* Ready is never set without an EnvZID, and an enabled environment goes
\* missing only through a deletion that began without live shares.
KeepsContract == Contract!Spec

\* An environment of the account that the operator has lost sight of: it is
\* not in the status, in the Secret, or in the hands of the worker.
Forgotten == {r \in remote : r.zid \notin {obj.zid, secret.zid, w.zid}}

\* Each forgotten environment is due to a crash, a lost answer, a failed undo
\* or record, a stale read or a lost Secret of its own: no other failure, no
\* retry of one and no deletion leaves an environment behind.
ForgetsOnlyByLoss == Cardinality(Forgotten) <= faults.losses

\* Ready, with the Secret's identity in the status, every child in place and
\* an agent running.
Served ==
  /\ obj.reason = "Ready"
  /\ obj.zid = secret.zid /\ secret.owner = "env"
  /\ kids = [pvc |-> TRUE, service |-> "ok", deployment |-> obj.spec.image,
             policy |-> AgentNetworkPolicy]
  /\ past = {} /\ pod # None

\* ... and that identity is enabled in the account and the agent's own.
Settled == Served /\ pod = obj.zid /\ \E r \in remote : r.zid = obj.zid

\* The object asks for what the operator refuses.
Refused == ~ImageAllowed(obj.spec) \/ (~ValidateAPIEndpoint(obj.spec.api) /\ obj.zid = None)

\* A deletion that waits: for shares, or for a Disable that the zrok
\* controller refuses because it does not know the environment there.  It
\* may be the user who moved the endpoint, or the operator itself: a Disable
\* that succeeded is repeated after a lost answer, after a conflict of the
\* finalizer's Update and after a crash, and is refused from then on.
Waits ==
  /\ obj.phase = "deleting"
  /\ \/ claimed
     \/ /\ obj.zid # None /\ obj.spec.policy = "Delete"
        /\ ~\E r \in remote : r.zid = obj.zid /\ r.api = obj.spec.api

\* Once edits and faults cease the object is gone, rests at its spec with one
\* identity everywhere, is refused, or its deletion waits, also for ever on a
\* Disable already done (Waits): no failed call, crash, stale read or disturbed
\* child leaves it elsewhere.
Converges ==
  <>[](\/ obj.phase = "absent"
       \/ obj.phase = "live" /\ (Settled \/ Refused)
       \/ Waits)

\* The status and the Secret name different environments.
Mismatch == secret.owner = "env" /\ secret.zid # None /\ obj.zid \notin {None, secret.zid}

\* Even when identity Secrets are lost, and when the Secret is stored although
\* its Create failed, the object comes back to Ready with a running agent, or
\* its Secret and its status contradict each other.
Recovers ==
  <>[](\/ obj.phase = "absent"
       \/ obj.phase = "live" /\ (Served \/ Refused \/ Mismatch)
       \/ Waits)

\* An environment that stays Ready is served by an agent with its own
\* identity: a stale one in the PVC is repaired (environment-lifecycle.md).
AgentHasIdentity ==
  <>[](obj.phase = "live" /\ obj.reason = "Ready" => pod = obj.zid)
=============================================================================
