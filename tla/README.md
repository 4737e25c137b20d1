# zrok-operator: TLA+ models, checks and proofs

zrok-operator runs zrok shares from Kubernetes objects. A user writes a
`ZrokEnvironment` (an account and an agent), `ZrokShare`s (which upstream, under
which reserved name, in which environment), `ZrokAccess`es (which private share
to reach) or an Ingress of class zrok. The operator enables the environment, runs
its agent, reserves names, has the agent make shares and accesses, and keeps
objects, zrok controller and agent in step through edits, restarts, failures and
deletion. Nothing gives it a transaction across the three systems, and zrok
keeps no owner on what it makes.

## 1. Inventory

| Component (source) | State it keeps | Operations | Hard because |
|---|---|---|---|
| ZrokShare controller (`internal/controller/share_controller.go`) | finalizer, status (token, URL, reservation, Ready), annotations `applied-digest`, `reclaim-name` | Reconcile: finalizer, checks, inventory, reserve name, flush reclaim, adopt or rebuild, create, mark ready; reconcileDelete | seven writes to three systems, each can fail or be the last before a restart; users edit between any two |
| Inventory and apply decisions (`share_inventory.go`, `share_apply.go`, `upstream.go`) | none | classifyShare, isOurShareToken, adoptableAgentShare, digest | wrong in rare combinations of listing, Status and status token |
| ZrokEnvironment controller (`environment_controller.go`) | EnvZID, Ready, identity Secret, PVC, Service, Deployment, NetworkPolicy | adopt the Secret, enable, undo, record, deploy, probe; disable, tear down, let go | Enable is not idempotent, its result is kept in two places written one after the other; two images of the same identity (Secret, PVC) |
| ZrokAccess controller (`access_controller.go`) | access token, endpoint, Ready | Status, heal (release, clear), AccessPrivate, mark; release on deletion | a lost answer leaves an access nobody can name; edits between release and creation |
| Ingress controller (`ingress_controller.go`) | the ZrokShare it owns, load balancer hostname | CreateOrUpdate, copy the URL back | driven by events alone; a share of that name may be someone else's |
| zrok client (`internal/zrokclient`) | none here; remote environments, shares and names, agent registry there | Enable, Disable, CreateShareName, UpdateShareName, DeleteShareName, ListShares, Unshare; Status, SharePublic, SharePrivate, ReleaseShare, AccessPrivate, ReleaseAccess | answers get lost; 409 and 404 are read as success in places |
| Endpoint and image checks (`endpoint.go`, `agent/images.go`) | none | ValidateAPIEndpoint, ImageAllowed | read once, used later |
| Agent manifests (`agent/resources.go`) | none | build PVC, Service, Deployment, NetworkPolicy | the seed container only fills what is missing |
| Status helpers (`internal/status`) | none | PatchStatus | reads a cache that may lag |
| Metrics, `cmd/main.go`, generated code, charts | none | wiring | - |

Interaction: the share and access controllers read environments (and are woken
by them, `mapEnvToShares`, `mapEnvToAccesses`), the share controller calls the
zrok controller over REST, both call the environment's agent over gRPC. The
environment controller looks at ZrokShares only to refuse its own deletion. The
Ingress controller writes ZrokShare specs, as a user does, and reads back the
URL. Each controller has one worker and a work queue of its own.

What makes them correct:

- share: a foreign share is never unshared; no share it made is forgotten; two
  objects never hold one share and none releases the other's; a rename never
  costs a working share, and gives the old name back; Ready means served.
- environment: no environment of the account is lost sight of but by a crash, a
  lost answer, a failed undo or record, or a stale read of its own; status, Secret and agent agree on one identity; nobody else's
  Secret is taken for ours; it does not go away under live shares.
- access: no object is Ready without an access; none keeps running unknown, and no
  object has two, but by a loss.
- Ingress: another controller's share is never touched; the share follows, and no
  change that it must follow goes unnoticed.
- all: whatever happens, once it stops happening, the object reaches its spec or
  says what blocks it, and deletions finish, but for the cases named in section 3;
  only a refused spec drops a key.

## 2. Modules

| Module | What it is |
|---|---|
| `ShareInventory` | the pure decisions of the share controller, on sets of shares |
| `ShareController` | ZrokShare objects, their worker, remote shares, agents, names, users, faults |
| `ShareBinding` | abstract specification of what objects and shares are to each other |
| `EnvironmentStates` | what an environment's status tells others, and what may follow what |
| `EnvironmentContract` | abstract specification of an environment, over `EnvironmentStates` |
| `EnvironmentController` | one ZrokEnvironment, its children and identity, the account's environments |
| `AccessController` | ZrokAccess objects, their worker, the accesses in the agents |
| `AccessHolding` | abstract specification of what objects and accesses are to each other, losses counted |
| `IngressController` | one Ingress and the ZrokShare of its name |
| `MCShare`, `MCEnvironment`, `MCAccess`, `MCIngress` | the specs users write in each instance |
| `ShareControllerProofs`, `EnvironmentControllerProofs`, `AccessControllerProofs`, `IngressControllerProofs` | types, inductive invariants, action properties and the refinement, checked with TLAPS |
| `EnvironmentLossProofs` | the account of losses: `ForgetsOnlyByLoss` (that of the accesses is in `AccessControllerProofs`) |
| `ShareOwnershipProofs` | whose share a share is: `TokenExclusive` and `ReleasesOwnOnly` for objects with upstreams of their own |
| `ShareBindingProofs` | what an object is bound to: `EveryShareHeld`, `ReservedBeforeRelease`, `ReadyIsServed`, and the refinement of `ShareBinding` |
| `ShareDiscoveryProofs` | shares that can be found again: `NoOrphans` under lost answers and crashes |

**How they are composed.** `ShareController` and `AccessController` each have a
variable `env`, the status of every environment as the other controllers see it:
missing, pending (no EnvZID), enabled (EnvZID, not Ready), ready, or unkeyed
(Ready although EnvZID has been cleared for a new Enable, which
`environment_controller.go:288` does). It changes only as `Follows` of
`EnvironmentStates` allows. `EnvironmentController` defines `state` and `leaving`
from its own variables and is shown, by TLC (`env_contract`) and by proof
(`ContractKept`), to implement `EnvironmentContract`, whose steps are those of
`Follows` with the rule that an enabled environment goes missing only by way of a
deletion that began when no live share referred to it. `ShareController` defines
`Ledger`, `Bound` and `Hand` (the shares there are, the tokens in the statuses, the
share the worker is about to record) and implements `ShareBinding`, by TLC
(`share_rivals`) and by proof (`BindingKept`). There a share is made for
an object that has none, or the one it has is taken up; it is recorded next, and no
other object has its token; a token is forgotten only when the share is gone. The
whole reconciler, with its inventory, names, conflicts and rebuilds, is there only to
keep to these five steps. The fairness of
`EnvironmentRekeyed` in `ShareController` is what `EnvironmentController!Converges`
shows. In the same way `IngressController` takes the share controller as two
actions, `ShareServed` and `ShareGone`, whose fairness `ShareController!Converges`
justifies.

**Common form.** A reconcile is cut at each call that leaves the process; what
the code does between two calls belongs to the step of the first. `w` is the
worker, `w.pc` the call it is about to make, `w.obj` the object as it holds it.
`PatchStatus` and `Patch` refresh the Go pointer, so the patches refresh `w.obj`
with what users have written meanwhile; several results depend on that. `queue`
holds the keys that are due, RequeueAfter timers included. Two counters bound a
run: `edits` (creations, edits, deletions) and `faults`.

### ShareController

`cr` (objects), `env`, `remote` (what the zrok controller lists), `agent`,
`names` (reserved names of the account), `queue`, `w`.

| `w.pc` | Call | Actions |
|---|---|---|
| idle | dequeue, checks before any call | ReconcileGone, AddFinalizer, RefuseSpec, WaitForEnvironment, SecretUnreadable, NameClaimed, StartReconcile, StartDelete |
| inventory | ListShares + Status | Inventory, InventoryUnavailable, DeleteInventory |
| reserve | CreateShareName + UpdateShareName | EnsureReservedName, NameOfOtherAccount, ReserveFails |
| flush, unannotate | DeleteShareName of the pending name; annotation | FlushReclaim, FlushFails, ClearReclaim |
| release, unshare | agent ReleaseShare; Unshare | ReleaseShare, Unshare, UnshareFails, UnshareUnauthorized |
| clear, annotate | status clear; `reclaim-name` | ClearBinding, AnnotateReclaim |
| create, conflict | SharePublic/SharePrivate; handleShareConflict | CreateShare, CreateConflict, CreateRefused, CreateFails, HandleShareConflict |
| mark, stamp | markShareReady: status, then digest | MarkShareReady, StampDigest |
| dname, final | DeleteShareName; finalizer | DeleteName, DeleteNameFails, RemoveFinalizer |

`w.dg` is what was read at the start (digest, upstream, mode, environment).

- A frontend URL is its label; a digest is the tuple of the fields it hashes;
  `normalizeTarget` is a function given by the instance ("a" and "a/" are one
  upstream). OAuth, insecure and grants are one option value, since the code
  only ever digests and forwards them.
- Where the code takes the first match of a list whose order it does not
  control, any match may be taken.
- A name that exists is reserved: zrok's CreateShareName already reserves
  (`.memory-bank/debugging-troubleshooting.md`), UpdateShareName adds the 401.
- One reason stands for two where the code treats them alike: SecretError for
  BasicAuthError, NameError for ReserveError. An agent share with an empty
  backend endpoint is an inactive one.
- Without a `nameSelection`, `nameNamespaceToken` is empty and DeleteShareName
  gets a 404, which the client takes for success (`Deletable`).
- `getEnvironment` returns a non-nil object on NotFound, so a deletion without
  environment goes through the code with an empty token and EnvZID.
- `SetNotReady` is every condition patch whose error the code discards
  (`setNotReady`, `setNameConflict`, the wait for the environment): with the fault
  kind `patch` it may leave the earlier reason standing, whatever the reconcile then
  returns. After a refusal (`RefuseSpec`) it returns no requeue.
- The CRD's validation rules make InvalidSpec unreachable from user specs in the
  instances; the branch is shared with the refused upstreams.

Assumed: nobody else serves an upstream a ZrokShare names
(`ForeignTargetAssumption`: "identity is name + target",
`zrokclient/share.go:9`); an agent runs only this operator's shares ("the agent
is not shared across accounts", `share_inventory.go:134`); tokens are not reused
while something remembers them; disabling an environment removes its shares; a
share that a restarting agent stops in time is gone remotely, others stay.

### EnvironmentController

`obj`, `claimed` (a ZrokShare that is not being deleted refers to it), `secret`
(the identity Secret and who owns it), `kids` (the four children), `past`
(children an earlier object of that name owned), `home` (identity in the PVC),
`pod` (identity the agent runs with), `remote` (environments of the account).

| `w.pc` | Call | Actions |
|---|---|---|
| idle | dequeue, token and image checks, adoptIdentitySecret | ReconcileGone, AddFinalizer, SecretUnreadable, ImageRefused, AdoptIdentity, RejectIdentity, IdentityMissing, DeleteBlocked, StartDelete |
| enable | ValidateAPIEndpoint, Enable | Enable, EnableRefused, EnableFails |
| create, undo | Create of the Secret; Disable if that fails | CreateSecret, CreateSecretFails, DisableOrphan |
| record | status.envZID | RecordZID, RecordFails |
| pvc, service, deployment, policy | the children | EnsurePVC, EnsureService, ServiceHijacked, EnsureDeployment, EnsureNetworkPolicy, EnsureFails |
| probe, mark | isAgentReady and Status; condition Ready | ProbeAgent, MarkVerdict |
| disable | Disable | Disable, DisableFails |
| teardown, final | deletion of the children; finalizer | Teardown, RemoveFinalizer |

Kubernetes is part of the model: `PodStarts` runs the seed container (an empty
home takes the Secret's identity, a filled one keeps its own), `Collect` is the
garbage collector following owner references. An API endpoint is a record of
scheme, user info, host and port, so that the allowlist rules of
`ValidateAPIEndpoint` and `NormalizeAPIHosts` are there without parsing.

Assumed: the zrok controller refuses to disable what it does not know at that
endpoint; identities are not handed out twice while anything remembers them; a
retained environment is handed over to the owner of the account and is no longer
the operator's to track.

### AccessController

`acc` (objects), `env`, `agent` (accesses the agents run, with whom they were made
for). `w.pc`: idle (ReconcileGone, AddFinalizer, WaitForEnvironment,
StartReconcile, StartDelete), status (CheckStatus, StatusFails), release and drop
(ReleaseAccess, of a heal and of a deletion), clear (ClearToken), create
(AccessPrivate, AccessFails), look (LookUpBind, the second Status), mark
(MarkAccessReady), final (RemoveFinalizer). `NotReady` is `setNotReady` with its
discarded error, as in the share controller. The agent's address is taken from the
environment once (`w.env`), the spec is re-read by the patch of ClearToken. A port
that the system chose is `AnyBind`, the wildcard; two accesses of an agent cannot
have one explicit address. `Ledger`, `Bound` and `Hand` (the accesses there are, the
tokens in the statuses, the access about to be recorded) map it to `AccessHolding`,
where an access is made for an object without a token, or the one it names is
confirmed; it is recorded next; and after no step are there more `Strays`, accesses
that neither a status nor the worker names, than losses.

### IngressController

`ing` with a `uid` that tells it from an earlier one of that name, `share` with
the kind of controller that owns it. `w.pc`: idle (Ignore, Panic, StartReconcile),
apply (Apply, ApplyFails: CreateOrUpdate), mirror (Mirror, MirrorFails: the
hostname). Only events wake it: `IngressEvent` is the predicate on the class,
`ShareEvent` the mapping from an owned share. A host is a label, a domain and a
spelling; `ingressReservedName` cuts zrok's own domains off.

### Faults

Each kind is enabled per run and all are bounded by `MaxFaults`, except `patch` in
the share and access models: a condition patch whose error is discarded may fail any
number of times.

- share: unreadable Secret, failed listing, failed Status, failed name calls,
  failed release, failed Unshare (before or after the server acted), 401 on
  Unshare, failed or lost creation (nothing made, made remotely, made in both),
  crash of the manager between any two steps (`crash`), a failed write to the object
  whose error is returned (`write`, action `WriteFails`: status clear, annotations,
  ready status, digest, finalizer; only this key comes back), a condition that is not
  written (`patch`), environment
  degrading, unkeyed or removed, agent restart, a share losing its connection, a
  foreign share.
- environment: `token`, `patch` (a condition is not written), `enable`, `lost`
  (Enable's answer), `create` and `lostcreate` (of the Secret: not stored, stored),
  `undo` (Disable of the orphan), `record`, `stale` (the cache does not show the
  Secret yet), `child`, `status`, `disable`, `lostdisable`, `delete` (children that
  stay), `plant` (someone else's Secret), `disturb` (a child deleted or changed),
  `pod`, `crash`, `secretlost`. Those that may cost the operator its knowledge of
  an environment (lost, undo, record, stale, crash, secretlost) are `Loss`es,
  counted apart.
- access: `status`, `release`, `create`, `lost`, `crash`, `move` (an edit of
  `environmentRef`), `env`, `restart`, `stall`, `patch`; release, lost, crash (an API
  write whose error is returned included) and move are losses.
- Ingress: `write`, `crash`, `heal` (the share controller replaces the share).

## 3. Runs

Bounds are in the `.cfg` files; `MaxEdits` counts the users' operations.

| Run (module) | Instance | Shows |
|---|---|---|
| `share_lifecycle` (`MCShare`) | 1 object, 7 specs, 4 operations, no fault; 239 000 states | `IInv`, `EveryShareHeld`, `ReservedBeforeRelease`, `ReadyIsServed`, `NoKeyLost`, `RefusalReported`, `Converges` |
| `share_faults` (`MCShare`) | 3 specs, one of them refused, 2 operations, 2 of 12 kinds of fault, unwritten conditions; 119 000 states | `NoOrphans`, `NoKeyLost`, `ForeignUntouched`, `Converges` |
| `share_rivals` (`MCShare`) | 2 objects, 2 names, 4 operations, 1 restart or stall; 676 000 states | `TokenExclusive`, `ReleasesOwnOnly`, `Converges`, `KeepsBinding` |
| `share_digest` (`MCShare`) | 2 specs, 2 operations, 2 of 13 kinds of fault (no crash, no lost creation; the unkeyed environment among them); 124 000 states | `OptionsConverge`, `Converges` |
| `share_rename` (`MCShare`) | 3 names and 2 upstreams, 3 operations, 1 failed call, degradation or stall, unwritten conditions; 127 000 states | `ServedNameReclaimed` |
| `env_lifecycle` (`MCEnvironment`) | 6 specs (both policies, 3 images, 4 endpoints), 2 operations, 2 of 17 kinds of fault; 1.03 million states | `IInv`, `ForgetsOnlyByLoss`, `Converges` |
| `env_contract` (`MCEnvironment`) | 2 specs, 3 operations, 2 of 8 kinds of fault, lost Secrets among them; 710 000 states | `KeepsContract`, `Recovers` |
| `access_lifecycle` (`MCAccess`) | 2 objects, 2 environments, an address both want, a share that does not exist, 3 operations, 1 of 9 kinds of fault, unwritten conditions; 369 000 states | `IInv`, `ForgetsOnlyByLoss`, `OneAccessEach`, `KeepsHolding`, `Converges` |
| `ingress_lifecycle` (`MCIngress`) | 6 Ingress specs, 5 operations of Ingress and share owners, 2 faults; 213 000 states | `IInv`, `NothingMissed`, `OthersUntouched`, `Converges` |

Why the bounds suffice.

- Share: one reconcile has one name to leave and one to take, so two names and
  two upstreams give every relation between old and new, and a third name two renames
  in a row; creating, renaming and
  renaming back or deleting takes three operations, a fourth falls into the
  reconcile that follows; two faults give a fault in the recovery from a fault.
  Two objects are all a conflict needs, and four operations create both and let
  them exchange their names. Tokens: one more than can be live or
  remembered at once, so a creation is never short of one.
- Environment: reconciles of different environments share no state, so one is
  enough. Two faults give every pair of a loss and the failure of its repair: a
  Secret that is lost and a clearing that fails, a stale read and an undo that
  fails. Three operations give deletion and a successor that meets the
  predecessor's children. Each loss costs one identity, so four identities never
  run short; a share that comes or goes is an operation too.
- Access: the two objects differ in what makes them meet (one agent, one
  address). One fault is enough for a forgotten access to exist and for the count
  in `ForgetsOnlyByLoss` and `OneAccessEach` to be exceeded by an unexplained one.
- Ingress: five operations are a share of that name made first, an Ingress,
  an edit on either side, and a deletion.

`CHECK_DEADLOCK FALSE` everywhere: with edits and faults used up and every key out
of the queue (objects gone, at rest or refused) the system rests; the Ingress
controller rests after each success.

**Fairness.** `FairSpec` of each module: weak fairness of the steps of a reconcile
under way, which is the worker goroutine running, and fairness of taking a key,
which is the work queue: first-in first-out, without loss, with RequeueAfter
timers that expire. With several keys (share, access) it is strong fairness per
key, since a key that is due while the worker is busy is due again and again; with
one key weak fairness is enough. The environment model adds `PodStarts` and
`Collect`, which Kubernetes does by itself; the Ingress model adds `ShareServed`,
`ShareGone` and `Collect`; the share model adds `EnvironmentRekeyed`. Users, faults
and, otherwise, environments get no fairness, except that their number is bounded;
what an environment that is not ready blocks counts as blocked.

### Known limits

The runs are narrower than "everything" where the code is, and each limit was
found by widening a run until it failed. Where a document promises more, section 4
says so.

- `NoKeyLost` says that only the refusal of the present spec drops a key, not that
  the object then says so: with a failed condition patch it does not. `RefusalReported`
  is checked and proved without that failure.
- `Converges` of the share controller has outside causes (`Blocked`: the spec is
  refused, the environment is not ready, someone else has the name) and two cases in
  which the operator is in its own way. `Contended`: while two specs ask for one name
  both objects are in NameConflict, the one that was Ready included
  (`share_second_claimant`). `Crossed`: two renames crossed and each object waits for
  the name the other still serves, for good, by the rule never to unshare a holder.
- `share_rivals` has no crash, since `KeepsBinding` needs its answers (`Lossless` in
  section 5); `TokensExclusive` and `ReleasesOwn` are proved with crashes. It has no
  share of someone else's either: with one, an object may wait behind another that
  itself waits outside, or for an old name that was taken within the rename.
- Deleting a share with an unreadable Secret, a 401 or a removed environment drops
  the finalizer and leaves the remote share (documented,
  `share-lifecycle.md:85`): `share_faults` leaves these three out, `share_digest`
  has them.
- While an environment is unkeyed, a deletion does not look for a share that was
  never recorded (`share_controller.go:648` asks for EnvZID): after a lost creation
  `NoOrphans` fails, so `share_faults` leaves the window out.
- Deleting without a recorded token while the listing is down releases the agent
  share found by name whatever its upstream: `ReleasesOwnOnly` is checked, and
  proved, with the listing up. The object it is taken from stays Ready until its
  next reconcile, so `ReadyIsServed` is proved with the listing up as well.
- An options edit during a rebuild is applied but stamped with the digest of
  before; undoing it later changes nothing. `share_digest` stops at two operations,
  which do not get that far.
- `ReservedBeforeRelease`, `EveryShareHeld` and `KeepsBinding` need the answers of
  the calls that make, record and release a share (`Lossless` in section 5). After a
  lost creation, a failed write or a crash an unrecorded share can be left while an old name waits to
  be deleted; the patch that clears the annotation then brings in an edit, and the
  pass reaches the release with a name that no step of it has reserved. A release
  that the agent refuses and that an Unshare follows leaves an agent share without a
  listed one, which a later reconcile may adopt.
- `NoOrphans` needs objects that keep environment, upstream and name (`Steadfast`).
  With `reclaimPolicy: Retain` a deletion releases the recorded token and skips the
  name, and with it the 409 that shows what else is attached: when the recorded share
  is gone and the answer to the creation of its successor was lost, the successor is
  left behind.
- `ServedNameReclaimed` does not survive a failed write, a restart of manager or agent, or an Unshare whose answer is lost, in the middle of a
  rename: the old name is known only to the running reconcile until the annotation is
  written. A rename followed
  by the deletion of the object before a reconcile leaves the old name reserved
  too, since reconcileDelete knows only the name of the spec.
- After one failed DeleteShareName another object may take the old name; the renamed
  one then retries that deletion for ever.
- After an edit of `environmentRef` of a share with a name, the old share keeps
  the name and every reconcile ends in the 409. The instances keep
  `environmentRef`. A ZrokAccess that moves leaves its access in the old agent
  (loss `move`).
- `Converges` with a lost creation holds for a fixed upstream. When the upstream
  is edited before the share was recorded, the object's own share has another
  target and an unknown token, and counts as foreign (`share_inventory.go:102`), as
  `share-lifecycle.md:60` has it for another target. No run has both the edit and the
  lost creation.
- Access: a loss can leave an access that nobody has the token of, and with it the
  explicit address that its own object, or another one, asks for. That object stays in
  AccessError until the agent restarts; no code path releases such an access.
  `Converges` names the case (`Stranded`) apart from the outside causes (`Blocked`: the
  environment, the share, the access another object records), and
  `ForgetsOnlyByLoss` says that without a loss it does not occur.
- Environment: deletion disables what the status names. After a failed record, or
  after a stale read that cleared EnvZID, only the Secret names the environment, and it
  goes with the Secret although it could have been disabled from there. `ForgetsOnlyByLoss` counts these as losses.
- A ZrokShare that is being deleted does not hold its environment
  (`environment_controller.go:204`); "Cannot delete Env while Shares exist"
  (`environment-lifecycle.md:58`, also 43) promises more. `EnvironmentContract` and the
  share model follow the code: an environment may go under a share's deletion.
- When the Secret is stored although its Create failed, the operator disables the
  identity it then adopts; when a Secret is lost the agent may keep the old one:
  `Converges` is checked without these two faults, `env_contract` has them and
  checks the weaker `Recovers`.
- A lost Secret and a failed clearing of EnvZID leave status and Secret naming
  different environments, and every reconcile ends in EnableError (`Mismatch`).
- If Disable acted and its answer is lost, every retry is refused and the
  finalizer stays. The same follows a Disable that succeeded, when the finalizer's
  Update meets a conflict (an edit during the deletion) or the manager crashes before
  it. `Converges` lets such a deletion wait for ever (`Waits`), as it does when the
  endpoint in the spec was edited away from where the environment is; what the zrok
  controller answers to a second Disable is not in `src/`.
- `policy: Retain` spares the PVC from the operator, not from the garbage
  collector, which follows its owner reference.
- The image is checked on the object as read and deployed from the object as
  re-read by the patch of EnvZID (`environment_controller.go:92`): an edit between
  the two is deployed unchecked, and stays deployed under ImageNotAllowed.
- Ingress: a name that the Ingress no longer asks for stays in the share; an
  Ingress that leaves the class keeps its share; a rule without `http` makes the
  handler panic on every retry.

## 4. Where code and documentation disagree

Three runs must end in a violation.

| Run, property | What happens |
|---|---|
| `share_twins`, `TokenExclusive` | Two objects with one upstream: the claim check compares specs, so a name just given up in a spec but still served is adopted with its share. |
| `share_second_claimant`, `ConflictOnSecond` | While two specs ask for one name both objects are in NameConflict, the first and Ready one too ("NameConflict on the second", `share-lifecycle.md:106`). |
| `env_stale_identity`, `AgentHasIdentity` | After the identity Secret is deleted once, the environment is enabled again under a new identity; the seed container fills only missing files, so the agent keeps running with the old one behind Ready. |

Five more show when a passing run is widened as the last column says.

| Property | What happens | A document says | Widened |
|---|---|---|---|
| `RefusalReported` | A refused spec is reported by a patch whose error is discarded, and the reconcile asks for no other look: after one failed patch the earlier condition stands, Ready included. | "validate -->\|no\| fail[Ready=False]" (`share-lifecycle.md:18`) | `share_lifecycle` with `FaultKind = {"patch"}` |
| `ReleasesOwnOnly` | A deletion without a recorded token, with the listing down, releases the agent's share under the name without comparing targets: it may be another object's. | "Resolve token: status → agent name+target → ListShares name+target" (`share-lifecycle.md:83`) | `share_rivals` with `FaultKind = {"list"}` |
| `OptionsConverge` | Options edited during a rebuild and edited back later stay on the share under a digest that matches the spec; nothing fails. | "Annotation `zrok.k8s.zrok.io/applied-digest` covers oauth/basicAuth/insecure/accessGrants" (`share-lifecycle.md:58`) | `share_digest` with `MaxEdits = 4`, `FaultKind = {}` |
| `ServedNameReclaimed` | The status clear of a rename fails after the Unshare: the old name is forgotten and stays reserved. | "`DeleteShareName` the **old** label" (`share-lifecycle.md:75`) | `share_rename` with `FaultKind = {"write"}` |
| no environment of the account is left by a deletion under `Delete` | The status patch after Enable fails, then the object is deleted: nothing is disabled, and the Secret that names the environment is deleted. | "ReclaimPolicy controls whether the remote zrok environment is disabled on delete" (`zrokenvironment_types.go:35`) | `env_lifecycle` with `FaultKind = {"record"}` |

## 5. Proofs

All hold for every value of the constants that satisfies the named assumptions of
the modules (`UserSpecAssumption`, `ZIDAssumption`, `ForeignTargetAssumption`,
`ValuesAssumption`, ...), thus for any number of objects, names, identities,
operations and faults. Those of the share controller that are not true of every
configuration name what they need as hypotheses on the constants, in this table;
each is met by instances of section 3, whose Known limits say what goes wrong without it.

| Hypothesis | Says | Needed by |
|---|---|---|
| `Apart` | no two objects ever have an upstream or a private token in common (`share_twins`) | `TokensExclusive`, `ReleasesOwn`, `SharesHeld`, `NameReservedFirst`, `ReadyServed`, `BindingKept` |
| `Keyed` | enable tokens, EnvZIDs and environments stay | `NoneOrphaned`, and the next and `Lossless` contain it |
| `Readable` | `Keyed`, and no listing fails | `ReleasesOwn` |
| `Housed` | no object moves to another environment | `SharesHeld`, `NameReservedFirst`, `ReadyServed`, `BindingKept` |
| `Lossless` | `Keyed`, no lost creation, no crash, no failed write, no refused release, no 401 | the same four |
| `Quiet` | no listing fails, every condition is written, no agent restarts, no share stalls | `ReadyServed` |
| `Steadfast` | an object keeps environment, upstream and a reserved name of its own, with `Delete` | `NoneOrphaned` |

**ShareController** (`ShareControllerProofs`)

- `Invariance`: `Spec => []IInv`, with `IInv` = `TypeOK` and `NameToReserve` (the
  worker is at the reservation only with a name in its object). The second part
  is needed because `EnsureReservedName` adds that name to `names`. The type of
  `w.tok` leaves out foreign tokens, so type correctness is more than bookkeeping:
  every place that fills `w.tok` (adoption, rebuild, conflict, deletion, attached
  name) has to be shown to choose a share of the operator's own.
- `TypeCorrect`: the type part on its own.
- `ForeignSharesUntouched`: `Spec => ForeignUntouched`. Unshare removes only
  shares with token `w.tok`, which by `Invariance` is no foreign token.
- `KeysKept`: `Spec => []NoKeyLost`, without hypotheses, condition patches that fail
  unnoticed included: the safety half of `Converges`. An object that is there has its
  key queued, or the worker holds it, or its present spec is refused. Each step of a
  reconcile `Minds` the key: it `CarriesOn`, or ends with the key in the queue, and
  leaves the other objects alone; `ReconcileMinds` has the two places that drop a key.
- `RefusalsReported`: `Spec => []RefusalReported` if every condition patch is written:
  an object whose key was dropped says why its present spec is refused.

The argument of the first three rests on `SameTargetIsOwn` (equal targets imply an own share, by
`ForeignTargetAssumption`), `OurTokenIsOwn` (what `isOurShareToken` accepts) and
`AdoptOrRebuildType` (classification, adoption, release), then one lemma per
group of actions.

**TokenExclusive and ReleasesOwnOnly** (`ShareOwnershipProofs`)

`TokensExclusive` holds under every fault there is, `ReleasesOwn` needs `Readable`: a
deletion without a listing takes the agent's share under its name whatever that
serves. zrok keeps no owner on a share, so the proof follows how
the code infers it. `OwnInv` says that every share of ours has an upstream of the
object it was made for, that its record and the agent's agree and nobody else has
its token (`Traced`), and, by place in the code, what the worker holds
(`WorkerOurs`): what it is about to record is nobody else's (`Ours`), what it is
about to release is on no other object's account (`Harmless`), what it classified
or listed is known (`Classified`, `Listed`). The hard case is the share that the
agent reports under the name and the object does not know: `ClassifiedOurs` shows
that it is the object's own or gone from the account, for otherwise the listing
would show another upstream under the name and the reconcile would have stopped.
`ShrinksOwn` settles every step that makes no share and records no token from what
it leaves in the worker's hands; `CreateShare`, `CreateFails` and `MarkShareReady`
are the others.

**EveryShareHeld, ReservedBeforeRelease, ReadyIsServed** (`ShareBindingProofs`)

`SharesHeld`, `NameReservedFirst` and `ReadyServed`. None is inductive: whether the
share that is being released is the last one of its object depends on what the
inventory showed several calls ago. `BindInv` says of every place in the code which
shares of its object are left (`Place`): before the release the one that was found
(`Found`, by way of `Seen`), at the release and at the record the one in hand, behind
it none (`Late`); and that a name which waits to be deleted (`reclaim-name`) means
that no share is left (`Pending`), which is why the flush that comes first in a
reconcile cannot disturb a working share, nor bring in an edit before a release.
`Account` has what holds whatever the worker does: agents run only what is listed
(`Backed`), tokens stand behind finalizers (`Finalized`), shares are in the
environment of their object (`At`). It rests on `Ownership`, since a share that
another object may take is not there to be held. `InventoryShows` is the heart: a
listing that succeeds shows the share that is left, or names a conflict.

`BindingKept`: `Spec => KeepsBinding`, the refinement of `ShareBinding` under the same
hypotheses. `SharesGo` settles every step that makes no share and touches no token,
`TakesUp` the five ways to adopt one, `Forgets` the two ways to drop a token;
`CreateShare` and `MarkShareReady` are the others. From `BindInv` comes that nothing is
left when a share is made or a token dropped, from `OwnInv` that the token in hand is
nobody else's.

**NoOrphans** (`ShareDiscoveryProofs`)

`NoneOrphaned`, with lost answers, crashes, restarts, failed writes and failed calls of every kind,
and without `Apart`: objects may share an upstream here. `FindInv` says that every
share of ours was made as its object's specs say (`AsAsked`), under a reserved name
that no other share of the account has, and stands behind the finalizer of its object
(`Findable`); and of a deletion that its listing, if it has one, shows every share that
is left, and that without one it does not get past the name (`Remains`): the name's 409
tells it that a share is attached.

For each of the three invariants TLC checked a larger instance than the runs have
before the proof: two objects, three operations and two faults of all kinds the
theorem admits (`OwnInv` with `BindInv` 5.9 million states, with `Quiet` 2.5 million;
`FindInv` on two objects with one upstream 3.6 million).

**EnvironmentController** (`EnvironmentControllerProofs`)

- `Invariance`, `TypeCorrect`: `IInv` = `TypeOK`, `ObjectHeld` (the object stays,
  with its finalizer, under the reconcile that works for it), `IdentityOurs` (a
  recording reconcile and the children have an identity that Enable gave out, never
  a planted one), losses are faults.
- `ContractKept`: `Spec => KeepsContract`, the refinement of `EnvironmentContract`.
  `InitAllowed` maps initial states, `NextAllowed` every step to a step or a
  stutter, by one lemma per group of actions. `MoveAllowed` says which changes of
  `state` and `leaving` the contract has; `ReasonMoves`, `ZIDMoves` and
  `LeavingMoves` bring the three kinds of write under it, `Unseen` the writes that
  change neither. `Invariance` is needed for the last step of a deletion: the
  object goes missing only from under a reconcile that has been leaving.

**ForgetsOnlyByLoss of the environment** (`EnvironmentLossProofs`)

`ForgottenByLoss`: the environments of the account that neither status, Secret nor
worker names are at most as many as the losses so far. The property is not
inductive: an environment that only the Secret names is not forgotten yet, but a
deletion, which reads the status, will forget it without another loss. The proof
counts those too. `Firm` says where an environment is named so that nothing but a
loss can undo it, `AtRisk` are the others, and `LossInv` has
- `Distinct`: identities tell environments apart;
- `SecretKnown`: a Secret that may go by itself (an earlier object's) or that is
  someone else's does not hold the identity that is relied on;
- `DisabledFirst`: what a deletion tears down has been disabled or is retained;
- `Counted`: there are at most as many at risk as there were losses.

Each step is `Accounted`: it puts none at risk, or it is a loss and puts at risk at
most one, the one it names (`Keeps`). Cardinalities follow by `FiniteSetTheorems`.

**AccessController** (`AccessControllerProofs`)

- `Invariance`: `IInv` has, next to the types, `ReadyNamesAccess` (Ready only with
  a token), which a patch refreshed by a concurrent edit could break, and `Reported`
  (what is about to be reported has a token), which makes it inductive.

**ForgetsOnlyByLoss of the access** (`AccessControllerProofs`)

`ForgottenByLoss`: the accesses that run unknown to objects and worker are at most
as many as the losses. An access is `Firm` if its object names it in the
environment where the object and the reconcile under way will look (`Known`), or
the worker is about to record it there (`Recorded`). A move of an object in the
middle of a reconcile costs at once (the old access is looked for in the wrong
agent) or later: the reconcile has let go of the old access and makes the new one
in the agent it set out for. That debt is `Owed`, and counts as one of the
`Liable` until the access is made. So a step is `Accounted` if it adds nothing, or
exchanges one liable access for another (the release of a stray access turns into
the debt, the creation pays the debt with the new access), or is a loss and adds
one. `LossInv` adds `WorkerHolds` (the worker's copy has the token of the object),
`TokensUnique` and `AgentsHaveEnvironments` (without an environment there is no
agent, which is why a deletion may skip the release).

**OneAccessEach and KeepsHolding** (`AccessControllerProofs`)

- `OneForEach`: `Spec => []OneAccessEach`. Of the accesses made for an object, those
  that are not `Forgotten` carry its recorded token or the one in the worker's hand
  (`NamedOrHeld`), and with `WorkerHolds` and `TokensUnique` these are one
  (`OneIsNamed`); the others are counted by `ForgottenByLoss`.
- `HoldingKept`: `Spec => KeepsHolding`, the refinement of `AccessHolding`, without
  any hypothesis on the faults. Each step maps to one of its actions or to a stutter
  (`CheckHolds`, `CreateHolds`, `GoOnHolds`, `EndHolds`, `EnvironmentHolds`): that
  AccessPrivate finds no token in the status is `WorkerHolds`, that Status confirms an
  access of this object and no other is `TokensUnique`. The account after each step is
  `StraysCounted`.

**IngressController** (`IngressControllerProofs`)

- `Invariance`: `IInv` = `Sound` (types, and a reconcile under way has a rule to
  translate) and `Abreast`.
- `NoneMissed`: `Spec => []NothingMissed`, the safety half of `Converges`: with an
  empty queue and an idle worker the share follows its Ingress and the Ingress has its
  URL. It is inductive only with what the worker holds meanwhile (`Abreast`): until the
  key is queued again, its copy of the Ingress is the Ingress, and from `Apply` on the
  share follows. The cases are the windows: an edit between the read and the write
  (`EnvironmentAbreast`), a write that changes nothing (`Apply` raises no event then),
  a hostname compared with the copy (`Mirror`). It needs that "invalid" and "nohttp"
  are no Services (`UpstreamAssumption`).
- `OthersAreUntouched`: `Spec => OthersUntouched`, from `OthersKept`: only `Apply`
  writes a share, and only one it may own.

**Only model-checked.** Liveness (`Converges`, `Recovers`, `OptionsConverge`,
`ServedNameReclaimed`): fairness and ENABLED are outside the prover's reach. Every
invariant, action property and refinement that a passing run checks is a theorem.
What TLC checks beyond the theorems: `share_faults` has `NoOrphans` with the same
hypotheses. Section 4 shows that `Apart` (`share_twins`), `Readable` and the
hypothesis of `RefusalsReported` are needed.

## 6. Not modelled

- A cache that lags behind the API server, but for the identity Secret (`stale`):
  `PatchStatus` retries on conflict, and what it may do on an old object depends on
  timing inside client-go.
- Parsing of endpoints and the redirect policy of the HTTP client; image
  references. The decisions made on the parts are in `EnvironmentController`.
- What the manifests say (resources, probes, security context), but for owner
  references, the seed container and the image.
- A basic-auth Secret that changes without an edit of the object; more than one
  reserved namespace; several Kubernetes namespaces; an agent that reports an empty
  share token or access address.
- Labels, events, metrics, start-up, generated code, mocks, Helm charts,
  end-to-end tests: no state that the properties are about.

## 7. Plan

Done: the share, environment, access and Ingress controllers; three abstract
specifications and the refinements of them; the accounts of losses, the ownership,
binding and discovery of shares. Left, in this order:

1. `NoOrphans` for objects that change their upstream while every share is recorded.
2. `StatusPatch`: PatchStatus on a lagging cache.
3. Endpoint and target normalisation as operators with reference definitions.
