-------------------------- MODULE AccessController --------------------------
(***************************************************************************)
(* ZrokAccessReconciler (internal/controller/access_controller.go): the    *)
(* ZrokAccess objects, the one worker that reconciles them, and the        *)
(* accesses that the agents of the environments run for them.  The         *)
(* environments do what EnvironmentStates lets them do.                    *)
(***************************************************************************)
EXTENDS EnvironmentStates, Integers, FiniteSets

CONSTANTS
  Access, Env,
  Frontend,     \* frontend tokens that agents give to accesses
  ShareToken,   \* tokens of private shares that users name
  LiveShare,    \* the ones that exist
  Bind,         \* explicit bind addresses; AnyBind is 0.0.0.0:0
  AnyBind,
  UserSpec,     \* UserSpec[a]: the specs users write into object a
  None,
  MaxEdits,     \* bound: user operations
  FaultKind,    \* what may go wrong in a run; "patch" as often as it likes
  MaxFaults     \* bound: failed calls, crashes, restarts

AccessSpec == [env : Env, share : ShareToken, bind : Bind \cup {AnyBind}]

ASSUME UserSpecAssumption ==
  /\ UserSpec \in [Access -> SUBSET AccessSpec]
  /\ \A a \in Access : UserSpec[a] # {}
ASSUME AccessAssumption == Access # {} /\ LiveShare \subseteq ShareToken
ASSUME ValuesAssumption == None \notin Frontend \cup Bind /\ AnyBind \notin Bind \cup {None}
ASSUME BoundsAssumption == MaxEdits \in Nat /\ MaxFaults \in Nat

VARIABLES
  acc,     \* the ZrokAccess objects
  env,     \* what the status of each environment says
  agent,   \* accesses the agents run
  queue,   \* keys in the work queue, timers included
  w,       \* the worker
  edits,
  faults   \* all, and the losses: what may cost us the token of an access

vars == <<acc, env, agent, queue, w, edits, faults>>

\* Ready=True has reason "Ready".
Reason == {"unset", "Ready", "EnvironmentMissing", "WaitingForEnvironment",
           "Healing", "AccessError"}

\* The endpoint is where the access is bound, or its token while unknown.
Object ==
  [phase : {"absent", "live", "deleting"}, finalizer : BOOLEAN, spec : AccessSpec,
   token : Frontend \cup {None}, endpoint : Bind \cup {AnyBind, None} \cup Frontend,
   reason : Reason]

Absent(a) ==
  [phase |-> "absent", finalizer |-> FALSE, spec |-> CHOOSE sp \in UserSpec[a] : TRUE,
   token |-> None, endpoint |-> None, reason |-> "unset"]

\* An AccessDetail of an agent's Status, and for whom it was made.  A port
\* that the system chose is AnyBind: it is nobody's explicit address.
AccessDetail ==
  [token : Frontend, env : Env, share : ShareToken, bind : Bind \cup {AnyBind},
   active : BOOLEAN, by : Access]

PC == {"idle", "status", "release", "clear", "create", "look", "mark", "drop", "final"}
\* env is where the reconcile sends its calls: the address is taken once.
Worker ==
  [pc : PC, key : Access, obj : Object, env : Env, tok : Frontend \cup {None},
   bind : Bind \cup {AnyBind, None}]
Locals(pc, a, o) ==
  [pc |-> pc, key |-> a, obj |-> o, env |-> o.spec.env, tok |-> None, bind |-> None]
Idle == LET a == CHOOSE a \in Access : TRUE IN Locals("idle", a, Absent(a))

Init ==
  /\ acc = [a \in Access |-> Absent(a)]
  /\ env = [e \in Env |-> "ready"]
  /\ agent = {} /\ queue = {} /\ w = Idle
  /\ edits = 0 /\ faults = [all |-> 0, losses |-> 0]

-----------------------------------------------------------------------------
(* Helpers of the steps.                                                   *)

Fault(kind) ==
  /\ kind \in FaultKind
  /\ faults.all < MaxFaults
  /\ faults' = [faults EXCEPT !.all = @ + 1]
Loss(kind) ==
  /\ kind \in FaultKind
  /\ faults.all < MaxFaults
  /\ faults' = [all |-> faults.all + 1, losses |-> faults.losses + 1]

\* The reconcile returns RequeueAfter or an error, with the object as o.
Return(o) ==
  /\ w' = Idle
  /\ acc' = [acc EXCEPT ![w.key] = o]
  /\ queue' = queue \cup {w.key}

Mine == acc[w.key]
Taken(a) == w.pc = "idle" /\ a \in queue
Ready(e) == env[e] \in {"ready", "unkeyed"}

isAgentAccessActive(d) == d.active

\* What setNotReady leaves of object o: its reconciles ignore a failed patch.
NotReady(o, reason) ==
  {[o EXCEPT !.reason = reason]} \cup (IF "patch" \in FaultKind THEN {o} ELSE {})

\* Mutant of accessSpecDrifted: only the bind address is compared.
bindDrifted(sp, d) == sp.bind # AnyBind /\ d.bind # sp.bind

\* A wildcard bind address matches whatever the access is bound to.
accessSpecDrifted(sp, d) == d.share # sp.share \/ (sp.bind # AnyBind /\ d.bind # sp.bind)

-----------------------------------------------------------------------------
(* Reconcile.                                                              *)

ReconcileGone(a) ==
  /\ Taken(a)
  /\ acc[a].phase = "absent"
  /\ queue' = queue \ {a}
  /\ UNCHANGED <<acc, env, agent, w, edits, faults>>

AddFinalizer(a) ==
  /\ Taken(a)
  /\ acc[a].phase = "live" /\ ~acc[a].finalizer
  /\ acc' = [acc EXCEPT ![a].finalizer = TRUE]
  /\ UNCHANGED <<env, agent, queue, w, edits, faults>>

Live(a) == Taken(a) /\ acc[a].phase = "live" /\ acc[a].finalizer

\* Both ask for another look, in 15 and in 10 seconds.
WaitForEnvironment(a) ==
  /\ Live(a)
  /\ ~Ready(acc[a].spec.env)
  /\ \E o \in NotReady(acc[a], IF env[acc[a].spec.env] = "missing"
                               THEN "EnvironmentMissing" ELSE "WaitingForEnvironment") :
       acc' = [acc EXCEPT ![a] = o]
  /\ UNCHANGED <<env, agent, queue, w, edits, faults>>

\* Mutant of StartReconcile: the token in the status is not looked up.
StartAnew(a) ==
  /\ Live(a)
  /\ Ready(acc[a].spec.env)
  /\ w' = Locals("create", a, acc[a])
  /\ queue' = queue \ {a}
  /\ UNCHANGED <<acc, env, agent, edits, faults>>

StartReconcile(a) ==
  /\ Live(a)
  /\ Ready(acc[a].spec.env)
  /\ w' = Locals(IF acc[a].token = None THEN "create" ELSE "status", a, acc[a])
  /\ queue' = queue \ {a}
  /\ UNCHANGED <<acc, env, agent, edits, faults>>

\* reconcileDelete: without an environment there is no agent to ask.
StartDelete(a) ==
  /\ Taken(a)
  /\ acc[a].phase = "deleting"
  /\ w' = Locals(IF env[acc[a].spec.env] = "missing" \/ acc[a].token = None
                 THEN "final" ELSE "drop", a, acc[a])
  /\ queue' = queue \ {a}
  /\ UNCHANGED <<acc, env, agent, edits, faults>>

\* The accesses in w.env's agent that carry token t.
Found(t) == {d \in agent : d.env = w.env /\ d.token = t}

\* Mutant of CheckStatus: a token that is not found is only forgotten.
CheckStatusForget ==
  /\ w.pc = "status"
  /\ \/ \E d \in Found(w.obj.token) :
          /\ isAgentAccessActive(d) /\ ~accessSpecDrifted(w.obj.spec, d)
          /\ w' = [w EXCEPT !.pc = "mark", !.tok = d.token, !.bind = d.bind]
     \/ /\ \A d \in Found(w.obj.token) :
             ~isAgentAccessActive(d) \/ accessSpecDrifted(w.obj.spec, d)
        /\ w' = [w EXCEPT !.pc = "clear"]
  /\ UNCHANGED <<acc, env, agent, queue, edits, faults>>

\* The agent's Status: still right, or missing, inactive or drifted.
CheckStatus ==
  /\ w.pc = "status"
  /\ \/ \E d \in Found(w.obj.token) :
          /\ isAgentAccessActive(d) /\ ~accessSpecDrifted(w.obj.spec, d)
          /\ w' = [w EXCEPT !.pc = "mark", !.tok = d.token, !.bind = d.bind]
     \/ /\ \A d \in Found(w.obj.token) :
             ~isAgentAccessActive(d) \/ accessSpecDrifted(w.obj.spec, d)
        /\ w' = [w EXCEPT !.pc = "release"]
  /\ UNCHANGED <<acc, env, agent, queue, edits, faults>>

\* Mutant of StatusFails: an agent that does not answer runs nothing.
StatusFailsEmpty ==
  /\ w.pc = "status"
  /\ Fault("status")
  /\ w' = [w EXCEPT !.pc = "clear"]
  /\ UNCHANGED <<acc, env, agent, queue, edits>>

\* Status fails: the object keeps what it says, another look in two minutes.
StatusFails ==
  /\ w.pc = "status"
  /\ Fault("status")
  /\ Return(Mine)
  /\ UNCHANGED <<env, agent, edits>>

\* ReleaseAccess, of a heal or of a deletion; its error is ignored.
ReleaseAccess ==
  /\ w.pc \in {"release", "drop"}
  /\ \/ faults' = faults /\ agent' = agent \ Found(w.obj.token)
     \/ Loss("release") /\ UNCHANGED agent
  /\ w' = [w EXCEPT !.pc = IF w.pc = "drop" THEN "final" ELSE "clear"]
  /\ UNCHANGED <<acc, env, queue, edits>>

\* Mutant of ClearToken: the Ready condition stays.
ClearTokenQuietly ==
  /\ w.pc = "clear"
  /\ acc' = [acc EXCEPT ![w.key].token = None, ![w.key].endpoint = None]
  /\ w' = [w EXCEPT !.pc = "create", !.obj = acc'[w.key]]
  /\ queue' = queue \cup {w.key}
  /\ UNCHANGED <<env, agent, edits, faults>>

\* The patch brings the worker the object as it is now, a new spec included.
ClearToken ==
  /\ w.pc = "clear"
  /\ acc' = [acc EXCEPT ![w.key].token = None, ![w.key].endpoint = None,
                        ![w.key].reason = "Healing"]
  /\ w' = [w EXCEPT !.pc = "create", !.obj = acc'[w.key]]
  /\ queue' = queue \cup {w.key}
  /\ UNCHANGED <<env, agent, edits, faults>>

\* An explicit bind address that another access of the agent holds.
BindTaken(e, b) == b # AnyBind /\ \E d \in agent : d.env = e /\ d.bind = b
Grantable == /\ w.obj.spec.share \in LiveShare
             /\ env[w.env] # "missing"
             /\ ~BindTaken(w.env, w.obj.spec.bind)

Fresh == Frontend \ ({d.token : d \in agent} \cup {acc[a].token : a \in Access}
                       \cup {w.tok, w.obj.token})
Created(f) ==
  agent \cup {[token |-> f, env |-> w.env, share |-> w.obj.spec.share,
               bind |-> w.obj.spec.bind, active |-> TRUE, by |-> w.key]}

AccessPrivate ==
  /\ w.pc = "create"
  /\ Grantable
  /\ \E f \in Fresh :
       agent' = Created(f) /\ w' = [w EXCEPT !.pc = "look", !.tok = f]
  /\ UNCHANGED <<acc, env, queue, edits, faults>>

\* The agent refuses, the call fails, or only its answer is lost.
AccessFails ==
  /\ w.pc = "create"
  /\ \/ ~Grantable /\ faults' = faults /\ UNCHANGED agent
     \/ Fault("create") /\ UNCHANGED agent
     \/ Loss("lost") /\ Grantable /\ \E f \in Fresh : agent' = Created(f)
  /\ \E o \in NotReady(Mine, "AccessError") : Return(o)
  /\ UNCHANGED <<env, edits>>

\* A second Status for the bind address; its error is ignored.
LookUpBind ==
  /\ w.pc = "look"
  /\ \/ \E d \in Found(w.tok) :
          faults' = faults /\ w' = [w EXCEPT !.pc = "mark", !.bind = d.bind]
     \/ /\ IF Found(w.tok) = {} THEN faults' = faults ELSE Fault("status")
        /\ w' = [w EXCEPT !.pc = "mark"]
  /\ UNCHANGED <<acc, env, agent, queue, edits>>

MarkAccessReady ==
  /\ w.pc = "mark"
  /\ Return([Mine EXCEPT !.token = w.tok,
                         !.endpoint = IF w.bind = None THEN w.tok ELSE w.bind,
                         !.reason = "Ready"])
  /\ UNCHANGED <<env, agent, edits, faults>>

\* The Update carries a resource version.
RemoveFinalizer ==
  /\ w.pc = "final"
  /\ Return(IF Mine = w.obj THEN Absent(w.key) ELSE Mine)
  /\ UNCHANGED <<env, agent, edits, faults>>

\* The manager restarts, or an API write fails and the reconcile returns the
\* error: the locals are lost, the objects come back from the initial list.
Crash ==
  /\ w.pc # "idle"
  /\ Loss("crash")
  /\ w' = Idle
  /\ queue' = queue \cup {a \in Access : acc[a].phase # "absent"}
  /\ UNCHANGED <<acc, env, agent, edits>>

-----------------------------------------------------------------------------
(* Users, environments and agents.                                         *)

Edit == edits < MaxEdits /\ edits' = edits + 1

UserCreates(a) ==
  /\ acc[a].phase = "absent"
  /\ Edit
  /\ \E sp \in UserSpec[a] :
       acc' = [acc EXCEPT ![a] = [Absent(a) EXCEPT !.phase = "live", !.spec = sp]]
  /\ queue' = queue \cup {a}
  /\ UNCHANGED <<env, agent, w, faults>>

\* A move to another environment counts as a loss: the token is looked for,
\* and released, where it never was.
UserEdits(a) ==
  /\ acc[a].phase # "absent"
  /\ Edit
  /\ \E sp \in UserSpec[a] \ {acc[a].spec} :
       /\ acc' = [acc EXCEPT ![a].spec = sp]
       /\ IF sp.env # acc[a].spec.env THEN Loss("move") ELSE faults' = faults
  /\ queue' = queue \cup {a}
  /\ UNCHANGED <<env, agent, w>>

UserDeletes(a) ==
  /\ acc[a].phase = "live"
  /\ Edit
  /\ acc' = [acc EXCEPT ![a] = IF acc[a].finalizer
                               THEN [acc[a] EXCEPT !.phase = "deleting"] ELSE Absent(a)]
  /\ queue' = queue \cup {a}
  /\ UNCHANGED <<env, agent, w, faults>>

\* mapEnvToAccesses.
AccessesOf(e) == {a \in Access : acc[a].phase # "absent" /\ acc[a].spec.env = e}

\* An environment comes up, for nothing; going down is a fault.  With the
\* object its agent goes, and what that ran.
Up(st) == CASE st = "missing" -> "pending" [] st = "pending" -> "enabled" [] OTHER -> "ready"
EnvironmentMoves(e) ==
  /\ \E st \in Follows(env[e]) :
       /\ env' = [env EXCEPT ![e] = st]
       /\ IF st = Up(env[e]) THEN faults' = faults ELSE Fault("env")
       /\ agent' = IF st = "missing" THEN {d \in agent : d.env # e} ELSE agent
  /\ queue' = queue \cup AccessesOf(e)
  /\ UNCHANGED <<acc, w, edits>>

\* The agent pod restarts with an empty registry.
AgentRestarts(e) ==
  /\ Fault("restart")
  /\ agent' = {d \in agent : d.env # e}
  /\ agent' # agent
  /\ UNCHANGED <<acc, env, queue, w, edits>>

AccessStalls ==
  /\ Fault("stall")
  /\ \E d \in agent : d.active /\ agent' = (agent \ {d}) \cup {[d EXCEPT !.active = FALSE]}
  /\ UNCHANGED <<acc, env, queue, w, edits>>

-----------------------------------------------------------------------------
Reconcile(a) ==
  \/ ReconcileGone(a) \/ AddFinalizer(a) \/ WaitForEnvironment(a)
  \/ StartReconcile(a) \/ StartDelete(a)

Step ==
  \/ CheckStatus \/ StatusFails \/ ReleaseAccess \/ ClearToken \/ AccessPrivate
  \/ AccessFails \/ LookUpBind \/ MarkAccessReady \/ RemoveFinalizer

Environment ==
  \/ \E a \in Access : UserCreates(a) \/ UserEdits(a) \/ UserDeletes(a)
  \/ \E e \in Env : EnvironmentMoves(e) \/ AgentRestarts(e)
  \/ AccessStalls

Next == (\E a \in Access : Reconcile(a)) \/ Step \/ Crash \/ Environment
Spec == Init /\ [][Next]_vars

\* A reconcile goes on, and the first-in first-out queue serves every key.
Fairness == WF_vars(Step) /\ \A a \in Access : SF_vars(Reconcile(a))
FairSpec == Spec /\ Fairness

-----------------------------------------------------------------------------
(* Properties.                                                             *)

\* Every variable has its type.
TypeOK ==
  /\ acc \in [Access -> Object]
  /\ env \in [Env -> EnvState]
  /\ agent \subseteq AccessDetail
  /\ queue \subseteq Access
  /\ w \in Worker
  /\ edits \in 0 .. MaxEdits
  /\ faults \in [all : 0 .. MaxFaults, losses : 0 .. MaxFaults]

\* What the worker is about to report has a token.
Reported == w.pc \in {"look", "mark"} => w.tok # None

\* With the types: no reconcile, whatever was edited or failed around it,
\* leaves an object Ready that names no access.
ReadyNamesAccess == \A a \in Access : acc[a].reason = "Ready" => acc[a].token # None
IInv == TypeOK /\ Reported /\ ReadyNamesAccess /\ faults.losses <= faults.all

\* An access that no status names, nor the worker that made it.
Forgotten ==
  {d \in agent : /\ acc[d.by].token # d.token
                 /\ ~(w.pc \in {"look", "mark"} /\ w.tok = d.token)
                 /\ ~(w.pc = "clear" /\ w.obj.token = d.token)}

\* Each access that keeps running without anyone knowing its token is due to
\* a crash, a lost answer, a failed release or a move of its own; edits,
\* deletions, drift, restarts and failed Status calls leave none behind.
ForgetsOnlyByLoss == Cardinality(Forgotten) <= faults.losses

\* Heals, edits and deletions in any order leave an object one access, but
\* for those that losses left behind.
OneAccessEach == \A a \in Access : Cardinality({d \in agent : d.by = a}) <= 1 + faults.losses

Ledger == {[token |-> d.token, by |-> d.by] : d \in agent}
Bound == [a \in Access |-> acc[a].token]
Hand == IF w.pc \in {"look", "mark"} THEN {[token |-> w.tok, by |-> w.key]} ELSE {}
Holding == INSTANCE AccessHolding
             WITH Token <- Frontend, accesses <- Ledger, bound <- Bound, hand <- Hand,
                  losses <- faults.losses

\* The reconciler implements AccessHolding: AccessPrivate is called only for an
\* object whose status has no token, MarkAccessReady records the token of the
\* access just made or just seen running for this object, and a token leaves
\* the status only after its access, or at the price of a loss.
KeepsHolding == Holding!Spec

\* Ready, on an active access in the right agent to the right share, at the
\* right address, which the status tells.
Serves(a) ==
  /\ acc[a].reason = "Ready"
  /\ \E d \in agent :
       /\ d.token = acc[a].token /\ d.env = acc[a].spec.env /\ d.by = a
       /\ d.active /\ d.share = acc[a].spec.share
       /\ acc[a].spec.bind \in {AnyBind, d.bind}
       /\ acc[a].endpoint = d.bind

\* An access at the explicit address that a asks for.
InTheWay(a, d) ==
  /\ d.env = acc[a].spec.env
  /\ d.bind = acc[a].spec.bind /\ d.bind # AnyBind

\* Something outside a's reconcile keeps a from its access: the environment,
\* the share, or the access that the status of another object names.
Blocked(a) ==
  \/ ~Ready(acc[a].spec.env)
  \/ acc[a].spec.share \notin LiveShare
  \/ \E d \in agent : InTheWay(a, d) /\ \E b \in Access \ {a} : acc[b].token = d.token

\* The operator is in its own way: an access that it made, and lost the token
\* of, holds a's address; no reconcile looks for one it has no token of.
Stranded(a) == \E d \in Forgotten : InTheWay(a, d)

\* Once edits and faults cease, each object is gone or serves its spec, with
\* the address in its status, unless something outside blocks it or a loss
\* stranded it: an edit at any step of a reconcile, a stalled access or an
\* address that was lost or held for a while is noticed.  What is stranded
\* stays in AccessError until the agent restarts; without losses nothing is
\* (ForgetsOnlyByLoss).
Converges ==
  \A a \in Access :
    <>[](\/ acc[a].phase = "absent"
         \/ acc[a].phase = "live" /\ (Serves(a) \/ Blocked(a) \/ Stranded(a)))
=============================================================================
