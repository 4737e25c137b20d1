---------------------- MODULE AccessControllerProofs ----------------------
(***************************************************************************)
(* Theorems about AccessController for every number of ZrokAccesses,       *)
(* environments, tokens and addresses and every bound on edits and faults: *)
(* what keeps its type, and that an access is forgotten by a loss only.    *)
(***************************************************************************)
EXTENDS AccessController, TLAPS, FiniteSetTheorems, FunctionTheorems

-----------------------------------------------------------------------------
(* The parts a reconcile is made of.                                       *)

\* An object that is gone is a well-formed record: a user's spec, no status.
LEMMA AbsentType ==
  ASSUME NEW a \in Access
  PROVE  Absent(a) \in Object /\ Absent(a).reason = "unset"
<1> DEFINE sp == CHOOSE x \in UserSpec[a] : TRUE
<1>1. sp \in AccessSpec
  BY UserSpecAssumption
<1> HIDE DEF sp
<1>2. Absent(a) = [phase |-> "absent", finalizer |-> FALSE, spec |-> sp,
                   token |-> None, endpoint |-> None, reason |-> "unset"]
  BY DEF Absent, sp
<1> QED
  BY <1>1, <1>2 DEF Object, Reason

\* A reconcile that has just begun holds well-formed locals.
LEMMA LocalsType ==
  ASSUME NEW pc \in PC, NEW a \in Access, NEW o \in Object
  PROVE  Locals(pc, a, o) \in Worker /\ Locals(pc, a, o).pc = pc
  BY DEF Locals, Worker, Object, AccessSpec

\* The worker at rest.
LEMMA IdleType == Idle \in Worker /\ Idle.pc = "idle"
<1> DEFINE a == CHOOSE x \in Access : TRUE
<1>1. a \in Access
  BY AccessAssumption
<1>2. Idle = Locals("idle", a, Absent(a))
  BY DEF Idle
<1> HIDE DEF a
<1> QED
  BY <1>1, <1>2, AbsentType, LocalsType DEF PC

\* Failures stay within their bound, and no more are losses than happened.
LEMMA FaultType ==
  ASSUME IInv, NEW kind, Fault(kind) \/ Loss(kind) \/ faults' = faults
  PROVE  /\ faults' \in [all : 0 .. MaxFaults, losses : 0 .. MaxFaults]
         /\ faults'.losses <= faults'.all
<1> USE DEF IInv, TypeOK
<1>1. CASE Fault(kind)
  BY <1>1, BoundsAssumption DEF Fault
<1>2. CASE Loss(kind)
  BY <1>2, BoundsAssumption DEF Loss
<1>3. CASE faults' = faults
  BY <1>3
<1> QED
  BY <1>1, <1>2, <1>3

\* A write to one object that is Ready only with a token.
LEMMA WriteInv ==
  ASSUME IInv, NEW a \in Access, NEW o \in Object, o.reason = "Ready" => o.token # None,
         acc' = [acc EXCEPT ![a] = o]
  PROVE  acc' \in [Access -> Object] /\ ReadyNamesAccess'
  BY DEF IInv, TypeOK, ReadyNamesAccess

\* setNotReady, its patch sent or lost, says nothing but the reason.
LEMMA NotReadyType ==
  ASSUME NEW o \in Object, NEW reason \in Reason \ {"Ready"}, NEW x \in NotReady(o, reason)
  PROVE  /\ x \in Object /\ (x.reason = "Ready" => o.reason = "Ready")
         /\ x.phase = o.phase /\ x.finalizer = o.finalizer /\ x.spec = o.spec
         /\ x.token = o.token /\ x.endpoint = o.endpoint
<1>1. x = [o EXCEPT !.reason = reason] \/ x = o
  BY DEF NotReady
<1> QED
  BY <1>1 DEF Object

\* A wait for the environment is such a write.
LEMMA WaitWrites ==
  ASSUME IInv, NEW a \in Access, WaitForEnvironment(a)
  PROVE  \E o \in Object : /\ acc' = [acc EXCEPT ![a] = o]
                           /\ o.reason = "Ready" => acc[a].reason = "Ready"
                           /\ o.phase = acc[a].phase /\ o.finalizer = acc[a].finalizer
                           /\ o.spec = acc[a].spec /\ o.token = acc[a].token
                           /\ o.endpoint = acc[a].endpoint
<1>1. PICK r \in Reason \ {"Ready"} :
        \E o \in NotReady(acc[a], r) : acc' = [acc EXCEPT ![a] = o]
  BY DEF WaitForEnvironment, Reason
<1>2. PICK o \in NotReady(acc[a], r) : acc' = [acc EXCEPT ![a] = o]
  BY <1>1
<1>3. acc[a] \in Object
  BY DEF IInv, TypeOK
<1> QED
  BY <1>2, <1>3, NotReadyType

\* A reconcile that begins changes no token and no spec.
LEMMA ReconcileKeeps ==
  ASSUME IInv, NEW a \in Access, Reconcile(a), NEW b \in Access
  PROVE  acc'[b].token = acc[b].token /\ acc'[b].spec = acc[b].spec
<1>0. acc \in [Access -> Object]
  BY DEF IInv, TypeOK
<1>1. CASE WaitForEnvironment(a)
  BY <1>0, <1>1, WaitWrites
<1> QED
  BY <1>0, <1>1 DEF Reconcile, ReconcileGone, AddFinalizer, StartReconcile, StartDelete, Object

\* A reconcile that ends with such a write.
LEMMA ReturnInv ==
  ASSUME IInv, NEW o \in Object, o.reason = "Ready" => o.token # None, Return(o)
  PROVE  /\ acc' \in [Access -> Object] /\ ReadyNamesAccess'
         /\ queue' \subseteq Access /\ w' \in Worker /\ Reported'
<1>1. w.key \in Access
  BY DEF IInv, TypeOK, Worker
<1>2. acc' \in [Access -> Object] /\ ReadyNamesAccess'
  BY <1>1, WriteInv DEF Return
<1>3. w' \in Worker /\ Reported'
  BY IdleType DEF Return, Reported
<1> QED
  BY <1>1, <1>2, <1>3 DEF Return, IInv, TypeOK

-----------------------------------------------------------------------------
(* The invariant: initially, and through every kind of step.               *)

\* The program starts without objects and accesses.
LEMMA InitInv == Init => IInv
<1> SUFFICES ASSUME Init PROVE IInv
  OBVIOUS
<1>1. acc \in [Access -> Object] /\ ReadyNamesAccess
  BY AbsentType DEF Init, ReadyNamesAccess
<1>2. w \in Worker /\ Reported
  BY IdleType DEF Init, Reported
<1>3. env \in [Env -> EnvState] /\ agent = {} /\ queue = {}
  BY DEF Init, EnvState
<1>4. /\ edits \in 0 .. MaxEdits /\ faults.losses <= faults.all
      /\ faults \in [all : 0 .. MaxFaults, losses : 0 .. MaxFaults]
  BY BoundsAssumption DEF Init
<1> QED
  BY <1>1, <1>2, <1>3, <1>4 DEF IInv, TypeOK

\* A reconcile begins, or ends before its first call.
LEMMA ReconcileInv == ASSUME IInv, NEW a \in Access, Reconcile(a) PROVE IInv'
<1> USE DEF IInv, TypeOK
<1>1. CASE ReconcileGone(a)
  BY <1>1 DEF ReconcileGone, Reported, ReadyNamesAccess
<1>2. CASE AddFinalizer(a)
  <2>1. acc' \in [Access -> Object] /\ ReadyNamesAccess'
    BY <1>2 DEF AddFinalizer, Object, ReadyNamesAccess
  <2> QED
    BY <1>2, <2>1 DEF AddFinalizer, Reported
<1>3. CASE WaitForEnvironment(a)
  <2>1. PICK o \in Object : /\ acc' = [acc EXCEPT ![a] = o] /\ o.token = acc[a].token
                            /\ o.reason = "Ready" => acc[a].reason = "Ready"
    BY <1>3, WaitWrites
  <2>2. acc' \in [Access -> Object] /\ ReadyNamesAccess'
    BY <2>1, WriteInv DEF ReadyNamesAccess
  <2> QED
    BY <1>3, <2>2 DEF WaitForEnvironment, Reported
<1>4. CASE StartReconcile(a)
  <2>1. w' \in Worker /\ w'.pc \in {"create", "status"}
    BY <1>4, LocalsType DEF StartReconcile, PC
  <2> QED
    BY <1>4, <2>1 DEF StartReconcile, Reported, ReadyNamesAccess
<1>5. CASE StartDelete(a)
  <2>1. w' \in Worker /\ w'.pc \in {"final", "drop"}
    BY <1>5, LocalsType DEF StartDelete, PC
  <2> QED
    BY <1>5, <2>1 DEF StartDelete, Reported, ReadyNamesAccess
<1> QED
  BY <1>1, <1>2, <1>3, <1>4, <1>5 DEF Reconcile

\* The access a new one is made for is the worker's.
LEMMA CreatedType ==
  ASSUME IInv, NEW f \in Frontend PROVE Created(f) \subseteq AccessDetail
<1>1. w.obj.spec \in AccessSpec /\ w.env \in Env /\ w.key \in Access
  BY DEF IInv, TypeOK, Worker, Object
<1>2. [token |-> f, env |-> w.env, share |-> w.obj.spec.share,
       bind |-> w.obj.spec.bind, active |-> TRUE, by |-> w.key] \in AccessDetail
  BY <1>1 DEF AccessDetail, AccessSpec
<1> QED
  BY <1>2 DEF Created, IInv, TypeOK

\* A call of a reconcile, answered or not.
LEMMA StepInv == ASSUME IInv, Step PROVE IInv'
<1> USE DEF IInv, TypeOK
<1>0. w.key \in Access /\ Mine \in Object /\ (Mine.reason = "Ready" => Mine.token # None)
  BY DEF Worker, Mine, ReadyNamesAccess
<1>1. CASE CheckStatus
  <2>1. CASE w' = [w EXCEPT !.pc = "release"]
    <3>1. w' \in Worker /\ Reported'
      BY <2>1 DEF Worker, PC, Reported
    <3> QED
      BY <1>1, <3>1 DEF CheckStatus, ReadyNamesAccess
  <2>2. CASE \E d \in Found(w.obj.token) :
               w' = [w EXCEPT !.pc = "mark", !.tok = d.token, !.bind = d.bind]
    <3>1. PICK d \in AccessDetail :
            w' = [w EXCEPT !.pc = "mark", !.tok = d.token, !.bind = d.bind]
      BY <2>2 DEF Found
    <3>2. d.token \in Frontend /\ d.bind \in Bind \cup {AnyBind}
      BY DEF AccessDetail
    <3>3. w' \in Worker /\ Reported'
      BY <3>1, <3>2, ValuesAssumption DEF Worker, PC, Reported
    <3> QED
      BY <1>1, <3>3 DEF CheckStatus, ReadyNamesAccess
  <2> QED
    BY <1>1, <2>1, <2>2 DEF CheckStatus
<1>2. CASE StatusFails
  BY <1>0, <1>2, ReturnInv, FaultType DEF StatusFails
<1>3. CASE ReleaseAccess
  <2>1. w' \in Worker /\ Reported'
    BY <1>3 DEF ReleaseAccess, Worker, PC, Reported
  <2>2. agent' \subseteq AccessDetail
    BY <1>3 DEF ReleaseAccess
  <2>3. \E k \in {"release"} : Loss(k) \/ faults' = faults
    BY <1>3 DEF ReleaseAccess
  <2> QED
    BY <1>3, <2>1, <2>2, <2>3, FaultType DEF ReleaseAccess, ReadyNamesAccess
<1>4. CASE ClearToken
  <2> DEFINE o == [Mine EXCEPT !.token = None, !.endpoint = None, !.reason = "Healing"]
  <2>1. o \in Object /\ o.reason # "Ready"
    BY <1>0 DEF Object, Reason
  <2>2. acc' = [acc EXCEPT ![w.key] = o]
    BY <1>0, <1>4 DEF ClearToken, Mine
  <2>3. acc' \in [Access -> Object] /\ ReadyNamesAccess'
    BY <1>0, <2>1, <2>2, WriteInv
  <2>4. w' \in Worker /\ Reported'
    BY <1>0, <1>4, <2>3 DEF ClearToken, Worker, PC, Reported
  <2> QED
    BY <1>0, <1>4, <2>3, <2>4 DEF ClearToken
<1>5. CASE AccessPrivate
  <2>1. PICK f \in Frontend : agent' = Created(f) /\ w' = [w EXCEPT !.pc = "look", !.tok = f]
    BY <1>5 DEF AccessPrivate, Fresh
  <2>2. w' \in Worker /\ Reported'
    BY <2>1, ValuesAssumption DEF Worker, PC, Reported
  <2> QED
    BY <1>5, <2>1, <2>2, CreatedType DEF AccessPrivate, ReadyNamesAccess
<1>6. CASE AccessFails
  <2>1. PICK o \in NotReady(Mine, "AccessError") : Return(o)
    BY <1>6 DEF AccessFails
  <2>2. o \in Object /\ (o.reason = "Ready" => o.token # None)
    BY <1>0, NotReadyType DEF Reason
  <2>3. agent' \subseteq AccessDetail
    BY <1>6, CreatedType DEF AccessFails, Fresh
  <2>4. \E k \in {"create", "lost"} : Fault(k) \/ Loss(k) \/ faults' = faults
    BY <1>6 DEF AccessFails
  <2> QED
    BY <1>6, <2>1, <2>2, <2>3, <2>4, ReturnInv, FaultType DEF AccessFails
<1>7. CASE LookUpBind
  <2>1. w' \in Worker /\ Reported'
    BY <1>7 DEF LookUpBind, Worker, PC, Reported, Found, AccessDetail
  <2>2. \E k \in {"status"} : Fault(k) \/ faults' = faults
    BY <1>7 DEF LookUpBind
  <2> QED
    BY <1>7, <2>1, <2>2, FaultType DEF LookUpBind, ReadyNamesAccess
<1>8. CASE MarkAccessReady
  <2> DEFINE o == [Mine EXCEPT !.token = w.tok,
                               !.endpoint = IF w.bind = None THEN w.tok ELSE w.bind,
                               !.reason = "Ready"]
  <2>1. w.tok \in Frontend /\ w.bind \in Bind \cup {AnyBind, None}
    BY <1>8 DEF MarkAccessReady, Reported, Worker
  <2>2. o \in Object /\ o.token # None
    BY <1>0, <2>1, ValuesAssumption DEF Object, Reason
  <2>3. Return(o) /\ UNCHANGED <<env, agent, edits, faults>>
    BY <1>8 DEF MarkAccessReady
  <2> HIDE DEF o
  <2> QED
    BY <2>2, <2>3, ReturnInv
<1>9. CASE RemoveFinalizer
  <2>1. /\ Absent(w.key) \in Object /\ Absent(w.key).reason # "Ready"
    BY <1>0, AbsentType
  <2> QED
    BY <1>0, <1>9, <2>1, ReturnInv DEF RemoveFinalizer
<1> QED
  BY <1>1, <1>2, <1>3, <1>4, <1>5, <1>6, <1>7, <1>8, <1>9 DEF Step

\* Users, environments and agents.
LEMMA EnvironmentInv == ASSUME IInv, Environment PROVE IInv'
<1> USE DEF IInv, TypeOK
<1>0. ASSUME Edit PROVE edits' \in 0 .. MaxEdits
  BY <1>0, BoundsAssumption DEF Edit
<1>1. ASSUME NEW a \in Access, UserCreates(a) PROVE IInv'
  <2>1. PICK sp \in AccessSpec :
          acc' = [acc EXCEPT ![a] = [Absent(a) EXCEPT !.phase = "live", !.spec = sp]]
    BY <1>1, UserSpecAssumption DEF UserCreates
  <2>2. /\ [Absent(a) EXCEPT !.phase = "live", !.spec = sp] \in Object
        /\ [Absent(a) EXCEPT !.phase = "live", !.spec = sp].reason # "Ready"
    BY AbsentType DEF Object
  <2>3. acc' \in [Access -> Object] /\ ReadyNamesAccess'
    BY <2>1, <2>2, WriteInv
  <2> QED
    BY <1>0, <1>1, <2>3 DEF UserCreates, Reported
<1>2. ASSUME NEW a \in Access, UserEdits(a) PROVE IInv'
  <2>1. PICK sp \in AccessSpec :
          /\ acc' = [acc EXCEPT ![a].spec = sp]
          /\ \E k \in {"move"} : Loss(k) \/ faults' = faults
    BY <1>2, UserSpecAssumption DEF UserEdits
  <2>2. acc' \in [Access -> Object] /\ ReadyNamesAccess'
    BY <2>1 DEF Object, ReadyNamesAccess
  <2> QED
    BY <1>0, <1>2, <2>1, <2>2, FaultType DEF UserEdits, Reported
<1>3. ASSUME NEW a \in Access, UserDeletes(a) PROVE IInv'
  <2>1. PICK o \in {Absent(a), [acc[a] EXCEPT !.phase = "deleting"]} :
          acc' = [acc EXCEPT ![a] = o]
    BY <1>3 DEF UserDeletes
  <2>2. o \in Object /\ (o.reason = "Ready" => o.token # None)
    BY <2>1, AbsentType DEF Object, ReadyNamesAccess
  <2>3. acc' \in [Access -> Object] /\ ReadyNamesAccess'
    BY <2>1, <2>2, WriteInv
  <2> QED
    BY <1>0, <1>3, <2>3 DEF UserDeletes, Reported
<1>4. ASSUME NEW e \in Env, EnvironmentMoves(e) PROVE IInv'
  <2>1. Follows(env[e]) \subseteq EnvState
    BY DEF EnvState, Follows
  <2>2. env' \in [Env -> EnvState] /\ agent' \subseteq AccessDetail
    BY <1>4, <2>1 DEF EnvironmentMoves
  <2>3. \E k \in {"env"} : Fault(k) \/ faults' = faults
    BY <1>4 DEF EnvironmentMoves
  <2> QED
    BY <1>4, <2>2, <2>3, FaultType
       DEF EnvironmentMoves, AccessesOf, Reported, ReadyNamesAccess
<1>5. ASSUME NEW e \in Env, AgentRestarts(e) PROVE IInv'
  BY <1>5, FaultType DEF AgentRestarts, Reported, ReadyNamesAccess
<1>6. CASE AccessStalls
  <2>1. agent' \subseteq AccessDetail
    BY <1>6 DEF AccessStalls, AccessDetail
  <2> QED
    BY <1>6, <2>1, FaultType DEF AccessStalls, Reported, ReadyNamesAccess
<1> QED
  BY <1>1, <1>2, <1>3, <1>4, <1>5, <1>6 DEF Environment

\* ... and through every step.
LEMMA NextInv == ASSUME IInv, [Next]_vars PROVE IInv'
<1>1. CASE Crash
  <2>1. w' \in Worker /\ Reported'
    BY <1>1, IdleType DEF Crash, Reported
  <2> QED
    BY <1>1, <2>1, FaultType DEF Crash, IInv, TypeOK, ReadyNamesAccess
<1>2. CASE UNCHANGED vars
  BY <1>2 DEF vars, IInv, TypeOK, Reported, ReadyNamesAccess
<1> QED
  BY <1>1, <1>2, ReconcileInv, StepInv, EnvironmentInv DEF Next

\* In every behaviour, with any edits and faults, an object that is Ready
\* names an access, and what is reported is never without a token.
THEOREM Invariance == Spec => []IInv
<1>1. IInv /\ [Next]_vars => IInv'
  BY NextInv
<1> QED
  BY InitInv, <1>1, PTL DEF Spec

-----------------------------------------------------------------------------
(* ForgetsOnlyByLoss.  A move of an object may cost its access in two      *)
(* ways: the access that its status names is looked for in the wrong       *)
(* agent, or a reconcile under way makes the new one in the agent it set   *)
(* out for.  The proof counts the accesses at risk, and the one that is    *)
(* still owed to a move.                                                   *)

\* Access d will be found and released in time: its object names it where the
\* object, and the reconcile under way, will look; or the worker is about to
\* record it there.
Known(d) ==
  /\ acc[d.by].token = d.token
  /\ d.env = acc[d.by].spec.env
  /\ w.pc # "idle" /\ w.key = d.by => d.env = w.env /\ w.pc \notin {"clear", "final"}
Recorded(d) == w.pc \in {"look", "mark"} /\ w.tok = d.token /\ d.env = Mine.spec.env
Firm(d) == Known(d) \/ Recorded(d)

Risky == {d.token : d \in {x \in agent : ~Firm(x)}}

\* The object moved after the reconcile began: the access that will be made
\* is in the wrong agent.  As long as the one to be released is in place it is
\* that one which counts.
Owed ==
  /\ w.pc \in {"status", "release", "clear", "create"}
  /\ w.env # Mine.spec.env
  /\ w.pc \in {"status", "release"} =>
       ~\E d \in agent : d.token = Mine.token /\ d.env = w.env

Liable == Risky \cup (IF Owed THEN {None} ELSE {})

\* Without its finalizer an object has no token and is not being deleted.
Whole(o) ==
  /\ ~o.finalizer => o.token = None /\ o.phase # "deleting"
  /\ o.phase = "absent" => ~o.finalizer

\* The worker's copy has the object's token.
WorkerHolds ==
  /\ w.pc # "idle" => Mine.token = w.obj.token /\ Mine.finalizer
  /\ w.pc \in {"create", "look"} => Mine.token = None
  /\ w.pc = "mark" => Mine.token \in {None, w.tok}
  /\ \A a \in Access : Whole(acc[a])

\* A token stands for one access, made for the object that names it.
TokensUnique ==
  /\ \A d, e \in agent : d.token = e.token => d = e
  /\ \A d \in agent, a \in Access : acc[a].token = d.token => d.by = a
  /\ \A d \in agent : w.pc \in {"look", "mark"} /\ d.token = w.tok => d.by = w.key

\* Without an environment there is no agent.
AgentsHaveEnvironments == \A d \in agent : env[d.env] # "missing"

Counted == IsFiniteSet(agent) /\ Cardinality(Liable) <= faults.losses

LossInv == WorkerHolds /\ TokensUnique /\ AgentsHaveEnvironments /\ Counted

-----------------------------------------------------------------------------
(* What the worker holds.                                                  *)

\* Types that are used throughout.
LEMMA Types ==
  ASSUME IInv
  PROVE  /\ w.key \in Access /\ Mine \in Object /\ acc \in [Access -> Object]
         /\ \A d \in agent : d.token \in Frontend /\ d.token # None /\ d.by \in Access
         /\ w \in Worker /\ w.obj \in Object
         /\ None \notin Frontend
  BY ValuesAssumption DEF IInv, TypeOK, Worker, Mine, AccessDetail

\* An object that is gone has no token.
LEMMA AbsentEmpty ==
  ASSUME NEW a \in Access
  PROVE  Absent(a).token = None /\ Absent(a).phase = "absent" /\ Whole(Absent(a))
  BY DEF Absent, Whole

\* A write to an object that the worker is not busy with, or that leaves its
\* token and finalizer.
LEMMA OthersHold ==
  ASSUME IInv, WorkerHolds, w' = w, NEW a \in Access, NEW o \in Object, Whole(o),
         acc' = [acc EXCEPT ![a] = o],
         \/ o.token = acc[a].token /\ (acc[a].finalizer => o.finalizer)
         \/ ~acc[a].finalizer
  PROVE  WorkerHolds'
<1>1. \A b \in Access : acc'[b] = IF b = a THEN o ELSE acc[b]
  BY Types
<1>2. \A b \in Access : Whole(acc[b])'
  BY <1>1 DEF WorkerHolds, Whole
<1>3. CASE w.key # a
  <2>1. Mine' = Mine
    BY <1>1, <1>3, Types DEF Mine
  <2> QED
    BY <1>2, <2>1 DEF WorkerHolds
<1>4. CASE w.key = a
  <2>1. Mine' = o /\ Mine = acc[a]
    BY <1>1, <1>4, Types DEF Mine
  <2> QED
    BY <1>2, <2>1 DEF WorkerHolds
<1> QED
  BY <1>3, <1>4

\* A reconcile that ends.
LEMMA ReturnHolds ==
  ASSUME IInv, WorkerHolds, NEW o \in Object, Whole(o), Return(o) PROVE WorkerHolds'
<1>1. \A b \in Access : acc'[b] = IF b = w.key THEN o ELSE acc[b]
  BY Types DEF Return
<1>2. w'.pc = "idle"
  BY IdleType DEF Return
<1>3. \A b \in Access : Whole(acc[b])'
  BY <1>1 DEF WorkerHolds, Whole
<1> QED
  BY <1>2, <1>3 DEF WorkerHolds

\* The worker's copy stays what it is when a reconcile begins,
LEMMA WorkerHoldsReconcile ==
  ASSUME IInv, WorkerHolds, NEW a \in Access, Reconcile(a) PROVE WorkerHolds'
<1>0. acc[a] \in Object /\ Whole(acc[a])
  BY Types DEF WorkerHolds
<1>1. CASE ReconcileGone(a)
  BY <1>1 DEF ReconcileGone, WorkerHolds, Mine, Whole
<1>2. CASE AddFinalizer(a)
  <2> DEFINE o == [acc[a] EXCEPT !.finalizer = TRUE]
  <2>1. acc' = [acc EXCEPT ![a] = o] /\ w' = w
    BY <1>2, Types DEF AddFinalizer
  <2>2. o \in Object /\ Whole(o) /\ ~acc[a].finalizer
    BY <1>0, <1>2 DEF Object, AddFinalizer, Whole
  <2> HIDE DEF o
  <2> QED
    BY <2>1, <2>2, OthersHold
<1>3. CASE WaitForEnvironment(a)
  <2>1. PICK o \in Object : /\ acc' = [acc EXCEPT ![a] = o]
                            /\ o.phase = acc[a].phase /\ o.finalizer = acc[a].finalizer
                            /\ o.token = acc[a].token
    BY <1>3, WaitWrites
  <2>2. Whole(o) /\ w' = w
    BY <1>0, <1>3, <2>1 DEF Whole, WaitForEnvironment
  <2> QED
    BY <2>1, <2>2, OthersHold
<1>4. CASE StartReconcile(a)
  <2>1. /\ acc' = acc /\ w'.key = a /\ w'.obj = acc[a] /\ acc[a].finalizer
        /\ w'.pc = IF acc[a].token = None THEN "create" ELSE "status"
    BY <1>4 DEF StartReconcile, Locals, Live
  <2> QED
    BY <2>1 DEF WorkerHolds, Mine, Whole
<1>5. CASE StartDelete(a)
  <2>1. /\ acc' = acc /\ w'.key = a /\ w'.obj = acc[a] /\ acc[a].finalizer
        /\ w'.pc \in {"final", "drop"}
    BY <1>0, <1>5 DEF StartDelete, Locals, Whole
  <2> QED
    BY <2>1 DEF WorkerHolds, Mine, Whole
<1> QED
  BY <1>1, <1>2, <1>3, <1>4, <1>5 DEF Reconcile

\* ... at each of its calls,
LEMMA WorkerHoldsStep == ASSUME IInv, WorkerHolds, Step \/ Crash PROVE WorkerHolds'
<1>0. /\ w.pc # "idle" => Mine.finalizer
      /\ Mine \in Object /\ Whole(Mine) /\ w \in Worker
  BY Types DEF WorkerHolds, Mine
<1>1. CASE CheckStatus
  <2>1. /\ acc' = acc /\ w.pc = "status"
        /\ w'.key = w.key /\ w'.obj = w.obj
        /\ w'.pc = "release" \/ (w'.pc = "mark" /\ w'.tok = w.obj.token)
    BY <1>0, <1>1 DEF CheckStatus, Worker, Found
  <2> QED
    BY <2>1 DEF WorkerHolds, Mine, Whole
<1>2. CASE StatusFails
  <2>1. Return(Mine)
    BY <1>2 DEF StatusFails
  <2> QED
    BY <1>0, <2>1, ReturnHolds
<1>3. CASE AccessFails
  <2>1. PICK o \in NotReady(Mine, "AccessError") : Return(o)
    BY <1>3 DEF AccessFails
  <2>2. o \in Object /\ Whole(o)
    BY <1>0, NotReadyType DEF Reason, Whole
  <2> QED
    BY <2>1, <2>2, ReturnHolds
<1>4. CASE MarkAccessReady
  <2> DEFINE o == [Mine EXCEPT !.token = w.tok,
                               !.endpoint = IF w.bind = None THEN w.tok ELSE w.bind,
                               !.reason = "Ready"]
  <2>1. Return(o)
    BY <1>4 DEF MarkAccessReady
  <2>2. w.tok \in Frontend /\ w.bind \in Bind \cup {AnyBind, None}
    BY <1>0, <1>4 DEF MarkAccessReady, Worker, IInv, Reported
  <2>3. o \in Object /\ Whole(o)
    BY <1>0, <1>4, <2>2 DEF Object, Reason, Whole, MarkAccessReady
  <2> HIDE DEF o
  <2> QED
    BY <2>1, <2>3, ReturnHolds
<1>5. CASE RemoveFinalizer
  <2>1. \E o \in {Mine, Absent(w.key)} : Return(o)
    BY <1>5 DEF RemoveFinalizer
  <2>2. Absent(w.key) \in Object /\ Whole(Absent(w.key))
    BY AbsentEmpty, AbsentType, Types
  <2> QED
    BY <1>0, <2>1, <2>2, ReturnHolds
<1>6. CASE ReleaseAccess
  <2>1. /\ acc' = acc /\ w.pc # "idle"
        /\ w'.key = w.key /\ w'.obj = w.obj /\ w'.pc \in {"clear", "final"}
    BY <1>0, <1>6 DEF ReleaseAccess, Worker
  <2> QED
    BY <2>1 DEF WorkerHolds, Mine, Whole
<1>7. CASE ClearToken
  <2> DEFINE o == [Mine EXCEPT !.token = None, !.endpoint = None, !.reason = "Healing"]
  <2>1. /\ acc' = [acc EXCEPT ![w.key] = o]
        /\ w' = [w EXCEPT !.pc = "create", !.obj = acc'[w.key]]
    BY <1>7, Types DEF ClearToken, Mine
  <2>2. Whole(o) /\ o.token = None /\ o.finalizer
    BY <1>0, <1>7 DEF Object, Whole, ClearToken
  <2> HIDE DEF o
  <2>3. \A b \in Access : acc'[b] = IF b = w.key THEN o ELSE acc[b]
    BY <2>1, Types
  <2>4. w'.pc = "create" /\ w'.key = w.key /\ w'.obj = o
    BY <1>0, <2>1, <2>3, Types DEF Worker
  <2>5. Mine' = o
    BY <2>3, <2>4, Types DEF Mine
  <2>6. \A b \in Access : Whole(acc[b])'
    BY <2>2, <2>3 DEF WorkerHolds, Whole
  <2> QED
    BY <2>2, <2>4, <2>5, <2>6 DEF WorkerHolds
<1>8. CASE AccessPrivate
  <2>1. /\ acc' = acc /\ w.pc = "create"
        /\ w'.key = w.key /\ w'.obj = w.obj /\ w'.pc = "look"
    BY <1>0, <1>8 DEF AccessPrivate, Worker
  <2> QED
    BY <2>1 DEF WorkerHolds, Mine, Whole
<1>9. CASE LookUpBind
  <2>1. /\ acc' = acc /\ w.pc = "look"
        /\ w'.key = w.key /\ w'.obj = w.obj /\ w'.pc = "mark"
    BY <1>0, <1>9 DEF LookUpBind, Worker
  <2> QED
    BY <2>1 DEF WorkerHolds, Mine, Whole
<1>10. CASE Crash
  <2>1. acc' = acc /\ w'.pc = "idle"
    BY <1>10, IdleType DEF Crash
  <2> QED
    BY <2>1 DEF WorkerHolds, Whole
<1> QED
  BY <1>1, <1>2, <1>3, <1>4, <1>5, <1>6, <1>7, <1>8, <1>9, <1>10 DEF Step

\* ... and whatever users do: they cannot take an object from under a
\* reconcile, which has set its finalizer.
LEMMA WorkerHoldsEnvironment == ASSUME IInv, WorkerHolds, Environment PROVE WorkerHolds'
<1>1. ASSUME NEW a \in Access, UserCreates(a) PROVE WorkerHolds'
  <2>1. PICK sp \in AccessSpec :
          acc' = [acc EXCEPT ![a] = [Absent(a) EXCEPT !.phase = "live", !.spec = sp]]
    BY <1>1, UserSpecAssumption DEF UserCreates
  <2> DEFINE o == [Absent(a) EXCEPT !.phase = "live", !.spec = sp]
  <2>2. o \in Object /\ Whole(o)
    BY AbsentType, AbsentEmpty DEF Object, Whole
  <2>3. w' = w /\ ~acc[a].finalizer
    BY <1>1 DEF UserCreates, WorkerHolds, Whole
  <2>4. acc' = [acc EXCEPT ![a] = o]
    BY <2>1
  <2> HIDE DEF o
  <2> QED
    BY <2>2, <2>3, <2>4, OthersHold
<1>2. ASSUME NEW a \in Access, UserEdits(a) PROVE WorkerHolds'
  <2>1. PICK sp \in AccessSpec : acc' = [acc EXCEPT ![a] = [acc[a] EXCEPT !.spec = sp]]
    BY <1>2, UserSpecAssumption, Types DEF UserEdits
  <2> DEFINE o == [acc[a] EXCEPT !.spec = sp]
  <2>2. acc[a] \in Object /\ Whole(acc[a]) /\ w' = w
    BY <1>2, Types DEF WorkerHolds, UserEdits
  <2>3. o \in Object /\ Whole(o) /\ o.token = acc[a].token /\ o.finalizer = acc[a].finalizer
    BY <2>2 DEF Object, Whole
  <2>4. acc' = [acc EXCEPT ![a] = o]
    BY <2>1
  <2> HIDE DEF o
  <2> QED
    BY <2>2, <2>3, <2>4, OthersHold
<1>3. ASSUME NEW a \in Access, UserDeletes(a) PROVE WorkerHolds'
  <2>1. acc[a] \in Object /\ Whole(acc[a]) /\ w' = w
    BY <1>3, Types DEF WorkerHolds, UserDeletes
  <2>2. CASE acc[a].finalizer
    <3> DEFINE o == [acc[a] EXCEPT !.phase = "deleting"]
    <3>1. o \in Object /\ Whole(o) /\ o.token = acc[a].token /\ o.finalizer = acc[a].finalizer
      BY <2>1, <2>2 DEF Object, Whole
    <3>2. acc' = [acc EXCEPT ![a] = o]
      BY <1>3, <2>2 DEF UserDeletes
    <3> HIDE DEF o
    <3> QED
      BY <2>1, <3>1, <3>2, OthersHold
  <2>3. CASE ~acc[a].finalizer
    <3>1. acc' = [acc EXCEPT ![a] = Absent(a)]
      BY <1>3, <2>3 DEF UserDeletes
    <3> QED
      BY <2>1, <2>3, <3>1, AbsentType, AbsentEmpty, OthersHold
  <2> QED
    BY <2>2, <2>3
<1>4. CASE (\E e \in Env : EnvironmentMoves(e) \/ AgentRestarts(e)) \/ AccessStalls
  <2>1. acc' = acc /\ w' = w
    BY <1>4 DEF EnvironmentMoves, AgentRestarts, AccessStalls
  <2> QED
    BY <2>1 DEF WorkerHolds, Mine, Whole
<1> QED
  BY <1>1, <1>2, <1>3, <1>4 DEF Environment

-----------------------------------------------------------------------------
(* The tokens and the agents.                                              *)

\* What a step does with tokens: objects forget them, or the worker records
\* the one it holds; it comes to hold the one that its object has.
Passing ==
  /\ agent' \subseteq agent
  /\ \A a \in Access : \/ acc'[a].token \in {acc[a].token, None}
                       \/ a = w.key /\ w.pc = "mark" /\ acc'[a].token = w.tok
  /\ w'.pc \in {"look", "mark"} =>
       /\ w'.key = w.key
       /\ \/ w.pc \in {"look", "mark"} /\ w'.tok = w.tok
          \/ w'.tok = Mine.token

\* A new access has a token of its own.
Making ==
  \E f \in Fresh :
    /\ w.pc = "create" /\ env[w.env] # "missing" /\ env' = env
    /\ agent' = Created(f)
    /\ \A a \in Access : acc'[a].token = acc[a].token
    /\ (w'.pc = "look" /\ w'.tok = f /\ w'.key = w.key) \/ w'.pc = "idle"

\* An access that stalls stays what it is.
Stalling ==
  /\ \E d \in agent : agent' = (agent \ {d}) \cup {[d EXCEPT !.active = FALSE]}
  /\ UNCHANGED <<acc, w, env>>

\* A reconcile that ends, with a token that the object had or the worker holds.
LEMMA ReturnPasses ==
  ASSUME IInv, NEW o, Return(o), agent' \subseteq agent,
         o.token \in {Mine.token, None} \/ (w.pc = "mark" /\ o.token = w.tok)
  PROVE  Passing
<1>1. \A b \in Access : acc'[b] = IF b = w.key THEN o ELSE acc[b]
  BY Types DEF Return
<1>2. w'.pc = "idle"
  BY IdleType DEF Return
<1> QED
  BY <1>1, <1>2, Types DEF Passing, Mine

\* Every step does one of the three.
LEMMA Tokens == ASSUME IInv, WorkerHolds, Next PROVE Passing \/ Making \/ Stalling
<1>0. /\ w \in Worker /\ Mine \in Object /\ w.key \in Access /\ acc \in [Access -> Object]
      /\ w.pc # "idle" => Mine.token = w.obj.token
  BY Types DEF WorkerHolds
<1>1. ASSUME NEW a \in Access, Reconcile(a) PROVE Passing
  <2>1. \A b \in Access : acc'[b].token = acc[b].token
    BY <1>1, ReconcileKeeps
  <2>2. w' = w \/ w'.pc \in {"create", "status", "final", "drop"}
    BY <1>1 DEF Reconcile, ReconcileGone, AddFinalizer, WaitForEnvironment, StartReconcile,
                StartDelete, Locals
  <2>3. agent' = agent
    BY <1>1 DEF Reconcile, ReconcileGone, AddFinalizer, WaitForEnvironment, StartReconcile,
                StartDelete
  <2> QED
    BY <2>1, <2>2, <2>3 DEF Passing
<1>2. CASE CheckStatus
  <2>1. /\ acc' = acc /\ agent' = agent /\ w.pc = "status"
        /\ w'.key = w.key
        /\ w'.pc = "release" \/ (w'.pc = "mark" /\ w'.tok = w.obj.token)
    BY <1>0, <1>2 DEF CheckStatus, Worker, Found
  <2> QED
    BY <1>0, <2>1 DEF Passing
<1>3. CASE StatusFails \/ RemoveFinalizer
  <2>1. \E o \in {Mine, Absent(w.key)} : Return(o)
    BY <1>3 DEF StatusFails, RemoveFinalizer
  <2>2. agent' = agent
    BY <1>3 DEF StatusFails, RemoveFinalizer
  <2> QED
    BY <1>0, <2>1, <2>2, ReturnPasses, AbsentEmpty
<1>4. CASE MarkAccessReady
  <2> DEFINE o == [Mine EXCEPT !.token = w.tok,
                               !.endpoint = IF w.bind = None THEN w.tok ELSE w.bind,
                               !.reason = "Ready"]
  <2>1. Return(o) /\ agent' = agent /\ w.pc = "mark" /\ o.token = w.tok
    BY <1>0, <1>4 DEF MarkAccessReady, Object
  <2> HIDE DEF o
  <2> QED
    BY <2>1, ReturnPasses
<1>5. CASE AccessFails
  <2>0. PICK o \in NotReady(Mine, "AccessError") : Return(o)
    BY <1>5 DEF AccessFails
  <2>1. Return(o) /\ o.token = Mine.token /\ w.pc = "create" /\ env' = env
    BY <1>0, <1>5, <2>0, NotReadyType DEF AccessFails, Reason
  <2>2. CASE agent' = agent
    BY <2>1, <2>2, ReturnPasses
  <2>3. CASE Grantable /\ \E f \in Fresh : agent' = Created(f)
    <3>1. \A b \in Access : acc'[b].token = acc[b].token
      BY <1>0, <2>1 DEF Return, Mine
    <3>2. w'.pc = "idle"
      BY <2>1, IdleType DEF Return
    <3> QED
      BY <2>1, <2>3, <3>1, <3>2 DEF Making, Grantable
  <2> QED
    BY <1>5, <2>2, <2>3 DEF AccessFails
<1>6. CASE ReleaseAccess
  <2>1. acc' = acc /\ agent' \subseteq agent /\ w'.pc \in {"clear", "final"}
    BY <1>0, <1>6 DEF ReleaseAccess, Worker
  <2> QED
    BY <2>1 DEF Passing
<1>7. CASE ClearToken
  <2>1. \A b \in Access : acc'[b].token \in {acc[b].token, None}
    BY <1>0, <1>7 DEF ClearToken, Object
  <2>2. agent' = agent /\ w'.pc = "create"
    BY <1>0, <1>7 DEF ClearToken, Worker
  <2> QED
    BY <2>1, <2>2 DEF Passing
<1>8. CASE AccessPrivate
  <2>1. PICK f \in Fresh : agent' = Created(f) /\ w' = [w EXCEPT !.pc = "look", !.tok = f]
    BY <1>8 DEF AccessPrivate
  <2>2. w'.pc = "look" /\ w'.tok = f /\ w'.key = w.key
    BY <1>0, <2>1 DEF Worker
  <2> QED
    BY <1>8, <2>1, <2>2 DEF AccessPrivate, Making, Grantable
<1>9. CASE LookUpBind
  <2>1. /\ acc' = acc /\ agent' = agent /\ w.pc = "look"
        /\ w'.key = w.key /\ w'.tok = w.tok
    BY <1>0, <1>9 DEF LookUpBind, Worker
  <2> QED
    BY <2>1 DEF Passing
<1>10. CASE Crash
  <2>1. acc' = acc /\ agent' = agent /\ w'.pc = "idle"
    BY <1>10, IdleType DEF Crash
  <2> QED
    BY <2>1 DEF Passing
<1>11. ASSUME NEW a \in Access, UserCreates(a) \/ UserEdits(a) \/ UserDeletes(a) PROVE Passing
  <2>1. acc[a] \in Object /\ agent' = agent /\ w' = w
    BY <1>0, <1>11 DEF UserCreates, UserEdits, UserDeletes
  <2>2. CASE UserCreates(a)
    <3>1. PICK sp : acc' = [acc EXCEPT ![a] = [Absent(a) EXCEPT !.phase = "live", !.spec = sp]]
      BY <2>2 DEF UserCreates
    <3>2. [Absent(a) EXCEPT !.phase = "live", !.spec = sp].token = None
      BY AbsentType, AbsentEmpty DEF Object
    <3>3. \A b \in Access : acc'[b].token \in {acc[b].token, None}
      BY <1>0, <3>1, <3>2
    <3> QED
      BY <2>1, <3>3 DEF Passing
  <2>3. CASE UserEdits(a)
    <3>1. \A b \in Access : acc'[b].token = acc[b].token
      BY <1>0, <2>1, <2>3 DEF UserEdits, Object
    <3> QED
      BY <2>1, <3>1 DEF Passing
  <2>4. CASE UserDeletes(a)
    <3>1. \A b \in Access : acc'[b].token \in {acc[b].token, None}
      BY <1>0, <2>1, <2>4, AbsentEmpty DEF UserDeletes, Object
    <3> QED
      BY <2>1, <3>1 DEF Passing
  <2> QED
    BY <1>11, <2>2, <2>3, <2>4
<1>12. ASSUME NEW e \in Env, EnvironmentMoves(e) \/ AgentRestarts(e) PROVE Passing
  <2>1. acc' = acc /\ w' = w /\ agent' \subseteq agent
    BY <1>12 DEF EnvironmentMoves, AgentRestarts
  <2> QED
    BY <2>1 DEF Passing
<1>13. CASE AccessStalls
  BY <1>13 DEF AccessStalls, Stalling
<1> QED
  BY <1>1, <1>2, <1>3, <1>4, <1>5, <1>6, <1>7, <1>8, <1>9, <1>10, <1>11, <1>12, <1>13
     DEF Next, Step, Environment

\* What is made, and what a stalled access keeps.
LEMMA CreatedFields ==
  ASSUME NEW f
  PROVE  \E e : /\ e.token = f /\ e.env = w.env /\ e.by = w.key
                /\ Created(f) = agent \cup {e}
<1> DEFINE e == [token |-> f, env |-> w.env, share |-> w.obj.spec.share,
                 bind |-> w.obj.spec.bind, active |-> TRUE, by |-> w.key]
<1>1. e.token = f /\ e.env = w.env /\ e.by = w.key /\ Created(f) = agent \cup {e}
  BY DEF Created
<1> QED
  BY <1>1

\* An access that stalls is found in the same place.
LEMMA StalledFields ==
  ASSUME IInv, Stalling
  PROVE  \E d, e :
           /\ d \in agent
           /\ e.token = d.token /\ e.env = d.env /\ e.by = d.by
           /\ agent' = (agent \ {d}) \cup {e}
<1>1. PICK d \in agent : agent' = (agent \ {d}) \cup {[d EXCEPT !.active = FALSE]}
  BY DEF Stalling
<1> DEFINE e == [d EXCEPT !.active = FALSE]
<1>2. e.token = d.token /\ e.env = d.env /\ e.by = d.by
  BY DEF IInv, TypeOK, AccessDetail
<1> QED
  BY <1>1, <1>2

\* Tokens stay unique,
LEMMA TokensUniqueInv ==
  ASSUME IInv, WorkerHolds, TokensUnique, Next PROVE TokensUnique'
<1>1. CASE Passing
  BY <1>1, Types DEF Passing, TokensUnique, Mine
<1>2. CASE Making
  <2>1. PICK f \in Fresh :
          /\ agent' = Created(f) /\ w.pc = "create"
          /\ \A a \in Access : acc'[a].token = acc[a].token
          /\ (w'.pc = "look" /\ w'.tok = f /\ w'.key = w.key) \/ w'.pc = "idle"
    BY <1>2 DEF Making
  <2>2. PICK e : e.token = f /\ e.by = w.key /\ agent' = agent \cup {e}
    BY <2>1, CreatedFields
  <2>3. (\A d \in agent : d.token # f) /\ (\A a \in Access : acc[a].token # f)
    BY <2>1 DEF Fresh
  <2> QED
    BY <2>1, <2>2, <2>3 DEF TokensUnique
<1>3. CASE Stalling
  <2>1. PICK d, e :
          /\ d \in agent
          /\ e.token = d.token /\ e.env = d.env /\ e.by = d.by
          /\ agent' = (agent \ {d}) \cup {e}
    BY <1>3, StalledFields
  <2>2. acc' = acc /\ w' = w
    BY <1>3 DEF Stalling
  <2> QED
    BY <2>1, <2>2 DEF TokensUnique
<1> QED
  BY <1>1, <1>2, <1>3, Tokens

\* ... the accesses finitely many,
LEMMA FiniteInv == ASSUME IInv, WorkerHolds, IsFiniteSet(agent), Next PROVE IsFiniteSet(agent')
<1>1. CASE Passing
  BY <1>1, FS_Subset DEF Passing
<1>2. CASE Making
  <2>1. \E e : agent' = agent \cup {e}
    BY <1>2, CreatedFields DEF Making
  <2> QED
    BY <2>1, FS_AddElement
<1>3. CASE Stalling
  <2>1. PICK d, e : agent' = (agent \ {d}) \cup {e}
    BY <1>3 DEF Stalling
  <2>2. IsFiniteSet(agent \ {d})
    BY FS_Subset
  <2> QED
    BY <2>1, <2>2, FS_AddElement
<1> QED
  BY <1>1, <1>2, <1>3, Tokens

\* ... and each in an environment that is there.
LEMMA AgentsHaveEnvironmentsInv ==
  ASSUME IInv, WorkerHolds, AgentsHaveEnvironments, Next PROVE AgentsHaveEnvironments'
<1>1. ASSUME NEW e \in Env, EnvironmentMoves(e) PROVE AgentsHaveEnvironments'
  <2>1. PICK st \in Follows(env[e]) :
          /\ env' = [env EXCEPT ![e] = st]
          /\ agent' = IF st = "missing" THEN {d \in agent : d.env # e} ELSE agent
    BY <1>1 DEF EnvironmentMoves
  <2>2. \A x \in Env : env'[x] = IF x = e THEN st ELSE env[x]
    BY <2>1 DEF IInv, TypeOK
  <2>3. \A d \in agent : d.env \in Env
    BY DEF IInv, TypeOK, AccessDetail
  <2> QED
    BY <2>1, <2>2, <2>3 DEF AgentsHaveEnvironments
<1>2. ASSUME env' = env PROVE AgentsHaveEnvironments'
  <2>1. CASE Passing
    BY <1>2, <2>1 DEF Passing, AgentsHaveEnvironments
  <2>2. CASE Making
    <3>1. PICK f \in Fresh : agent' = Created(f) /\ env[w.env] # "missing"
      BY <2>2 DEF Making
    <3>2. PICK e : e.env = w.env /\ agent' = agent \cup {e}
      BY <3>1, CreatedFields
    <3> QED
      BY <1>2, <3>1, <3>2 DEF AgentsHaveEnvironments
  <2>3. CASE Stalling
    BY <1>2, <2>3, StalledFields DEF AgentsHaveEnvironments
  <2> QED
    BY <2>1, <2>2, <2>3, Tokens
<1>3. env' = env \/ \E e \in Env : EnvironmentMoves(e)
  BY DEF Next, Reconcile, ReconcileGone, AddFinalizer, WaitForEnvironment, StartReconcile,
     StartDelete, Step, CheckStatus, StatusFails, ReleaseAccess, ClearToken, AccessPrivate,
     AccessFails, LookUpBind, MarkAccessReady, RemoveFinalizer, Crash, Environment, UserCreates,
     UserEdits, UserDeletes, AgentRestarts, AccessStalls
<1> QED
  BY <1>1, <1>2, <1>3

-----------------------------------------------------------------------------
(* The account of each step.                                               *)

\* An access at risk was at risk before, or carries z.
Keeps(z) ==
  \A d \in agent' : ~Firm(d)' /\ d.token # z => \E c \in agent : c.token = d.token /\ ~Firm(c)

Free == faults'.losses = faults.losses
Paid == faults'.losses = faults.losses + 1

Accounted ==
  \/ Free /\ Liable' \subseteq Liable
  \/ Free /\ \E x, y : x \in Liable /\ Liable' \subseteq (Liable \ {x}) \cup {y}
  \/ Paid /\ \E y : Liable' \subseteq Liable \cup {y}

\* No access carries None.
LEMMA KeepsAll ==
  ASSUME IInv, IInv', NEW z, Keeps(z) PROVE Risky' \subseteq Risky \cup ({z} \ {None})
<1>1. ASSUME NEW t \in Risky' PROVE t \in Risky \cup ({z} \ {None})
  <2>1. PICK d \in agent' : t = d.token /\ ~Firm(d)'
    BY <1>1 DEF Risky
  <2>2. d.token # None
    BY ValuesAssumption DEF IInv, TypeOK, AccessDetail
  <2>3. CASE d.token # z
    BY <2>1, <2>3 DEF Keeps, Risky
  <2> QED
    BY <2>1, <2>2, <2>3
<1> QED
  BY <1>1

\* A step that costs nothing, or what is paid for.
LEMMA Costless ==
  ASSUME IInv, IInv', Free, Keeps(None), Owed' => Owed PROVE Accounted
BY KeepsAll DEF Accounted, Liable

\* A loss costs one access.
LEMMA Costs ==
  ASSUME IInv, IInv', Paid, NEW z, Keeps(z), Owed' => Owed PROVE Accounted
<1>1. Liable' \subseteq Liable \cup {z}
  BY KeepsAll DEF Liable
<1> QED
  BY <1>1 DEF Accounted

\* A loss may be owed.
LEMMA CostsLater ==
  ASSUME IInv, IInv', Paid, Keeps(None) PROVE Accounted
<1>1. Liable' \subseteq Liable \cup {None}
  BY KeepsAll DEF Liable
<1> QED
  BY <1>1 DEF Accounted

\* What a step does to the accesses that are no longer there, and to those
\* that are new.
LEMMA KeepsFirm ==
  ASSUME NEW z, \A d \in agent' : d.token # z => d \in agent /\ (Firm(d) => Firm(d)')
  PROVE  Keeps(z)
BY DEF Keeps

\* The accesses that run are the same, as far as the account goes.
Mirrored ==
  /\ \A d \in agent' : \E c \in agent : c.token = d.token /\ c.env = d.env /\ c.by = d.by
  /\ \A c \in agent : \E d \in agent' : c.token = d.token /\ c.env = d.env /\ c.by = d.by

\* What happens to objects next to the worker, when none moves.
LEMMA Quiet ==
  ASSUME IInv, IInv', Free, Mirrored, w' = w,
         \A b \in Access : acc'[b].token = acc[b].token,
         \A b \in Access : \/ acc'[b].spec.env = acc[b].spec.env
                           \/ acc[b].token = None /\ ~(w.pc # "idle" /\ w.key = b)
  PROVE  Accounted
<1>1. w.pc # "idle" => Mine'.spec.env = Mine.spec.env /\ Mine'.token = Mine.token
  BY Types DEF Mine
<1>2. Owed' => Owed
  BY <1>1 DEF Owed, Mirrored
<1>3. Keeps(None)
  <2>1. SUFFICES ASSUME NEW d \in agent', ~Firm(d)', d.token # None
                 PROVE  \E c \in agent : c.token = d.token /\ ~Firm(c)
    BY DEF Keeps
  <2>2. PICK c \in agent : c.token = d.token /\ c.env = d.env /\ c.by = d.by
    BY DEF Mirrored
  <2>3. c.by \in Access
    BY Types
  <2>4. ~Known(c)
    BY <2>1, <2>2, <2>3 DEF Firm, Known
  <2>5. ~Recorded(c)
    BY <1>1, <2>1, <2>2 DEF Firm, Recorded
  <2> QED
    BY <2>2, <2>4, <2>5 DEF Firm
<1> QED
  BY <1>2, <1>3, Costless

\* Accesses that disappear pay for what is owed.
LEMMA Removal ==
  ASSUME IInv, IInv', WorkerHolds, TokensUnique, Free, w' = w, acc' = acc, agent' \subseteq agent
  PROVE  Accounted
<1>1. \A d : Firm(d)' <=> Firm(d)
  BY DEF Firm, Known, Recorded, Mine
<1>2. Keeps(None)
  BY <1>1 DEF Keeps
<1>3. CASE Owed' => Owed
  BY <1>2, <1>3, Costless
<1>4. CASE Owed' /\ ~Owed
  <2>1. /\ w.pc \in {"status", "release"} /\ w.env # Mine.spec.env
        /\ \A d \in agent' : ~(d.token = Mine.token /\ d.env = w.env)
    BY <1>4 DEF Owed, Mine
  <2>2. PICK d \in agent : d.token = Mine.token /\ d.env = w.env
    BY <1>4, <2>1 DEF Owed
  <2>3. d \notin agent' /\ ~Firm(d)
    BY <2>1, <2>2, Types DEF Firm, Known, Recorded, Mine, TokensUnique
  <2>4. d.token \notin Risky' /\ d.token \in Risky
    BY <2>2, <2>3 DEF Risky, TokensUnique
  <2>5. Liable' \subseteq (Liable \ {d.token}) \cup {None}
    BY <1>2, <2>4, KeepsAll DEF Liable
  <2> QED
    BY <2>4, <2>5 DEF Accounted, Liable
<1> QED
  BY <1>3, <1>4

\* A reconcile that begins: it sets out for where the object is.
LEMMA AccountReconcile ==
  ASSUME IInv, IInv', WorkerHolds, AgentsHaveEnvironments, NEW a \in Access, Reconcile(a)
  PROVE  Accounted
<1>0. agent' = agent /\ Free /\ w.pc = "idle" /\ acc[a] \in Object
  BY Types DEF Reconcile, ReconcileGone, AddFinalizer, WaitForEnvironment, StartReconcile,
               StartDelete, Free, Live, Taken
<1>1. CASE ReconcileGone(a) \/ AddFinalizer(a) \/ WaitForEnvironment(a)
  <2>1. w' = w /\ \A b \in Access : acc'[b].token = acc[b].token
                                    /\ acc'[b].spec.env = acc[b].spec.env
    BY <1>0, <1>1, ReconcileKeeps DEF ReconcileGone, AddFinalizer, WaitForEnvironment
  <2> QED
    BY <1>0, <2>1, Quiet DEF Mirrored
<1>2. CASE StartReconcile(a) \/ StartDelete(a)
  <2>1. /\ acc' = acc /\ w'.key = a /\ w'.env = acc[a].spec.env
        /\ w'.pc \in {"create", "status", "drop", "final"}
        /\ w'.pc = "final" => env[acc[a].spec.env] = "missing" \/ acc[a].token = None
    BY <1>2 DEF StartReconcile, StartDelete, Locals
  <2>2. ~Owed'
    BY <2>1 DEF Owed, Mine
  <2>3. \A d \in agent : Firm(d) => Firm(d)'
    <3>1. SUFFICES ASSUME NEW d \in agent, Firm(d) PROVE Known(d)'
      BY DEF Firm
    <3>2. acc[d.by].token = d.token /\ d.env = acc[d.by].spec.env /\ d.token # None
      BY <1>0, <3>1, Types DEF Firm, Known, Recorded
    <3>3. env[d.env] # "missing"
      BY DEF AgentsHaveEnvironments
    <3> QED
      BY <2>1, <3>2, <3>3 DEF Known
  <2>4. Keeps(None)
    BY <1>0, <2>3, KeepsFirm
  <2> QED
    BY <1>0, <2>2, <2>4, Costless
<1> QED
  BY <1>1, <1>2 DEF Reconcile

\* A reconcile that ends with the token and the place its object had.
LEMMA Ends ==
  ASSUME IInv, IInv', NEW z, w'.pc = "idle", w.pc \in {"look", "mark"} => w.tok = z,
         \A b \in Access : acc'[b].token = acc[b].token /\ acc'[b].spec.env = acc[b].spec.env,
         \A d \in agent' : d.token # z => d \in agent
  PROVE  Keeps(z) /\ ~Owed'
<1>1. ~Owed'
  BY DEF Owed
<1>2. ASSUME NEW d \in agent', d.token # z, Firm(d) PROVE Firm(d)'
  BY <1>2, Types DEF Firm, Known, Recorded
<1> QED
  BY <1>1, <1>2, KeepsFirm

\* The calls of a reconcile that end it,
LEMMA AccountEnd ==
  ASSUME IInv, IInv', WorkerHolds, TokensUnique,
         StatusFails \/ AccessFails \/ MarkAccessReady \/ RemoveFinalizer \/ Crash
  PROVE  Accounted
<1>0. w.key \in Access /\ Mine \in Object /\ acc \in [Access -> Object] /\ w'.pc = "idle"
  BY Types, IdleType DEF StatusFails, AccessFails, MarkAccessReady, RemoveFinalizer, Crash, Return
<1>1. CASE StatusFails
  <2>1. /\ \A b \in Access : acc'[b] = acc[b]
        /\ agent' = agent /\ Free /\ w.pc = "status"
    BY <1>0, <1>1 DEF StatusFails, Return, Mine, Fault, Free, IInv, TypeOK
  <2> QED
    BY <1>0, <2>1, Ends, Costless
<1>2. CASE AccessFails
  <2>1. /\ w.pc = "create"
        /\ \A b \in Access : acc'[b].token = acc[b].token /\ acc'[b].spec.env = acc[b].spec.env
    <3>1. PICK o \in NotReady(Mine, "AccessError") : Return(o)
      BY <1>2 DEF AccessFails
    <3>2. o.token = Mine.token /\ o.spec = Mine.spec
      BY <1>0, NotReadyType DEF Reason
    <3> QED
      BY <1>0, <1>2, <3>1, <3>2 DEF AccessFails, Return, Mine
  <2>2. CASE Free /\ agent' = agent
    BY <1>0, <2>1, <2>2, Ends, Costless
  <2>3. CASE Paid /\ \E f \in Fresh : agent' = Created(f)
    <3>1. PICK f \in Fresh : agent' = Created(f)
      BY <2>3
    <3>2. \A d \in agent' : d.token # f => d \in agent
      BY <3>1, CreatedFields
    <3>3. Keeps(f) /\ ~Owed'
      BY <1>0, <2>1, <3>2, Ends
    <3> QED
      BY <2>3, <3>3, Costs
  <2>4. (Free /\ agent' = agent) \/ (Paid /\ \E f \in Fresh : agent' = Created(f))
    BY <1>2 DEF AccessFails, Fault, Loss, Free, Paid, IInv, TypeOK
  <2> QED
    BY <2>2, <2>3, <2>4
<1>3. CASE MarkAccessReady
  <2>1. /\ agent' = agent /\ Free /\ w.pc = "mark"
        /\ \A b \in Access : b # w.key => acc'[b] = acc[b]
        /\ acc'[w.key].token = w.tok /\ acc'[w.key].spec.env = Mine.spec.env
    BY <1>0, <1>3 DEF MarkAccessReady, Return, Free, Mine, Object
  <2>2. ~Owed'
    BY <1>0 DEF Owed
  <2>3. ASSUME NEW d \in agent, Firm(d) PROVE Firm(d)'
    <3>1. CASE Known(d)
      <4>1. d.by = w.key => d.token = w.tok
        BY <2>1, <3>1, Types DEF Known, WorkerHolds, Mine
      <4> QED
        BY <1>0, <2>1, <3>1, <4>1, Types DEF Firm, Known, Mine
    <3>2. CASE Recorded(d)
      <4>1. d.by = w.key /\ d.token = w.tok /\ d.env = Mine.spec.env
        BY <3>2 DEF Recorded, TokensUnique
      <4> QED
        BY <1>0, <2>1, <4>1 DEF Firm, Known
    <3> QED
      BY <2>3, <3>1, <3>2 DEF Firm
  <2>4. Keeps(None)
    BY <2>1, <2>3, KeepsFirm
  <2> QED
    BY <2>1, <2>2, <2>4, Costless
<1>4. CASE RemoveFinalizer
  <2>1. /\ agent' = agent /\ Free /\ w.pc = "final"
        /\ \A b \in Access : b # w.key => acc'[b] = acc[b]
        /\ acc'[w.key] \in {Mine, Absent(w.key)}
    BY <1>0, <1>4 DEF RemoveFinalizer, Return, Free
  <2>2. ~Owed'
    BY <1>0 DEF Owed
  <2>3. CASE acc'[w.key] = Mine
    <3>1. \A b \in Access : acc'[b] = acc[b]
      BY <2>1, <2>3 DEF Mine
    <3> QED
      BY <1>0, <2>1, <3>1, Ends, Costless
  <2>4. CASE acc'[w.key] # Mine
    <3>1. ASSUME NEW d \in agent, Firm(d) PROVE Firm(d)'
      BY <1>0, <2>1, <3>1, Types DEF Firm, Known, Recorded, Mine
    <3>2. Keeps(None)
      BY <2>1, <3>1, KeepsFirm
    <3> QED
      BY <2>1, <2>2, <3>2, Costless
  <2> QED
    BY <2>3, <2>4
<1>5. CASE Crash
  <2>1. agent' = agent /\ Paid /\ acc' = acc
    BY <1>5 DEF Crash, Loss, Paid, IInv, TypeOK
  <2>2. Keeps(w.tok) /\ ~Owed'
    BY <1>0, <2>1, Ends
  <2> QED
    BY <2>1, <2>2, Costs
<1> QED
  BY <1>1, <1>2, <1>3, <1>4, <1>5

\* ... and those after which it goes on: the agent is asked where the
\* reconcile set out for,
LEMMA AccountGoOn ==
  ASSUME IInv, IInv', WorkerHolds, CheckStatus \/ ClearToken \/ LookUpBind
  PROVE  Accounted
<1>0. w \in Worker /\ w.key \in Access /\ Mine \in Object /\ acc \in [Access -> Object]
      /\ w.pc # "idle" /\ agent' = agent
  BY Types DEF CheckStatus, ClearToken, LookUpBind
<1>1. CASE CheckStatus
  <2>1. /\ acc' = acc /\ Free /\ w.pc = "status"
        /\ w'.key = w.key /\ w'.env = w.env /\ w'.obj = w.obj /\ w'.pc \in {"release", "mark"}
    BY <1>0, <1>1 DEF CheckStatus, Worker, Free
  <2>2. Owed' => Owed
    BY <1>0, <2>1 DEF Owed, Mine
  <2>3. \A d \in agent : Firm(d) => Firm(d)'
    BY <1>0, <2>1 DEF Firm, Known, Recorded
  <2>4. Keeps(None)
    BY <1>0, <2>3, KeepsFirm
  <2> QED
    BY <2>1, <2>2, <2>4, Costless
<1>2. CASE ClearToken
  <2> DEFINE o == [Mine EXCEPT !.token = None, !.endpoint = None, !.reason = "Healing"]
  <2>1. /\ w.pc = "clear" /\ Free
        /\ acc' = [acc EXCEPT ![w.key] = o]
        /\ w' = [w EXCEPT !.pc = "create", !.obj = acc'[w.key]]
    BY <1>2, Types DEF ClearToken, Mine, Free
  <2>2. o.spec = Mine.spec
    BY <1>0 DEF Object
  <2> HIDE DEF o
  <2>3. \A b \in Access : acc'[b] = IF b = w.key THEN o ELSE acc[b]
    BY <1>0, <2>1
  <2>4. w'.pc = "create" /\ w'.key = w.key /\ w'.env = w.env
    BY <1>0, <2>1 DEF Worker
  <2>5. Mine'.spec = Mine.spec
    BY <1>0, <2>2, <2>3, <2>4 DEF Mine
  <2>6. Owed' => Owed
    BY <1>0, <2>1, <2>4, <2>5 DEF Owed
  <2>7. ASSUME NEW d \in agent, Firm(d) PROVE Firm(d)'
    BY <1>0, <2>1, <2>3, <2>4, <2>7, Types DEF Firm, Known, Recorded
  <2>8. Keeps(None)
    BY <1>0, <2>7, KeepsFirm
  <2> QED
    BY <2>1, <2>6, <2>8, Costless
<1>3. CASE LookUpBind
  <2>1. /\ acc' = acc /\ Free /\ w.pc = "look"
        /\ w'.key = w.key /\ w'.env = w.env /\ w'.tok = w.tok /\ w'.pc = "mark"
    BY <1>0, <1>3 DEF LookUpBind, Worker, Fault, Free, IInv, TypeOK
  <2>2. ~Owed'
    BY <2>1 DEF Owed
  <2>3. \A d \in agent : Firm(d) => Firm(d)'
    BY <1>0, <2>1 DEF Firm, Known, Recorded, Mine
  <2>4. Keeps(None)
    BY <1>0, <2>3, KeepsFirm
  <2> QED
    BY <2>1, <2>2, <2>4, Costless
<1> QED
  BY <1>1, <1>2, <1>3

\* ... released there,
LEMMA AccountRelease ==
  ASSUME IInv, IInv', WorkerHolds, TokensUnique, ReleaseAccess PROVE Accounted
<1>1. /\ w.pc \in {"release", "drop"} /\ acc' = acc /\ agent' \subseteq agent
      /\ w'.key = w.key /\ w'.env = w.env
      /\ w'.pc = IF w.pc = "drop" THEN "final" ELSE "clear"
      /\ w.obj.token = Mine.token /\ Mine' = Mine /\ w.key \in Access
  BY Types DEF ReleaseAccess, Worker, WorkerHolds, Mine
<1>2. ASSUME NEW d \in agent, Firm(d) PROVE Firm(d)' \/ (d.token = Mine.token /\ d.env = w.env)
  BY <1>1, <1>2 DEF Firm, Known, Recorded, Mine
\* What is owed from now on was at risk in the agent that was asked.
<1>3. CASE Owed' /\ ~Owed
  <2>1. /\ w.pc = "release" /\ w.env # Mine.spec.env
    BY <1>1, <1>3 DEF Owed
  <2>2. PICK d \in agent : d.token = Mine.token /\ d.env = w.env
    BY <1>3, <2>1 DEF Owed
  <2>3. ~Firm(d)
    BY <1>1, <2>1, <2>2, Types DEF Firm, Known, Recorded, Mine, TokensUnique
  <2>4. \A x \in agent : Firm(x) => Firm(x)'
    BY <1>2, <2>2, <2>3 DEF TokensUnique
  <2>5. Keeps(None)
    BY <1>1, <2>4, KeepsFirm
  <2>6. CASE faults' = faults /\ agent' = agent \ Found(w.obj.token)
    <3>1. d \notin agent'
      BY <1>1, <2>2, <2>6 DEF Found
    <3>2. d.token \notin Risky' /\ d.token \in Risky
      BY <1>1, <2>2, <2>3, <3>1 DEF Risky, TokensUnique
    <3>3. Liable' \subseteq (Liable \ {d.token}) \cup {None}
      BY <2>5, <3>2, KeepsAll DEF Liable
    <3> QED
      BY <2>6, <3>2, <3>3 DEF Accounted, Liable, Free
  <2>7. CASE Loss("release")
    <3>1. Paid
      BY <2>7 DEF Loss, Paid
    <3> QED
      BY <2>5, <3>1, CostsLater
  <2> QED
    BY <2>6, <2>7 DEF ReleaseAccess
<1>4. CASE Owed' => Owed
  <2>1. CASE faults' = faults /\ agent' = agent \ Found(w.obj.token)
    <3>1. \A d \in agent' : Firm(d) => Firm(d)'
      BY <1>1, <1>2, <2>1 DEF Found
    <3>2. Keeps(None)
      BY <1>1, <3>1, KeepsFirm
    <3> QED
      BY <1>4, <2>1, <3>2, Costless DEF Free
  <2>2. CASE Loss("release") /\ agent' = agent
    <3>1. Keeps(Mine.token)
      BY <1>2, <2>2, KeepsFirm
    <3>2. Paid
      BY <2>2 DEF Loss, Paid
    <3> QED
      BY <1>4, <3>1, <3>2, Costs
  <2> QED
    BY <2>1, <2>2 DEF ReleaseAccess
<1> QED
  BY <1>3, <1>4

\* ... and made there.
LEMMA AccountCreate ==
  ASSUME IInv, IInv', WorkerHolds, TokensUnique, AccessPrivate PROVE Accounted
<1>1. PICK f \in Fresh :
        agent' = Created(f) /\ w' = [w EXCEPT !.pc = "look", !.tok = f] /\ f \in Frontend
  BY DEF AccessPrivate, Fresh
<1>2. /\ w.pc = "create" /\ acc' = acc /\ Free
      /\ w'.pc = "look" /\ w'.tok = f /\ w'.key = w.key /\ w'.env = w.env
      /\ w.key \in Access /\ Mine' = Mine
  BY <1>1, Types DEF AccessPrivate, Worker, Free, Mine
<1>3. PICK e : e.token = f /\ e.env = w.env /\ e.by = w.key /\ agent' = agent \cup {e}
  BY <1>1, CreatedFields
<1>4. \A d \in agent : Firm(d) => Firm(d)'
  BY <1>2 DEF Firm, Known, Recorded
<1>5. ~Owed'
  BY <1>2 DEF Owed
<1>6. CASE Owed
  <2>1. Keeps(f)
    BY <1>3, <1>4, KeepsFirm
  <2>2. Liable' \subseteq (Liable \ {None}) \cup {f}
    <3>1. None \notin Risky'
      BY ValuesAssumption DEF Risky, IInv, TypeOK, AccessDetail
    <3> QED
      BY <1>5, <2>1, <3>1, KeepsAll DEF Liable
  <2> QED
    BY <1>2, <1>6, <2>2 DEF Accounted, Liable
<1>7. CASE ~Owed
  <2>1. w.env = Mine.spec.env
    BY <1>2, <1>7 DEF Owed
  <2>2. Recorded(e)'
    BY <1>2, <1>3, <2>1 DEF Recorded
  <2>3. Keeps(None)
    BY <1>3, <1>4, <2>2 DEF Keeps, Firm
  <2> QED
    BY <1>2, <1>5, <2>3, Costless
<1> QED
  BY <1>6, <1>7

\* An object that moves: its access is looked for elsewhere, or the one to
\* come is owed.
LEMMA AccountMove ==
  ASSUME IInv, IInv', WorkerHolds, TokensUnique, NEW a \in Access, Paid, w' = w, agent' = agent,
         \A b \in Access : acc'[b].token = acc[b].token,
         \A b \in Access : b # a => acc'[b].spec.env = acc[b].spec.env
  PROVE  Accounted
<1>0. w.key \in Access
  BY Types
\* The worker is elsewhere, or about to let go.
<1>1. CASE w.pc \in {"idle", "drop", "final"} \/ w.key # a
  <2>1. Owed' => Owed
    BY <1>0, <1>1 DEF Owed, Mine
  <2>2. ASSUME NEW d \in agent, d.token # acc[a].token, Firm(d) PROVE Firm(d)'
    BY <1>0, <1>1, <2>2, Types DEF Firm, Known, Recorded, Mine
  <2>3. Keeps(acc[a].token)
    BY <2>2, KeepsFirm
  <2> QED
    BY <2>1, <2>3, Costs
\* It has the token that the object will have.
<1>2. CASE w.pc \in {"look", "mark"} /\ w.key = a
  <2>1. ~Owed'
    BY <1>2 DEF Owed
  <2>2. acc[a].token \in {None, w.tok}
    BY <1>2 DEF WorkerHolds, Mine
  <2>3. ASSUME NEW d \in agent, d.token # w.tok, Firm(d) PROVE Firm(d)'
    BY <1>2, <2>2, <2>3, Types DEF Firm, Known, Recorded
  <2>4. Keeps(w.tok)
    BY <2>3, KeepsFirm
  <2> QED
    BY <2>1, <2>4, Costs
\* It has let go of the last access and is about to make the next.
<1>3. CASE w.pc \in {"clear", "create"} /\ w.key = a
  <2>1. ASSUME NEW d \in agent, Firm(d) PROVE Firm(d)'
    BY <1>3, <2>1, Types DEF Firm, Known, Recorded, WorkerHolds, Mine
  <2>2. Keeps(None)
    BY <2>1, KeepsFirm
  <2> QED
    BY <2>2, CostsLater
\* It may yet find the access that the object names.
<1>4. CASE w.pc \in {"status", "release"} /\ w.key = a
  <2>1. CASE Owed' => Owed
    <3>1. ASSUME NEW d \in agent, d.token # acc[a].token, Firm(d) PROVE Firm(d)'
      BY <1>4, <3>1, Types DEF Firm, Known, Recorded
    <3>2. Keeps(acc[a].token)
      BY <3>1, KeepsFirm
    <3> QED
      BY <2>1, <3>2, Costs
  <2>2. CASE Owed' /\ ~Owed
    <3>1. \A d \in agent : ~(d.token = Mine.token /\ d.env = w.env)
      BY <1>0, <1>4, <2>2 DEF Owed, Mine
    <3>2. ASSUME NEW d \in agent, Firm(d) PROVE Firm(d)'
      BY <1>4, <3>1, <3>2, Types DEF Firm, Known, Recorded, Mine
    <3>3. Keeps(None)
      BY <3>2, KeepsFirm
    <3> QED
      BY <3>3, CostsLater
  <2> QED
    BY <2>1, <2>2
<1>5. w.pc \in PC
  BY Types DEF Worker
<1> QED
  BY <1>1, <1>2, <1>3, <1>4, <1>5 DEF PC

\* What users, environments and agents do.
LEMMA AccountEnvironment ==
  ASSUME IInv, IInv', WorkerHolds, TokensUnique, Environment PROVE Accounted
<1>0. acc \in [Access -> Object]
  BY Types
<1>1. ASSUME NEW a \in Access, UserCreates(a) \/ UserDeletes(a) PROVE Accounted
  <2>1. /\ w' = w /\ agent' = agent /\ Free /\ acc[a] \in Object /\ Whole(acc[a])
        /\ \A b \in Access : b # a => acc'[b] = acc[b]
    BY <1>0, <1>1 DEF UserCreates, UserDeletes, Free, WorkerHolds
  <2>2. CASE acc[a].finalizer
    <3>1. acc'[a].token = acc[a].token /\ acc'[a].spec = acc[a].spec
      <4>1. UserDeletes(a)
        BY <1>1, <2>1, <2>2 DEF UserCreates, Whole
      <4>2. acc' = [acc EXCEPT ![a] = [acc[a] EXCEPT !.phase = "deleting"]]
        BY <2>2, <4>1 DEF UserDeletes
      <4>3. acc'[a] = [acc[a] EXCEPT !.phase = "deleting"]
        BY <1>0, <4>2
      <4> QED
        BY <2>1, <4>3 DEF Object
    <3> QED
      BY <2>1, <3>1, Quiet DEF Mirrored
  <2>3. CASE ~acc[a].finalizer
    <3>1. ASSUME UserCreates(a) PROVE acc'[a].token = None
      <4>1. PICK sp : acc' = [acc EXCEPT ![a] = [Absent(a) EXCEPT !.phase = "live", !.spec = sp]]
        BY <3>1 DEF UserCreates
      <4>2. [Absent(a) EXCEPT !.phase = "live", !.spec = sp].token = None
        BY AbsentType, AbsentEmpty DEF Object
      <4> QED
        BY <1>0, <4>1, <4>2
    <3>2. ASSUME UserDeletes(a) PROVE acc'[a].token = None
      BY <1>0, <2>3, <3>2, AbsentEmpty DEF UserDeletes
    <3>3. acc'[a].token = None
      BY <1>1, <3>1, <3>2
    <3>4. acc[a].token = None /\ ~(w.pc # "idle" /\ w.key = a)
      BY <2>1, <2>3 DEF Whole, WorkerHolds, Mine
    <3> QED
      BY <2>1, <3>3, <3>4, Quiet DEF Mirrored
  <2> QED
    BY <2>2, <2>3
<1>2. ASSUME NEW a \in Access, UserEdits(a) PROVE Accounted
  <2>1. PICK sp : /\ acc' = [acc EXCEPT ![a].spec = sp]
                  /\ IF sp.env # acc[a].spec.env THEN Loss("move") ELSE faults' = faults
    BY <1>2 DEF UserEdits
  <2>2. /\ w' = w /\ agent' = agent
        /\ \A b \in Access : acc'[b].token = acc[b].token
        /\ \A b \in Access : b # a => acc'[b].spec.env = acc[b].spec.env
        /\ acc'[a].spec = sp
    BY <1>0, <1>2, <2>1 DEF UserEdits, Object
  <2>3. CASE sp.env = acc[a].spec.env
    <3>1. \A b \in Access : acc'[b].spec.env = acc[b].spec.env
      BY <2>2, <2>3
    <3> QED
      BY <2>1, <2>2, <2>3, <3>1, Quiet DEF Mirrored, Free
  <2>4. CASE sp.env # acc[a].spec.env
    <3>1. Paid
      BY <2>1, <2>4 DEF Loss, Paid
    <3> QED
      BY <2>2, <3>1, AccountMove
  <2> QED
    BY <2>3, <2>4
<1>3. ASSUME NEW e \in Env, EnvironmentMoves(e) \/ AgentRestarts(e) PROVE Accounted
  <2>1. acc' = acc /\ w' = w /\ agent' \subseteq agent /\ Free
    BY <1>3 DEF EnvironmentMoves, AgentRestarts, Fault, Free, IInv, TypeOK
  <2> QED
    BY <2>1, Removal
<1>4. CASE AccessStalls
  <2>1. Stalling /\ Free
    BY <1>4 DEF AccessStalls, Stalling, Fault, Free, IInv, TypeOK
  <2>2. PICK d, e :
          /\ d \in agent
          /\ e.token = d.token /\ e.env = d.env /\ e.by = d.by
          /\ agent' = (agent \ {d}) \cup {e}
    BY <2>1, StalledFields
  <2>3. Mirrored
    BY <2>2 DEF Mirrored
  <2>4. acc' = acc /\ w' = w
    BY <2>1 DEF Stalling
  <2> QED
    BY <2>1, <2>3, <2>4, Quiet
<1> QED
  BY <1>1, <1>2, <1>3, <1>4 DEF Environment

\* Every step is accounted for.
LEMMA Account ==
  ASSUME IInv, IInv', WorkerHolds, TokensUnique, AgentsHaveEnvironments, Next PROVE Accounted
BY AccountReconcile, AccountEnd, AccountGoOn, AccountRelease, AccountCreate, AccountEnvironment
   DEF Next, Step

-----------------------------------------------------------------------------
(* The count.                                                              *)

\* Finitely many accesses are liable.
LEMMA LiableFinite ==
  ASSUME IsFiniteSet(agent)
  PROVE  IsFiniteSet(Liable) /\ Cardinality(Liable) \in Nat
<1> DEFINE S == {x \in agent : ~Firm(x)}
           f == [d \in S |-> d.token]
<1>1. IsFiniteSet(S)
  BY FS_Subset
<1>2. f \in Surjection(S, Risky)
  <2>1. f \in [S -> Risky]
    BY DEF Risky
  <2>2. \A t \in Risky : \E d \in S : f[d] = t
    BY DEF Risky
  <2> HIDE DEF f, S
  <2> QED
    BY <2>1, <2>2, Fun_IsSurj
<1>3. IsFiniteSet(Risky)
  <2> HIDE DEF f, S
  <2> QED
    BY <1>1, <1>2, FS_Surjection, Zenon
<1>4. IsFiniteSet(Risky \cup {None})
  BY <1>3, FS_AddElement
<1>5. IsFiniteSet(Liable)
  BY <1>3, <1>4 DEF Liable
<1> QED
  BY <1>5, FS_CardinalityType

\* The count goes up with the losses, and never else.
LEMMA CountedInv ==
  ASSUME IInv, IInv', IsFiniteSet(agent), IsFiniteSet(agent'), Counted, Accounted
  PROVE  Counted'
<1>1. IsFiniteSet(Liable) /\ Cardinality(Liable) \in Nat
  BY LiableFinite
<1>2. IsFiniteSet(Liable') /\ Cardinality(Liable') \in Nat
  <2>1. ASSUME IsFiniteSet(agent)' PROVE IsFiniteSet(Liable)' /\ (Cardinality(Liable) \in Nat)'
    BY <2>1, LiableFinite, PTL
  <2> QED
    BY <2>1
<1>3. faults.losses \in Nat /\ faults'.losses \in Nat
  BY BoundsAssumption DEF IInv, TypeOK
<1>4. CASE Free /\ Liable' \subseteq Liable
  <2>1. Cardinality(Liable') <= Cardinality(Liable)
    BY <1>1, <1>4, FS_Subset
  <2> QED
    BY <1>1, <1>2, <1>3, <1>4, <2>1 DEF Counted, Free
<1>5. CASE Free /\ \E x, y : x \in Liable /\ Liable' \subseteq (Liable \ {x}) \cup {y}
  <2>1. PICK x, y : x \in Liable /\ Liable' \subseteq (Liable \ {x}) \cup {y}
    BY <1>5
  <2> DEFINE S == Liable \ {x}
  <2>2. IsFiniteSet(S) /\ Cardinality(S) = Cardinality(Liable) - 1
    BY <1>1, <2>1, FS_RemoveElement, Zenon
  <2> HIDE DEF S
  <2>3. /\ IsFiniteSet(S \cup {y})
        /\ Cardinality(S \cup {y}) = IF y \in S THEN Cardinality(S) ELSE Cardinality(S) + 1
    BY <2>2, FS_AddElement, Zenon
  <2>4. Cardinality(Liable') <= Cardinality(S \cup {y})
    BY <2>1, <2>3, FS_Subset DEF S
  <2>5. Cardinality(S \cup {y}) <= Cardinality(Liable)
    BY <1>1, <2>2, <2>3
  <2>6. Cardinality(S \cup {y}) \in Int
    BY <1>1, <2>2, <2>3
  <2> QED
    BY <1>1, <1>2, <1>3, <1>5, <2>4, <2>5, <2>6 DEF Counted, Free
<1>6. CASE Paid /\ \E y : Liable' \subseteq Liable \cup {y}
  <2>1. PICK y : Liable' \subseteq Liable \cup {y}
    BY <1>6
  <2>2. /\ IsFiniteSet(Liable \cup {y})
        /\ Cardinality(Liable \cup {y}) =
             IF y \in Liable THEN Cardinality(Liable) ELSE Cardinality(Liable) + 1
    BY <1>1, FS_AddElement, Zenon
  <2>3. Cardinality(Liable') <= Cardinality(Liable \cup {y})
    BY <2>1, <2>2, FS_Subset
  <2> QED
    BY <1>1, <1>2, <1>3, <1>6, <2>2, <2>3 DEF Counted, Paid
<1> QED
  BY <1>4, <1>5, <1>6 DEF Accounted

\* No access runs when the program starts.
LEMMA InitLoss == Init => LossInv
<1> SUFFICES ASSUME Init PROVE LossInv
  OBVIOUS
<1>1. /\ agent = {} /\ w.pc = "idle" /\ faults.losses = 0
      /\ \A a \in Access : acc[a] = Absent(a)
  BY IdleType DEF Init
<1>2. Liable = {}
  BY <1>1 DEF Liable, Risky, Owed
<1>3. \A a \in Access : Whole(acc[a])
  BY <1>1, AbsentEmpty
<1> QED
  BY <1>1, <1>2, <1>3, FS_EmptySet
     DEF LossInv, WorkerHolds, TokensUnique, AgentsHaveEnvironments, Counted

\* Every step keeps the count.
LEMMA NextLoss == ASSUME IInv, [Next]_vars, LossInv PROVE LossInv'
<1>1. CASE Next
  <2>1. IInv'
    BY <1>1, NextInv
  <2>2. WorkerHolds'
    BY <1>1, WorkerHoldsReconcile, WorkerHoldsStep, WorkerHoldsEnvironment DEF Next, LossInv
  <2>3. TokensUnique' /\ AgentsHaveEnvironments' /\ IsFiniteSet(agent')
    BY <1>1, TokensUniqueInv, AgentsHaveEnvironmentsInv, FiniteInv DEF LossInv, Counted
  <2>4. Accounted
    BY <1>1, <2>1, Account DEF LossInv
  <2> QED
    BY <2>1, <2>2, <2>3, <2>4, CountedInv DEF LossInv, Counted
<1>2. CASE UNCHANGED vars
  <2>1. UNCHANGED <<acc, env, agent, w, faults>>
    BY <1>2 DEF vars
  <2> QED
    BY <2>1 DEF LossInv, WorkerHolds, TokensUnique, AgentsHaveEnvironments, Counted, Liable,
                Risky, Owed, Firm, Known, Recorded, Mine
<1> QED
  BY <1>1, <1>2

\* What nobody names is at risk, and tokens tell accesses apart.
LEMMA ForgottenAtRisk == ASSUME IInv, LossInv PROVE ForgetsOnlyByLoss
<1> DEFINE f == [d \in Forgotten |-> d.token]
<1>1. \A d \in Forgotten : d.token \in Liable
  BY DEF Forgotten, Liable, Risky, Firm, Known, Recorded
<1>2. \A d, e \in Forgotten : d.token = e.token => d = e
  BY DEF LossInv, TokensUnique, Forgotten
<1>3. f \in Injection(Forgotten, Liable)
  <2>1. f \in [Forgotten -> Liable]
    BY <1>1
  <2>2. \A d, e \in Forgotten : f[d] = f[e] => d = e
    BY <1>2
  <2> HIDE DEF f
  <2> QED
    BY <2>1, <2>2, Fun_IsInj
<1>4. IsFiniteSet(Liable) /\ Cardinality(Liable) \in Nat
  BY LiableFinite DEF LossInv, Counted
<1>5. IsFiniteSet(Forgotten) /\ Cardinality(Forgotten) <= Cardinality(Liable)
  <2> HIDE DEF f
  <2> QED
    BY <1>3, <1>4, FS_Injection, Zenon
<1>6. Cardinality(Forgotten) \in Nat /\ faults.losses \in Nat
  BY <1>5, FS_CardinalityType, BoundsAssumption DEF IInv, TypeOK
<1> QED
  BY <1>4, <1>5, <1>6 DEF LossInv, Counted, ForgetsOnlyByLoss

\* No more accesses run unknown to the objects and to the worker than there
\* were crashes, lost answers, failed releases and moves of an object: every
\* other failure, edit, deletion, heal and restart leaves the token of each
\* access where it will be found and released.
THEOREM ForgottenByLoss == Spec => []ForgetsOnlyByLoss
<1>1. IInv /\ LossInv /\ [Next]_vars => LossInv'
  BY NextLoss
<1>2. IInv /\ LossInv => ForgetsOnlyByLoss
  BY ForgottenAtRisk
<1> QED
  BY InitLoss, <1>1, <1>2, Invariance, PTL DEF Spec

-----------------------------------------------------------------------------
(* OneAccessEach.                                                          *)

\* An access that is not forgotten carries the token that its object names,
\* or the one that the worker is about to record for it.
LEMMA NamedOrHeld ==
  ASSUME IInv, LossInv, NEW d \in agent, d \notin Forgotten
  PROVE  \/ acc[d.by].token = d.token
         \/ w.pc \in {"look", "mark"} /\ w.tok = d.token /\ w.key = d.by
<1>1. CASE w.pc \in {"look", "mark"} /\ w.tok = d.token
  BY <1>1 DEF LossInv, TokensUnique
<1>2. CASE w.pc = "clear" /\ w.obj.token = d.token
  <2>1. Mine.token = d.token
    BY <1>2 DEF LossInv, WorkerHolds
  <2>2. d.by = w.key
    BY <2>1, Types DEF LossInv, TokensUnique, Mine
  <2> QED
    BY <2>1, <2>2 DEF Mine
<1> QED
  BY <1>1, <1>2 DEF Forgotten

\* So there is one such access for an object.
LEMMA OneIsNamed ==
  ASSUME IInv, LossInv, NEW d \in agent \ Forgotten, NEW e \in agent \ Forgotten, d.by = e.by
  PROVE  d = e
<1>1. d.token # None /\ e.token # None
  BY Types
<1>2. w.pc \in {"look", "mark"} => Mine.token \in {None, w.tok}
  BY DEF LossInv, WorkerHolds
<1>3. d.token = e.token
  BY <1>1, <1>2, NamedOrHeld DEF Mine
<1> QED
  BY <1>3 DEF LossInv, TokensUnique

\* The others are forgotten, and those are counted.
LEMMA OneEach == ASSUME IInv, LossInv PROVE OneAccessEach
<1> SUFFICES ASSUME NEW a \in Access
             PROVE  Cardinality({d \in agent : d.by = a}) <= 1 + faults.losses
  BY DEF OneAccessEach
<1> DEFINE S == {d \in agent : d.by = a}
<1>1. IsFiniteSet(agent) /\ faults.losses \in Nat
  BY BoundsAssumption DEF IInv, TypeOK, LossInv, Counted
<1>2. IsFiniteSet(Forgotten)
  BY <1>1, FS_Subset DEF Forgotten
<1>3. Cardinality(Forgotten) \in Nat /\ Cardinality(Forgotten) <= faults.losses
  BY <1>2, FS_CardinalityType, ForgottenAtRisk DEF ForgetsOnlyByLoss
<1>4. PICK k : S \subseteq Forgotten \cup {k}
  <2>1. CASE S \subseteq Forgotten
    BY <2>1
  <2>2. ASSUME NEW k \in S, k \notin Forgotten PROVE S \subseteq Forgotten \cup {k}
    BY <2>2, OneIsNamed
  <2> QED
    BY <2>1, <2>2
<1> HIDE DEF S
<1>5. /\ IsFiniteSet(Forgotten \cup {k})
      /\ Cardinality(Forgotten \cup {k}) <= Cardinality(Forgotten) + 1
  <2>1. /\ IsFiniteSet(Forgotten \cup {k})
        /\ Cardinality(Forgotten \cup {k})
             = IF k \in Forgotten THEN Cardinality(Forgotten) ELSE Cardinality(Forgotten) + 1
    BY <1>2, FS_AddElement, Zenon
  <2> QED
    BY <1>3, <2>1
<1>6. IsFiniteSet(S) /\ Cardinality(S) <= Cardinality(Forgotten \cup {k})
  BY <1>4, <1>5, FS_Subset
<1>7. Cardinality(S) \in Nat /\ Cardinality(Forgotten \cup {k}) \in Nat
  BY <1>5, <1>6, FS_CardinalityType
<1>8. Cardinality(S) <= 1 + faults.losses
  BY <1>1, <1>3, <1>5, <1>6, <1>7
<1> QED
  BY <1>8 DEF S

\* However often an object is edited, healed, deleted or made anew, and
\* whatever its agent does: it has one access, and one more for each crash,
\* lost answer, failed release and move at the most.
THEOREM OneForEach == Spec => []OneAccessEach
<1>1. IInv /\ LossInv /\ [Next]_vars => LossInv'
  BY NextLoss
<1>2. IInv /\ LossInv => OneAccessEach
  BY OneEach
<1> QED
  BY InitLoss, <1>1, <1>2, Invariance, PTL DEF Spec

-----------------------------------------------------------------------------
(* AccessController implements AccessHolding.                              *)

\* What a step leaves as it is.
Untouched == Ledger' = Ledger /\ Bound' = Bound /\ Hand' = Hand

\* Tokens that stay in the objects.
LEMMA SameBound ==
  ASSUME \A b \in Access : acc'[b].token = acc[b].token PROVE Bound' = Bound
  BY DEF Bound

\* The worker goes on with what it has to record, or has nothing.
LEMMA SameHand ==
  ASSUME \/ w' = w
         \/ w.pc \notin {"look", "mark"} /\ w'.pc \notin {"look", "mark"}
         \/ /\ w.pc \in {"look", "mark"} /\ w'.pc \in {"look", "mark"}
            /\ w'.tok = w.tok /\ w'.key = w.key
  PROVE  Hand' = Hand
  BY DEF Hand

\* Accesses that stay.
LEMMA SameLedger == ASSUME agent' = agent PROVE Ledger' = Ledger
  BY DEF Ledger

\* A step that only loses something, or nothing.
LEMMA NothingChanges ==
  ASSUME Untouched, Free \/ Paid
  PROVE  Holding!Change \/ UNCHANGED <<Ledger, Bound, Hand, faults.losses>>
<1>1. CASE Free
  BY <1>1 DEF Untouched, Free
<1>2. CASE Paid
  <2>1. Holding!Lose
    BY <1>2 DEF Untouched, Paid, Holding!Lose
  <2> QED
    BY <2>1 DEF Holding!Change
<1> QED
  BY <1>1, <1>2

\* Accesses that go.
LEMMA AccessesGo ==
  ASSUME agent' \subseteq agent, Bound' = Bound, Hand' = Hand, Free PROVE Holding!Change
<1>1. Ledger' \subseteq Ledger
  BY DEF Ledger
<1>2. Holding!Go
  BY <1>1 DEF Holding!Go, Free
<1> QED
  BY <1>2 DEF Holding!Change

\* An object that forgets its token while the worker has no access to record.
LEMMA TokenForgotten ==
  ASSUME IInv, w.pc \notin {"idle", "look", "mark"}, w'.pc \notin {"look", "mark"},
         agent' = agent, Free, NEW o, o.token = None, acc' = [acc EXCEPT ![w.key] = o]
  PROVE  Holding!Change
<1>1. Hand = {} /\ Hand' = {} /\ Ledger' = Ledger /\ w.key \in Access
  BY Types DEF Hand, Ledger
<1>2. Bound' = [Bound EXCEPT ![w.key] = None]
  BY <1>1, Types DEF Bound
<1>3. Holding!Forget(w.key)
  BY <1>1, <1>2 DEF Holding!Forget, Free
<1> QED
  BY <1>1, <1>3 DEF Holding!Change

\* A reconcile that begins changes no token.
LEMMA ReconcileHolds ==
  ASSUME IInv, NEW a \in Access, Reconcile(a)
  PROVE  UNCHANGED <<Ledger, Bound, Hand, faults.losses>>
<1>0. acc \in [Access -> Object] /\ w.pc = "idle" /\ agent' = agent /\ faults' = faults
  BY Types DEF Reconcile, ReconcileGone, AddFinalizer, WaitForEnvironment, StartReconcile,
               StartDelete, Live, Taken
<1>1. \A b \in Access : acc'[b].token = acc[b].token
  BY ReconcileKeeps
<1>2. w' = w \/ w'.pc \in {"create", "status", "final", "drop"}
  BY DEF Reconcile, ReconcileGone, AddFinalizer, WaitForEnvironment, StartReconcile,
         StartDelete, Locals
<1>3. Hand' = Hand
  BY <1>0, <1>2, SameHand
<1> QED
  BY <1>0, <1>1, <1>3, SameBound, SameLedger

\* A look at the agent confirms the access of this object.
LEMMA CheckHolds ==
  ASSUME IInv, WorkerHolds, TokensUnique, CheckStatus
  PROVE  Holding!Change \/ UNCHANGED <<Ledger, Bound, Hand, faults.losses>>
<1>0. /\ w.pc = "status" /\ w \in Worker /\ w.key \in Access
      /\ UNCHANGED <<acc, agent, faults>> /\ Mine.token = w.obj.token
  BY Types DEF CheckStatus, WorkerHolds
<1>1. Ledger' = Ledger /\ Bound' = Bound /\ Hand = {}
  BY <1>0 DEF Ledger, Bound, Hand
<1>2. CASE w' = [w EXCEPT !.pc = "release"]
  <2>1. Hand' = Hand
    BY <1>0, <1>2, SameHand DEF Worker
  <2> QED
    BY <1>0, <1>1, <2>1
<1>3. ASSUME NEW d \in Found(w.obj.token),
             w' = [w EXCEPT !.pc = "mark", !.tok = d.token, !.bind = d.bind]
      PROVE  Holding!Change
  <2>1. d \in agent /\ d.token = Bound[w.key]
    BY <1>0 DEF Found, Bound, Mine
  <2>2. d.by = w.key
    BY <1>0, <2>1 DEF TokensUnique, Bound
  <2>3. w'.pc = "mark" /\ w'.tok = d.token /\ w'.key = w.key
    BY <1>0, <1>3 DEF Worker
  <2>4. Hand' = {[token |-> Bound[w.key], by |-> w.key]}
    BY <2>1, <2>3 DEF Hand
  <2>5. [token |-> Bound[w.key], by |-> w.key] \in Ledger
    BY <2>1, <2>2 DEF Ledger
  <2>6. Holding!TakeUp(w.key)
    BY <1>0, <1>1, <2>4, <2>5 DEF Holding!TakeUp
  <2> QED
    BY <1>0, <2>6 DEF Holding!Change
<1> QED
  BY <1>2, <1>3 DEF CheckStatus

\* A new access is for an object without a token.
LEMMA NewHolds ==
  ASSUME IInv, WorkerHolds, w.pc = "create", NEW f \in Fresh, agent' = Created(f),
         \A b \in Access : acc'[b].token = acc[b].token,
         \/ w'.pc = "look" /\ w'.tok = f /\ w'.key = w.key /\ Free
         \/ w'.pc = "idle" /\ Paid
  PROVE  Holding!Change
<1> DEFINE r == [token |-> f, by |-> w.key]
<1>1. w.key \in Access /\ f \in Frontend /\ Mine.token = None /\ Hand = {} /\ Bound' = Bound
  BY Types, SameBound DEF Fresh, WorkerHolds, Hand
<1>2. Bound[w.key] = None
  BY <1>1 DEF Bound, Mine
<1>3. (\A x \in Ledger : x.token # f) /\ (\A o \in Access : Bound[o] # f)
  BY DEF Fresh, Ledger, Bound
<1>4. Ledger' = Ledger \cup {r}
  <2>1. PICK e : e.token = f /\ e.by = w.key /\ agent' = agent \cup {e}
    BY CreatedFields
  <2> QED
    BY <2>1 DEF Ledger
<1>5. \/ Hand' = {r} /\ faults'.losses = faults.losses
      \/ Hand' = {} /\ faults'.losses = faults.losses + 1
  BY DEF Hand, Free, Paid
<1>6. Holding!Make(w.key)
  BY <1>1, <1>2, <1>3, <1>4, <1>5 DEF Holding!Make, Holding!Vacant
<1> QED
  BY <1>1, <1>6 DEF Holding!Change

\* AccessPrivate, with and without an answer.
LEMMA CreateHolds ==
  ASSUME IInv, WorkerHolds, AccessPrivate \/ AccessFails
  PROVE  Holding!Change \/ UNCHANGED <<Ledger, Bound, Hand, faults.losses>>
<1>0. w \in Worker /\ w.pc = "create" /\ Mine \in Object /\ acc \in [Access -> Object]
  BY Types DEF AccessPrivate, AccessFails
<1>1. CASE AccessPrivate
  <2>1. PICK f \in Fresh : agent' = Created(f) /\ w' = [w EXCEPT !.pc = "look", !.tok = f]
    BY <1>1 DEF AccessPrivate
  <2>2. w'.pc = "look" /\ w'.tok = f /\ w'.key = w.key
    BY <1>0, <2>1 DEF Worker
  <2>3. acc' = acc /\ Free
    BY <1>1 DEF AccessPrivate, Free
  <2> QED
    BY <1>0, <2>1, <2>2, <2>3, NewHolds
<1>2. CASE AccessFails
  <2>1. \A b \in Access : acc'[b].token = acc[b].token
    <3>1. PICK o \in NotReady(Mine, "AccessError") : Return(o)
      BY <1>2 DEF AccessFails
    <3>2. o.token = Mine.token
      BY <1>0, NotReadyType DEF Reason
    <3> QED
      BY <1>0, <3>1, <3>2 DEF Return, Mine
  <2>2. w'.pc = "idle"
    BY <1>2, IdleType DEF AccessFails, Return
  <2>3. CASE Free /\ agent' = agent
    <3>1. Hand' = Hand
      BY <1>0, <2>2, SameHand
    <3> QED
      BY <2>1, <2>3, <3>1, SameBound, SameLedger DEF Free
  <2>4. CASE Paid /\ \E f \in Fresh : agent' = Created(f)
    BY <1>0, <2>1, <2>2, <2>4, NewHolds
  <2>5. (Free /\ agent' = agent) \/ (Paid /\ \E f \in Fresh : agent' = Created(f))
    BY <1>2 DEF AccessFails, Fault, Loss, Free, Paid, IInv, TypeOK
  <2> QED
    BY <2>3, <2>4, <2>5
<1> QED
  BY <1>1, <1>2

\* Releases, the clearing of the token, the look for the address.
LEMMA GoOnHolds ==
  ASSUME IInv, ReleaseAccess \/ ClearToken \/ LookUpBind
  PROVE  Holding!Change \/ UNCHANGED <<Ledger, Bound, Hand, faults.losses>>
<1>0. w \in Worker /\ Mine \in Object /\ acc \in [Access -> Object] /\ w.key \in Access
  BY Types
<1>1. CASE ReleaseAccess
  <2>1. acc' = acc /\ w.pc \in {"release", "drop"} /\ w'.pc \in {"clear", "final"}
    BY <1>0, <1>1 DEF ReleaseAccess, Worker
  <2>2. Bound' = Bound /\ Hand' = Hand
    BY <2>1, SameBound, SameHand
  <2>3. CASE Free /\ agent' \subseteq agent
    BY <2>2, <2>3, AccessesGo
  <2>4. CASE Paid /\ agent' = agent
    BY <2>2, <2>4, SameLedger, NothingChanges DEF Untouched
  <2>5. (Free /\ agent' \subseteq agent) \/ (Paid /\ agent' = agent)
    BY <1>1 DEF ReleaseAccess, Loss, Free, Paid
  <2> QED
    BY <2>3, <2>4, <2>5
<1>2. CASE ClearToken
  <2> DEFINE o == [Mine EXCEPT !.token = None, !.endpoint = None, !.reason = "Healing"]
  <2>1. /\ w.pc = "clear" /\ agent' = agent /\ Free
        /\ acc' = [acc EXCEPT ![w.key].token = None, ![w.key].endpoint = None,
                              ![w.key].reason = "Healing"]
    BY <1>2 DEF ClearToken, Free
  <2>2. acc' = [acc EXCEPT ![w.key] = o] /\ o.token = None
    BY <1>0, <2>1 DEF Mine, Object
  <2>3. w'.pc = "create"
    BY <1>0, <1>2 DEF ClearToken, Worker
  <2> HIDE DEF o
  <2> QED
    BY <2>1, <2>2, <2>3, TokenForgotten
<1>3. CASE LookUpBind
  <2>1. /\ acc' = acc /\ agent' = agent /\ Free
        /\ w.pc = "look" /\ w'.pc = "mark" /\ w'.tok = w.tok /\ w'.key = w.key
    BY <1>0, <1>3 DEF LookUpBind, Fault, Worker, Free, IInv, TypeOK
  <2> QED
    BY <2>1, SameBound, SameHand, SameLedger DEF Free
<1> QED
  BY <1>1, <1>2, <1>3

\* What ends a reconcile.
LEMMA EndHolds ==
  ASSUME IInv, WorkerHolds, StatusFails \/ MarkAccessReady \/ RemoveFinalizer \/ Crash
  PROVE  Holding!Change \/ UNCHANGED <<Ledger, Bound, Hand, faults.losses>>
<1>0. /\ w \in Worker /\ Mine \in Object /\ acc \in [Access -> Object] /\ w.key \in Access
      /\ agent' = agent /\ w'.pc = "idle" /\ Mine = acc[w.key]
  BY Types, IdleType DEF StatusFails, MarkAccessReady, RemoveFinalizer, Crash, Return, Mine
<1>1. CASE (StatusFails \/ RemoveFinalizer) /\ acc' = acc
  <2>1. w.pc \in {"status", "final"} /\ Free
    BY <1>1 DEF StatusFails, RemoveFinalizer, Fault, Free, IInv, TypeOK
  <2> QED
    BY <1>0, <1>1, <2>1, SameBound, SameHand, SameLedger DEF Free
<1>2. CASE RemoveFinalizer /\ acc' = [acc EXCEPT ![w.key] = Absent(w.key)]
  <2>1. w.pc = "final" /\ Free
    BY <1>2 DEF RemoveFinalizer, Free
  <2> QED
    BY <1>0, <1>2, <2>1, AbsentEmpty, TokenForgotten
<1>3. CASE MarkAccessReady
  <2> DEFINE o == [Mine EXCEPT !.token = w.tok,
                               !.endpoint = IF w.bind = None THEN w.tok ELSE w.bind,
                               !.reason = "Ready"]
  <2>1. w.pc = "mark" /\ acc' = [acc EXCEPT ![w.key] = o] /\ o.token = w.tok /\ Free
    BY <1>0, <1>3 DEF MarkAccessReady, Return, Object, Free
  <2> HIDE DEF o
  <2>2. Hand = {[token |-> w.tok, by |-> w.key]} /\ Hand' = {}
    BY <1>0, <2>1 DEF Hand
  <2>3. Bound' = [Bound EXCEPT ![w.key] = w.tok]
    BY <1>0, <2>1 DEF Bound
  <2>4. Holding!Record
    BY <1>0, <2>1, <2>2, <2>3, SameLedger DEF Holding!Record, Free
  <2> QED
    BY <2>4 DEF Holding!Change
<1>4. CASE Crash
  <2>1. acc' = acc /\ Paid
    BY <1>4 DEF Crash, Loss, Paid
  <2>2. Hand' \subseteq Hand
    BY <1>0 DEF Hand
  <2>3. Holding!Lose
    BY <1>0, <2>1, <2>2, SameBound, SameLedger DEF Holding!Lose, Paid
  <2> QED
    BY <2>3 DEF Holding!Change
<1>5. CASE StatusFails
  BY <1>0, <1>1, <1>5 DEF StatusFails, Return
<1>6. CASE RemoveFinalizer
  <2>1. acc' = [acc EXCEPT ![w.key] = Absent(w.key)] \/ acc' = acc
    BY <1>0, <1>6 DEF RemoveFinalizer, Return
  <2> QED
    BY <1>1, <1>2, <1>6, <2>1
<1> QED
  BY <1>3, <1>4, <1>5, <1>6

\* What users, environments and agents do.
LEMMA EnvironmentHolds ==
  ASSUME IInv, WorkerHolds, Environment
  PROVE  Holding!Change \/ UNCHANGED <<Ledger, Bound, Hand, faults.losses>>
<1>0. acc \in [Access -> Object]
  BY Types
<1>1. ASSUME NEW a \in Access, UserCreates(a) \/ UserEdits(a) \/ UserDeletes(a)
      PROVE  Holding!Change \/ UNCHANGED <<Ledger, Bound, Hand, faults.losses>>
  <2>1. w' = w /\ agent' = agent /\ acc[a] \in Object /\ Whole(acc[a])
    BY <1>0, <1>1 DEF UserCreates, UserEdits, UserDeletes, WorkerHolds
  <2>2. Free \/ Paid
    <3>1. faults' = faults \/ Loss("move")
      BY <1>1 DEF UserCreates, UserEdits, UserDeletes
    <3> QED
      BY <3>1 DEF Loss, Free, Paid
  <2>3. CASE UserCreates(a)
    <3>1. PICK sp : acc' = [acc EXCEPT ![a] = [Absent(a) EXCEPT !.phase = "live", !.spec = sp]]
      BY <2>3 DEF UserCreates
    <3>2. [Absent(a) EXCEPT !.phase = "live", !.spec = sp].token = None
      BY AbsentType, AbsentEmpty DEF Object
    <3>3. acc[a].token = None
      BY <2>1, <2>3 DEF UserCreates, Whole
    <3>4. \A b \in Access : acc'[b].token = acc[b].token
      BY <1>0, <3>1, <3>2, <3>3
    <3> QED
      BY <2>1, <2>2, <3>4, SameBound, SameHand, SameLedger, NothingChanges DEF Untouched
  <2>4. CASE UserEdits(a)
    <3>1. \A b \in Access : acc'[b].token = acc[b].token
      BY <1>0, <2>1, <2>4 DEF UserEdits, Object
    <3> QED
      BY <2>1, <2>2, <3>1, SameBound, SameHand, SameLedger, NothingChanges DEF Untouched
  <2>5. CASE UserDeletes(a)
    <3>1. \A b \in Access : acc'[b].token = acc[b].token
      BY <1>0, <2>1, <2>5, AbsentEmpty DEF UserDeletes, Object, Whole
    <3> QED
      BY <2>1, <2>2, <3>1, SameBound, SameHand, SameLedger, NothingChanges DEF Untouched
  <2> QED
    BY <1>1, <2>3, <2>4, <2>5
<1>2. ASSUME NEW e \in Env, EnvironmentMoves(e) \/ AgentRestarts(e) PROVE Holding!Change
  <2>1. acc' = acc /\ w' = w /\ agent' \subseteq agent /\ Free
    BY <1>2 DEF EnvironmentMoves, AgentRestarts, Fault, Free, IInv, TypeOK
  <2> QED
    BY <2>1, SameBound, SameHand, AccessesGo
<1>3. CASE AccessStalls
  <2>1. acc' = acc /\ w' = w /\ Free /\ Stalling
    BY <1>3 DEF AccessStalls, Stalling, Fault, Free, IInv, TypeOK
  <2>2. PICK d, e : /\ d \in agent
                    /\ e.token = d.token /\ e.env = d.env /\ e.by = d.by
                    /\ agent' = (agent \ {d}) \cup {e}
    BY <2>1, StalledFields
  <2>3. Ledger' = Ledger
    BY <2>2 DEF Ledger
  <2> QED
    BY <2>1, <2>3, SameBound, SameHand DEF Free
<1> QED
  BY <1>1, <1>2, <1>3 DEF Environment

\* The strays of the mapping are forgotten accesses, told apart by their token.
LEMMA StraysCounted == ASSUME IInv, LossInv PROVE Holding!Accounted
<1> DEFINE N == {[token |-> d.token, by |-> d.by] : d \in Forgotten}
           f == [d \in Forgotten |-> [token |-> d.token, by |-> d.by]]
<1>1. Holding!Strays \subseteq N
  <2>1. SUFFICES ASSUME NEW r \in Ledger, Bound[r.by] # r.token, r \notin Hand PROVE r \in N
    BY DEF Holding!Strays
  <2>2. PICK d \in agent : r = [token |-> d.token, by |-> d.by]
    BY <2>1 DEF Ledger
  <2>3. d.by \in Access /\ acc[d.by].token # d.token
    BY <2>1, <2>2, Types DEF Bound
  <2>4. ~(w.pc \in {"look", "mark"} /\ w.tok = d.token /\ w.key = d.by)
    BY <2>1, <2>2 DEF Hand
  <2>5. d \in Forgotten
    BY <2>3, <2>4, NamedOrHeld
  <2> QED
    BY <2>2, <2>5
<1>2. IsFiniteSet(agent) /\ faults.losses \in Nat
  BY BoundsAssumption DEF IInv, TypeOK, LossInv, Counted
<1>3. IsFiniteSet(Forgotten)
  BY <1>2, FS_Subset DEF Forgotten
<1>4. Cardinality(Forgotten) \in Nat /\ Cardinality(Forgotten) <= faults.losses
  BY <1>3, FS_CardinalityType, ForgottenAtRisk DEF ForgetsOnlyByLoss
<1>5. f \in Surjection(Forgotten, N)
  <2>1. f \in [Forgotten -> N]
    OBVIOUS
  <2>2. \A r \in N : \E d \in Forgotten : f[d] = r
    OBVIOUS
  <2> HIDE DEF f, N
  <2> QED
    BY <2>1, <2>2, Fun_IsSurj
<1> HIDE DEF f, N
<1>6. IsFiniteSet(N) /\ Cardinality(N) <= Cardinality(Forgotten)
  BY <1>3, <1>5, FS_Surjection, Zenon
<1>7. IsFiniteSet(Holding!Strays) /\ Cardinality(Holding!Strays) <= Cardinality(N)
  BY <1>1, <1>6, FS_Subset, Zenon
<1>8. Cardinality(N) \in Nat /\ Cardinality(Holding!Strays) \in Nat
  BY <1>6, <1>7, FS_CardinalityType
<1>9. Cardinality(Holding!Strays) <= faults.losses
  BY <1>2, <1>4, <1>6, <1>7, <1>8
<1>10. \A S : Holding!Cardinality(S) = Cardinality(S)
  BY Zenon DEF Cardinality, Holding!Cardinality
<1> QED
  BY <1>9, <1>10 DEF Holding!Accounted

\* What the reconciler does to accesses and statuses, in whatever order edits,
\* faults and environments let it, is what AccessHolding allows: an access is
\* made (AccessPrivate) for an object without a token, made or confirmed
\* before it is recorded (markAccessReady), and its token dropped after it or
\* as a loss.
THEOREM HoldingKept == Spec => KeepsHolding
<1>1. Init => Holding!Init
  <2> SUFFICES ASSUME Init PROVE Holding!Init
    OBVIOUS
  <2>1. Ledger = {} /\ Hand = {} /\ faults.losses = 0
    BY IdleType DEF Init, Ledger, Hand
  <2>2. Bound = [a \in Access |-> None]
    BY AbsentEmpty DEF Init, Bound
  <2> QED
    BY <2>1, <2>2 DEF Holding!Init
<1>2. IInv /\ LossInv /\ [Next]_vars
        => Holding!Change \/ UNCHANGED <<Ledger, Bound, Hand, faults.losses>>
  <2> SUFFICES ASSUME IInv, LossInv, [Next]_vars
               PROVE  Holding!Change \/ UNCHANGED <<Ledger, Bound, Hand, faults.losses>>
    OBVIOUS
  <2>0. WorkerHolds /\ TokensUnique
    BY DEF LossInv
  <2>1. ASSUME NEW a \in Access, Reconcile(a)
        PROVE  UNCHANGED <<Ledger, Bound, Hand, faults.losses>>
    BY <2>1, ReconcileHolds
  <2>2. CASE Step
    BY <2>0, <2>2, CheckHolds, CreateHolds, GoOnHolds, EndHolds DEF Step
  <2>3. CASE Crash
    BY <2>0, <2>3, EndHolds
  <2>4. CASE Environment
    BY <2>0, <2>4, EnvironmentHolds
  <2>5. CASE UNCHANGED vars
    BY <2>5 DEF vars, Ledger, Bound, Hand
  <2> QED
    BY <2>1, <2>2, <2>3, <2>4, <2>5 DEF Next
<1>3. IInv /\ LossInv => Holding!Accounted
  BY StraysCounted
<1>4. IInv /\ LossInv /\ [Next]_vars => LossInv'
  BY NextLoss
<1>5. (Holding!Change \/ UNCHANGED <<Ledger, Bound, Hand, faults.losses>>) /\ Holding!Accounted'
        => [Holding!Next]_<<Ledger, Bound, Hand, faults.losses>>
  BY DEF Holding!Next
<1> QED
  BY InitLoss, <1>1, <1>2, <1>3, <1>4, <1>5, Invariance, PTL
     DEF Spec, KeepsHolding, Holding!Spec
=============================================================================
