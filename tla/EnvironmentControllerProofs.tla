-------------------- MODULE EnvironmentControllerProofs --------------------
(***************************************************************************)
(* Theorems about EnvironmentController for every set of identities,       *)
(* images, endpoints and user specs and every bound on edits and faults.   *)
(***************************************************************************)
EXTENDS EnvironmentController, TLAPS

-----------------------------------------------------------------------------
(* The parts a reconcile is made of.                                       *)

\* An object that is gone is a well-formed record: a user's spec, no status.
LEMMA AbsentType ==
  /\ Absent \in Object
  /\ Absent.phase = "absent" /\ ~Absent.finalizer
  /\ Absent.zid = None /\ Absent.reason = "unset"
<1> DEFINE sp == CHOOSE x \in UserSpec : TRUE
<1>1. sp \in EnvironmentSpec
  BY UserSpecAssumption
<1> HIDE DEF sp
<1>2. Absent = [phase |-> "absent", finalizer |-> FALSE, spec |-> sp,
                zid |-> None, reason |-> "unset"]
  BY DEF Absent, sp
<1> QED
  BY <1>1, <1>2 DEF Object, Reason

\* A reconcile that has just begun holds well-formed locals.
LEMMA LocalsType ==
  ASSUME NEW pc \in PC, NEW o \in Object
  PROVE  Locals(pc, o) \in Worker /\ Locals(pc, o).pc = pc
  BY DEF Locals, Worker, Reason

\* The worker at rest.
LEMMA IdleType == Idle \in Worker /\ Idle.pc = "idle"
  BY AbsentType, LocalsType DEF Idle, PC

\* Failures stay within their bound, and no more are losses than happened.
LEMMA FaultType ==
  ASSUME faults \in [all : 0 .. MaxFaults, losses : 0 .. MaxFaults],
         faults.losses <= faults.all, NEW kind,
         Fault(kind) \/ Loss(kind) \/ NoFault
  PROVE  /\ faults' \in [all : 0 .. MaxFaults, losses : 0 .. MaxFaults]
         /\ faults'.losses <= faults'.all
<1>1. MaxFaults \in Nat
  BY BoundsAssumption
<1>2. CASE Fault(kind)
  BY <1>1, <1>2 DEF Fault
<1>3. CASE Loss(kind)
  BY <1>1, <1>3 DEF Loss
<1>4. CASE NoFault
  BY <1>4 DEF NoFault
<1> QED
  BY <1>2, <1>3, <1>4

\* A reconcile that ends leaves a well-formed object behind.
LEMMA ReturnInv ==
  ASSUME IInv, obj.finalizer, NEW r \in Reason,
         NEW o \in {obj, [obj EXCEPT !.reason = r]}, Return(o)
  PROVE  /\ obj' \in Object /\ w' \in Worker /\ queue' \in BOOLEAN
         /\ ObjectHeld'
<1>1. obj \in Object
  BY DEF IInv, TypeOK
<1>2. o \in Object /\ o.finalizer /\ o.phase = obj.phase
  BY <1>1 DEF Object, IInv
<1>3. obj' = o /\ w' = Idle /\ queue' = TRUE
  BY DEF Return
<1>4. ObjectHeld'
  BY <1>2, <1>3, IdleType DEF ObjectHeld, IInv, LeavingPC, ChildPC
<1> QED
  BY <1>2, <1>3, <1>4, IdleType

\* So does one that ends with a status patch, or without it.
LEMMA StopWithInv ==
  ASSUME IInv, obj.finalizer, NEW r \in Reason, StopWith(r)
  PROVE  /\ obj' \in Object /\ w' \in Worker /\ queue' \in BOOLEAN
         /\ ObjectHeld'
         /\ faults' \in [all : 0 .. MaxFaults, losses : 0 .. MaxFaults]
         /\ faults'.losses <= faults'.all
<1>1. PICK o \in {obj, [obj EXCEPT !.reason = r]} : Return(o)
  BY DEF StopWith
<1>2. Fault("patch") \/ NoFault
  BY DEF StopWith
<1>3. obj' \in Object /\ w' \in Worker /\ queue' \in BOOLEAN /\ ObjectHeld'
  BY <1>1, ReturnInv
<1>4. faults \in [all : 0 .. MaxFaults, losses : 0 .. MaxFaults] /\ faults.losses <= faults.all
  BY DEF IInv, TypeOK
<1> QED
  BY <1>2, <1>3, <1>4, FaultType

\* The worker goes on to its next step.
LEMMA GotoType ==
  ASSUME w \in Worker, NEW pc \in PC, Goto(pc)
  PROVE  w' \in Worker /\ w'.pc = pc /\ w'.zid = w.zid
  BY DEF Goto, Worker

-----------------------------------------------------------------------------
(* The invariant: initially, and through every kind of step.               *)

\* The program starts without objects, identities and environments.
LEMMA InitInv == Init => IInv
<1> SUFFICES ASSUME Init PROVE IInv
  OBVIOUS
<1>1. edits \in 0 .. MaxEdits
  BY BoundsAssumption DEF Init
<1>2. /\ faults \in [all : 0 .. MaxFaults, losses : 0 .. MaxFaults]
      /\ faults.losses <= faults.all
  BY BoundsAssumption DEF Init
<1>3. /\ secret \in Secret \cup {NoSecret} /\ secret.owner = "none"
      /\ kids \in Kids /\ home = None /\ pod = None /\ past = {} /\ remote = {}
      /\ claimed \in BOOLEAN /\ queue \in BOOLEAN
  BY DEF Init, NoSecret, NoKids, Kids
<1>4. obj \in Object /\ w \in Worker /\ ObjectHeld
  BY AbsentType, IdleType DEF Init, ObjectHeld, LeavingPC, ChildPC
<1> QED
  BY <1>1, <1>2, <1>3, <1>4 DEF IInv, TypeOK, IdentityOurs

\* A reconcile begins, or ends before its first call.
LEMMA ReconcileInv == ASSUME IInv, Reconcile PROVE IInv'
<1> USE DEF IInv, TypeOK, IdentityOurs, world
<1>1. CASE ReconcileGone
  BY <1>1 DEF ReconcileGone, ObjectHeld
<1>2. CASE AddFinalizer
  <2>1. obj' \in Object
    BY <1>2 DEF AddFinalizer, Object
  <2>2. ObjectHeld'
    BY <1>2, <2>1 DEF AddFinalizer, ObjectHeld, Object, Taken, LeavingPC, ChildPC
  <2> QED
    BY <1>2, <2>1, <2>2 DEF AddFinalizer
<1>3. CASE SecretUnreadable
  <2>1. obj' \in Object /\ w' \in Worker /\ queue' \in BOOLEAN /\ ObjectHeld'
    BY <1>3, ReturnInv DEF SecretUnreadable, Live, Reason
  <2> QED
    BY <1>3, <2>1, FaultType DEF SecretUnreadable
<1>4. CASE ImageRefused
  <2>1. "ImageNotAllowed" \in Reason
    BY DEF Reason
  <2> QED
    BY <1>4, <2>1, StopWithInv DEF ImageRefused, Live
<1>5. CASE AdoptIdentity
  <2>1. obj' \in Object /\ obj'.zid # None /\ obj'.finalizer /\ obj'.phase = "live"
    BY <1>5 DEF AdoptIdentity, Enabling, Live, Object
  <2>2. w' \in Worker /\ w'.pc = "pvc"
    BY <1>5, <2>1, LocalsType DEF AdoptIdentity, PC
  <2>3. ObjectHeld'
    BY <2>1, <2>2 DEF ObjectHeld, LeavingPC, ChildPC
  <2> QED
    BY <1>5, <2>1, <2>2, <2>3 DEF AdoptIdentity
<1>6. CASE RejectIdentity
  <2>1. "EnableError" \in Reason
    BY DEF Reason
  <2>2. /\ secret' \in Secret \cup {NoSecret}
        /\ secret'.owner = "env" => secret'.zid \in ZID \cup {None}
        /\ past' \subseteq Kid \cup {"secret"}
    BY <1>6 DEF RejectIdentity, NoSecret
  <2> QED
    BY <1>6, <2>1, <2>2, StopWithInv DEF RejectIdentity, Enabling, Live
<1>7. CASE IdentityMissing
  <2>1. obj' \in Object /\ obj'.finalizer /\ obj'.phase = "live"
    BY <1>7 DEF IdentityMissing, Enabling, Live, Object
  <2>2. w' \in Worker /\ w'.pc = "enable"
    BY <1>7, <2>1, LocalsType DEF IdentityMissing, PC
  <2>3. ObjectHeld'
    BY <2>1, <2>2 DEF ObjectHeld, LeavingPC, ChildPC
  <2>4. \E k \in {"patch", "stale"} : Fault(k) \/ Loss(k) \/ NoFault
    BY <1>7 DEF IdentityMissing
  <2> QED
    BY <1>7, <2>1, <2>2, <2>3, <2>4, FaultType DEF IdentityMissing
<1>8. CASE DeleteBlocked
  <2>1. "SharesExist" \in Reason
    BY DEF Reason
  <2>2. obj.finalizer
    BY <1>8 DEF DeleteBlocked, Deleting, ObjectHeld
  <2> QED
    BY <1>8, <2>1, <2>2, StopWithInv DEF DeleteBlocked
<1>9. CASE StartDelete
  <2>1. w' \in Worker /\ w'.pc \in {"teardown", "disable"}
    BY <1>9, LocalsType DEF StartDelete, PC
  <2>2. ObjectHeld'
    BY <1>9, <2>1 DEF StartDelete, Deleting, ObjectHeld, LeavingPC, ChildPC
  <2> QED
    BY <1>9, <2>1, <2>2 DEF StartDelete
<1> QED
  BY <1>1, <1>2, <1>3, <1>4, <1>5, <1>6, <1>7, <1>8, <1>9 DEF Reconcile

\* Enable, the Secret, and the status.
EnableStep ==
  \/ Enable \/ EnableRefused \/ EnableFails
  \/ CreateSecret \/ CreateSecretFails \/ DisableOrphan \/ RecordZID \/ RecordFails

\* They keep the invariant.
LEMMA EnableInv == ASSUME IInv, EnableStep PROVE IInv'
<1> USE DEF IInv, TypeOK, IdentityOurs, world
<1>0. /\ w.pc \in {"enable", "create", "undo", "record"} => obj.finalizer
      /\ w.obj \in Object /\ w.zid \in ZID \cup {None}
      /\ {"EnableError", "EndpointNotAllowed"} \subseteq Reason
  BY DEF ObjectHeld, Worker, Reason
<1>1. CASE Enable
  <2>1. PICK zid \in ZID : /\ remote' = Enabled(zid)
                           /\ w' = [w EXCEPT !.pc = "create", !.zid = zid]
    BY <1>1 DEF Enable, Fresh
  <2>2. remote' \subseteq [zid : ZID, api : Endpoint]
    BY <1>0, <2>1 DEF Enabled, Object, EnvironmentSpec
  <2>3. w' \in Worker /\ w'.pc = "create" /\ w'.zid # None
    BY <2>1, ZIDAssumption DEF Worker, PC
  <2>4. ObjectHeld'
    BY <1>1, <2>3 DEF Enable, ObjectHeld, LeavingPC, ChildPC
  <2> QED
    BY <1>1, <2>2, <2>3, <2>4 DEF Enable
<1>2. CASE EnableRefused
  BY <1>0, <1>2, StopWithInv DEF EnableRefused
<1>3. CASE EnableFails
  <2>1. remote' \subseteq [zid : ZID, api : Endpoint]
    BY <1>0, <1>3 DEF EnableFails, Enabled, Fresh, Object, EnvironmentSpec
  <2>2. \E k \in {"enable", "lost"} : Fault(k) \/ Loss(k)
    BY <1>3 DEF EnableFails
  <2>3. obj' \in Object /\ w' \in Worker /\ queue' \in BOOLEAN /\ ObjectHeld'
    BY <1>0, <1>3, ReturnInv DEF EnableFails
  <2> QED
    BY <1>3, <2>1, <2>2, <2>3, FaultType DEF EnableFails
<1>4. CASE CreateSecret
  <2>1. /\ secret' \in Secret \cup {NoSecret}
        /\ secret'.owner = "env" => secret'.zid \in ZID \cup {None}
    BY <1>0, <1>4 DEF CreateSecret, Secret
  <2>2. w' \in Worker /\ w'.pc \in {"record", "undo"} /\ w'.zid = w.zid
    BY <1>4, GotoType DEF CreateSecret, PC
  <2>3. ObjectHeld'
    BY <1>4, <2>2 DEF CreateSecret, ObjectHeld, LeavingPC, ChildPC
  <2> QED
    BY <1>4, <2>1, <2>2, <2>3 DEF CreateSecret
<1>5. CASE CreateSecretFails
  <2>1. /\ secret' \in Secret \cup {NoSecret}
        /\ secret'.owner = "env" => secret'.zid \in ZID \cup {None}
    BY <1>0, <1>5 DEF CreateSecretFails, Secret
  <2>2. w' \in Worker /\ w'.pc = "undo" /\ w'.zid = w.zid
    BY <1>5, GotoType DEF CreateSecretFails, PC
  <2>3. ObjectHeld'
    BY <1>5, <2>2 DEF CreateSecretFails, ObjectHeld, LeavingPC, ChildPC
  <2>4. \E k \in {"create", "lostcreate"} : Fault(k)
    BY <1>5 DEF CreateSecretFails
  <2> QED
    BY <1>5, <2>1, <2>2, <2>3, <2>4, FaultType DEF CreateSecretFails
<1>6. CASE DisableOrphan
  <2>1. remote' \subseteq [zid : ZID, api : Endpoint]
    BY <1>6 DEF DisableOrphan, Without
  <2>2. \E k \in {"undo"} : NoFault \/ Loss(k)
    BY <1>6 DEF DisableOrphan
  <2>3. obj' \in Object /\ w' \in Worker /\ queue' \in BOOLEAN /\ ObjectHeld'
    BY <1>0, <1>6, ReturnInv DEF DisableOrphan
  <2> QED
    BY <1>6, <2>1, <2>2, <2>3, FaultType DEF DisableOrphan
<1>7. CASE RecordZID
  <2>1. obj' = [obj EXCEPT !.zid = w.zid] /\ w.zid # None
    BY <1>7 DEF RecordZID, PatchStatus, ObjectHeld
  <2>2. /\ obj' \in Object /\ obj'.zid # None
        /\ obj'.finalizer = obj.finalizer /\ obj'.phase = obj.phase
    BY <1>0, <2>1 DEF Object
  <2>3. w' \in Worker /\ w'.pc = "pvc"
    BY <1>7, <2>1, <2>2 DEF RecordZID, PatchStatus, Worker, PC
  <2>4. ObjectHeld'
    BY <1>0, <1>7, <2>2, <2>3 DEF RecordZID, ObjectHeld, LeavingPC, ChildPC
  <2> QED
    BY <1>7, <2>2, <2>3, <2>4 DEF RecordZID, PatchStatus
<1>8. CASE RecordFails
  <2>1. obj' \in Object /\ w' \in Worker /\ queue' \in BOOLEAN /\ ObjectHeld'
    BY <1>0, <1>8, ReturnInv DEF RecordFails
  <2> QED
    BY <1>8, <2>1, FaultType DEF RecordFails
<1> QED
  BY <1>1, <1>2, <1>3, <1>4, <1>5, <1>6, <1>7, <1>8 DEF EnableStep

\* The children, and what the agent says.
ChildStep ==
  \/ EnsurePVC \/ EnsureService \/ ServiceHijacked \/ EnsureDeployment
  \/ EnsureNetworkPolicy \/ EnsureFails \/ ProbeAgent \/ MarkVerdict

\* They keep the invariant.
LEMMA ChildInv == ASSUME IInv, ChildStep PROVE IInv'
<1> USE DEF IInv, TypeOK, IdentityOurs, world
<1>0. /\ w.pc \in ChildPC => obj.finalizer
      /\ w.obj \in Object /\ w.verdict \in Reason
      /\ w.obj.spec.image \in Image
      /\ {"PVCError", "ServiceError", "DeploymentError", "NetworkPolicyError"} \subseteq Reason
  BY DEF ObjectHeld, ChildPC, Worker, Reason, Object, EnvironmentSpec
<1>1. CASE EnsurePVC
  <2>1. kids' \in Kids
    BY <1>1 DEF EnsurePVC, Kids
  <2>2. w' \in Worker /\ w'.pc = "service"
    BY <1>1, GotoType DEF EnsurePVC, PC
  <2>3. ObjectHeld'
    BY <1>1, <2>2 DEF EnsurePVC, ObjectHeld, LeavingPC, ChildPC
  <2> QED
    BY <1>1, <2>1, <2>2, <2>3 DEF EnsurePVC
<1>2. CASE EnsureService
  <2>1. kids' \in Kids
    BY <1>2 DEF EnsureService, Kids
  <2>2. w' \in Worker /\ w'.pc = "deployment"
    BY <1>2, GotoType DEF EnsureService, PC
  <2>3. ObjectHeld'
    BY <1>2, <2>2 DEF EnsureService, ObjectHeld, LeavingPC, ChildPC
  <2> QED
    BY <1>2, <2>1, <2>2, <2>3 DEF EnsureService
<1>3. CASE ServiceHijacked
  <2>1. kids' \in Kids /\ past' \subseteq Kid \cup {"secret"}
    BY <1>3 DEF ServiceHijacked, Kids
  <2>2. obj.finalizer
    BY <1>0, <1>3 DEF ServiceHijacked, ChildPC
  <2> QED
    BY <1>0, <1>3, <2>1, <2>2, StopWithInv DEF ServiceHijacked
<1>4. CASE EnsureDeployment
  <2>1. kids' \in Kids
    BY <1>0, <1>4 DEF EnsureDeployment, Kids
  <2>2. w' \in Worker /\ w'.pc = "policy"
    BY <1>4, GotoType DEF EnsureDeployment, PC
  <2>3. ObjectHeld'
    BY <1>4, <2>2 DEF EnsureDeployment, ObjectHeld, LeavingPC, ChildPC
  <2> QED
    BY <1>4, <2>1, <2>2, <2>3 DEF EnsureDeployment
<1>5. CASE EnsureNetworkPolicy
  <2>1. kids' \in Kids /\ past' \subseteq Kid \cup {"secret"}
    BY <1>5, FlagAssumption DEF EnsureNetworkPolicy, Kids
  <2>2. w' \in Worker /\ w'.pc = "probe"
    BY <1>5, GotoType DEF EnsureNetworkPolicy, PC
  <2>3. ObjectHeld'
    BY <1>5, <2>2 DEF EnsureNetworkPolicy, ObjectHeld, LeavingPC, ChildPC
  <2> QED
    BY <1>5, <2>1, <2>2, <2>3 DEF EnsureNetworkPolicy
<1>6. CASE EnsureFails
  <2>1. PICK r \in Reason : Return([obj EXCEPT !.reason = r])
    BY <1>0, <1>6 DEF EnsureFails
  <2>2. obj.finalizer
    BY <1>0, <1>6 DEF EnsureFails, ChildPC
  <2>3. obj' \in Object /\ w' \in Worker /\ queue' \in BOOLEAN /\ ObjectHeld'
    BY <2>1, <2>2, ReturnInv
  <2> QED
    BY <1>6, <2>3, FaultType DEF EnsureFails
<1>7. CASE ProbeAgent
  <2>1. PICK v \in {"Ready", "ConsoleUnreachable", "WaitingForAgent"} :
          /\ w' = [w EXCEPT !.pc = "mark", !.verdict = v]
          /\ IF v = "ConsoleUnreachable" /\ kids.service = "ok"
             THEN Fault("status") ELSE NoFault
    BY <1>7 DEF ProbeAgent
  <2>2. w' \in Worker /\ w'.pc = "mark"
    BY <2>1 DEF Worker, PC, Reason
  <2>3. ObjectHeld'
    BY <1>7, <2>2 DEF ProbeAgent, ObjectHeld, LeavingPC, ChildPC
  <2>4. \E k \in {"status"} : Fault(k) \/ NoFault
    BY <2>1
  <2> QED
    BY <1>7, <2>2, <2>3, <2>4, FaultType DEF ProbeAgent
<1>8. CASE MarkVerdict
  <2>1. obj.finalizer
    BY <1>0, <1>8 DEF MarkVerdict, ChildPC
  <2>2. obj' \in Object /\ w' \in Worker /\ queue' \in BOOLEAN /\ ObjectHeld'
    BY <1>0, <1>8, <2>1, ReturnInv DEF MarkVerdict
  <2> QED
    BY <1>8, <2>2 DEF MarkVerdict
<1> QED
  BY <1>1, <1>2, <1>3, <1>4, <1>5, <1>6, <1>7, <1>8 DEF ChildStep

\* reconcileDelete, once it has begun.
DeleteStep == Disable \/ DisableFails \/ Teardown \/ RemoveFinalizer

\* It keeps the invariant.
LEMMA DeleteInv == ASSUME IInv, DeleteStep PROVE IInv'
<1> USE DEF IInv, TypeOK, IdentityOurs, world
<1>0. /\ w.pc \in LeavingPC => obj.finalizer /\ obj.phase = "deleting"
      /\ w.obj \in Object /\ "unset" \in Reason
  BY DEF ObjectHeld, LeavingPC, Worker, Reason
<1>1. CASE Disable
  <2>1. remote' \subseteq [zid : ZID, api : Endpoint]
    BY <1>1 DEF Disable, Without
  <2>2. w' \in Worker /\ w'.pc = "teardown"
    BY <1>1, GotoType DEF Disable, PC
  <2>3. ObjectHeld'
    BY <1>1, <2>2 DEF Disable, ObjectHeld, LeavingPC, ChildPC
  <2> QED
    BY <1>1, <2>1, <2>2, <2>3 DEF Disable
<1>2. CASE DisableFails
  <2>1. remote' \subseteq [zid : ZID, api : Endpoint]
    BY <1>2 DEF DisableFails, Without
  <2>2. \E k \in {"disable", "lostdisable"} : Fault(k) \/ NoFault
    BY <1>2 DEF DisableFails
  <2>3. obj' \in Object /\ w' \in Worker /\ queue' \in BOOLEAN /\ ObjectHeld'
    BY <1>0, <1>2, ReturnInv DEF DisableFails, LeavingPC
  <2> QED
    BY <1>2, <2>1, <2>2, <2>3, FaultType DEF DisableFails
<1>3. CASE Teardown
  <2>1. PICK left \in SUBSET (Kid \cup {"secret"}) :
          /\ \E k \in {"delete"} : Fault(k) \/ NoFault
          /\ secret' = IF "secret" \in left THEN secret ELSE NoSecret
          /\ kids' = [k \in Kid |-> IF k \in left THEN kids[k] ELSE NoKids[k]]
          /\ past' = past \cap left
          /\ home' = IF "pvc" \in left THEN home ELSE None
          /\ pod' = IF "deployment" \in left THEN pod ELSE None
    BY <1>3 DEF Teardown
  <2>2. kids' \in Kids
    <3>1. kids' = [pvc        |-> IF "pvc" \in left THEN kids.pvc ELSE FALSE,
                   service    |-> IF "service" \in left THEN kids.service ELSE "none",
                   deployment |-> IF "deployment" \in left THEN kids.deployment ELSE None,
                   policy     |-> IF "policy" \in left THEN kids.policy ELSE FALSE]
      BY <2>1 DEF Kid, NoKids
    <3> QED
      BY <3>1 DEF Kids
  <2>3. w' \in Worker /\ w'.pc = "final"
    BY <1>3, GotoType DEF Teardown, PC
  <2>4. ObjectHeld'
    BY <1>3, <2>3 DEF Teardown, ObjectHeld, LeavingPC, ChildPC
  <2>5. secret' \in Secret \cup {NoSecret} /\ IdentityOurs'
    BY <2>1 DEF NoSecret
  <2> QED
    BY <1>3, <2>1, <2>2, <2>3, <2>4, <2>5, FaultType DEF Teardown
<1>4. CASE RemoveFinalizer
  <2>1. obj.finalizer
    BY <1>0, <1>4 DEF RemoveFinalizer, LeavingPC
  <2>2. CASE obj = w.obj
    <3>1. /\ obj' = Absent /\ w' = Idle /\ queue' = TRUE
          /\ past' = Orphaned
          /\ secret' = IF secret.owner = "env" THEN [secret EXCEPT !.owner = "past"] ELSE secret
          /\ remote' \subseteq remote
      BY <1>4, <2>2 DEF RemoveFinalizer, Without
    <3>2. obj' \in Object /\ w' \in Worker /\ ObjectHeld'
      BY <3>1, AbsentType, IdleType DEF ObjectHeld, LeavingPC, ChildPC
    <3>3. past' \subseteq Kid \cup {"secret"}
      BY <3>1 DEF Orphaned
    <3>4. secret' \in Secret \cup {NoSecret} /\ secret'.owner # "env"
      BY <3>1 DEF Secret, NoSecret
    <3> QED
      BY <1>4, <3>1, <3>2, <3>3, <3>4 DEF RemoveFinalizer
  <2>3. CASE obj # w.obj
    <3>1. Return(obj) /\ UNCHANGED <<past, secret, remote>>
      BY <1>4, <2>3 DEF RemoveFinalizer
    <3>2. obj' \in Object /\ w' \in Worker /\ queue' \in BOOLEAN /\ ObjectHeld'
      BY <1>0, <2>1, <3>1, ReturnInv
    <3> QED
      BY <1>4, <3>1, <3>2 DEF RemoveFinalizer
  <2> QED
    BY <2>2, <2>3
<1> QED
  BY <1>1, <1>2, <1>3, <1>4 DEF DeleteStep

\* The manager restarts, wherever it was.
LEMMA CrashInv == ASSUME IInv, Crash PROVE IInv'
<1> USE DEF IInv, TypeOK, IdentityOurs, world
<1>1. obj.finalizer /\ "unset" \in Reason
  BY DEF Crash, ObjectHeld, Reason
<1>2. obj' \in Object /\ w' \in Worker /\ queue' \in BOOLEAN /\ ObjectHeld'
  BY <1>1, ReturnInv DEF Crash
<1> QED
  BY <1>2, FaultType DEF Crash

\* A child that goes leaves the others as they are.
LEMMA LoseType ==
  ASSUME IInv, NEW k \in Kid, Lose(k)
  PROVE  /\ kids' \in Kids /\ past' \subseteq Kid \cup {"secret"} /\ queue' \in BOOLEAN
         /\ home' \in ZID \cup PlantedZID \cup {None}
         /\ pod' \in ZID \cup PlantedZID \cup {None}
<1>1. kids \in Kids /\ kids' = [kids EXCEPT ![k] = NoKids[k]]
  BY DEF IInv, TypeOK, Lose
<1>2. kids' \in Kids
  <2>1. CASE k = "pvc"
    BY <1>1, <2>1 DEF Kids, NoKids
  <2>2. CASE k = "service"
    BY <1>1, <2>2 DEF Kids, NoKids
  <2>3. CASE k = "deployment"
    BY <1>1, <2>3 DEF Kids, NoKids
  <2>4. CASE k = "policy"
    BY <1>1, <2>4 DEF Kids, NoKids
  <2> QED
    BY <2>1, <2>2, <2>3, <2>4 DEF Kid
<1> QED
  BY <1>2 DEF IInv, TypeOK, Lose

\* Users, other people and Kubernetes.
LEMMA EnvironmentInv == ASSUME IInv, Environment PROVE IInv'
<1> USE DEF IInv, TypeOK, IdentityOurs, world
<1>0. ASSUME Edit PROVE edits' \in 0 .. MaxEdits
  BY <1>0, BoundsAssumption DEF Edit
<1>1. CASE UserCreates
  <2>1. PICK sp \in EnvironmentSpec : obj' = [Absent EXCEPT !.phase = "live", !.spec = sp]
    BY <1>1, UserSpecAssumption DEF UserCreates
  <2>2. /\ obj' \in Object /\ obj'.phase = "live"
        /\ obj'.zid = None /\ obj'.reason = "unset"
    BY <2>1, AbsentType DEF Object
  <2>3. ObjectHeld'
    BY <1>1, <2>2 DEF UserCreates, ObjectHeld, LeavingPC, ChildPC
  <2> QED
    BY <1>0, <1>1, <2>2, <2>3 DEF UserCreates
<1>2. CASE UserEdits
  <2>1. PICK sp \in EnvironmentSpec : obj' = [obj EXCEPT !.spec = sp]
    BY <1>2, UserSpecAssumption DEF UserEdits
  <2>2. /\ obj' \in Object /\ obj'.phase = obj.phase /\ obj'.finalizer = obj.finalizer
        /\ obj'.zid = obj.zid /\ obj'.reason = obj.reason
    BY <2>1 DEF Object
  <2>3. ObjectHeld'
    BY <1>2, <2>2 DEF UserEdits, ObjectHeld
  <2> QED
    BY <1>0, <1>2, <2>2, <2>3 DEF UserEdits
<1>3. CASE UserDeletes
  <2>1. obj' \in Object
    BY <1>3, AbsentType DEF UserDeletes, Object
  <2>2. ObjectHeld'
    BY <1>3, AbsentType DEF UserDeletes, ObjectHeld, Object
  <2> QED
    BY <1>0, <1>3, <2>1, <2>2 DEF UserDeletes
<1>4. CASE SharesChange
  BY <1>0, <1>4 DEF SharesChange, ObjectHeld
<1>5. CASE SecretPlanted
  <2>1. secret' \in Secret /\ secret'.owner = "other"
    BY <1>5 DEF SecretPlanted, Secret
  <2> QED
    BY <1>5, <2>1, FaultType DEF SecretPlanted, ObjectHeld
<1>6. CASE SecretLost
  <2>1. /\ secret' \in Secret \cup {NoSecret}
        /\ secret'.owner = "env" => secret'.zid \in ZID \cup {None}
    BY <1>6 DEF SecretLost, Secret, NoSecret
  <2> QED
    BY <1>6, <2>1, FaultType DEF SecretLost, ObjectHeld
<1>7. CASE ChildrenDisturbed
  <2>1. /\ kids' \in Kids /\ past' \subseteq Kid \cup {"secret"} /\ queue' \in BOOLEAN
        /\ home' \in ZID \cup PlantedZID \cup {None}
        /\ pod' \in ZID \cup PlantedZID \cup {None}
    <3>1. CASE \E k \in Kid : Lose(k)
      BY <3>1, LoseType
    <3>2. CASE ~\E k \in Kid : Lose(k)
      BY <1>7, <3>2 DEF ChildrenDisturbed, Kids
    <3> QED
      BY <3>1, <3>2
  <2> QED
    BY <1>7, <2>1, FaultType DEF ChildrenDisturbed, ObjectHeld
<1>8. CASE Collect
  <2>1. /\ kids' \in Kids /\ past' \subseteq Kid \cup {"secret"} /\ queue' \in BOOLEAN
        /\ home' \in ZID \cup PlantedZID \cup {None}
        /\ pod' \in ZID \cup PlantedZID \cup {None}
        /\ secret' \in {secret, NoSecret}
    <3>1. CASE \E k \in past \cap Kid : Lose(k) /\ UNCHANGED secret
      BY <3>1, LoseType
    <3>2. CASE ~\E k \in past \cap Kid : Lose(k) /\ UNCHANGED secret
      BY <1>8, <3>2 DEF Collect
    <3> QED
      BY <3>1, <3>2
  <2> QED
    BY <1>8, <2>1 DEF Collect, ObjectHeld, NoSecret
<1>9. CASE PodStarts
  <2>1. home' \in ZID \cup PlantedZID \cup {None} /\ pod' = home'
    BY <1>9 DEF PodStarts, Secret
  <2> QED
    BY <1>9, <2>1 DEF PodStarts, ObjectHeld
<1>10. CASE PodDies
  BY <1>10, FaultType DEF PodDies, ObjectHeld
<1> QED
  BY <1>1, <1>2, <1>3, <1>4, <1>5, <1>6, <1>7, <1>8, <1>9, <1>10 DEF Environment

\* A step that changes nothing.
LEMMA StutterInv == ASSUME IInv, UNCHANGED vars PROVE IInv'
  BY DEF IInv, TypeOK, ObjectHeld, IdentityOurs, vars

\* ... and through every step.
LEMMA NextInv == ASSUME IInv, [Next]_vars PROVE IInv'
<1>1. CASE Step
  BY <1>1, EnableInv, ChildInv, DeleteInv DEF Step, EnableStep, ChildStep, DeleteStep
<1> QED
  BY <1>1, ReconcileInv, CrashInv, EnvironmentInv, StutterInv DEF Next

\* In every behaviour, with any faults: the object a reconcile works on stays
\* until the reconcile lets it go, its children are made for a recorded
\* EnvZID, and no identity but one that Enable gave is adopted.
THEOREM Invariance == Spec => []IInv
<1>1. IInv /\ [Next]_vars => IInv'
  BY NextInv
<1> QED
  BY InitInv, <1>1, PTL DEF Spec

\* Whatever Secret lies under the object's name, the EnvZID in its status and
\* in the worker's hands is one that Enable gave to this operator.
THEOREM TypeCorrect == Spec => []TypeOK
<1>1. IInv => TypeOK
  BY DEF IInv
<1> QED
  BY <1>1, Invariance, PTL

-----------------------------------------------------------------------------
(* The refinement of EnvironmentContract.                                  *)

\* What the contract speaks of.
cvars == <<state, claimed, leaving>>

\* What the status says changes as the contract allows, outside a deletion.
LEMMA MoveAllowed ==
  ASSUME claimed' = claimed, ~leaving, ~leaving',
         state' = state \/ state' \in Follows(state),
         state' = "missing" => state \in {"missing", "pending"}
  PROVE  [Contract!Next]_cvars
<1>1. CASE state' = state
  BY <1>1 DEF cvars, leaving
<1>2. CASE state' # state
  <2>1. state' \in Contract!Follows(state)
    BY <1>2 DEF Contract!Follows, Follows
  <2>2. state' = "missing" /\ state # "pending" => leaving
    BY <1>2
  <2>3. leaving' = (leaving /\ state' # "missing")
    <3>1. leaving = FALSE /\ leaving' = FALSE
      BY DEF leaving
    <3> QED
      BY <3>1
  <2> QED
    BY <2>1, <2>2, <2>3 DEF Contract!Next, Contract!Moves
<1> QED
  BY <1>1, <1>2

\* A write to the Ready condition.
LEMMA ReasonMoves ==
  ASSUME IInv, ~leaving, ~leaving', claimed' = claimed, obj.phase # "absent",
         NEW r \in Reason, r = "Ready" => obj.zid # None,
         obj' \in {obj, [obj EXCEPT !.reason = r]}
  PROVE  [Contract!Next]_cvars
<1>1. /\ obj'.phase = obj.phase /\ obj'.zid = obj.zid
      /\ obj'.reason \in {obj.reason, r}
  BY DEF IInv, TypeOK, Object
<1>2. state' = state \/ state' \in Follows(state)
  BY <1>1 DEF state, StateOf, Follows
<1>3. state' # "missing"
  BY <1>1 DEF state, StateOf
<1> QED
  BY <1>2, <1>3, MoveAllowed

\* A write to EnvZID.
LEMMA ZIDMoves ==
  ASSUME IInv, ~leaving, ~leaving', claimed' = claimed, obj.phase # "absent",
         NEW z \in ZID \cup {None}, obj' \in {obj, [obj EXCEPT !.zid = z]}
  PROVE  [Contract!Next]_cvars
<1>1. /\ obj'.phase = obj.phase /\ obj'.reason = obj.reason
  BY DEF IInv, TypeOK, Object
<1>2. state' = state \/ state' \in Follows(state)
  BY <1>1 DEF state, StateOf, Follows
<1>3. state' # "missing"
  BY <1>1 DEF state, StateOf
<1> QED
  BY <1>2, <1>3, MoveAllowed

\* A deletion that goes on or is given up, while the status stays.
LEMMA LeavingMoves ==
  ASSUME leaving, state' = state, claimed' = claimed PROVE [Contract!Next]_cvars
<1>1. CASE leaving'
  BY <1>1 DEF cvars, leaving
<1>2. CASE ~leaving'
  <2>1. Contract!Stays
    BY <1>2 DEF Contract!Stays
  <2> QED
    BY <2>1 DEF Contract!Next
<1> QED
  BY <1>1, <1>2

\* A step that no other controller can see.
LEMMA Unseen ==
  ASSUME UNCHANGED <<obj, claimed>>, leaving' = leaving PROVE [Contract!Next]_cvars
<1>1. state' = state
  BY DEF state
<1> QED
  BY <1>1 DEF cvars

\* The steps keep the contract: the beginning of a reconcile, which may be the
\* beginning of a deletion,
LEMMA ReconcileAllowed == ASSUME IInv, Reconcile PROVE [Contract!Next]_cvars
<1>0. /\ w.pc = "idle" /\ ~leaving
      /\ {"SecretError", "ImageNotAllowed", "EnableError", "SharesExist"} \subseteq Reason
  BY DEF Reconcile, ReconcileGone, AddFinalizer, SecretUnreadable, ImageRefused, AdoptIdentity,
         RejectIdentity, IdentityMissing, DeleteBlocked, StartDelete, Enabling, Live, Deleting,
         Taken, leaving, LeavingPC, Reason
<1>1. CASE ReconcileGone
  BY <1>0, <1>1, Unseen DEF ReconcileGone, leaving
<1>2. CASE AddFinalizer
  <2>1. state' = state /\ ~leaving' /\ claimed' = claimed
    BY <1>0, <1>2 DEF AddFinalizer, IInv, TypeOK, Object, state, leaving
  <2> QED
    BY <1>0, <2>1, <1>2, MoveAllowed DEF AddFinalizer, state, StateOf
<1>3. CASE SecretUnreadable \/ ImageRefused \/ RejectIdentity \/ DeleteBlocked
  <2>1. \E r \in {"SecretError", "ImageNotAllowed", "EnableError", "SharesExist"} :
          obj' \in {obj, [obj EXCEPT !.reason = r]}
    BY <1>3 DEF SecretUnreadable, ImageRefused, RejectIdentity, DeleteBlocked, StopWith, Return
  <2>2. w' = Idle /\ claimed' = claimed /\ obj.phase # "absent"
    BY <1>3 DEF SecretUnreadable, ImageRefused, RejectIdentity, DeleteBlocked, StopWith, Return,
                Enabling, Live, Deleting
  <2>3. ~leaving'
    BY <2>2, IdleType DEF leaving, LeavingPC
  <2> QED
    BY <1>0, <2>1, <2>2, <2>3, ReasonMoves
<1>4. CASE AdoptIdentity
  <2>1. obj' = [obj EXCEPT !.zid = secret.zid] /\ secret.zid \in ZID \cup {None}
    BY <1>4 DEF AdoptIdentity, IInv, IdentityOurs
  <2>2. w'.pc = "pvc" /\ claimed' = claimed /\ obj.phase # "absent"
    BY <1>4 DEF AdoptIdentity, Enabling, Live, Locals
  <2>3. ~leaving'
    BY <2>2 DEF leaving, LeavingPC
  <2> QED
    BY <1>0, <2>1, <2>2, <2>3, ZIDMoves
<1>5. CASE IdentityMissing
  <2>1. obj' \in {obj, [obj EXCEPT !.zid = None]}
    BY <1>5 DEF IdentityMissing
  <2>2. w'.pc = "enable" /\ claimed' = claimed /\ obj.phase # "absent"
    BY <1>5 DEF IdentityMissing, Enabling, Live, Locals
  <2>3. ~leaving'
    BY <2>2 DEF leaving, LeavingPC
  <2> QED
    BY <1>0, <2>1, <2>2, <2>3, ZIDMoves
<1>6. CASE StartDelete
  <2>1. leaving' /\ ~claimed /\ UNCHANGED <<obj, claimed>> /\ obj.phase # "absent"
    BY <1>6 DEF StartDelete, Deleting, Locals, leaving, LeavingPC
  <2>2. state # "missing" /\ state' = state
    BY <2>1 DEF state, StateOf
  <2>3. Contract!Leaves
    BY <1>0, <2>1, <2>2 DEF Contract!Leaves
  <2> QED
    BY <2>3 DEF Contract!Next
<1> QED
  BY <1>1, <1>2, <1>3, <1>4, <1>5, <1>6 DEF Reconcile

\* ... the calls of ensureEnabled,
LEMMA EnableAllowed == ASSUME IInv, EnableStep PROVE [Contract!Next]_cvars
<1>0. /\ ~leaving /\ obj.phase # "absent"
      /\ {"EnableError", "EndpointNotAllowed"} \subseteq Reason
  BY DEF EnableStep, Enable, EnableRefused, EnableFails, CreateSecret, CreateSecretFails,
         DisableOrphan, RecordZID, RecordFails, IInv, ObjectHeld, leaving, LeavingPC, Reason
<1>1. CASE Enable \/ CreateSecret \/ CreateSecretFails
  <2>1. w'.pc \in {"create", "record", "undo"} /\ UNCHANGED <<obj, claimed>>
    BY <1>1 DEF Enable, CreateSecret, CreateSecretFails, Goto, IInv, TypeOK, Worker
  <2>2. leaving' = FALSE /\ leaving = FALSE
    BY <1>0, <2>1 DEF leaving, LeavingPC
  <2> QED
    BY <2>1, <2>2, Unseen
<1>2. CASE EnableRefused \/ EnableFails \/ DisableOrphan \/ RecordFails
  <2>1. \E r \in {"EnableError", "EndpointNotAllowed"} :
          obj' \in {obj, [obj EXCEPT !.reason = r]}
    BY <1>2 DEF EnableRefused, EnableFails, DisableOrphan, RecordFails, StopWith, Return
  <2>2. w' = Idle /\ claimed' = claimed
    BY <1>2 DEF EnableRefused, EnableFails, DisableOrphan, RecordFails, StopWith, Return
  <2>3. ~leaving'
    BY <2>2, IdleType DEF leaving, LeavingPC
  <2> QED
    BY <1>0, <2>1, <2>2, <2>3, ReasonMoves
<1>3. CASE RecordZID
  <2>1. /\ obj' = [obj EXCEPT !.zid = w.zid] /\ w.zid \in ZID \cup {None}
        /\ w'.pc = "pvc" /\ claimed' = claimed
    BY <1>3 DEF RecordZID, PatchStatus, IInv, TypeOK, Worker
  <2>2. ~leaving'
    BY <2>1 DEF leaving, LeavingPC
  <2> QED
    BY <1>0, <2>1, <2>2, ZIDMoves
<1> QED
  BY <1>1, <1>2, <1>3 DEF EnableStep

\* ... the writes to the children, and the verdict, which is Ready only with an
\* EnvZID,
LEMMA ChildAllowed == ASSUME IInv, ChildStep PROVE [Contract!Next]_cvars
<1>0. w.pc \in ChildPC
  BY DEF ChildStep, EnsurePVC, EnsureService, ServiceHijacked, EnsureDeployment,
         EnsureNetworkPolicy, EnsureFails, ProbeAgent, MarkVerdict, ChildPC
<1>1. ~leaving /\ obj.phase # "absent" /\ obj.zid # None
  BY <1>0 DEF IInv, ObjectHeld, leaving, LeavingPC, ChildPC
<1>2. CASE EnsurePVC \/ EnsureService \/ EnsureDeployment \/ EnsureNetworkPolicy \/ ProbeAgent
  <2>1. w'.pc \in ChildPC /\ UNCHANGED <<obj, claimed>>
    BY <1>2 DEF EnsurePVC, EnsureService, EnsureDeployment, EnsureNetworkPolicy, ProbeAgent,
                Goto, IInv, TypeOK, Worker, ChildPC
  <2>2. leaving' = FALSE /\ leaving = FALSE
    BY <1>1, <2>1 DEF leaving, LeavingPC, ChildPC
  <2> QED
    BY <2>1, <2>2, Unseen
<1>3. CASE ServiceHijacked \/ EnsureFails \/ MarkVerdict
  <2>1. \E r \in Reason : obj' \in {obj, [obj EXCEPT !.reason = r]}
    BY <1>3 DEF ServiceHijacked, EnsureFails, MarkVerdict, StopWith, Return, IInv, TypeOK,
                Worker, Reason
  <2>2. w' = Idle /\ claimed' = claimed
    BY <1>3 DEF ServiceHijacked, EnsureFails, MarkVerdict, StopWith, Return
  <2>3. ~leaving'
    BY <2>2, IdleType DEF leaving, LeavingPC
  <2> QED
    BY <1>1, <2>1, <2>2, <2>3, ReasonMoves
<1> QED
  BY <1>2, <1>3 DEF ChildStep

\* ... a deletion, which ends with the object gone, and a crash,
LEMMA DeleteAllowed == ASSUME IInv, DeleteStep \/ Crash PROVE [Contract!Next]_cvars
<1>1. CASE (Disable \/ DisableFails \/ Teardown \/ Crash) /\ leaving
  <2>1. obj' = obj /\ claimed' = claimed
    BY <1>1 DEF Disable, DisableFails, Teardown, Crash, Return
  <2>2. state' = state
    BY <2>1 DEF state
  <2> QED
    BY <1>1, <2>1, <2>2, LeavingMoves
<1>2. CASE Crash /\ ~leaving
  <2>1. UNCHANGED <<obj, claimed>> /\ w' = Idle
    BY <1>2 DEF Crash, Return
  <2>2. leaving' = FALSE /\ leaving = FALSE
    BY <1>2, <2>1, IdleType DEF leaving, LeavingPC
  <2> QED
    BY <2>1, <2>2, Unseen
<1>3. CASE RemoveFinalizer
  <2>1. leaving /\ obj.phase = "deleting" /\ claimed' = claimed
    BY <1>3 DEF RemoveFinalizer, leaving, LeavingPC, IInv, ObjectHeld
  <2>2. CASE obj = w.obj
    <3>1. obj' = Absent /\ w' = Idle
      BY <1>3, <2>2 DEF RemoveFinalizer
    <3>2. state' = "missing"
      BY <3>1, AbsentType DEF state
    <3>3. state' \in Contract!Follows(state)
      BY <2>1, <3>2 DEF Contract!Follows, state, StateOf
    <3>4. leaving' = FALSE
      BY <3>1, IdleType DEF leaving, LeavingPC
    <3>5. leaving' = (leaving /\ state' # "missing")
      BY <3>2, <3>4
    <3> QED
      BY <2>1, <3>3, <3>5 DEF Contract!Next, Contract!Moves
  <2>3. CASE obj # w.obj
    <3>1. obj' = obj
      BY <1>3, <2>3 DEF RemoveFinalizer, Return
    <3>2. state' = state
      BY <3>1 DEF state
    <3> QED
      BY <2>1, <3>2, LeavingMoves
  <2> QED
    BY <2>2, <2>3
<1>4. Disable \/ DisableFails \/ Teardown => leaving
  BY DEF Disable, DisableFails, Teardown, leaving, LeavingPC
<1> QED
  BY <1>1, <1>2, <1>3, <1>4 DEF DeleteStep

\* ... and what others do: only an object without EnvZID goes without a deletion.
LEMMA EnvironmentAllowed == ASSUME IInv, Environment PROVE [Contract!Next]_cvars
<1>1. leaving' = leaving
  BY DEF Environment, UserCreates, UserEdits, UserDeletes, SharesChange, SecretPlanted,
         SecretLost, ChildrenDisturbed, Collect, PodStarts, PodDies, leaving
<1>2. ~obj.finalizer => ~leaving
  BY DEF IInv, ObjectHeld, leaving, LeavingPC
<1>3. CASE UserCreates
  <2>1. /\ obj.phase = "absent" /\ ~obj.finalizer /\ claimed' = claimed
        /\ \E sp \in UserSpec : obj' = [Absent EXCEPT !.phase = "live", !.spec = sp]
    BY <1>3 DEF UserCreates, IInv, ObjectHeld
  <2>2. obj'.phase = "live" /\ obj'.zid = None /\ obj'.reason = "unset"
    BY <2>1, AbsentType DEF Object
  <2>3. state = "missing" /\ state' = "pending"
    BY <2>1, <2>2 DEF state, StateOf
  <2>4. "pending" \in Follows("missing")
    BY DEF Follows
  <2> QED
    BY <1>1, <1>2, <2>1, <2>3, <2>4, MoveAllowed
<1>4. CASE UserEdits
  <2>1. state' = state /\ claimed' = claimed
    BY <1>4 DEF UserEdits, IInv, TypeOK, Object, state
  <2> QED
    BY <1>1, <2>1 DEF cvars
<1>5. CASE UserDeletes
  <2>1. claimed' = claimed /\ obj.phase = "live"
    BY <1>5 DEF UserDeletes
  <2>2. CASE obj.finalizer
    <3>1. obj' = [obj EXCEPT !.phase = "deleting"]
      BY <1>5, <2>2 DEF UserDeletes
    <3>2. state' = state
      BY <2>1, <3>1 DEF IInv, TypeOK, Object, state
    <3> QED
      BY <1>1, <2>1, <3>2 DEF cvars
  <2>3. CASE ~obj.finalizer
    <3>1. obj' = Absent /\ obj.zid = None /\ obj.reason = "unset"
      BY <1>5, <2>3 DEF UserDeletes, IInv, ObjectHeld
    <3>2. state = "pending" /\ state' = "missing"
      BY <2>1, <3>1, AbsentType DEF state, StateOf
    <3>3. "missing" \in Follows("pending")
      BY DEF Follows
    <3> QED
      BY <1>1, <1>2, <2>1, <2>3, <3>2, <3>3, MoveAllowed
  <2> QED
    BY <2>2, <2>3
<1>6. CASE SharesChange
  <2>1. claimed' \in BOOLEAN /\ obj' = obj
    BY <1>6 DEF SharesChange, IInv, TypeOK
  <2>2. state' = state
    BY <2>1 DEF state
  <2> QED
    BY <1>1, <2>1, <2>2 DEF Contract!Next, Contract!SharesChange
<1>7. CASE SecretPlanted \/ SecretLost \/ ChildrenDisturbed \/ Collect \/ PodStarts \/ PodDies
  BY <1>1, <1>7, Unseen DEF SecretPlanted, SecretLost, ChildrenDisturbed, Collect, PodStarts, PodDies
<1> QED
  BY <1>3, <1>4, <1>5, <1>6, <1>7 DEF Environment

\* Every step is one of the contract, or invisible to it.
LEMMA NextAllowed == ASSUME IInv, [Next]_vars PROVE [Contract!Next]_cvars
<1>1. CASE Step
  BY <1>1, EnableAllowed, ChildAllowed, DeleteAllowed
     DEF Step, EnableStep, ChildStep, DeleteStep
<1>2. CASE UNCHANGED vars
  BY <1>2, Unseen DEF vars, leaving
<1> QED
  BY <1>1, <1>2, ReconcileAllowed, DeleteAllowed, EnvironmentAllowed DEF Next

\* The program starts where the contract does.
LEMMA InitAllowed == Init => Contract!Init
<1> SUFFICES ASSUME Init PROVE Contract!Init
  OBVIOUS
<1>1. state = "missing"
  BY AbsentType DEF Init, state
<1>2. ~leaving
  BY IdleType DEF Init, leaving, LeavingPC
<1> QED
  BY <1>1, <1>2 DEF Init, Contract!Init

\* The environment controller implements EnvironmentContract, which the share
\* controller is checked against: EnvZID and Ready change one at a time, Ready
\* is never set without an EnvZID, and an enabled environment goes missing
\* only through a deletion that began when no live share referred to it.
THEOREM ContractKept == Spec => KeepsContract
<1>1. IInv /\ [Next]_vars => [Contract!Next]_<<state, claimed, leaving>>
  BY NextAllowed DEF cvars
<1> QED
  BY InitAllowed, <1>1, Invariance, PTL DEF Spec, KeepsContract, Contract!Spec
=============================================================================
