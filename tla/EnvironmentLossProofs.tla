----------------------- MODULE EnvironmentLossProofs -----------------------
(***************************************************************************)
(* ForgetsOnlyByLoss of EnvironmentController, for every value of the      *)
(* constants.  Forgotten itself is not inductive: a step may take away the *)
(* last place that names an environment long after the loss that left it   *)
(* in that one place.  The proof counts the environments at risk instead.  *)
(***************************************************************************)
EXTENDS EnvironmentControllerProofs, FiniteSetTheorems

\* Between the answer of Enable and the status.
EnablingPC == {"create", "undo", "record"}

\* Nothing but a loss can make the operator forget r: the reconcile that
\* enabled it has yet to store or undo it; or it is stored and being recorded;
\* or status and Secret both name it, of which a deletion needs the status.
Firm(r) ==
  \/ w.pc \in {"create", "undo"} /\ r.zid = w.zid
  \/ w.pc = "record" /\ r.zid = w.zid /\ r.zid = secret.zid
  \/ /\ r.zid = obj.zid
     /\ \/ r.zid = secret.zid
        \/ obj.phase = "deleting" /\ w.pc \notin EnablingPC \cup {"enable"}

AtRisk == {r \in remote : ~Firm(r)}

\* The zrok controller gives no identity out twice.
Distinct == \A r, s \in remote : r.zid = s.zid => r = s

\* A Secret that may go by itself, or that is not ours, holds no identity
\* that the status or a recording reconcile relies on.
SecretKnown ==
  /\ "secret" \in past => secret.owner = "past"
  /\ secret.owner = "other" => secret.zid \in PlantedZID
  /\ secret.owner = "past" => secret.zid \notin ZID \cap {obj.zid}
  /\ secret.owner = "past" /\ w.pc \in EnablingPC => secret.zid # w.zid
  /\ w.pc = "record" => secret.zid \notin ZID \ {w.zid}

\* What a deletion tears down has been disabled, unless it is retained.
DisabledFirst ==
  w.pc \in {"teardown", "final"} =>
    w.obj.spec.policy = "Retain" \/ \A r \in remote : r.zid # w.obj.zid

Counted == IsFiniteSet(remote) /\ Cardinality(AtRisk) <= faults.losses

LossInv == Distinct /\ SecretKnown /\ DisabledFirst /\ Counted

-----------------------------------------------------------------------------
(* The secret, the identities and the deletion.                            *)

\* The groups of steps, one by one.
AnyStep ==
  \/ Reconcile \/ EnableStep \/ ChildStep \/ DeleteStep \/ Crash \/ Environment

\* Every step belongs to one of them.
LEMMA NextIsAnyStep == Next => AnyStep
  BY DEF Next, Step, AnyStep, EnableStep, ChildStep, DeleteStep

\* A step gives the identities of environments out only by Enable, and then a
\* fresh one.
LEMMA RemoteGrows ==
  ASSUME IInv, AnyStep
  PROVE  \/ remote' \subseteq remote
         \/ /\ w.pc = "enable"
            /\ \E e : e.zid \in Fresh /\ e.zid \in ZID /\ remote' = remote \cup {e}
<1>1. CASE Enable \/ EnableFails
  <2>1. \/ remote' = remote
        \/ w.pc = "enable" /\ \E zid \in Fresh : remote' = Enabled(zid)
    BY <1>1 DEF Enable, EnableFails
  <2>2. CASE \E zid \in Fresh : remote' = Enabled(zid)
    <3>1. PICK zid \in Fresh : remote' = Enabled(zid)
      BY <2>2
    <3>2. zid \in ZID
      BY DEF Fresh
    <3>3. /\ remote' = remote \cup {[zid |-> zid, api |-> w.obj.spec.api]}
          /\ [zid |-> zid, api |-> w.obj.spec.api].zid = zid
      BY <3>1 DEF Enabled
    <3>4. w.pc = "enable"
      BY <1>1 DEF Enable, EnableFails
    <3> QED
      BY <3>2, <3>3, <3>4
  <2> QED
    BY <2>1, <2>2
<1>2. CASE DisableOrphan \/ Disable \/ DisableFails \/ RemoveFinalizer
  BY <1>2 DEF DisableOrphan, Disable, DisableFails, RemoveFinalizer, Without
<1>3. CASE Reconcile
  BY <1>3 DEF Reconcile, ReconcileGone, AddFinalizer, SecretUnreadable, ImageRefused,
              AdoptIdentity, RejectIdentity, IdentityMissing, DeleteBlocked, StartDelete
<1>4. CASE EnableRefused \/ CreateSecret \/ CreateSecretFails \/ RecordZID \/ RecordFails
  BY <1>4 DEF EnableRefused, CreateSecret, CreateSecretFails, RecordZID, RecordFails
<1>5. CASE ChildStep \/ Teardown \/ Crash
  BY <1>5 DEF ChildStep, EnsurePVC, EnsureService, ServiceHijacked, EnsureDeployment,
              EnsureNetworkPolicy, EnsureFails, ProbeAgent, MarkVerdict, Teardown, Crash
<1>6. CASE Environment
  BY <1>6 DEF Environment, UserCreates, UserEdits, UserDeletes, SharesChange, SecretPlanted,
              SecretLost, ChildrenDisturbed, Collect, PodStarts, PodDies
<1> QED
  BY <1>1, <1>2, <1>3, <1>4, <1>5, <1>6 DEF AnyStep, EnableStep, DeleteStep

\* So identities stay distinct, and the environments finitely many.
LEMMA DistinctInv ==
  ASSUME IInv, AnyStep, Distinct, IsFiniteSet(remote)
  PROVE  Distinct' /\ IsFiniteSet(remote')
<1>1. CASE remote' \subseteq remote
  BY <1>1, FS_Subset DEF Distinct
<1>2. ASSUME NEW e, e.zid \in Fresh, remote' = remote \cup {e}
      PROVE  Distinct' /\ IsFiniteSet(remote')
  <2>1. \A r \in remote : r.zid # e.zid
    BY <1>2 DEF Fresh, InUse
  <2>2. Distinct'
    BY <1>2, <2>1 DEF Distinct
  <2> QED
    BY <1>2, <2>2, FS_AddElement
<1> QED
  BY <1>1, <1>2, RemoteGrows

-----------------------------------------------------------------------------
(* The Secret.                                                             *)

\* A step that leaves the Secret, EnvZID and the enabling alone, or ends it.
Quiet ==
  /\ secret' = secret /\ past' \subseteq past
  /\ obj'.zid = obj.zid
  /\ obj.phase = "deleting" => obj'.phase = "deleting"
  /\ w'.pc \notin EnablingPC \cup {"enable"} \/ w' = w

\* Steps of the worker that do not.
Telling ==
  \/ AdoptIdentity \/ RejectIdentity \/ IdentityMissing \/ Enable \/ CreateSecret
  \/ CreateSecretFails \/ RecordZID \/ Teardown \/ RemoveFinalizer

\* Steps of others that do not.
Meddling == SecretPlanted \/ SecretLost \/ (Collect /\ secret' # secret)

\* A reconcile that ends with a condition changes nothing else of the object.
LEMMA ReturnQuiet ==
  ASSUME IInv, NEW o \in {obj} \cup {[obj EXCEPT !.reason = r] : r \in Reason},
         Return(o), secret' = secret, past' \subseteq past
  PROVE  Quiet
<1>1. obj'.zid = obj.zid /\ obj'.phase = obj.phase
  BY DEF Return, IInv, TypeOK, Object
<1>2. w'.pc = "idle"
  BY IdleType DEF Return
<1> QED
  BY <1>1, <1>2 DEF Quiet, EnablingPC

\* The reasons that end a reconcile.
LEMMA StopQuiet ==
  ASSUME IInv, NEW r \in Reason, StopWith(r), secret' = secret, past' \subseteq past
  PROVE  Quiet
<1>1. \E o \in {obj, [obj EXCEPT !.reason = r]} : Return(o)
  BY DEF StopWith
<1> QED
  BY <1>1, ReturnQuiet

\* All other steps are quiet: those of the worker,
LEMMA WorkerQuiet ==
  ASSUME IInv, Reconcile \/ EnableStep \/ ChildStep \/ DeleteStep \/ Crash, ~Telling
  PROVE  Quiet
<1> USE DEF world
<1>0. {"SecretError", "ImageNotAllowed", "SharesExist", "EndpointNotAllowed", "EnableError",
       "ServiceError", "PVCError", "DeploymentError", "NetworkPolicyError"} \subseteq Reason
  BY DEF Reason
<1>1. CASE ReconcileGone \/ AddFinalizer
  BY <1>1 DEF ReconcileGone, AddFinalizer, Quiet, IInv, TypeOK, Object
<1>2. CASE SecretUnreadable \/ EnableFails \/ DisableOrphan \/ RecordFails
  <2>1. \E r \in {"SecretError", "EnableError"} : Return([obj EXCEPT !.reason = r])
    BY <1>2 DEF SecretUnreadable, EnableFails, DisableOrphan, RecordFails
  <2>2. secret' = secret /\ past' = past
    BY <1>2 DEF SecretUnreadable, EnableFails, DisableOrphan, RecordFails
  <2> QED
    BY <1>0, <2>1, <2>2, ReturnQuiet
<1>3. CASE ImageRefused \/ DeleteBlocked \/ EnableRefused \/ ServiceHijacked
  <2>1. \E r \in {"ImageNotAllowed", "SharesExist", "EndpointNotAllowed", "ServiceError"} :
          StopWith(r)
    BY <1>3 DEF ImageRefused, DeleteBlocked, EnableRefused, ServiceHijacked
  <2>2. secret' = secret /\ past' \subseteq past
    BY <1>3 DEF ImageRefused, DeleteBlocked, EnableRefused, ServiceHijacked
  <2> QED
    BY <1>0, <2>1, <2>2, StopQuiet
<1>4. CASE StartDelete
  BY <1>4 DEF StartDelete, Locals, Quiet, EnablingPC
<1>5. CASE EnsurePVC \/ EnsureService \/ EnsureDeployment \/ EnsureNetworkPolicy \/ ProbeAgent
  <2>1. w'.pc \in {"service", "deployment", "policy", "probe", "mark"}
    BY <1>5 DEF EnsurePVC, EnsureService, EnsureDeployment, EnsureNetworkPolicy, ProbeAgent,
                Goto, IInv, TypeOK, Worker
  <2>2. obj' = obj /\ secret' = secret /\ past' \subseteq past
    BY <1>5 DEF EnsurePVC, EnsureService, EnsureDeployment, EnsureNetworkPolicy, ProbeAgent
  <2> QED
    BY <2>1, <2>2 DEF Quiet, EnablingPC
<1>6. CASE EnsureFails \/ MarkVerdict
  <2>1. \E r \in Reason : Return([obj EXCEPT !.reason = r])
    BY <1>0, <1>6 DEF EnsureFails, MarkVerdict, IInv, TypeOK, Worker
  <2>2. secret' = secret /\ past' = past
    BY <1>6 DEF EnsureFails, MarkVerdict
  <2> QED
    BY <2>1, <2>2, ReturnQuiet
<1>7. CASE Disable
  BY <1>7 DEF Disable, Goto, Quiet, EnablingPC, IInv, TypeOK, Worker
<1>8. CASE DisableFails \/ Crash
  <2>1. Return(obj) /\ secret' = secret /\ past' = past
    BY <1>8 DEF DisableFails, Crash
  <2> QED
    BY <2>1, ReturnQuiet
<1> QED
  BY <1>1, <1>2, <1>3, <1>4, <1>5, <1>6, <1>7, <1>8
     DEF Telling, Reconcile, EnableStep, ChildStep, DeleteStep

\* ... and those of others: without a finalizer there is no EnvZID yet.
LEMMA OthersQuiet == ASSUME IInv, Environment, ~Meddling PROVE Quiet
<1> USE DEF world
<1>1. CASE UserCreates
  <2>1. obj.zid = None /\ obj.phase = "absent" /\ w' = w
    BY <1>1 DEF UserCreates, IInv, ObjectHeld
  <2>2. obj'.zid = None
    BY <1>1, AbsentType DEF UserCreates, Object
  <2> QED
    BY <1>1, <2>1, <2>2 DEF UserCreates, Quiet
<1>2. CASE UserEdits
  BY <1>2 DEF UserEdits, Quiet, IInv, TypeOK, Object
<1>3. CASE UserDeletes
  <2>1. obj'.zid = obj.zid
    BY <1>3, AbsentType DEF UserDeletes, IInv, TypeOK, ObjectHeld, Object
  <2> QED
    BY <1>3, <2>1 DEF UserDeletes, Quiet
<1>4. CASE SharesChange \/ ChildrenDisturbed \/ PodStarts \/ PodDies
  BY <1>4 DEF SharesChange, ChildrenDisturbed, Lose, PodStarts, PodDies, Quiet
<1>5. CASE Collect /\ secret' = secret
  BY <1>5 DEF Collect, Lose, Quiet
<1> QED
  BY <1>1, <1>2, <1>3, <1>4, <1>5 DEF Environment, Meddling

\* A quiet step keeps what is known of the Secret,
LEMMA QuietSecret == ASSUME SecretKnown, Quiet PROVE SecretKnown'
  BY DEF SecretKnown, Quiet, EnablingPC

\* ... and so does every other: an identity that is recorded or adopted is in a
\* Secret of the object's own, and a Secret only becomes the past's when its
\* object, and with it EnvZID, is gone.
LEMMA SecretInv == ASSUME IInv, AnyStep, SecretKnown PROVE SecretKnown'
<1> USE DEF world
<1>0. /\ w.zid \in ZID \cup {None} /\ w.pc \in EnablingPC => w.zid \in ZID
      /\ None \notin ZID /\ ZID \cap PlantedZID = {}
      /\ secret = NoSecret <=> secret.owner = "none"
      /\ secret.zid \in ZID \cup PlantedZID \cup {None}
      /\ obj.zid \in ZID \cup {None}
  BY ZIDAssumption DEF IInv, TypeOK, ObjectHeld, Worker, Object, Secret, NoSecret, EnablingPC
<1>1. CASE Quiet
  BY <1>1, QuietSecret
<1>2. CASE AdoptIdentity
  BY <1>0, <1>2 DEF AdoptIdentity, Locals, SecretKnown, EnablingPC
<1>3. CASE RejectIdentity
  <2>1. w' = Idle /\ w'.pc = "idle"
    BY <1>3, IdleType DEF RejectIdentity, StopWith, Return
  <2>2. obj'.zid = obj.zid
    BY <1>3 DEF RejectIdentity, StopWith, Return, IInv, TypeOK, Object
  <2> QED
    BY <1>0, <1>3, <2>1, <2>2 DEF RejectIdentity, SecretKnown, EnablingPC, NoSecret
<1>4. CASE IdentityMissing
  <2>1. w'.pc = "enable" /\ obj'.zid \in {obj.zid, None} /\ secret' = secret /\ past' = past
    BY <1>4 DEF IdentityMissing, Locals, IInv, TypeOK, Object
  <2> QED
    BY <1>0, <2>1 DEF SecretKnown, EnablingPC
<1>5. CASE Enable
  <2>1. /\ w'.pc = "create" /\ w'.zid \in Fresh
        /\ UNCHANGED <<obj, secret, past>>
    BY <1>5 DEF Enable, IInv, TypeOK, Worker
  <2>2. w'.zid # secret.zid
    BY <2>1 DEF Fresh, InUse
  <2> QED
    BY <2>1, <2>2 DEF SecretKnown, EnablingPC
<1>6. CASE CreateSecret \/ CreateSecretFails
  <2>1. /\ w'.pc \in {"record", "undo"} /\ w'.zid = w.zid /\ w.pc = "create"
        /\ obj' = obj /\ past' = past
    BY <1>6 DEF CreateSecret, CreateSecretFails, Goto, IInv, TypeOK, Worker
  <2>2. \/ secret' = secret /\ w'.pc = "undo"
        \/ secret = NoSecret /\ secret' = [owner |-> "env", zid |-> w.zid]
    BY <1>6 DEF CreateSecret, CreateSecretFails, Goto, IInv, TypeOK, Worker
  <2> QED
    BY <1>0, <2>1, <2>2 DEF SecretKnown, EnablingPC
<1>7. CASE RecordZID
  <2>1. /\ w.pc = "record" /\ w'.pc = "pvc" /\ obj'.zid = w.zid
        /\ secret' = secret /\ past' = past
    BY <1>7 DEF RecordZID, PatchStatus, IInv, TypeOK, Object, Worker
  <2> QED
    BY <1>0, <2>1 DEF SecretKnown, EnablingPC
<1>8. CASE Teardown
  <2>1. /\ w'.pc = "final" /\ obj' = obj
        /\ \E left : /\ past' = past \cap left
                     /\ secret' = IF "secret" \in left THEN secret ELSE NoSecret
    BY <1>8 DEF Teardown, Goto, IInv, TypeOK, Worker
  <2> QED
    BY <1>0, <2>1 DEF SecretKnown, EnablingPC, NoSecret
<1>9. CASE RemoveFinalizer
  <2>1. CASE obj # w.obj
    <3>1. Return(obj) /\ secret' = secret /\ past' = past
      BY <1>9, <2>1 DEF RemoveFinalizer
    <3> QED
      BY <3>1, ReturnQuiet, QuietSecret
  <2>2. CASE obj = w.obj
    <3>1. obj'.zid = None /\ w'.pc = "idle"
      BY <1>9, <2>2, AbsentType, IdleType DEF RemoveFinalizer
    <3>2. /\ past' = Orphaned
          /\ secret' = IF secret.owner = "env" THEN [secret EXCEPT !.owner = "past"] ELSE secret
      BY <1>9, <2>2 DEF RemoveFinalizer
    <3>3. /\ secret'.zid = secret.zid
          /\ secret'.owner = IF secret.owner = "env" THEN "past" ELSE secret.owner
      BY <3>2 DEF IInv, TypeOK, Secret, NoSecret
    <3>4. "secret" \in past' => "secret" \in past \/ secret.owner \in {"env", "past"}
      BY <3>2 DEF Orphaned, Kid
    <3> QED
      BY <1>0, <3>1, <3>3, <3>4 DEF SecretKnown, EnablingPC
  <2> QED
    BY <2>1, <2>2
<1>10. CASE SecretPlanted
  <2>1. /\ UNCHANGED <<obj, past, w>> /\ secret.owner = "none"
        /\ secret'.owner = "other" /\ secret'.zid \in PlantedZID
    BY <1>0, <1>10 DEF SecretPlanted
  <2> QED
    BY <1>0, <2>1 DEF SecretKnown
<1>11. CASE SecretLost
  <2>1. /\ UNCHANGED <<obj, past, w>> /\ secret.owner = "env"
        /\ secret'.owner \in {"none", "env"} /\ secret'.zid = None
    BY <1>0, <1>11 DEF SecretLost, Secret, NoSecret, IInv, TypeOK
  <2> QED
    BY <1>0, <2>1 DEF SecretKnown
<1>12. CASE Collect /\ secret' # secret
  <2>1. /\ UNCHANGED <<obj, w>> /\ past' = past \ {"secret"}
        /\ secret'.owner = "none" /\ secret'.zid = None
    BY <1>12 DEF Collect, Lose, NoSecret
  <2> QED
    BY <1>0, <2>1 DEF SecretKnown
<1> QED
  BY <1>1, <1>2, <1>3, <1>4, <1>5, <1>6, <1>7, <1>8, <1>9, <1>10, <1>11, <1>12,
     WorkerQuiet, OthersQuiet DEF AnyStep, Telling, Meddling

-----------------------------------------------------------------------------
(* The deletion.                                                           *)

\* A deletion reaches the children by way of Disable, unless it is not due;
\* and nothing is enabled meanwhile.
LEMMA DisabledFirstInv == ASSUME IInv, AnyStep, DisabledFirst PROVE DisabledFirst'
<1>1. CASE w' = w \/ (w.pc = "teardown" /\ w' = [w EXCEPT !.pc = "final"])
  <2>1. CASE w.pc \in {"teardown", "final"}
    <3>1. remote' \subseteq remote
      BY <2>1, RemoteGrows
    <3>2. w'.obj = w.obj
      BY <1>1 DEF IInv, TypeOK, Worker
    <3> QED
      BY <2>1, <3>1, <3>2 DEF DisabledFirst
  <2>2. CASE w.pc \notin {"teardown", "final"}
    BY <1>1, <2>2 DEF DisabledFirst
  <2> QED
    BY <2>1, <2>2
<1>2. CASE w'.pc \notin {"teardown", "final"}
  BY <1>2 DEF DisabledFirst
<1>3. CASE StartDelete
  <2>1. /\ w'.obj = obj /\ remote' = remote
        /\ w'.pc = "teardown" => obj.spec.policy = "Retain" \/ obj.zid = None
        /\ w'.pc # "final"
    BY <1>3 DEF StartDelete, Locals
  <2>2. \A r \in remote : r.zid # None
    BY ZIDAssumption DEF IInv, TypeOK
  <2> QED
    BY <2>1, <2>2 DEF DisabledFirst
<1>4. CASE Disable
  <2>1. w'.obj = w.obj /\ remote' = Without(w.obj.zid)
    BY <1>4 DEF Disable, Goto, IInv, TypeOK, Worker
  <2> QED
    BY <2>1 DEF DisabledFirst, Without
<1>5. CASE Teardown
  BY <1>1, <1>5 DEF Teardown, Goto
<1>6. CASE Environment
  BY <1>1, <1>6 DEF Environment, UserCreates, UserEdits, UserDeletes, SharesChange, SecretPlanted,
                    SecretLost, ChildrenDisturbed, Collect, PodStarts, PodDies
<1>7. CASE Reconcile /\ ~StartDelete
  <2>1. \/ w' = w \/ w' = Idle
        \/ w' \in {Locals("pvc", obj'), Locals("enable", obj')}
    BY <1>7 DEF Reconcile, ReconcileGone, AddFinalizer, SecretUnreadable, ImageRefused,
                AdoptIdentity, RejectIdentity, IdentityMissing, DeleteBlocked, StopWith, Return
  <2>2. w' = w \/ w'.pc \in {"idle", "pvc", "enable"}
    BY <2>1, IdleType DEF Locals
  <2> QED
    BY <1>1, <1>2, <2>2
<1>8. CASE EnableStep
  <2>1. w'.pc \in {"idle", "create", "record", "undo", "pvc"}
    BY <1>8, IdleType DEF EnableStep, Enable, EnableRefused, EnableFails, CreateSecret,
         CreateSecretFails, DisableOrphan, RecordZID, RecordFails, PatchStatus, StopWith, Return,
         Goto, IInv, TypeOK, Worker
  <2> QED
    BY <1>2, <2>1
<1>9. CASE ChildStep
  <2>1. w'.pc \in {"idle", "service", "deployment", "policy", "probe", "mark"}
    BY <1>9, IdleType DEF ChildStep, EnsurePVC, EnsureService, ServiceHijacked, EnsureDeployment,
         EnsureNetworkPolicy, EnsureFails, ProbeAgent, MarkVerdict, StopWith, Return,
         Goto, IInv, TypeOK, Worker
  <2> QED
    BY <1>2, <2>1
<1>10. CASE DisableFails \/ RemoveFinalizer \/ Crash
  <2>1. w'.pc = "idle"
    BY <1>10, IdleType DEF DisableFails, RemoveFinalizer, Crash, Return
  <2> QED
    BY <1>2, <2>1
<1> QED
  BY <1>3, <1>4, <1>5, <1>6, <1>7, <1>8, <1>9, <1>10 DEF AnyStep, DeleteStep

-----------------------------------------------------------------------------
(* What a step puts at risk.                                               *)

\* Apart from the identity z, no environment loses its hold.
Keeps(z) == \A r \in remote' : r.zid # z => (r \in remote /\ ~Firm(r)) \/ Firm(r)'

\* A step puts nothing at risk, or one identity by a loss.
Accounted ==
  \/ Keeps(None) /\ faults'.losses = faults.losses
  \/ faults'.losses = faults.losses + 1 /\ \E z : Keeps(z)

\* A fault that is no loss does not count.
LEMMA FaultCounts ==
  ASSUME IInv
  PROVE  /\ \A k : Fault(k) => faults'.losses = faults.losses
         /\ \A k : Loss(k) => faults'.losses = faults.losses + 1
         /\ NoFault => faults'.losses = faults.losses
  BY DEF IInv, TypeOK, Fault, Loss, NoFault

\* A quiet step outside the enabling puts nothing at risk,
LEMMA QuietKeeps ==
  ASSUME Quiet, w.pc \notin EnablingPC \/ w' = w, remote' \subseteq remote
  PROVE  \A z : Keeps(z)
  BY DEF Quiet, Keeps, Firm, EnablingPC

\* ... and one that ends the enabling only what was being enabled.
LEMMA QuietEnds == ASSUME Quiet, remote' \subseteq remote PROVE Keeps(w.zid)
  BY DEF Quiet, Keeps, Firm, EnablingPC

\* The steps account for what they put at risk: the beginning of a reconcile,
\* which may read a cache that does not show the Secret yet,
LEMMA ReconcileAccounted == ASSUME IInv, SecretKnown, Reconcile PROVE Accounted
<1> USE DEF world
<1>0. /\ w.pc = "idle" /\ remote' = remote
      /\ \A r \in remote : r.zid \in ZID
      /\ None \notin ZID /\ ZID \cap PlantedZID = {}
      /\ secret.owner \in {"env", "past", "other"} \/ secret = NoSecret
  BY ZIDAssumption DEF Reconcile, ReconcileGone, AddFinalizer, SecretUnreadable, ImageRefused,
     AdoptIdentity, RejectIdentity, IdentityMissing, DeleteBlocked, StartDelete, Enabling, Live,
     Deleting, Taken, IInv, TypeOK, Secret
<1>1. CASE ~Telling
  <2>1. Keeps(None)
    BY <1>0, <1>1, WorkerQuiet, QuietKeeps DEF EnablingPC
  <2>2. faults'.losses = faults.losses
    BY <1>1, FaultCounts DEF Telling, Reconcile, ReconcileGone, AddFinalizer, SecretUnreadable,
                             ImageRefused, DeleteBlocked, StartDelete, StopWith
  <2> QED
    BY <2>1, <2>2 DEF Accounted
<1>2. CASE AdoptIdentity
  <2>1. /\ obj.phase = "live" /\ obj'.zid = secret.zid /\ secret' = secret
        /\ faults' = faults /\ w'.pc = "pvc"
    BY <1>2 DEF AdoptIdentity, Enabling, Live, Locals, IInv, TypeOK, Object
  <2> QED
    BY <1>0, <2>1 DEF Accounted, Keeps, Firm
<1>3. CASE RejectIdentity
  <2>1. /\ obj.phase = "live" /\ obj'.zid = obj.zid /\ obj'.phase = "live"
        /\ w'.pc = "idle" /\ faults'.losses = faults.losses
    BY <1>3, IdleType, FaultCounts
       DEF RejectIdentity, StopWith, Return, Enabling, Live, IInv, TypeOK, Object
  <2>2. secret' = secret \/ secret.owner \in {"past", "other"} \/ secret.zid = None
    BY <1>0, <1>3 DEF RejectIdentity
  <2>3. \A r \in remote : r.zid = obj.zid /\ r.zid = secret.zid => secret' = secret
    BY <1>0, <2>2 DEF SecretKnown
  <2> QED
    BY <1>0, <2>1, <2>3 DEF Accounted, Keeps, Firm
<1>4. CASE IdentityMissing
  <2>1. /\ obj.phase = "live" /\ obj'.phase = "live" /\ w'.pc = "enable"
        /\ obj'.zid \in {obj.zid, None} /\ secret' = secret
    BY <1>4 DEF IdentityMissing, Enabling, Live, Locals, IInv, TypeOK, Object
  <2>2. CASE secret = NoSecret /\ faults'.losses = faults.losses
    BY <1>0, <2>1, <2>2 DEF Accounted, Keeps, Firm, NoSecret
  <2>3. CASE Loss("stale")
    <3>1. Keeps(obj.zid)
      BY <1>0, <2>1 DEF Keeps, Firm
    <3> QED
      BY <2>3, <3>1, FaultCounts DEF Accounted
  <2> QED
    BY <1>4, <2>2, <2>3, FaultCounts DEF IdentityMissing
<1> QED
  BY <1>1, <1>2, <1>3, <1>4
     DEF Telling, Reconcile, ReconcileGone, AddFinalizer, SecretUnreadable, ImageRefused,
         DeleteBlocked, StartDelete, Enable, CreateSecret, CreateSecretFails, RecordZID,
         Teardown, RemoveFinalizer, Enabling, Live, Deleting, Taken

\* ... the enabling, in which an answer, an undo or a record may be lost,
LEMMA EnableAccounted == ASSUME IInv, SecretKnown, EnableStep PROVE Accounted
<1> USE DEF world
<1>0. /\ \A r \in remote : r.zid \in ZID
      /\ None \notin ZID
      /\ w.zid \in ZID \cup {None}
      /\ {"EnableError", "EndpointNotAllowed"} \subseteq Reason
  BY ZIDAssumption DEF IInv, TypeOK, Worker, Reason
<1>1. CASE Enable
  <2>1. /\ w.pc = "enable" /\ w'.pc = "create" /\ UNCHANGED <<obj, secret, faults>>
        /\ remote' = remote \cup {[zid |-> w'.zid, api |-> w.obj.spec.api]}
    BY <1>1 DEF Enable, Enabled, IInv, TypeOK, Worker
  <2> QED
    BY <2>1 DEF Accounted, Keeps, Firm, EnablingPC
<1>2. CASE EnableRefused
  <2>1. Quiet /\ remote' = remote /\ w.pc = "enable"
    BY <1>0, <1>2, StopQuiet DEF EnableRefused
  <2>2. faults'.losses = faults.losses
    BY <1>2, FaultCounts DEF EnableRefused, StopWith
  <2> QED
    BY <2>1, <2>2, QuietKeeps DEF Accounted, EnablingPC
<1>3. CASE EnableFails
  <2>1. /\ w.pc = "enable" /\ w'.pc = "idle" /\ secret' = secret
        /\ obj'.zid = obj.zid
        /\ obj'.phase = obj.phase
    BY <1>3, IdleType DEF EnableFails, Return, IInv, TypeOK, Object
  <2>2. CASE remote' = remote /\ Fault("enable")
    <3>1. Keeps(None)
      BY <2>1, <2>2 DEF Keeps, Firm, EnablingPC
    <3> QED
      BY <2>2, <3>1, FaultCounts DEF Accounted
  <2>3. ASSUME NEW zid \in Fresh, remote' = Enabled(zid), Loss("lost") PROVE Accounted
    <3>1. remote' = remote \cup {[zid |-> zid, api |-> w.obj.spec.api]}
      BY <2>3 DEF Enabled
    <3>2. Keeps(zid)
      BY <2>1, <3>1 DEF Keeps, Firm, EnablingPC
    <3> QED
      BY <2>3, <3>2, FaultCounts DEF Accounted
  <2> QED
    BY <1>3, <2>2, <2>3 DEF EnableFails
<1>4. CASE CreateSecret \/ CreateSecretFails
  <2>1. /\ w'.pc \in {"record", "undo"} /\ w'.zid = w.zid /\ w.pc = "create"
        /\ obj' = obj /\ remote' = remote
    BY <1>4 DEF CreateSecret, CreateSecretFails, Goto, IInv, TypeOK, Worker
  <2>2. \/ secret' = secret /\ w'.pc = "undo"
        \/ secret = NoSecret /\ secret' = [owner |-> "env", zid |-> w.zid]
    BY <1>4 DEF CreateSecret, CreateSecretFails, Goto, IInv, TypeOK, Worker
  <2>3. faults'.losses = faults.losses
    BY <1>4, FaultCounts DEF CreateSecret, CreateSecretFails
  <2>4. \A r \in remote : Firm(r) => Firm(r)'
    BY <1>0, <2>1, <2>2 DEF Firm, EnablingPC, NoSecret
  <2> QED
    BY <2>1, <2>3, <2>4 DEF Accounted, Keeps
<1>5. CASE DisableOrphan
  <2>1. Quiet /\ remote' \subseteq remote
    BY <1>0, <1>5, ReturnQuiet DEF DisableOrphan, Without
  <2>2. Keeps(w.zid)
    BY <2>1, QuietEnds
  <2>3. CASE remote' = Without(w.zid) /\ NoFault
    <3>1. Keeps(None)
      BY <2>2, <2>3 DEF Keeps, Without
    <3> QED
      BY <2>3, <3>1, FaultCounts DEF Accounted
  <2> QED
    BY <1>5, <2>2, <2>3, FaultCounts DEF DisableOrphan, Accounted
<1>6. CASE RecordZID
  <2>1. /\ w.pc = "record" /\ w'.pc = "pvc" /\ obj'.zid = w.zid
        /\ UNCHANGED <<secret, remote, faults>>
    BY <1>6 DEF RecordZID, PatchStatus, IInv, TypeOK, Object, Worker
  <2>2. \A r \in remote : Firm(r) => r.zid = secret.zid
    BY <2>1 DEF Firm, EnablingPC
  <2>3. \A r \in remote : Firm(r) => r.zid = w.zid
    BY <1>0, <2>1, <2>2 DEF SecretKnown
  <2> QED
    BY <2>1, <2>2, <2>3 DEF Accounted, Keeps, Firm
<1>7. CASE RecordFails
  <2>1. Quiet /\ remote' = remote
    BY <1>0, <1>7, ReturnQuiet DEF RecordFails
  <2>2. faults'.losses = faults.losses + 1
    BY <1>7, FaultCounts DEF RecordFails
  <2> QED
    BY <2>1, <2>2, QuietEnds DEF Accounted
<1> QED
  BY <1>1, <1>2, <1>3, <1>4, <1>5, <1>6, <1>7 DEF EnableStep

\* ... the children, whose steps are all quiet,
LEMMA ChildAccounted == ASSUME IInv, ChildStep PROVE Accounted
<1> USE DEF world
<1>1. /\ w.pc \in ChildPC /\ remote' = remote
      /\ faults'.losses = faults.losses
  BY FaultCounts DEF ChildStep, EnsurePVC, EnsureService, ServiceHijacked, EnsureDeployment,
     EnsureNetworkPolicy, EnsureFails, ProbeAgent, MarkVerdict, StopWith, ChildPC
<1>2. ~Telling
  BY <1>1 DEF Telling, AdoptIdentity, RejectIdentity, IdentityMissing, Enable, CreateSecret,
     CreateSecretFails, RecordZID, Teardown, RemoveFinalizer, Enabling, Live, Taken, ChildPC
<1>3. Keeps(None)
  BY <1>1, <1>2, WorkerQuiet, QuietKeeps DEF EnablingPC, ChildPC
<1> QED
  BY <1>1, <1>3 DEF Accounted

\* ... the deletion, which needs only the status, and lets go what it has
\* disabled or retained, and a restart of the manager, a loss,
LEMMA DeleteAccounted ==
  ASSUME IInv, DisabledFirst, DeleteStep \/ Crash PROVE Accounted
<1> USE DEF world
<1>0. w.pc \in LeavingPC => obj.phase = "deleting"
  BY DEF IInv, ObjectHeld
<1>1. CASE Disable \/ DisableFails
  <2>1. /\ w.pc = "disable" /\ remote' \subseteq remote
        /\ faults'.losses = faults.losses
    BY <1>1, FaultCounts DEF Disable, DisableFails, Without
  <2>2. Quiet
    <3>1. CASE Disable
      BY <3>1 DEF Disable, Goto, Quiet, EnablingPC, IInv, TypeOK, Worker
    <3>2. CASE DisableFails
      BY <3>2, ReturnQuiet DEF DisableFails
    <3> QED
      BY <1>1, <3>1, <3>2
  <2> QED
    BY <2>1, <2>2, QuietKeeps DEF Accounted, EnablingPC
<1>2. CASE Teardown
  <2>1. /\ w.pc = "teardown" /\ w'.pc = "final"
        /\ UNCHANGED <<obj, remote>> /\ faults'.losses = faults.losses
    BY <1>2, FaultCounts DEF Teardown, Goto, IInv, TypeOK, Worker
  <2> QED
    BY <1>0, <2>1 DEF Accounted, Keeps, Firm, EnablingPC, LeavingPC
<1>3. CASE RemoveFinalizer
  <2>1. CASE obj # w.obj
    <3>1. Quiet /\ remote' = remote /\ faults' = faults /\ w.pc = "final"
      BY <1>3, <2>1, ReturnQuiet DEF RemoveFinalizer
    <3> QED
      BY <3>1, QuietKeeps DEF Accounted, EnablingPC
  <2>2. CASE obj = w.obj
    <3>1. /\ w.pc = "final" /\ faults' = faults
          /\ remote' = IF obj.spec.policy = "Retain" THEN Without(obj.zid) ELSE remote
      BY <1>3, <2>2 DEF RemoveFinalizer
    <3>2. \A r \in remote' : r \in remote /\ r.zid # obj.zid
      BY <2>2, <3>1 DEF DisabledFirst, Without
    <3>3. \A r \in remote' : ~Firm(r)
      BY <3>1, <3>2 DEF Firm
    <3> QED
      BY <3>1, <3>2, <3>3 DEF Accounted, Keeps
  <2> QED
    BY <2>1, <2>2
<1>4. CASE Crash
  <2>1. Quiet /\ remote' = remote /\ faults'.losses = faults.losses + 1
    BY <1>4, ReturnQuiet, FaultCounts DEF Crash
  <2> QED
    BY <2>1, QuietEnds DEF Accounted
<1> QED
  BY <1>1, <1>2, <1>3, <1>4 DEF DeleteStep

\* ... and what others do: the collector takes no Secret that matters, and a
\* Secret of the object's own is lost by a loss.
LEMMA OthersAccounted == ASSUME IInv, SecretKnown, Environment PROVE Accounted
<1> USE DEF world
<1>0. /\ w' = w /\ remote' = remote
      /\ \A r \in remote : r.zid \in ZID
      /\ None \notin ZID /\ ZID \cap PlantedZID = {}
  BY ZIDAssumption DEF Environment, UserCreates, UserEdits, UserDeletes, SharesChange,
     SecretPlanted, SecretLost, ChildrenDisturbed, Collect, PodStarts, PodDies, IInv, TypeOK
<1>1. CASE ~Meddling
  <2>1. Keeps(None)
    BY <1>0, <1>1, OthersQuiet, QuietKeeps
  <2>2. faults'.losses = faults.losses
    BY <1>1, FaultCounts DEF Environment, Meddling, UserCreates, UserEdits, UserDeletes,
       SharesChange, ChildrenDisturbed, Collect, PodStarts, PodDies
  <2> QED
    BY <2>1, <2>2 DEF Accounted
<1>2. CASE SecretPlanted
  <2>1. obj' = obj /\ secret = NoSecret /\ faults'.losses = faults.losses
    BY <1>2, FaultCounts DEF SecretPlanted
  <2> QED
    BY <1>0, <2>1 DEF Accounted, Keeps, Firm, NoSecret
<1>3. CASE SecretLost
  <2>1. obj' = obj /\ faults'.losses = faults.losses + 1
    BY <1>3, FaultCounts DEF SecretLost
  <2>2. Keeps(secret.zid)
    BY <1>0, <2>1 DEF Keeps, Firm
  <2> QED
    BY <2>1, <2>2 DEF Accounted
<1>4. CASE Collect /\ secret' # secret
  <2>1. obj' = obj /\ "secret" \in past /\ faults' = faults
    BY <1>4 DEF Collect, Lose
  <2>2. secret.owner = "past"
    BY <2>1 DEF SecretKnown
  <2>3. \A r \in remote : ~(r.zid = obj.zid /\ r.zid = secret.zid)
    BY <1>0, <2>2 DEF SecretKnown
  <2>4. \A r \in remote : ~(w.pc = "record" /\ r.zid = w.zid /\ r.zid = secret.zid)
    BY <2>2 DEF SecretKnown, EnablingPC
  <2> QED
    BY <1>0, <2>1, <2>3, <2>4 DEF Accounted, Keeps, Firm
<1> QED
  BY <1>1, <1>2, <1>3, <1>4 DEF Meddling

-----------------------------------------------------------------------------
(* The count.                                                              *)

\* What is at risk afterwards was at risk before, or is one environment more.
LEMMA AtRiskGrows ==
  ASSUME Distinct', NEW z, Keeps(z)
  PROVE  \E x : AtRisk' \subseteq AtRisk \cup {x}
<1>1. CASE \E x \in remote' : x.zid = z
  <2>1. PICK x \in remote' : x.zid = z
    BY <1>1
  <2>2. \A r \in remote' : r.zid = z => r = x
    BY <2>1 DEF Distinct
  <2>3. AtRisk' \subseteq AtRisk \cup {x}
    BY <2>2 DEF AtRisk, Keeps
  <2> QED
    BY <2>3
<1>2. CASE ~\E x \in remote' : x.zid = z
  <2>1. AtRisk' \subseteq AtRisk
    BY <1>2 DEF AtRisk, Keeps
  <2> QED
    BY <2>1
<1> QED
  BY <1>1, <1>2

\* The losses keep up with what is at risk.
LEMMA CountedInv ==
  ASSUME IInv, IInv', Distinct', IsFiniteSet(remote)', Counted, Accounted
  PROVE  Counted'
<1>1. /\ IsFiniteSet(AtRisk) /\ Cardinality(AtRisk) \in Nat
      /\ faults.losses \in Nat /\ faults'.losses \in Nat
  BY BoundsAssumption, FS_Subset, FS_CardinalityType DEF Counted, AtRisk, IInv, TypeOK
<1>2. IsFiniteSet(AtRisk') /\ Cardinality(AtRisk') \in Nat
  BY FS_Subset, FS_CardinalityType DEF AtRisk
<1>3. CASE Keeps(None) /\ faults'.losses = faults.losses
  <2>1. \A r \in remote' : r.zid # None
    BY ZIDAssumption DEF IInv, TypeOK
  <2>2. AtRisk' \subseteq AtRisk
    BY <1>3, <2>1 DEF Keeps, AtRisk
  <2>3. Cardinality(AtRisk') <= Cardinality(AtRisk)
    BY <1>1, <2>2, FS_Subset
  <2> QED
    BY <1>1, <1>2, <1>3, <2>3 DEF Counted
<1>4. CASE faults'.losses = faults.losses + 1 /\ \E z : Keeps(z)
  <2>1. PICK x : AtRisk' \subseteq AtRisk \cup {x}
    BY <1>4, AtRiskGrows
  <2>2. /\ IsFiniteSet(AtRisk \cup {x})
        /\ Cardinality(AtRisk \cup {x}) <= Cardinality(AtRisk) + 1
        /\ Cardinality(AtRisk \cup {x}) \in Nat
    <3>1. /\ IsFiniteSet(AtRisk \cup {x})
          /\ Cardinality(AtRisk \cup {x}) =
               IF x \in AtRisk THEN Cardinality(AtRisk) ELSE Cardinality(AtRisk) + 1
      BY <1>1, FS_AddElement, Zenon
    <3> QED
      BY <1>1, <3>1
  <2>3. Cardinality(AtRisk') <= Cardinality(AtRisk \cup {x})
    BY <2>1, <2>2, FS_Subset
  <2> QED
    BY <1>1, <1>2, <1>4, <2>2, <2>3 DEF Counted
<1> QED
  BY <1>3, <1>4 DEF Accounted

\* No environment is enabled when the program starts.
LEMMA InitLoss == Init => LossInv
<1> SUFFICES ASSUME Init PROVE LossInv
  OBVIOUS
<1>1. remote = {} /\ past = {} /\ secret.owner = "none" /\ w.pc = "idle" /\ faults.losses = 0
  BY IdleType DEF Init, NoSecret
<1>2. AtRisk = {}
  BY <1>1 DEF AtRisk
<1> QED
  BY <1>1, <1>2, FS_EmptySet DEF LossInv, Distinct, SecretKnown, DisabledFirst, Counted, EnablingPC

\* Every step keeps the count.
LEMMA NextLoss == ASSUME IInv, [Next]_vars, LossInv PROVE LossInv'
<1>1. CASE Next
  <2>1. AnyStep /\ IInv'
    BY <1>1, NextIsAnyStep, NextInv
  <2>2. Distinct' /\ IsFiniteSet(remote')
    BY <2>1, DistinctInv DEF LossInv, Counted
  <2>3. SecretKnown' /\ DisabledFirst'
    BY <2>1, SecretInv, DisabledFirstInv DEF LossInv
  <2>4. Accounted
    BY <2>1, ReconcileAccounted, EnableAccounted, ChildAccounted, DeleteAccounted,
       OthersAccounted DEF LossInv, AnyStep
  <2> QED
    BY <2>1, <2>2, <2>3, <2>4, CountedInv DEF LossInv
<1>2. CASE UNCHANGED vars
  <2>1. UNCHANGED <<obj, secret, past, remote, w, faults>>
    BY <1>2 DEF vars
  <2> QED
    BY <2>1 DEF LossInv, Distinct, SecretKnown, DisabledFirst, Counted, AtRisk, Firm
<1> QED
  BY <1>1, <1>2

\* What nobody names is at risk.
LEMMA ForgottenAtRisk == ASSUME IInv, LossInv PROVE ForgetsOnlyByLoss
<1>1. Forgotten \subseteq AtRisk
  BY DEF Forgotten, AtRisk, Firm
<1>2. IsFiniteSet(AtRisk)
  BY FS_Subset DEF LossInv, Counted, AtRisk
<1>3. /\ Cardinality(Forgotten) <= Cardinality(AtRisk)
      /\ Cardinality(Forgotten) \in Nat /\ Cardinality(AtRisk) \in Nat
  BY <1>1, <1>2, FS_Subset, FS_CardinalityType
<1>4. faults.losses \in Nat
  BY BoundsAssumption DEF IInv, TypeOK
<1> QED
  BY <1>3, <1>4 DEF LossInv, Counted, ForgetsOnlyByLoss

\* The operator loses sight of no more environments of the account than there
\* were crashes, lost answers, failed undos and records, stale reads and lost
\* Secrets: every other failure, retry, edit and deletion leaves each enabled
\* environment in its status, in its Secret or in the worker's hands.
THEOREM ForgottenByLoss == Spec => []ForgetsOnlyByLoss
<1>1. IInv /\ LossInv /\ [Next]_vars => LossInv'
  BY NextLoss
<1>2. IInv /\ LossInv => ForgetsOnlyByLoss
  BY ForgottenAtRisk
<1> QED
  BY InitLoss, <1>1, <1>2, Invariance, PTL DEF Spec
=============================================================================
