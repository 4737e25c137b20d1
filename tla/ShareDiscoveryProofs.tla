------------------------ MODULE ShareDiscoveryProofs ------------------------
(***************************************************************************)
(* Shares that can be found again: NoOrphans.  Answers are lost and        *)
(* workers crash, so that no status tells of a share; what is left of it   *)
(* is its name and its upstream.  The proof follows a deletion: one that   *)
(* has a listing saw every share that is left of its object, so it does    *)
(* not pass the name while one holds it, and one without a listing does    *)
(* not pass a name that is attached at all.                                *)
(***************************************************************************)
EXTENDS ShareOwnershipProofs

\* Each object keeps its environment and its upstream, and has a reserved name
\* of its own, which goes when the object goes.
Steadfast ==
  /\ \A s \in Share : \A a, b \in UserSpec[s] :
       a.env = b.env /\ a.name = b.name /\ TargetsEqual(a.target, b.target)
  /\ \A s \in Share : \A a \in UserSpec[s] :
       a.mode = "public" /\ a.name # None /\ a.policy = "Delete"
  /\ \A s, t \in Share : s # t =>
       \A a \in UserSpec[s], b \in UserSpec[t] : a.name # b.name

\* Share r was made as its object's specs say.
AsAsked(r) ==
  \A sp \in UserSpec[r.by] :
    r.env = sp.env /\ r.name = sp.name /\ TargetsEqual(r.target, sp.target)

\* Each share stands behind the finalizer of its object, under a reserved name
\* that no other share of the account has.
Findable(S, C, N) ==
  \A r \in S : r.token \in Token =>
    /\ AsAsked(r) /\ C[r.by].finalizer /\ r.name \in N
    /\ \A q \in S : q.name = r.name => q = r

\* The worker's copy of its object, and what it decided with.
Working(x, C) ==
  /\ C[x.key].finalizer /\ x.obj.spec \in UserSpec[x.key]
  /\ \A sp \in UserSpec[x.key] :
       x.dg.env = sp.env /\ x.dg.name = sp.name /\ x.dg.mode = sp.mode
  /\ x.zid /\ x.rest /\ ~x.other

\* On the way to the deletion of the name, and behind it.
ToName(x) == x.pc = "dname" \/ (x.via = "delete" /\ x.pc \in {"release", "unshare", "clear"})

\* A deletion that has a listing saw every share that is left of its object;
\* without one it does not pass the name.
Remains(x, R) ==
  /\ ToName(x) => x.listErr \/ Mine(x.key, R) \subseteq x.inv.remote
  /\ x.pc = "final" => Mine(x.key, R) = {}

Deletes(x, R, C) == x.pc # "idle" => Working(x, C) /\ Remains(x, R)

\* What is gone has no finalizer, and what is being deleted still has it.
Guarded(C) ==
  \A s \in Share : /\ C[s].phase = "absent" => ~C[s].finalizer
                   /\ C[s].phase = "deleting" => C[s].finalizer

FindInv ==
  /\ EnvironmentsKeyed /\ SpecsOurs
  /\ Guarded(cr)
  /\ Findable(remote, cr, names)
  /\ Deletes(w, Own, cr)

-----------------------------------------------------------------------------
(* The decisions.                                                          *)

\* The reconcile goes on, and not to the deletion of the name.
Continues(x, y) ==
  /\ y.pc # "final" /\ ~ToName(y)
  /\ y.key = x.key /\ y.obj = x.obj /\ y.dg = x.dg
  /\ y.zid = x.zid /\ y.rest = x.rest /\ y.other = x.other

\* So the worker is left with nothing that a deletion must see to.
LEMMA ContinuesDeletes ==
  ASSUME NEW R, NEW C, NEW x, NEW y, Working(x, C), Continues(x, y)
  PROVE  Deletes(y, R, C)
  BY DEF Continues, Working, Remains, Deletes

\* A new place in the code.
LEMMA AtContinues ==
  ASSUME NEW x \in Worker, NEW p \in PC,
         p \notin {"dname", "final", "release", "unshare", "clear"}
  PROVE  Continues(x, [x EXCEPT !.pc = p])
<1> DEFINE y == [x EXCEPT !.pc = p]
<1>1. /\ y.pc = p /\ y.key = x.key /\ y.obj = x.obj /\ y.dg = x.dg
      /\ y.zid = x.zid /\ y.rest = x.rest /\ y.other = x.other
  BY DEF Worker
<1> HIDE DEF y
<1>2. Continues(x, y)
  BY <1>1 DEF Continues, ToName
<1> QED
  BY <1>2 DEF y

\* An agent share is adopted.
LEMMA AdoptContinues ==
  ASSUME NEW x \in Worker, NEW tok, NEW url
  PROVE  Continues(x, [x EXCEPT !.pc = "mark", !.tok = tok, !.url = url])
<1> DEFINE y == [x EXCEPT !.pc = "mark", !.tok = tok, !.url = url]
<1>1. /\ y.pc = "mark" /\ y.key = x.key /\ y.obj = x.obj /\ y.dg = x.dg
      /\ y.zid = x.zid /\ y.rest = x.rest /\ y.other = x.other
  BY DEF Worker
<1> HIDE DEF y
<1>2. Continues(x, y)
  BY <1>1 DEF Continues, ToName
<1> QED
  BY <1>2 DEF y

\* The decisions of a live object never lead to the deletion of the name.
LEMMA AdoptOrRebuildContinues ==
  ASSUME NEW x \in Worker PROVE Continues(x, AdoptOrRebuild(x))
<1>1. ASSUME NEW tok, NEW old, NEW prev
      PROVE  Continues(x, [x EXCEPT !.pc = "release", !.via = "rebuild", !.tok = tok,
                                    !.old = old, !.prev = prev])
  <2> DEFINE y == [x EXCEPT !.pc = "release", !.via = "rebuild", !.tok = tok,
                            !.old = old, !.prev = prev]
  <2>1. /\ y.pc = "release" /\ y.via = "rebuild" /\ y.key = x.key /\ y.obj = x.obj
        /\ y.dg = x.dg /\ y.zid = x.zid /\ y.rest = x.rest /\ y.other = x.other
    BY DEF Worker
  <2> HIDE DEF y
  <2>2. Continues(x, y)
    BY <2>1 DEF Continues, ToName
  <2> QED
    BY <2>2 DEF y
<1>2. Continues(x, [x EXCEPT !.pc = "create"])
  BY AtContinues DEF PC
<1> DEFINE ready == adoptableAgentShare(x.obj, x.cls, x.dg.target, x.dg)
           ours  == {r \in x.cls.remote : \/ TargetsEqual(r.target, x.dg.target)
                                          \/ r.token = x.obj.token}
           drop  == FirstOf(x.cls.agent, ours)
           d     == CHOOSE d \in ready : TRUE
           tok   == (CHOOSE r \in drop : TRUE).token
           old   == liveFrontendName(x.obj, x.cls)
           prev  == x.obj.reservation = "reserved"
           url   == AssignedURL(x.obj, d)
<1>3. AdoptOrRebuild(x) =
        IF ready # {} THEN [x EXCEPT !.pc = "mark", !.tok = d.token, !.url = url]
        ELSE IF drop # {}
             THEN [x EXCEPT !.pc = "release", !.via = "rebuild", !.tok = tok,
                            !.old = old, !.prev = prev]
             ELSE [x EXCEPT !.pc = "create"]
  BY DEF AdoptOrRebuild
<1> HIDE DEF ready, drop, d, tok, old, prev, url
<1>4. CASE ready # {}
  <2> DEFINE y == [x EXCEPT !.pc = "mark", !.tok = d.token, !.url = url]
  <2>1. AdoptOrRebuild(x) = y
    BY <1>3, <1>4
  <2>2. Continues(x, y)
    BY AdoptContinues
  <2> HIDE DEF y
  <2> QED
    BY <2>1, <2>2
<1>5. CASE ready = {} /\ drop # {}
  <2> DEFINE y == [x EXCEPT !.pc = "release", !.via = "rebuild", !.tok = tok,
                            !.old = old, !.prev = prev]
  <2>1. AdoptOrRebuild(x) = y
    BY <1>3, <1>5
  <2>2. Continues(x, y)
    BY <1>1
  <2> HIDE DEF y
  <2> QED
    BY <2>1, <2>2
<1>6. CASE ready = {} /\ drop = {}
  BY <1>2, <1>3, <1>6
<1> QED
  BY <1>4, <1>5, <1>6

\* ... and neither do the steps that lead up to them.
LEMMA DecisionsContinue ==
  ASSUME NEW x \in Worker
  PROVE  /\ Continues(x, AfterFlush(x)) /\ Continues(x, FlushReclaimName(x))
         /\ Continues(x, AfterInventory(x)) /\ Continues(x, ReclaimPreviousName(x))
<1>1. \A p \in {"create", "unannotate", "flush", "reserve", "annotate"} :
        Continues(x, [x EXCEPT !.pc = p])
  BY AtContinues DEF PC
<1>2. Continues(x, AfterFlush(x))
  BY <1>1, AdoptOrRebuildContinues DEF AfterFlush
<1>3. Continues(x, FlushReclaimName(x))
  BY <1>1, <1>2 DEF FlushReclaimName
<1>4. Continues(x, AfterInventory(x))
  BY <1>1, <1>3 DEF AfterInventory
<1>5. Continues(x, ReclaimPreviousName(x))
  BY <1>1 DEF ReclaimPreviousName
<1> QED
  BY <1>2, <1>3, <1>4, <1>5

\* A deletion never leaves without asking for the name.
LEMMA DeleteNameOrFinishDeletes ==
  ASSUME Steadfast, NEW R, NEW C, NEW x \in Worker, Working(x, C),
         x.listErr \/ Mine(x.key, R) \subseteq x.inv.remote
  PROVE  Deletes(DeleteNameOrFinish(x), R, C)
<1> DEFINE y == [x EXCEPT !.pc = "dname"]
<1>1. x.key \in Share
  BY WorkerFields
<1>2. x.dg.name # None /\ x.obj.spec.policy # "Retain"
  BY <1>1 DEF Steadfast, Working
<1>3. DeleteNameOrFinish(x) = y
  BY <1>2 DEF DeleteNameOrFinish, Working
<1>4. /\ y.pc = "dname" /\ y.key = x.key /\ y.obj = x.obj /\ y.dg = x.dg /\ y.zid = x.zid
      /\ y.rest = x.rest /\ y.other = x.other /\ y.inv = x.inv /\ y.listErr = x.listErr
  BY DEF Worker
<1> HIDE DEF y
<1>5. Deletes(y, R, C)
  BY <1>4 DEF Deletes, Working, Remains
<1> QED
  BY <1>3, <1>5

-----------------------------------------------------------------------------
(* The building blocks of the actions.                                     *)

\* A step that makes no share, keeps the reserved names that are in use, and
\* takes no finalizer that a share stands behind.
LEMMA ShrinksFind ==
  ASSUME FindInv, remote' \subseteq remote, EnvironmentsKeyed', SpecsOurs', Guarded(cr'),
         \A r \in Own' : cr[r.by].finalizer => cr'[r.by].finalizer,
         \A r \in remote' : r.name \in names => r.name \in names',
         Deletes(w', Own, cr')
  PROVE  FindInv'
<1>1. Findable(remote', cr', names')
  BY DEF FindInv, Findable, Own
<1>2. Mine(w'.key, Own') \subseteq Mine(w'.key, Own)
  BY DEF Mine, Own
<1>3. Deletes(w', Own', cr')
  BY <1>2 DEF Deletes, Remains
<1> QED
  BY <1>1, <1>3 DEF FindInv

\* The worker's writes leave spec, finalizer and phase alone.
Marks(C, C2) ==
  \A s \in Share : /\ C2[s].finalizer = C[s].finalizer /\ C2[s].phase = C[s].phase
                   /\ C2[s].spec = C[s].spec

\* So most steps of the worker need only what they leave in its hands.
LEMMA StepsFind ==
  ASSUME IInv, FindInv, remote' \subseteq remote, UNCHANGED env, Marks(cr, cr'),
         \A r \in remote' : r.name \in names => r.name \in names',
         Deletes(w', Own, cr')
  PROVE  FindInv'
<1>1. EnvironmentsKeyed' /\ SpecsOurs' /\ Guarded(cr')
  BY DEF FindInv, EnvironmentsKeyed, SpecsOurs, Guarded, Marks
<1>2. \A r \in Own' : r.by \in Share
  BY ForeignTokenAssumption DEF IInv, TypeOK, Own, RemoteShare, OwnShare, ForeignShare
<1> QED
  BY <1>1, <1>2, ShrinksFind DEF Marks

\* A condition on an object is such a write.
LEMMA StopMarks ==
  ASSUME IInv, NEW s \in Share, NEW reason PROVE Marks(cr, [cr EXCEPT ![s].reason = reason])
  BY DEF IInv, TypeOK, Marks, ShareObject

\* ... and setNotReady, whether its patch is written or not.
LEMMA NotReadyMarks ==
  ASSUME IInv, NEW s \in Share, NEW reason, SetNotReady(s, reason) PROVE Marks(cr, cr')
<1>1. CASE cr' = [cr EXCEPT ![s].reason = reason]
  <2>1. Marks(cr, [cr EXCEPT ![s].reason = reason])
    BY StopMarks
  <2> QED
    BY <1>1, <2>1
<1>2. CASE cr' = cr
  BY <1>2 DEF Marks
<1> QED
  BY <1>1, <1>2 DEF SetNotReady

\* A reconcile that ends.
LEMMA IdleFind ==
  ASSUME IInv, FindInv, remote' \subseteq remote, UNCHANGED env, Marks(cr, cr'),
         \A r \in remote' : r.name \in names => r.name \in names', w' = Idle
  PROVE  FindInv'
  BY IdleType, StepsFind DEF Deletes

\* ... with a requeue, ...
LEMMA RequeueFind ==
  ASSUME IInv, FindInv, remote' \subseteq remote, UNCHANGED <<cr, env>>,
         \A r \in remote' : r.name \in names => r.name \in names', Requeue
  PROVE  FindInv'
  BY IdleFind DEF Requeue, Marks

\* ... and with a condition.
LEMMA StopFind ==
  ASSUME IInv, FindInv, remote' \subseteq remote, UNCHANGED env,
         \A r \in remote' : r.name \in names => r.name \in names', NEW reason, StopWith(reason)
  PROVE  FindInv'
<1>1. w.key \in Share
  BY WorkerFields DEF IInv, TypeOK
<1>2. Marks(cr, cr')
  BY <1>1, NotReadyMarks DEF StopWith
<1> QED
  BY <1>2, IdleFind DEF StopWith, Requeue

\* Where a reconcile is under way.
LEMMA InFind ==
  ASSUME IInv, FindInv, w.pc # "idle"
  PROVE  /\ w \in Worker /\ w.key \in Share /\ w.obj \in ShareObject
         /\ Working(w, cr) /\ Remains(w, Own)
         /\ cr \in [Share -> ShareObject] /\ cr[w.key] \in ShareObject
         /\ \A r \in Own : r.by \in Share /\ r.token \in Token /\ r \in remote
  BY WorkerFields, ForeignTokenAssumption
     DEF IInv, TypeOK, FindInv, Deletes, Own, RemoteShare, OwnShare, ForeignShare

-----------------------------------------------------------------------------
(* The invariant: initially, and through every kind of step.               *)

\* The invariant holds initially.
LEMMA InitFind == Init => FindInv
<1> SUFFICES ASSUME Init PROVE FindInv
  OBVIOUS
<1>1. \A s \in Share : /\ Absent(s).phase = "absent" /\ ~Absent(s).finalizer
                       /\ Absent(s).spec \in UserSpec[s]
  BY AbsentOurs DEF Absent
<1>2. EnvironmentsKeyed /\ SpecsOurs /\ Guarded(cr) /\ Deletes(w, Own, cr)
  BY <1>1, IdleType DEF Init, EnvironmentsKeyed, SpecsOurs, Guarded, Deletes
<1>3. Findable(remote, cr, names)
  BY DEF Init, Findable
<1> QED
  BY <1>2, <1>3 DEF FindInv

\* A reconcile begins.
LEMMA StartDeletes ==
  ASSUME Steadfast, Keyed, IInv, FindInv, NEW s \in Share, cr[s].finalizer,
         NEW rest \in BOOLEAN, rest
  PROVE  /\ Deletes(Start(s), Own, cr)
         /\ Deletes([Start(s) EXCEPT !.via = "delete", !.rest = rest], Own, cr)
<1> DEFINE x == Start(s)
           y == [Start(s) EXCEPT !.via = "delete", !.rest = rest]
<1>1. cr[s].spec \in UserSpec[s] /\ cr[s].spec \in ShareSpec
  BY DEF FindInv, SpecsOurs, IInv, TypeOK, ShareObject
<1>2. HasZID(cr[s].spec.env)
  BY <1>1 DEF FindInv, EnvironmentsKeyed, HasZID, ShareSpec
<1>3. x \in Worker
  BY StartType
<1>4. /\ x.pc = "inventory" /\ x.key = s /\ x.obj = cr[s] /\ x.zid /\ x.rest /\ ~x.other
      /\ x.dg = shareApplyDigest(cr[s].spec)
  BY <1>2 DEF Start, Locals
<1>5. /\ y.pc = "inventory" /\ y.key = s /\ y.obj = cr[s] /\ y.zid /\ y.rest /\ ~y.other
      /\ y.dg = x.dg
  BY <1>3, <1>4 DEF Worker
<1> HIDE DEF x, y
<1>6. \A sp \in UserSpec[s] : x.dg.env = sp.env /\ x.dg.name = sp.name /\ x.dg.mode = sp.mode
  BY <1>1, <1>4 DEF Steadfast, shareApplyDigest
<1>7. Deletes(x, Own, cr) /\ Deletes(y, Own, cr)
  BY <1>1, <1>4, <1>5, <1>6 DEF Deletes, Working, Remains, ToName
<1> QED
  BY <1>7 DEF x, y

\* The checks before a reconcile, and its beginning.
LEMMA ReconcileFind ==
  ASSUME Steadfast, Keyed, IInv, FindInv, NEW s \in Share, Reconcile(s)
  PROVE  FindInv'
<1>0. /\ ~Fault("secret") /\ cr \in [Share -> ShareObject] /\ cr[s] \in ShareObject
      /\ \A e \in Env : env[e] # "missing"
  BY DEF Keyed, Fault, IInv, TypeOK, FindInv, EnvironmentsKeyed
<1>1. CASE ReconcileGone(s)
  BY <1>1, StepsFind DEF ReconcileGone, Marks, FindInv
<1>2. CASE AddFinalizer(s)
  <2>1. /\ cr' = [cr EXCEPT ![s].finalizer = TRUE] /\ cr[s].phase = "live"
        /\ w.pc = "idle" /\ UNCHANGED <<w, env, remote, names>>
    BY <1>2 DEF AddFinalizer, Taken
  <2>2. \A t \in Share : /\ cr'[t].phase = cr[t].phase /\ cr'[t].spec = cr[t].spec
                         /\ cr[t].finalizer => cr'[t].finalizer
                         /\ t # s => cr'[t] = cr[t]
    BY <1>0, <2>1 DEF ShareObject
  <2>3. EnvironmentsKeyed' /\ SpecsOurs' /\ Guarded(cr')
    BY <2>1, <2>2 DEF FindInv, EnvironmentsKeyed, SpecsOurs, Guarded
  <2>4. \A r \in Own' : r.by \in Share
    BY ForeignTokenAssumption, <2>1
       DEF IInv, TypeOK, Own, RemoteShare, OwnShare, ForeignShare
  <2> QED
    BY <2>1, <2>2, <2>3, <2>4, ShrinksFind DEF Deletes
<1>3. ASSUME NEW reason, SetNotReady(s, reason),
             UNCHANGED <<w, env, remote, names>>, w.pc = "idle"
      PROVE  FindInv'
  BY <1>3, NotReadyMarks, StepsFind DEF Deletes
<1>4. CASE RefuseSpec(s) \/ WaitForEnvironment(s) \/ NameClaimed(s)
  BY <1>3, <1>4 DEF RefuseSpec, WaitForEnvironment, NameClaimed, Live, Valid, Taken
<1>5. CASE StartReconcile(s)
  <2>1. cr[s].finalizer /\ w' = Start(s) /\ UNCHANGED <<cr, env, remote, names>>
    BY <1>5 DEF StartReconcile, Valid, Live
  <2>2. Deletes(w', Own, cr')
    BY <2>1, StartDeletes
  <2> QED
    BY <2>1, <2>2, StepsFind DEF Marks
<1>6. CASE StartDelete(s)
  <2>1. PICK rest \in BOOLEAN :
          /\ rest \/ env[cr[s].spec.env] = "missing" \/ Fault("secret")
          /\ w' = [Start(s) EXCEPT !.via = "delete", !.rest = rest]
    BY <1>6 DEF StartDelete
  <2>2. rest /\ cr[s].finalizer
    <3>1. cr[s].spec.env \in Env
      BY <1>0 DEF ShareObject, ShareSpec
    <3> QED
      BY <1>0, <1>6, <2>1, <3>1 DEF StartDelete, FindInv, Guarded
  <2>3. UNCHANGED <<cr, env, remote, names>>
    BY <1>6 DEF StartDelete
  <2>4. Deletes(w', Own, cr')
    BY <2>1, <2>2, <2>3, StartDeletes
  <2> QED
    BY <2>3, <2>4, StepsFind DEF Marks
<1> QED
  BY <1>0, <1>1, <1>2, <1>4, <1>5, <1>6 DEF Reconcile, SecretUnreadable

\* Users.
LEMMA UserFind ==
  ASSUME IInv, FindInv, NEW s \in Share, UserCreates(s) \/ UserEdits(s) \/ UserDeletes(s)
  PROVE  FindInv'
<1>1. /\ cr \in [Share -> ShareObject] /\ cr[s] \in ShareObject /\ Absent(s) \in ShareObject
      /\ Absent(s).spec \in UserSpec[s] /\ Absent(s).phase = "absent" /\ ~Absent(s).finalizer
  BY AbsentType, AbsentOurs DEF IInv, TypeOK, Absent
<1>2. UNCHANGED <<w, env, remote, names>>
  BY DEF UserCreates, UserEdits, UserDeletes
<1>3. PICK o : /\ cr' = [cr EXCEPT ![s] = o]
               /\ o.spec \in UserSpec[s] /\ o.finalizer = cr[s].finalizer
               /\ o.phase = "absent" => ~o.finalizer
               /\ o.phase = "deleting" => o.finalizer
  <2>1. CASE UserCreates(s)
    <3>1. PICK sp \in UserSpec[s] :
            cr' = [cr EXCEPT ![s] = [Absent(s) EXCEPT !.phase = "live", !.spec = sp]]
      BY <2>1 DEF UserCreates
    <3> DEFINE o == [Absent(s) EXCEPT !.phase = "live", !.spec = sp]
    <3>2. o.spec = sp /\ o.phase = "live" /\ ~o.finalizer /\ o.finalizer \in BOOLEAN
      BY <1>1 DEF ShareObject
    <3>3. ~cr[s].finalizer /\ cr[s].finalizer \in BOOLEAN
      BY <1>1, <2>1 DEF UserCreates, FindInv, Guarded, ShareObject
    <3> QED
      BY <3>1, <3>2, <3>3
  <2>2. CASE UserEdits(s)
    <3>1. PICK sp \in UserSpec[s] : cr' = [cr EXCEPT ![s].spec = sp]
      BY <2>2 DEF UserEdits
    <3> DEFINE o == [cr[s] EXCEPT !.spec = sp]
    <3>2. o.spec = sp /\ o.phase = cr[s].phase /\ o.finalizer = cr[s].finalizer
      BY <1>1 DEF ShareObject
    <3> QED
      BY <3>1, <3>2 DEF FindInv, Guarded
  <2>3. CASE UserDeletes(s)
    <3>1. CASE cr[s].finalizer
      <4> DEFINE o == [cr[s] EXCEPT !.phase = "deleting"]
      <4>1. o.spec = cr[s].spec /\ o.phase = "deleting" /\ o.finalizer = cr[s].finalizer
        BY <1>1 DEF ShareObject
      <4> QED
        BY <2>3, <3>1, <4>1 DEF UserDeletes, FindInv, SpecsOurs
    <3>2. CASE ~cr[s].finalizer
      <4>1. Absent(s).finalizer = cr[s].finalizer
        BY <1>1, <3>2 DEF ShareObject
      <4> QED
        BY <1>1, <2>3, <3>2, <4>1 DEF UserDeletes
    <3> QED
      BY <3>1, <3>2
  <2> QED
    BY <2>1, <2>2, <2>3
<1>4. \A t \in Share : cr'[t] = IF t = s THEN o ELSE cr[t]
  BY <1>1, <1>3
<1>5. EnvironmentsKeyed' /\ SpecsOurs' /\ Guarded(cr')
  BY <1>2, <1>3, <1>4 DEF FindInv, EnvironmentsKeyed, SpecsOurs, Guarded
<1>6. \A r \in Own' : r.by \in Share
  BY ForeignTokenAssumption, <1>2
     DEF IInv, TypeOK, Own, RemoteShare, OwnShare, ForeignShare
<1>7. \A t \in Share : cr'[t].finalizer = cr[t].finalizer
  BY <1>3, <1>4
<1>8. w.key \in Share
  BY WorkerFields DEF IInv, TypeOK
<1>9. Deletes(w, Own, cr')
  BY <1>7, <1>8 DEF FindInv, Deletes, Working
<1> QED
  BY <1>2, <1>5, <1>6, <1>7, <1>9, ShrinksFind

\* The environments, their agents, and other users of the account.
LEMMA OutsideFind ==
  ASSUME Keyed, IInv, FindInv,
         \/ \E e \in Env : \/ EnvironmentProgresses(e)
                          \/ EnvironmentDegrades(e)
                          \/ EnvironmentUnkeyed(e)
                          \/ EnvironmentRekeyed(e)
                          \/ EnvironmentRemoved(e)
                          \/ AgentRestarts(e)
         \/ AgentShareStalls \/ ForeignShareAppears \/ ForeignShareLeaves
  PROVE  FindInv'
<1>0. UNCHANGED <<cr, w>> /\ ~Fault("unkey") /\ ~Fault("removed") /\ env \in [Env -> EnvState]
      /\ \A e \in Env : env[e] \in {"ready", "enabled"}
  BY DEF EnvironmentProgresses, EnvironmentDegrades, EnvironmentUnkeyed, EnvironmentRekeyed,
         EnvironmentRemoved, AgentRestarts, AgentShareStalls, ForeignShareAppears,
         ForeignShareLeaves, Keyed, Fault, IInv, TypeOK, FindInv, EnvironmentsKeyed
<1>1. SpecsOurs' /\ Guarded(cr') /\ Deletes(w', Own, cr')
  BY <1>0 DEF FindInv, SpecsOurs
<1>2. ASSUME NEW e \in Env, EnvironmentProgresses(e) \/ EnvironmentDegrades(e)
                            \/ EnvironmentUnkeyed(e) \/ EnvironmentRekeyed(e)
                            \/ EnvironmentRemoved(e)
      PROVE  FindInv'
  <2>1. PICK to \in {"ready", "enabled"} : env' = [env EXCEPT ![e] = to]
    BY <1>0, <1>2 DEF EnvironmentProgresses, EnvironmentDegrades, EnvironmentUnkeyed,
                      EnvironmentRekeyed, EnvironmentRemoved, EnvironmentMoves
  <2>2. EnvironmentsKeyed'
    BY <1>0, <2>1 DEF EnvironmentsKeyed
  <2>3. UNCHANGED <<remote, names>>
    BY <1>0, <1>2 DEF EnvironmentProgresses, EnvironmentDegrades, EnvironmentUnkeyed,
                      EnvironmentRekeyed, EnvironmentRemoved
  <2> QED
    BY <1>0, <1>1, <2>2, <2>3, ShrinksFind
<1>3. ASSUME remote' \subseteq remote, UNCHANGED <<env, names>> PROVE FindInv'
  BY <1>0, <1>1, <1>3, ShrinksFind DEF FindInv, EnvironmentsKeyed
<1>4. CASE (\E e \in Env : AgentRestarts(e)) \/ AgentShareStalls \/ ForeignShareLeaves
  BY <1>3, <1>4 DEF AgentRestarts, AgentShareStalls, ForeignShareLeaves
<1>5. CASE ForeignShareAppears
  <2>1. PICK q \in ForeignShare :
          /\ q.name # None => ~Attached(q.name)
          /\ remote' = remote \cup {q} /\ names' = names \cup ({q.name} \ {None})
          /\ UNCHANGED env
    BY <1>5 DEF ForeignShareAppears
  <2>2. q.token \notin Token
    BY ForeignTokenAssumption DEF ForeignShare
  <2>3. Own' = Own
    BY <2>1, <2>2 DEF Own
  <2>4. \A r \in remote : r.token \in Token => r.name # q.name
    <3>1. \A r \in remote : r.token \in Token => r.name \in names
      BY DEF FindInv, Findable
    <3>2. None \notin names
      BY NoneAssumption DEF IInv, TypeOK
    <3> QED
      BY <2>1, <3>1, <3>2 DEF Attached
  <2>5. Findable(remote', cr', names')
    BY <1>0, <2>1, <2>2, <2>4 DEF FindInv, Findable
  <2> QED
    BY <1>0, <1>1, <2>1, <2>3, <2>5 DEF FindInv, EnvironmentsKeyed
<1> QED
  BY <1>2, <1>4, <1>5

\* No live object but its own has the name that a deletion looks for.
LEMMA NameUnclaimed ==
  ASSUME Steadfast, IInv, FindInv, w.pc # "idle"
  PROVE  otherShareWithFrontendName(w.key, w.dg.name, cr) = {}
<1>1. w.key \in Share /\ Working(w, cr)
  BY InFind
<1>2. \A t \in Share : cr[t].spec \in UserSpec[t]
  BY DEF FindInv, SpecsOurs
<1>3. PICK sp \in UserSpec[w.key] : w.dg.name = sp.name
  BY <1>1, UserSpecAssumption DEF Working
<1>4. \A t \in Share : t # w.key => cr[t].spec.name # w.dg.name
  BY <1>1, <1>2, <1>3 DEF Steadfast
<1> QED
  BY <1>4 DEF otherShareWithFrontendName

\* With a listing a deletion sees what is left of its object.
LEMMA ListingSees ==
  ASSUME IInv, FindInv, w.pc # "idle", NEW sf \in BOOLEAN
  PROVE  Mine(w.key, Own) \subseteq loadInventory(FALSE, sf).remote
<1>1. /\ Working(w, cr) /\ w.key \in Share
      /\ \A r \in Own : r.by \in Share /\ r.token \in Token /\ r \in remote
  BY InFind
<1>2. \A r \in Mine(w.key, Own) : r \in remote /\ r.env = w.dg.env
  <2>1. SUFFICES ASSUME NEW r \in Own, r.by = w.key PROVE r \in remote /\ r.env = w.dg.env
    BY DEF Mine
  <2>2. AsAsked(r)
    BY <1>1, <2>1 DEF FindInv, Findable
  <2>3. PICK sp \in UserSpec[w.key] : TRUE
    BY <1>1, UserSpecAssumption
  <2> QED
    BY <1>1, <2>1, <2>2, <2>3 DEF AsAsked, Working
<1> QED
  BY <1>1, <1>2 DEF loadInventory, Working

\* Loading the inventory, and the decisions it leads to.
LEMMA InventoryStepsFind ==
  ASSUME Steadfast, IInv, FindInv,
         InventoryUnavailable \/ Inventory \/ HandleShareConflict \/ DeleteInventory
  PROVE  FindInv'
<1>0. w.pc # "idle" /\ UNCHANGED <<env, remote, names>>
  BY DEF InventoryUnavailable, Inventory, HandleShareConflict, DeleteInventory
<1>1. /\ w \in Worker /\ Working(w, cr) /\ w.key \in Share
  BY <1>0, InFind
<1>2. ASSUME NEW reason, StopWith(reason) PROVE FindInv'
  BY <1>0, <1>2, StopFind
<1>3. ASSUME UNCHANGED cr, Deletes(w', Own, cr) PROVE FindInv'
  BY <1>0, <1>3, StepsFind DEF Marks
<1>4. ASSUME NEW tok, NEW url, w' = [w EXCEPT !.pc = "mark", !.tok = tok, !.url = url]
      PROVE  Deletes(w', Own, cr)
  <2> DEFINE y == [w EXCEPT !.pc = "mark", !.tok = tok, !.url = url]
  <2>1. Continues(w, y)
    BY <1>1, AdoptContinues
  <2> HIDE DEF y
  <2>2. w' = y
    BY <1>4 DEF y
  <2> QED
    BY <1>1, <2>1, <2>2, ContinuesDeletes
<1>5. CASE InventoryUnavailable
  <2>1. \/ StopWith("InventoryError")
        \/ UNCHANGED cr /\ \E tok, url : w' = [w EXCEPT !.pc = "mark", !.tok = tok, !.url = url]
    BY <1>5 DEF InventoryUnavailable
  <2> QED
    BY <1>2, <1>3, <1>4, <2>1
<1>6. CASE Inventory
  <2>1. PICK sf \in BOOLEAN :
          \E c \in classifyShare(w.obj, w.dg.target, loadInventory(FALSE, sf)) :
             \/ StopWith("NameConflict")
             \/ /\ w' = AfterInventory([w EXCEPT !.inv = loadInventory(FALSE, sf), !.cls = c])
                /\ UNCHANGED cr
    BY <1>6 DEF Inventory
  <2>2. ASSUME NEW c \in classifyShare(w.obj, w.dg.target, loadInventory(FALSE, sf)),
               w' = AfterInventory([w EXCEPT !.inv = loadInventory(FALSE, sf), !.cls = c])
        PROVE  Deletes(w', Own, cr)
    <3> DEFINE x == [w EXCEPT !.inv = loadInventory(FALSE, sf), !.cls = c]
    <3>1. c \in ClassifiedShare /\ loadInventory(FALSE, sf) \in ShareInventoryType
      BY ClassifyType, LoadInventoryType
    <3>2. /\ x \in Worker /\ x.key = w.key /\ x.obj = w.obj /\ x.dg = w.dg
          /\ x.zid = w.zid /\ x.rest = w.rest /\ x.other = w.other
      BY <1>1, <3>1 DEF Worker
    <3> HIDE DEF x
    <3>3. Working(x, cr)
      BY <1>1, <3>2 DEF Working
    <3>4. Continues(x, AfterInventory(x))
      BY <3>2, DecisionsContinue
    <3> QED
      BY <2>2, <3>3, <3>4, ContinuesDeletes DEF x
  <2> QED
    BY <1>2, <1>3, <2>1, <2>2
<1>7. CASE HandleShareConflict
  <2>1. \/ \E reason : StopWith(reason)
        \/ /\ UNCHANGED cr
           /\ \E tok, url : w' = [w EXCEPT !.pc = "mark", !.tok = tok, !.url = url]
        \/ /\ UNCHANGED cr
           /\ \E tok : w' = [w EXCEPT !.pc = "release", !.via = "conflict", !.tok = tok]
    BY <1>7 DEF HandleShareConflict
  <2>2. ASSUME NEW tok, w' = [w EXCEPT !.pc = "release", !.via = "conflict", !.tok = tok]
        PROVE  Deletes(w', Own, cr)
    <3>1. /\ w'.pc = "release" /\ w'.via = "conflict" /\ w'.key = w.key /\ w'.obj = w.obj
          /\ w'.dg = w.dg /\ w'.zid = w.zid /\ w'.rest = w.rest /\ w'.other = w.other
      BY <1>1, <2>2 DEF Worker
    <3>2. Continues(w, w')
      BY <3>1 DEF Continues, ToName
    <3> QED
      BY <1>1, <3>2, ContinuesDeletes
  <2> QED
    BY <1>2, <1>3, <1>4, <2>1, <2>2
<1>8. CASE DeleteInventory
  <2>1. PICK lf \in BOOLEAN, sf \in BOOLEAN :
          LET x == [w EXCEPT !.inv = loadInventory(lf, sf), !.listErr = lf, !.other = FALSE]
          IN  (\E t : w' = [x EXCEPT !.pc = "release", !.tok = t]) \/ w' = DeleteNameOrFinish(x)
    BY <1>0, <1>8, NameUnclaimed DEF DeleteInventory
  <2> DEFINE inv == loadInventory(lf, sf)
             x   == [w EXCEPT !.inv = inv, !.listErr = lf, !.other = FALSE]
  <2>2. inv \in ShareInventoryType /\ (lf \/ Mine(w.key, Own) \subseteq inv.remote)
    BY <1>0, LoadInventoryType, ListingSees
  <2>3. (\E t : w' = [x EXCEPT !.pc = "release", !.tok = t]) \/ w' = DeleteNameOrFinish(x)
    BY <2>1
  <2> HIDE DEF inv
  <2>4. /\ x \in Worker /\ x.key = w.key /\ x.obj = w.obj /\ x.dg = w.dg
        /\ x.zid = w.zid /\ x.rest = w.rest /\ ~x.other /\ x.inv = inv /\ x.listErr = lf
    BY <1>1, <2>2 DEF Worker
  <2> HIDE DEF x
  <2>5. Working(x, cr) /\ (x.listErr \/ Mine(x.key, Own) \subseteq x.inv.remote)
    BY <1>1, <2>2, <2>4 DEF Working
  <2>6. CASE w' = DeleteNameOrFinish(x)
    <3>1. Deletes(DeleteNameOrFinish(x), Own, cr)
      BY <2>4, <2>5, DeleteNameOrFinishDeletes
    <3> QED
      BY <1>3, <1>8, <2>6, <3>1 DEF DeleteInventory
  <2>7. ASSUME NEW t, w' = [x EXCEPT !.pc = "release", !.tok = t] PROVE FindInv'
    <3>1. /\ w'.pc = "release" /\ w'.key = x.key /\ w'.obj = x.obj /\ w'.dg = x.dg
          /\ w'.zid = x.zid /\ w'.rest = x.rest /\ w'.other = x.other
          /\ w'.inv = x.inv /\ w'.listErr = x.listErr
      BY <2>4, <2>7 DEF Worker
    <3>2. Deletes(w', Own, cr)
      BY <2>5, <3>1 DEF Deletes, Working, Remains
    <3> QED
      BY <1>3, <1>8, <3>2 DEF DeleteInventory
  <2> QED
    BY <2>3, <2>6, <2>7
<1> QED
  BY <1>5, <1>6, <1>7, <1>8

\* A patch that leaves spec, finalizer and phase alone.
LEMMA WritesFind ==
  ASSUME Steadfast, IInv, FindInv, w.pc # "idle", NEW o \in ShareObject, Write(o),
         o.finalizer = cr[w.key].finalizer, o.phase = cr[w.key].phase,
         o.spec = cr[w.key].spec
  PROVE  /\ Marks(cr, cr')
         /\ Patched(w, o) \in Worker /\ Working(Patched(w, o), cr')
         /\ Patched(w, o).key = w.key /\ Patched(w, o).via = w.via
         /\ Patched(w, o).inv = w.inv /\ Patched(w, o).listErr = w.listErr
         /\ Working(w, cr')
<1>1. w \in Worker /\ w.key \in Share /\ Working(w, cr) /\ cr \in [Share -> ShareObject]
  BY InFind
<1>2. \A s \in Share : cr'[s] = IF s = w.key THEN o ELSE cr[s]
  BY <1>1 DEF Write
<1>3. Marks(cr, cr') /\ cr'[w.key].finalizer = cr[w.key].finalizer
  BY <1>1, <1>2 DEF Marks
<1> DEFINE x == Patched(w, o)
<1>4. /\ x \in Worker /\ x.key = w.key /\ x.via = w.via /\ x.obj = o /\ x.dg = w.dg
      /\ x.zid = w.zid /\ x.rest = w.rest /\ x.other = w.other
      /\ x.inv = w.inv /\ x.listErr = w.listErr
  BY <1>1, PatchedType DEF Patched, Worker
<1> HIDE DEF x
<1>5. o.spec \in UserSpec[w.key]
  BY <1>1 DEF FindInv, SpecsOurs
<1>6. Working(x, cr') /\ Working(w, cr')
  BY <1>1, <1>3, <1>4, <1>5 DEF Working
<1> QED
  BY <1>3, <1>4, <1>6 DEF x

\* reserve, flush and dname: the account's names, and where they lead.
LEMMA NameStepsFind ==
  ASSUME Steadfast, IInv, FindInv,
         \/ EnsureReservedName \/ NameOfOtherAccount \/ ReserveFails
         \/ FlushReclaim \/ FlushFails \/ ClearReclaim \/ AnnotateReclaim
         \/ DeleteName \/ DeleteNameFails
  PROVE  FindInv'
<1>0. w.pc # "idle" /\ UNCHANGED <<env, remote>>
  BY DEF EnsureReservedName, NameOfOtherAccount, ReserveFails, FlushReclaim, FlushFails,
         ClearReclaim, AnnotateReclaim, DeleteName, DeleteNameFails
<1>1. /\ w \in Worker /\ w.key \in Share /\ Working(w, cr) /\ Remains(w, Own)
      /\ cr[w.key] \in ShareObject
      /\ \A r \in Own : r.by \in Share /\ r.token \in Token /\ r \in remote
  BY <1>0, InFind
\* Names are taken from the account only where no share has them.
<1>2. \A r \in remote : r.name \in names => r.name \in names'
  BY <1>0 DEF EnsureReservedName, NameOfOtherAccount, ReserveFails, FlushReclaim, FlushFails,
         ClearReclaim, AnnotateReclaim, DeleteName, DeleteNameFails, Attached
<1>3. ASSUME NEW reason, StopWith(reason) PROVE FindInv'
  BY <1>0, <1>2, <1>3, StopFind
<1>4. ASSUME Requeue, UNCHANGED cr PROVE FindInv'
  BY <1>0, <1>2, <1>4, RequeueFind
<1>5. ASSUME UNCHANGED cr, Deletes(w', Own, cr) PROVE FindInv'
  BY <1>0, <1>2, <1>5, StepsFind DEF Marks
<1>6. CASE EnsureReservedName
  BY <1>1, <1>5, <1>6, DecisionsContinue, ContinuesDeletes DEF EnsureReservedName
<1>7. CASE NameOfOtherAccount \/ ReserveFails
  BY <1>3, <1>7 DEF NameOfOtherAccount, ReserveFails
<1>8. CASE FlushReclaim
  <2>1. Continues(w, [w EXCEPT !.pc = "unannotate"])
    BY <1>1, AtContinues DEF PC
  <2>2. Deletes([w EXCEPT !.pc = "unannotate"], Own, cr)
    BY <1>1, <2>1, ContinuesDeletes
  <2> QED
    BY <1>4, <1>5, <1>8, <2>2 DEF FlushReclaim
<1>9. CASE FlushFails \/ DeleteNameFails
  BY <1>4, <1>9 DEF FlushFails, DeleteNameFails
<1>10. CASE ClearReclaim \/ AnnotateReclaim
  <2>1. PICK o \in ShareObject :
          /\ Write(o) /\ o.finalizer = cr[w.key].finalizer
          /\ o.phase = cr[w.key].phase /\ o.spec = cr[w.key].spec
          /\ w' \in {AfterFlush(Patched(w, o)), FlushReclaimName(Patched(w, o))}
    <3>1. None \in Label /\ w.old \in Label
      BY <1>1 DEF Label, Worker
    <3>2. ASSUME NEW n \in Label
          PROVE  /\ [cr[w.key] EXCEPT !.reclaim = n] \in ShareObject
                 /\ [cr[w.key] EXCEPT !.reclaim = n].finalizer = cr[w.key].finalizer
                 /\ [cr[w.key] EXCEPT !.reclaim = n].phase = cr[w.key].phase
                 /\ [cr[w.key] EXCEPT !.reclaim = n].spec = cr[w.key].spec
      BY <1>1 DEF ShareObject
    <3>3. CASE ClearReclaim
      BY <3>1, <3>2, <3>3 DEF ClearReclaim
    <3>4. CASE AnnotateReclaim
      BY <3>1, <3>2, <3>4 DEF AnnotateReclaim
    <3> QED
      BY <1>10, <3>3, <3>4
  <2>2. /\ Marks(cr, cr') /\ Patched(w, o) \in Worker /\ Working(Patched(w, o), cr')
    BY <1>0, <2>1, WritesFind
  <2>3. Deletes(w', Own, cr')
    BY <2>1, <2>2, DecisionsContinue, ContinuesDeletes
  <2> QED
    BY <1>0, <1>2, <2>2, <2>3, StepsFind
<1>11. CASE DeleteName
  <2>1. w.pc = "dname" /\ UNCHANGED cr
    BY <1>11 DEF DeleteName
  <2>2. w.listErr \/ Mine(w.key, Own) \subseteq w.inv.remote
    BY <1>1, <2>1 DEF Remains, ToName
  \* The shares that are left of the object have the name.
  <2>3. ASSUME NEW m \in Mine(w.key, Own)
        PROVE  /\ m \in remote /\ m.name = w.dg.name /\ Deletable(w.dg.name)
               /\ TargetsEqual(m.target, w.obj.spec.target)
               /\ w.dg.name # None
               /\ \A q \in remote : q.name = w.dg.name => q = m
    <3>1. m \in Own /\ m.by = w.key /\ m \in remote /\ m.token \in Token
      BY <1>1 DEF Mine
    <3>2. /\ AsAsked(m) /\ m.name \in names
          /\ \A q \in remote : q.name = m.name => q = m
      BY <3>1 DEF FindInv, Findable
    <3>3. m.name = w.dg.name /\ TargetsEqual(m.target, w.obj.spec.target)
      BY <1>1, <3>1, <3>2 DEF AsAsked, Working
    <3>4. w.obj.spec.name # None /\ w.dg.name = w.obj.spec.name
      BY <1>1 DEF Working, Steadfast
    <3> QED
      BY <3>1, <3>2, <3>3, <3>4 DEF Deletable
  <2>4. ASSUME w' = [w EXCEPT !.pc = "final"], Mine(w.key, Own) = {} PROVE FindInv'
    <3>1. /\ w'.pc = "final" /\ w'.key = w.key /\ w'.obj = w.obj /\ w'.dg = w.dg
          /\ w'.zid = w.zid /\ w'.rest = w.rest /\ w'.other = w.other
      BY <1>1, <2>4 DEF Worker
    <3>2. Deletes(w', Own, cr)
      BY <1>1, <2>4, <3>1 DEF Deletes, Working, Remains, ToName
    <3> QED
      BY <1>5, <2>1, <3>2
  <2>5. CASE Deletable(w.dg.name) /\ Attached(w.dg.name)
    <3>1. PICK r \in FindByFrontendName(remote, w.dg.name) :
            IF isOurShareToken(w.obj, r.token, w.inv)
            THEN w' = [w EXCEPT !.pc = "release", !.via = "attached", !.tok = r.token]
            ELSE IF InventoryLost THEN Requeue ELSE w' = [w EXCEPT !.pc = "final"]
      BY <1>11, <2>5 DEF DeleteName
    <3>2. CASE isOurShareToken(w.obj, r.token, w.inv)
      <4>1. /\ w'.pc = "release" /\ w'.via = "attached" /\ w'.key = w.key /\ w'.obj = w.obj
            /\ w'.dg = w.dg /\ w'.zid = w.zid /\ w'.rest = w.rest /\ w'.other = w.other
        BY <1>1, <3>1, <3>2 DEF Worker
      <4>2. Continues(w, w')
        BY <4>1 DEF Continues, ToName
      <4> QED
        BY <1>1, <1>5, <2>1, <4>2, ContinuesDeletes
    <3>3. CASE ~isOurShareToken(w.obj, r.token, w.inv) /\ InventoryLost
      BY <1>4, <2>1, <3>1, <3>3
    <3>4. CASE ~isOurShareToken(w.obj, r.token, w.inv) /\ ~InventoryLost
      <4>1. SUFFICES ASSUME NEW m \in Mine(w.key, Own) PROVE FALSE
        BY <2>4, <3>1, <3>4
      <4>2. ~w.listErr
        BY <1>1, <3>4 DEF InventoryLost, Working, Worker
      <4>3. m \in w.inv.remote
        BY <2>2, <4>2
      <4>4. r = m
        BY <2>3, <3>1 DEF FindByFrontendName
      <4>5. isOurShareToken(w.obj, r.token, w.inv)
        BY <2>3, <4>3, <4>4 DEF isOurShareToken, FindByToken
      <4> QED
        BY <3>4, <4>5
    <3> QED
      BY <3>2, <3>3, <3>4
  <2>6. CASE ~(Deletable(w.dg.name) /\ Attached(w.dg.name))
    <3>1. w' = [w EXCEPT !.pc = "final"]
      BY <1>11, <2>6 DEF DeleteName
    <3>2. Mine(w.key, Own) = {}
      BY <2>3, <2>6 DEF Attached
    <3> QED
      BY <2>4, <3>1, <3>2
  <2> QED
    BY <2>5, <2>6
<1> QED
  BY <1>6, <1>7, <1>8, <1>9, <1>10, <1>11

\* The release of a share, up to the patch that forgets it.
LEMMA ReleaseStepsFind ==
  ASSUME Steadfast, IInv, FindInv,
         ReleaseShare \/ Unshare \/ UnshareFails \/ UnshareUnauthorized \/ ClearBinding
  PROVE  FindInv'
<1>0. w.pc \in {"release", "unshare", "clear"} /\ UNCHANGED <<env, names>>
      /\ remote' \subseteq remote
  BY DEF ReleaseShare, Unshare, UnshareFails, UnshareUnauthorized, ClearBinding, Unshared
<1>1. /\ w \in Worker /\ w.key \in Share /\ Working(w, cr) /\ Remains(w, Own)
      /\ cr[w.key] \in ShareObject
  BY <1>0, InFind
<1>2. w.via = "delete" => w.listErr \/ Mine(w.key, Own) \subseteq w.inv.remote
  BY <1>0, <1>1 DEF Remains, ToName
<1>3. ASSUME NEW p \in {"unshare", "clear"}, w' = [w EXCEPT !.pc = p], UNCHANGED cr
      PROVE  FindInv'
  <2>1. /\ w'.pc = p /\ w'.key = w.key /\ w'.obj = w.obj /\ w'.dg = w.dg /\ w'.via = w.via
        /\ w'.zid = w.zid /\ w'.rest = w.rest /\ w'.other = w.other
        /\ w'.inv = w.inv /\ w'.listErr = w.listErr
    BY <1>1, <1>3 DEF Worker
  <2>2. Deletes(w', Own, cr')
    BY <1>1, <1>2, <1>3, <2>1 DEF Deletes, Working, Remains, ToName
  <2> QED
    BY <1>0, <1>3, <2>2, StepsFind DEF Marks
<1>4. ASSUME Requeue, UNCHANGED cr PROVE FindInv'
  BY <1>0, <1>4, RequeueFind
<1>5. CASE ReleaseShare \/ Unshare \/ UnshareUnauthorized
  <2>1. UNCHANGED cr /\ (w' = [w EXCEPT !.pc = "unshare"] \/ AfterRelease)
    BY <1>5 DEF ReleaseShare, Unshare, UnshareUnauthorized
  <2> QED
    BY <1>3, <1>4, <2>1 DEF AfterRelease
<1>6. CASE UnshareFails
  <2>1. StopWith("HealError") \/ (Requeue /\ UNCHANGED cr)
    BY <1>6 DEF UnshareFails
  <2> QED
    BY <1>0, <1>4, <2>1, StopFind
<1>7. CASE ClearBinding
  <2> DEFINE bound == w.obj.token # None \/ w.obj.url # None
             o == IF bound THEN clearShareBinding(cr[w.key]) ELSE cr[w.key]
             x == IF bound THEN Patched(w, o) ELSE w
             z == [x EXCEPT !.released = TRUE]
  <2>1. clearShareBinding(cr[w.key]) \in ShareObject
        /\ clearShareBinding(cr[w.key]).finalizer = cr[w.key].finalizer
        /\ clearShareBinding(cr[w.key]).phase = cr[w.key].phase
        /\ clearShareBinding(cr[w.key]).spec = cr[w.key].spec
    BY <1>1 DEF clearShareBinding, ShareObject, Label, Reason
  <2>2. /\ o \in ShareObject /\ o.finalizer = cr[w.key].finalizer
        /\ o.phase = cr[w.key].phase /\ o.spec = cr[w.key].spec
    BY <1>1, <2>1
  <2>3. /\ Write(o)
        /\ w' = IF w.via = "delete" THEN DeleteNameOrFinish(x) ELSE ReclaimPreviousName(z)
    BY <1>7 DEF ClearBinding
  <2> HIDE DEF o
  <2>4. /\ Marks(cr, cr') /\ x \in Worker /\ Working(x, cr') /\ x.key = w.key
        /\ x.inv = w.inv /\ x.listErr = w.listErr
    BY <1>0, <1>1, <2>2, <2>3, WritesFind
  <2> HIDE DEF bound, x
  <2>5. /\ z \in Worker /\ z.key = x.key /\ z.obj = x.obj /\ z.dg = x.dg
        /\ z.zid = x.zid /\ z.rest = x.rest /\ z.other = x.other
    BY <2>4 DEF Worker
  <2> HIDE DEF z
  <2>6. Working(z, cr')
    BY <2>4, <2>5 DEF Working
  <2>7. Deletes(w', Own, cr')
    <3>1. CASE w.via = "delete"
      <4>1. Deletes(DeleteNameOrFinish(x), Own, cr')
        BY <1>2, <2>4, <3>1, DeleteNameOrFinishDeletes
      <4> QED
        BY <2>3, <3>1, <4>1
    <3>2. CASE w.via # "delete"
      <4>1. Deletes(ReclaimPreviousName(z), Own, cr')
        BY <2>5, <2>6, DecisionsContinue, ContinuesDeletes
      <4> QED
        BY <2>3, <3>2, <4>1
    <3> QED
      BY <3>1, <3>2
  <2> QED
    BY <1>0, <2>4, <2>7, StepsFind
<1> QED
  BY <1>5, <1>6, <1>7

\* A share that is made, told of or not, is one that can be found.
LEMMA CreatesFind ==
  ASSUME Steadfast, IInv, FindInv, w.pc # "idle", Creatable, NEW t \in Fresh,
         remote' = remote \cup {Requested(t)}, UNCHANGED <<env, names>>, Marks(cr, cr'),
         ~ToName(w'), w'.pc # "final", w'.pc # "idle" => Working(w', cr')
  PROVE  FindInv'
<1> DEFINE q == Requested(t)
<1>1. w.key \in Share /\ Working(w, cr) /\ \A r \in Own : r.by \in Share
  BY InFind
<1>2. /\ q.token = t /\ q.by = w.key /\ q.env = w.dg.env /\ q.target = w.obj.spec.target
      /\ q.name = IF w.dg.mode = "public" THEN w.obj.spec.name ELSE None
  BY DEF Requested
<1>3. WantedName = q.name
  BY DEF WantedName, Requested
<1> HIDE DEF q
<1>4. PICK a \in UserSpec[w.key] : a = w.obj.spec
  BY <1>1 DEF Working
<1>5. a.mode = "public" /\ a.name # None /\ w.dg.mode = "public" /\ q.name = a.name
  BY <1>1, <1>2, <1>4 DEF Working, Steadfast
<1>6. AsAsked(q)
  BY <1>1, <1>2, <1>4, <1>5 DEF AsAsked, Working, Steadfast
<1>7. q.name \in names /\ \A r \in remote : r.name # q.name
  BY <1>3, <1>5 DEF Creatable, Attached
<1>8. remote' = remote \cup {q}
  BY DEF q
<1>9. \A r \in remote' : r.token \in Token => r.by \in Share
  BY <1>1, <1>2, <1>8 DEF Own
<1>10. \A s \in Share : cr'[s].finalizer = cr[s].finalizer
  BY DEF Marks
<1>11. Findable(remote', cr', names')
  <2>1. SUFFICES ASSUME NEW r \in remote', r.token \in Token
                 PROVE  /\ AsAsked(r) /\ cr'[r.by].finalizer /\ r.name \in names'
                        /\ \A p \in remote' : p.name = r.name => p = r
    BY DEF Findable
  <2>2. CASE r = q
    BY <1>1, <1>2, <1>6, <1>7, <1>8, <1>10, <2>2 DEF Working
  <2>3. CASE r # q
    <3>1. r \in remote
      BY <1>8, <2>1, <2>3
    <3>2. /\ AsAsked(r) /\ cr[r.by].finalizer /\ r.name \in names
          /\ \A p \in remote : p.name = r.name => p = r
      BY <2>1, <3>1 DEF FindInv, Findable
    <3> QED
      BY <1>7, <1>8, <1>9, <1>10, <2>1, <3>1, <3>2
  <2> QED
    BY <2>2, <2>3
<1>12. EnvironmentsKeyed' /\ SpecsOurs' /\ Guarded(cr')
  BY DEF FindInv, EnvironmentsKeyed, SpecsOurs, Guarded, Marks
<1>13. Deletes(w', Own', cr')
  BY DEF Deletes, Remains
<1> QED
  BY <1>11, <1>12, <1>13 DEF FindInv

\* Creating a share, recording it, and the end of a deletion.
LEMMA ShareStepsFind ==
  ASSUME Steadfast, IInv, FindInv,
         \/ CreateShare \/ CreateConflict \/ CreateRefused \/ CreateFails
         \/ MarkShareReady \/ StampDigest \/ RemoveFinalizer
  PROVE  FindInv'
<1>0. w.pc # "idle" /\ UNCHANGED <<env, names>>
  BY DEF CreateShare, CreateConflict, CreateRefused, CreateFails, MarkShareReady,
         StampDigest, RemoveFinalizer
<1>1. /\ w \in Worker /\ w.key \in Share /\ Working(w, cr) /\ Remains(w, Own)
      /\ cr \in [Share -> ShareObject] /\ cr[w.key] \in ShareObject
      /\ \A r \in Own : r.by \in Share /\ r.token \in Token /\ r \in remote
  BY <1>0, InFind
<1>2. CASE CreateShare
  <2>1. PICK t \in Fresh :
          /\ remote' = remote \cup {Requested(t)}
          /\ w' = [w EXCEPT !.pc = "mark", !.tok = t, !.url = AssignedURL(w.obj, Requested(t))]
    BY <1>2 DEF CreateShare
  <2>2. Continues(w, w') /\ w'.pc = "mark"
    <3>1. w'.pc = "mark"
      BY <1>1, <2>1 DEF Worker
    <3>2. Continues(w, [w EXCEPT !.pc = "mark", !.tok = t,
                                 !.url = AssignedURL(w.obj, Requested(t))])
      BY <1>1, AdoptContinues
    <3> QED
      BY <2>1, <3>1, <3>2
  <2>3. Creatable /\ UNCHANGED cr
    BY <1>2 DEF CreateShare
  <2>4. Working(w', cr') /\ ~ToName(w')
    BY <1>1, <2>2, <2>3 DEF Working, Continues
  <2> QED
    BY <1>0, <2>1, <2>2, <2>3, <2>4, CreatesFind DEF Marks
<1>3. CASE CreateConflict
  <2>1. Continues(w, [w EXCEPT !.pc = "conflict"])
    BY <1>1, AtContinues DEF PC
  <2>2. Deletes([w EXCEPT !.pc = "conflict"], Own, cr)
    BY <1>1, <2>1, ContinuesDeletes
  <2> QED
    BY <1>0, <1>3, <2>2, StepsFind DEF CreateConflict, Marks
<1>4. CASE CreateRefused
  BY <1>0, <1>4, StopFind DEF CreateRefused
<1>5. CASE CreateFails
  <2>1. StopWith("ShareError")
    BY <1>5 DEF CreateFails
  <2>2. CASE UNCHANGED remote
    BY <1>0, <2>1, <2>2, StopFind
  <2>3. CASE Creatable /\ \E t \in Fresh : remote' = remote \cup {Requested(t)}
    <3>1. w'.pc = "idle" /\ Marks(cr, cr')
      BY <1>1, <2>1, IdleType, NotReadyMarks DEF StopWith, Requeue
    <3>2. ~ToName(w')
      BY <3>1 DEF ToName
    <3> QED
      BY <1>0, <2>3, <3>1, <3>2, CreatesFind
  <2> QED
    BY <1>5, <2>2, <2>3 DEF CreateFails
<1>6. CASE MarkShareReady
  <2> DEFINE v == reservation(w.obj.spec.mode, cr[w.key].spec.name)
             o == [cr[w.key] EXCEPT !.token = w.tok, !.url = w.url,
                                    !.reason = "Ready", !.reservation = v]
             x == Patched(w, o)
             y == [x EXCEPT !.pc = "stamp"]
  <2>1. /\ w.pc = "mark" /\ Write(o) /\ w' = y /\ UNCHANGED remote
    BY <1>6 DEF MarkShareReady
  <2>2. /\ o \in ShareObject /\ o.finalizer = cr[w.key].finalizer
        /\ o.phase = cr[w.key].phase /\ o.spec = cr[w.key].spec
    <3>1. v \in Reservation /\ "Ready" \in Reason
      BY DEF reservation, Reservation, Reason
    <3>2. w.tok \in Token \cup {None} /\ w.url \in Label
      BY <1>1 DEF Worker
    <3> HIDE DEF v
    <3>3. o \in ShareObject
      BY <1>1, <3>1, <3>2 DEF ShareObject
    <3>4. /\ o.finalizer = cr[w.key].finalizer /\ o.phase = cr[w.key].phase
          /\ o.spec = cr[w.key].spec
      BY <1>1 DEF ShareObject
    <3> QED
      BY <3>3, <3>4
  <2> HIDE DEF o
  <2>3. Marks(cr, cr') /\ x \in Worker /\ Working(x, cr')
    BY <1>0, <2>1, <2>2, WritesFind
  <2> HIDE DEF x
  <2>4. Continues(x, y)
    BY <2>3, AtContinues DEF PC
  <2>5. Deletes(w', Own, cr')
    BY <2>1, <2>3, <2>4, ContinuesDeletes
  <2> QED
    BY <1>0, <2>1, <2>3, <2>5, StepsFind
<1>7. CASE StampDigest
  <2>1. Marks(cr, cr')
    BY <1>1, <1>7 DEF StampDigest, Marks, ShareObject
  <2> QED
    BY <1>0, <1>7, <2>1, IdleFind DEF StampDigest, Requeue
<1>8. CASE RemoveFinalizer
  <2>1. w.pc = "final" /\ Mine(w.key, Own) = {} /\ UNCHANGED remote
    BY <1>1, <1>8 DEF RemoveFinalizer, Remains
  <2>2. CASE Requeue /\ UNCHANGED cr
    BY <1>0, <2>1, <2>2, RequeueFind
  <2>3. CASE cr' = [cr EXCEPT ![w.key] = Absent(w.key)] /\ w' = Idle
    <3>1. /\ Absent(w.key).phase = "absent" /\ ~Absent(w.key).finalizer
          /\ Absent(w.key).spec \in UserSpec[w.key]
      BY <1>1, AbsentOurs DEF Absent
    <3>2. \A s \in Share : cr'[s] = IF s = w.key THEN Absent(w.key) ELSE cr[s]
      BY <1>1, <2>3
    <3>3. EnvironmentsKeyed' /\ SpecsOurs' /\ Guarded(cr')
      BY <1>0, <3>1, <3>2 DEF FindInv, EnvironmentsKeyed, SpecsOurs, Guarded
    <3>4. \A r \in Own' : cr'[r.by] = cr[r.by]
      BY <1>1, <2>1, <3>2 DEF Own, Mine
    <3> QED
      BY <1>0, <2>1, <2>3, <3>3, <3>4, IdleType, ShrinksFind DEF Deletes
  <2> QED
    BY <1>8, <2>2, <2>3 DEF RemoveFinalizer
<1> QED
  BY <1>2, <1>3, <1>4, <1>5, <1>6, <1>7, <1>8

-----------------------------------------------------------------------------
(* The theorem.                                                            *)

\* Every step of the system preserves the invariant.
LEMMA NextFind ==
  ASSUME Steadfast, Keyed PROVE IInv /\ FindInv /\ [Next]_vars => FindInv'
<1> SUFFICES ASSUME IInv, FindInv, [Next]_vars PROVE FindInv'
  OBVIOUS
<1>1. ASSUME NEW s \in Share, Reconcile(s) PROVE FindInv'
  BY <1>1, ReconcileFind
<1>2. CASE Step
  BY <1>2, InventoryStepsFind, NameStepsFind, ReleaseStepsFind, ShareStepsFind DEF Step
<1>3. CASE Crash
  BY <1>3, IdleFind DEF Crash, Marks
<1>4. CASE Environment
  BY <1>4, UserFind, OutsideFind DEF Environment
<1>5. CASE WriteFails
  BY <1>5, RequeueFind DEF WriteFails
<1>6. CASE UNCHANGED vars
  BY <1>6, StepsFind DEF vars, Marks, FindInv
<1> QED
  BY <1>1, <1>2, <1>3, <1>4, <1>5, <1>6 DEF Next

\* Whatever is lost on the way - an answer to SharePublic, the status patch or
\* any other write, a listing, a release, an Unshare, the manager itself - each share the operator
\* made can be found again by a reconcile of the object it was made for, under
\* its reserved name and by its upstream: no reconcileDelete takes a finalizer
\* away while such a share is left.
THEOREM NoneOrphaned == ASSUME Steadfast, Keyed PROVE Spec => []NoOrphans
<1>1. IInv /\ FindInv => NoOrphans
  <2>1. SUFFICES ASSUME IInv, FindInv, NEW r \in Own PROVE Discoverable(r)
    BY DEF NoOrphans
  <2>2. r \in remote /\ r.token \in Token /\ r.by \in Share
    BY <2>1, ForeignTokenAssumption
       DEF IInv, TypeOK, Own, RemoteShare, OwnShare, ForeignShare
  <2>3. AsAsked(r) /\ cr[r.by].finalizer
    BY <2>1, <2>2 DEF FindInv, Findable
  <2>4. cr[r.by].spec \in UserSpec[r.by] /\ cr[r.by].phase # "absent"
    BY <2>1, <2>2, <2>3 DEF FindInv, SpecsOurs, Guarded
  <2> QED
    BY <2>1, <2>2, <2>3, <2>4 DEF AsAsked, Steadfast, Discoverable
<1>2. IInv /\ FindInv /\ [Next]_vars => FindInv'
  BY NextFind
<1> QED
  BY <1>1, <1>2, InitFind, Invariance, PTL DEF Spec
=============================================================================
