---------------------- MODULE IngressControllerProofs ----------------------
(***************************************************************************)
(* Theorems about IngressController for every set of environments, labels, *)
(* Services and user specs and every bound on edits and faults.            *)
(***************************************************************************)
EXTENDS IngressController, TLAPS

-----------------------------------------------------------------------------
(* The parts the states are made of.                                       *)

\* An Ingress that is gone is a well-formed record, ...
LEMMA NoIngressType == NoIngress \in Ingress
<1> DEFINE sp == CHOOSE x \in UserSpec : TRUE
<1>1. sp \in IngressSpec
  BY UserSpecAssumption
<1> HIDE DEF sp
<1>2. NoIngress = [live |-> FALSE, uid |-> 0, spec |-> sp, lb |-> None]
  BY DEF NoIngress, sp
<1> QED
  BY <1>1, <1>2, BoundsAssumption DEF Ingress, URL

\* ... and so is a share.
LEMMA NoShareType == NoShare \in Share /\ NoShare.ctl = "none"
<1> DEFINE sp == CHOOSE x \in UserShare : TRUE
<1>1. sp \in ShareSpec
  BY UserShareAssumption
<1> HIDE DEF sp
<1>2. NoShare = [phase |-> "absent", ctl |-> "none", uid |-> 0, spec |-> sp, url |-> None]
  BY DEF NoShare, sp
<1> QED
  BY <1>1, <1>2, BoundsAssumption DEF Share, URL

\* The worker at rest.
LEMMA IdleType == Idle \in Worker /\ Idle.pc = "idle"
  BY NoIngressType DEF Idle, Worker

\* Failures stay within their bound.
LEMMA FaultType ==
  ASSUME TypeOK, NEW kind, Fault(kind) PROVE faults' \in 0 .. MaxFaults
  BY BoundsAssumption DEF Fault, TypeOK

\* However a host is spelled, what comes out is a name without a domain of
\* zrok's own.
LEMMA NameType == ASSUME NEW sp \in IngressSpec PROVE WantedName(sp) \in Name \cup {None}
<1>1. (IF sp.ann = None THEN sp.host ELSE sp.ann) \in Raw \cup {None}
  BY DEF IngressSpec
<1>2. ASSUME NEW raw \in Raw \cup {None} PROVE ingressReservedName(raw) \in Name \cup {None}
  BY <1>2 DEF ingressReservedName, Raw, Name
<1> QED
  BY <1>1, <1>2 DEF WantedName

\* A usable Ingress is translated to a spec that a share may have.
LEMMA TranslatedType ==
  ASSUME NEW sp \in IngressSpec, Handled(sp), NEW old, old.name \in Name \cup {None}
  PROVE  Translated(sp, old) \in ShareSpec
<1>1. WantedEnv(sp) \in Env
  BY DefaultAssumption DEF WantedEnv, IngressSpec
<1>2. sp.backend \in Upstream
  BY DEF Handled
<1> QED
  BY <1>1, <1>2, NameType DEF Translated, ShareSpec

-----------------------------------------------------------------------------
(* The invariant.                                                          *)

\* The program starts without an Ingress and a share.
LEMMA InitSound == Init => Sound
<1> SUFFICES ASSUME Init PROVE Sound
  OBVIOUS
<1>1. ing \in Ingress /\ share \in Share /\ w \in Worker /\ w.pc = "idle"
  BY NoIngressType, NoShareType, IdleType DEF Init
<1>2. edits \in 0 .. MaxEdits /\ faults \in 0 .. MaxFaults
  BY BoundsAssumption DEF Init
<1>3. queue \in BOOLEAN
  BY DEF Init
<1> QED
  BY <1>1, <1>2, <1>3 DEF Sound, TypeOK

\* A reconcile begins, goes on, or ends.
LEMMA WorkerSound == ASSUME Sound, Reconcile \/ Step \/ Crash PROVE Sound'
<1> USE DEF Sound, TypeOK
<1>0. w.obj \in Ingress /\ w.obj.spec \in IngressSpec /\ w.obj.uid \in 0 .. MaxEdits
  BY DEF Worker, Ingress
<1>1. CASE Ignore \/ Panic
  BY <1>1 DEF Ignore, Panic, vars
<1>2. CASE StartReconcile
  BY <1>2 DEF StartReconcile, Worker
<1>3. CASE Apply
  <2> DEFINE old == IF share.phase = "absent"
                    THEN [env |-> WantedEnv(w.obj.spec), name |-> None] ELSE share.spec
             sp == Translated(w.obj.spec, old)
  <2>1. old.name \in Name \cup {None}
    BY DEF Share, ShareSpec
  <2>2. Handled(w.obj.spec)
    BY <1>3 DEF Apply
  <2>3. sp \in ShareSpec
    BY <1>0, <2>1, <2>2, TranslatedType
  <2>4. share' = IF share.phase = "absent"
                 THEN [NoShare EXCEPT !.phase = "live", !.ctl = "ingress",
                                      !.uid = w.obj.uid, !.spec = sp]
                 ELSE [share EXCEPT !.ctl = "ingress", !.uid = w.obj.uid, !.spec = sp]
    BY <1>3 DEF Apply
  <2> HIDE DEF sp
  <2>5. share' \in Share
    BY <1>0, <2>3, <2>4, NoShareType DEF Share
  <2>6. w' \in Worker /\ w'.obj = w.obj
    BY <1>3 DEF Apply, Worker
  <2> QED
    BY <1>3, <2>2, <2>5, <2>6 DEF Apply
<1>4. CASE Mirror
  <2>1. ing' \in Ingress
    BY <1>4 DEF Mirror, Ingress, Share
  <2> QED
    BY <1>4, <2>1, IdleType DEF Mirror
<1>5. CASE ApplyFails \/ MirrorFails \/ Crash
  <2>1. \E k \in {"write", "crash"} : Fault(k) \/ faults' = faults
    BY <1>5 DEF ApplyFails, MirrorFails, Crash
  <2> QED
    BY <1>5, <2>1, IdleType, FaultType DEF ApplyFails, MirrorFails, Crash
<1> QED
  BY <1>1, <1>2, <1>3, <1>4, <1>5 DEF Reconcile, Step

\* Users, the share controller and the collector.
LEMMA EnvironmentSound == ASSUME Sound, Environment PROVE Sound'
<1> USE DEF Sound, TypeOK
<1>0. ASSUME Edit PROVE edits' \in 0 .. MaxEdits
  BY <1>0, BoundsAssumption DEF Edit
<1>1. CASE UserCreates
  <2>1. PICK sp \in IngressSpec : ing' = [NoIngress EXCEPT !.live = TRUE, !.uid = edits', !.spec = sp]
    BY <1>1, UserSpecAssumption DEF UserCreates
  <2>2. ing' \in Ingress
    BY <1>0, <1>1, <2>1, NoIngressType DEF UserCreates, Ingress
  <2> QED
    BY <1>0, <1>1, <2>2 DEF UserCreates, IngressEvent
<1>2. CASE UserEdits
  <2>1. PICK sp \in IngressSpec : ing' = [ing EXCEPT !.spec = sp]
    BY <1>2, UserSpecAssumption DEF UserEdits
  <2>2. ing' \in Ingress
    BY <2>1 DEF Ingress
  <2> QED
    BY <1>0, <1>2, <2>2 DEF UserEdits, IngressEvent
<1>3. CASE UserDeletes
  BY <1>0, <1>3, NoIngressType DEF UserDeletes, IngressEvent
<1>4. CASE UserSharesDirectly
  <2>1. PICK sp \in ShareSpec, c \in {"none", "other"} :
          share' = [NoShare EXCEPT !.phase = "live", !.ctl = c, !.spec = sp]
    BY <1>4, UserShareAssumption DEF UserSharesDirectly
  <2>2. share' \in Share
    BY <2>1, NoShareType DEF Share
  <2> QED
    BY <1>0, <1>4, <2>2 DEF UserSharesDirectly
<1>5. CASE UserEditsShare
  <2>1. PICK sp \in ShareSpec : share' = [share EXCEPT !.spec = sp]
    BY <1>5, UserShareAssumption DEF UserEditsShare
  <2>2. share' \in Share
    BY <2>1 DEF Share
  <2> QED
    BY <1>0, <1>5, <2>2 DEF UserEditsShare, ShareEvent
<1>6. CASE UserDeletesShare \/ Collect
  <2>1. share' \in Share
    BY <1>6 DEF UserDeletesShare, Collect, Share
  <2> QED
    BY <1>0, <1>6, <2>1 DEF UserDeletesShare, Collect, ShareEvent
<1>7. CASE ShareServed
  <2>1. share.spec.name \in Name \cup {None}
    BY DEF Share, ShareSpec
  <2>2. share' \in Share
    BY <1>7, <2>1 DEF ShareServed, Share, URL
  <2> QED
    BY <1>7, <2>2 DEF ShareServed, ShareEvent
<1>8. CASE ShareHeals
  <2>1. share' \in Share
    BY <1>8 DEF ShareHeals, Share, URL
  <2> QED
    BY <1>8, <2>1, FaultType DEF ShareHeals, ShareEvent
<1>9. CASE ShareGone
  BY <1>9, NoShareType DEF ShareGone, ShareEvent
<1> QED
  BY <1>1, <1>2, <1>3, <1>4, <1>5, <1>6, <1>7, <1>8, <1>9 DEF Environment

\* ... and through every step.
LEMMA NextSound == ASSUME Sound, [Next]_vars PROVE Sound'
<1>1. CASE UNCHANGED vars
  BY <1>1 DEF vars, Sound, TypeOK
<1> QED
  BY <1>1, WorkerSound, EnvironmentSound DEF Next

-----------------------------------------------------------------------------
(* Nothing is missed.                                                      *)

\* What the worker does keeps it abreast, or has its key queued again.
LEMMA WorkerAbreast == ASSUME IInv, Reconcile \/ Step \/ Crash PROVE Abreast'
<1> SUFFICES ASSUME ~queue', ing'.live, Handled(ing'.spec)
             PROVE  /\ w'.pc # "idle" => w'.obj = ing'
                    /\ w'.pc # "apply" => Follows'
                    /\ w'.pc = "idle" => share'.url \in {None, ing'.lb}
  BY DEF Abreast
<1> USE DEF IInv, Sound, TypeOK
<1>1. CASE Ignore \/ Panic
  BY <1>1, UpstreamAssumption DEF Ignore, Panic, Taken, Handled, vars
<1>2. CASE StartReconcile
  BY <1>2 DEF StartReconcile
<1>3. CASE Apply
  <2>1. share' = share /\ ~queue /\ ing' = ing /\ w.pc = "apply"
    BY <1>3 DEF Apply
  <2>2. w.obj = ing
    BY <2>1 DEF Abreast
  <2>3. w'.pc = "mirror" /\ w'.obj = ing'
    BY <1>3, <2>1, <2>2 DEF Apply, Worker
  <2>4. share.phase # "absent"
    <3> SUFFICES ASSUME share.phase = "absent" PROVE FALSE
      OBVIOUS
    <3>1. share'.phase = "live"
      BY <1>3, NoShareType DEF Apply, Share
    <3> QED
      BY <2>1, <3>1
  <2> DEFINE sp == Translated(ing.spec, share.spec)
  <2>5. share' = [share EXCEPT !.ctl = "ingress", !.uid = ing.uid, !.spec = sp]
    BY <1>3, <2>2, <2>4 DEF Apply
  <2> HIDE DEF sp
  <2>6. share.ctl = "ingress" /\ share.uid = ing.uid /\ share.spec = sp
    BY <2>1, <2>5 DEF Share
  <2>7. /\ sp.env = WantedEnv(ing.spec) /\ sp.upstream = ing.spec.backend
        /\ WantedName(ing.spec) \in {None, sp.name}
    BY DEF sp, Translated
  <2>8. Follows'
    BY <2>1, <2>4, <2>6, <2>7 DEF Follows, Ownerless
  <2> QED
    BY <2>3, <2>8
<1>4. CASE Mirror
  <2>1. ing' = ing /\ ~queue /\ share' = share /\ w.pc = "mirror"
    BY <1>4 DEF Mirror
  <2>2. w.obj = ing /\ Follows
    BY <2>1 DEF Abreast
  <2>3. share.url \in {None, ing.lb} \/ ing' = [ing EXCEPT !.lb = share.url]
    BY <1>4, <2>1, <2>2 DEF Mirror
  <2>4. share.url \in {None, ing.lb}
    BY <2>1, <2>3 DEF Ingress
  <2>5. w' = Idle /\ Follows'
    BY <1>4, <2>1, <2>2 DEF Mirror, Follows, Ownerless
  <2> QED
    BY <2>1, <2>4, <2>5, IdleType
<1>5. CASE ApplyFails \/ MirrorFails \/ Crash
  BY <1>5 DEF ApplyFails, MirrorFails, Crash
<1> QED
  BY <1>1, <1>2, <1>3, <1>4, <1>5 DEF Reconcile, Step

\* While the share follows its Ingress, its events queue the key.
LEMMA EventQueues ==
  ASSUME Follows, NEW s, s.ctl = share.ctl, ShareEvent(s) PROVE queue'
  BY DEF Follows, ShareEvent

\* What others do to the Ingress or to its share queues the key.
LEMMA EnvironmentAbreast == ASSUME IInv, Environment PROVE Abreast'
<1> SUFFICES ASSUME ~queue', ing'.live, Handled(ing'.spec)
             PROVE  /\ w'.pc # "idle" => w'.obj = ing'
                    /\ w'.pc # "apply" => Follows'
                    /\ w'.pc = "idle" => share'.url \in {None, ing'.lb}
  BY DEF Abreast
<1> USE DEF IInv, Sound, TypeOK
<1>1. CASE UserCreates \/ UserEdits
  BY <1>1 DEF UserCreates, UserEdits, IngressEvent, Handled
<1>2. CASE UserDeletes
  BY <1>2 DEF UserDeletes, NoIngress
<1>3. ASSUME ~(UserCreates \/ UserEdits \/ UserDeletes), w.pc # "apply" PROVE FALSE
  <2>1. ing' = ing /\ ~queue
    BY <1>3 DEF Environment, UserSharesDirectly, UserEditsShare, UserDeletesShare, ShareServed,
                ShareHeals, ShareGone, Collect, ShareEvent
  <2>2. Follows
    BY <1>3, <2>1 DEF Abreast
  <2>3. share.phase # "absent" /\ share.ctl = "ingress"
    BY <2>2 DEF Follows
  <2>4. CASE UserEditsShare
    BY <2>3, <2>4 DEF UserEditsShare, ShareEvent, Share
  <2>5. CASE UserDeletesShare \/ ShareServed \/ ShareHeals \/ ShareGone \/ Collect
    BY <2>2, <2>5, EventQueues DEF UserDeletesShare, ShareServed, ShareHeals, ShareGone, Collect
  <2> QED
    BY <1>3, <2>3, <2>4, <2>5 DEF Environment, UserSharesDirectly
<1>4. CASE w.pc = "apply" /\ ~(UserCreates \/ UserEdits \/ UserDeletes)
  <2>1. w' = w /\ ing' = ing /\ ~queue
    BY <1>4 DEF Environment, UserSharesDirectly, UserEditsShare, UserDeletesShare, ShareServed,
                ShareHeals, ShareGone, Collect, ShareEvent
  <2> QED
    BY <1>4, <2>1 DEF Abreast
<1> QED
  BY <1>1, <1>2, <1>3, <1>4

\* The initial state satisfies the invariant, ...
LEMMA InitInv == Init => IInv
<1>1. Init => Abreast
  BY DEF Init, Abreast, NoIngress
<1> QED
  BY <1>1, InitSound DEF IInv

\* ... and every step keeps it.
LEMMA NextInv == ASSUME IInv, [Next]_vars PROVE IInv'
<1>1. Sound'
  BY NextSound DEF IInv
<1>2. CASE UNCHANGED vars
  <2>1. Abreast'
    BY <1>2 DEF vars, IInv, Abreast, Follows, Ownerless
  <2> QED
    BY <1>1, <2>1 DEF IInv
<1> QED
  BY <1>1, <1>2, WorkerAbreast, EnvironmentAbreast DEF Next, IInv

\* Whatever users write into an Ingress and into the share, and whatever
\* fails: a share's name never carries one of zrok's own domains, and only an
\* Ingress with a usable backend is translated.
THEOREM Invariance == Spec => []IInv
<1>1. IInv /\ [Next]_vars => IInv'
  BY NextInv
<1> QED
  BY InitInv, <1>1, PTL DEF Spec

\* For every spec, every interleaving of users, share controller and collector
\* with the steps of a reconcile, and every failed call and crash: when the
\* key is not queued and no reconcile is under way, the share says what its
\* Ingress says and the Ingress carries its URL.
THEOREM NoneMissed == Spec => []NothingMissed
<1>1. IInv => NothingMissed
  BY DEF IInv, Abreast, NothingMissed
<1> QED
  BY Invariance, <1>1, PTL

-----------------------------------------------------------------------------
\* A step of the worker leaves the share of another controller alone.
LEMMA OthersKept ==
  ASSUME [Next]_vars, share.ctl = "other", w' # w PROVE share' = share
<1>1. CASE Reconcile \/ Step \/ Crash
  BY <1>1 DEF Reconcile, Step, Crash, Ignore, Panic, StartReconcile, Apply, ApplyFails, Mirror,
              MirrorFails, Ours, vars
<1>2. CASE Environment \/ UNCHANGED vars
  <2>1. w' = w
    BY <1>2 DEF Environment, UserCreates, UserEdits, UserDeletes, UserSharesDirectly,
                UserEditsShare, UserDeletesShare, ShareServed, ShareHeals, ShareGone, Collect, vars
  <2> QED
    BY <2>1
<1> QED
  BY <1>1, <1>2 DEF Next

\* For every spec, and between any steps of users and of that controller, no
\* reconcile of an Ingress writes to a share that another controller owns.
THEOREM OthersAreUntouched == Spec => OthersUntouched
<1>1. [Next]_vars => [share.ctl = "other" /\ w' # w => share' = share]_vars
  BY OthersKept
<1> QED
  BY <1>1, PTL DEF Spec, OthersUntouched
=============================================================================
