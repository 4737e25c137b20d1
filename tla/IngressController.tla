------------------------- MODULE IngressController -------------------------
(***************************************************************************)
(* IngressReconciler (internal/controller/ingress_controller.go): one      *)
(* Ingress and the ZrokShare of the same name that it is translated to.    *)
(* Different Ingresses never meet.  The controller is driven by events     *)
(* alone: a reconcile that succeeds asks for no other look.                *)
(***************************************************************************)
EXTENDS Integers

CONSTANTS
  Env, DefaultEnv,    \* environments, and the one that is meant without annotation
  Label,              \* DNS labels
  Upstream,           \* Services with a port
  UserSpec,           \* what users write into the Ingress
  UserShare,          \* what users write into a ZrokShare of that name
  None,
  MaxEdits,           \* bound: user operations
  FaultKind,          \* what may go wrong in a run
  MaxFaults           \* bound: failed calls, crashes, healing shares

\* How a host or the name annotation is written: scheme, path and case are
\* its spelling, the domain is what follows the first label.
Domain == {"none", "shares.zrok.io", "share.zrok.io", "elsewhere"}
Raw == [label : Label, domain : Domain, spelling : {"plain", "url"}]

\* What a share reserves: a label, with the domain if it is not zrok's own.
Name == [label : Label, domain : {"none", "elsewhere"}]

\* The first rule's first path: a Service with a numeric port or no usable
\* backend; a rule without an http section crashes the handler.
Backend == Upstream \cup {"invalid", "nohttp"}

IngressSpec ==
  [class : {"zrok", "other"}, env : Env \cup {None}, ann : Raw \cup {None},
   host : Raw \cup {None}, backend : Backend]
ShareSpec == [env : Env, name : Name \cup {None}, upstream : Upstream]

ASSUME UserSpecAssumption == UserSpec \subseteq IngressSpec /\ UserSpec # {}
ASSUME UserShareAssumption == UserShare \subseteq ShareSpec /\ UserShare # {}
ASSUME UpstreamAssumption == {"invalid", "nohttp"} \cap Upstream = {}
ASSUME DefaultAssumption == DefaultEnv \in Env
ASSUME BoundsAssumption == MaxEdits \in Nat /\ MaxFaults \in Nat

VARIABLES
  ing,     \* the Ingress
  share,   \* the ZrokShare
  queue,   \* the key is in the work queue
  w,       \* the worker
  edits, faults

vars == <<ing, share, queue, w, edits, faults>>

\* uid tells an Ingress from an earlier one of that name.  lb is the load
\* balancer hostname in its status.  A URL is the name that is served, or
\* NoName for one that zrok made up.
NoName == [label |-> None, domain |-> "none"]
URL == Name \cup {NoName, None}
Ingress ==
  [live : BOOLEAN, uid : 0 .. MaxEdits, spec : IngressSpec, lb : URL]

\* ctl: which kind of controller owns the share; uid: which Ingress.
Share ==
  [phase : {"absent", "live", "deleting"}, ctl : {"none", "ingress", "other"},
   uid : 0 .. MaxEdits, spec : ShareSpec, url : URL]
NoShare ==
  [phase |-> "absent", ctl |-> "none", uid |-> 0, spec |-> CHOOSE sp \in UserShare : TRUE,
   url |-> None]

Worker == [pc : {"idle", "apply", "mirror"}, obj : Ingress]
NoIngress == [live |-> FALSE, uid |-> 0, spec |-> CHOOSE sp \in UserSpec : TRUE, lb |-> None]
Idle == [pc |-> "idle", obj |-> NoIngress]

Init ==
  /\ ing = NoIngress /\ share = NoShare
  /\ queue = FALSE /\ w = Idle
  /\ edits = 0 /\ faults = 0

-----------------------------------------------------------------------------
(* The translation.                                                        *)

\* Mutant of ingressReservedName: zrok's own domain is kept.
ingressHost(raw) ==
  IF raw = None THEN None ELSE [label |-> raw.label, domain |-> raw.domain]

\* The label alone under zrok's own domains, however it is spelled.
ingressReservedName(raw) ==
  IF raw = None THEN None
  ELSE [label |-> raw.label,
        domain |-> IF raw.domain = "elsewhere" THEN "elsewhere" ELSE "none"]

WantedEnv(sp) == IF sp.env = None THEN DefaultEnv ELSE sp.env
WantedName(sp) == ingressReservedName(IF sp.ann = None THEN sp.host ELSE sp.ann)

\* The share's spec, made from the Ingress and what it was: a name that the
\* Ingress no longer asks for stays.
Translated(sp, old) ==
  [env |-> WantedEnv(sp), upstream |-> sp.backend,
   name |-> IF WantedName(sp) = None THEN old.name ELSE WantedName(sp)]

-----------------------------------------------------------------------------
Fault(kind) == kind \in FaultKind /\ faults < MaxFaults /\ faults' = faults + 1

\* Mutant of ShareEvent: the shares are not watched.
Unwatched(s) == queue' = queue

\* A share's event reaches the Ingress that owns it, by name.
ShareEvent(s) == queue' = (queue \/ s.ctl = "ingress")

Handled(sp) == sp.class = "zrok" /\ sp.backend \in Upstream

Taken == w.pc = "idle" /\ queue

\* Gone, of another class, or without a usable backend: nothing to do.
Ignore ==
  /\ Taken
  /\ ~ing.live \/ ing.spec.class # "zrok" \/ ing.spec.backend = "invalid"
  /\ queue' = FALSE
  /\ UNCHANGED <<ing, share, w, edits, faults>>

\* The panic is recovered and the key retried.
Panic ==
  /\ Taken
  /\ ing.live /\ ing.spec.class = "zrok" /\ ing.spec.backend = "nohttp"
  /\ UNCHANGED vars

StartReconcile ==
  /\ Taken
  /\ ing.live /\ Handled(ing.spec)
  /\ w' = [pc |-> "apply", obj |-> ing]
  /\ queue' = FALSE
  /\ UNCHANGED <<ing, share, edits, faults>>

\* Mutant of Ours: whoever controls the share, it is taken over.
AnyShare == TRUE

\* SetControllerReference accepts a share without a controller and one of an
\* Ingress of this name, an earlier one included.
Ours == share.ctl # "other"

\* CreateOrUpdate, with the Ingress as it was read.
Apply ==
  /\ w.pc = "apply"
  /\ Ours
  /\ LET sp == Translated(w.obj.spec, IF share.phase = "absent"
                                      THEN [env |-> WantedEnv(w.obj.spec), name |-> None]
                                      ELSE share.spec)
     IN  share' = IF share.phase = "absent"
                  THEN [NoShare EXCEPT !.phase = "live", !.ctl = "ingress",
                                       !.uid = w.obj.uid, !.spec = sp]
                  ELSE [share EXCEPT !.ctl = "ingress", !.uid = w.obj.uid, !.spec = sp]
  /\ queue' = (queue \/ share' # share)
  /\ w' = [w EXCEPT !.pc = "mirror"]
  /\ UNCHANGED <<ing, edits, faults>>

\* The share has another controller, or the write fails or conflicts.
ApplyFails ==
  /\ w.pc = "apply"
  /\ \/ ~Ours /\ faults' = faults
     \/ Fault("write")
  /\ w' = Idle /\ queue' = TRUE
  /\ UNCHANGED <<ing, share, edits>>

\* Mutant of Mirror: the hostname is written once.
MirrorOnce ==
  /\ w.pc = "mirror"
  /\ ing' = IF share.url = None \/ ~ing.live \/ ing.lb # None THEN ing
            ELSE [ing EXCEPT !.lb = share.url]
  /\ queue' = (queue \/ ing' # ing)
  /\ w' = Idle
  /\ UNCHANGED <<share, edits, faults>>

\* The URL of the share, if there is one, becomes the hostname; the status
\* is compared as it was read.  An Ingress that is gone cannot be patched.
Mirror ==
  /\ w.pc = "mirror"
  /\ ing' = IF share.url \in {None, w.obj.lb} \/ ~ing.live THEN ing
            ELSE [ing EXCEPT !.lb = share.url]
  /\ queue' = (queue \/ ing' # ing \/ (~ing.live /\ share.url \notin {None, w.obj.lb}))
  /\ w' = Idle
  /\ UNCHANGED <<share, edits, faults>>

MirrorFails ==
  /\ w.pc = "mirror"
  /\ share.url \notin {None, w.obj.lb}
  /\ Fault("write")
  /\ w' = Idle /\ queue' = TRUE
  /\ UNCHANGED <<ing, share, edits>>

\* The manager restarts: the Ingress comes back from the initial list.
Crash ==
  /\ w.pc # "idle"
  /\ Fault("crash")
  /\ w' = Idle /\ queue' = TRUE
  /\ UNCHANGED <<ing, share, edits>>

-----------------------------------------------------------------------------
(* Users, the share controller, and the garbage collector.                 *)

Edit == edits < MaxEdits /\ edits' = edits + 1

\* Only events of Ingresses of class zrok, as they are after the change, get
\* through the predicate.
IngressEvent(i) == queue' = (queue \/ i.spec.class = "zrok")

UserCreates ==
  /\ ~ing.live
  /\ Edit
  /\ \E sp \in UserSpec : ing' = [NoIngress EXCEPT !.live = TRUE, !.uid = edits', !.spec = sp]
  /\ IngressEvent(ing')
  /\ UNCHANGED <<share, w, faults>>

UserEdits ==
  /\ ing.live
  /\ Edit
  /\ \E sp \in UserSpec \ {ing.spec} : ing' = [ing EXCEPT !.spec = sp]
  /\ IngressEvent(ing')
  /\ UNCHANGED <<share, w, faults>>

UserDeletes ==
  /\ ing.live
  /\ Edit
  /\ ing' = NoIngress
  /\ IngressEvent(ing)
  /\ UNCHANGED <<share, w, faults>>

\* Users, and other controllers, make shares of that name, change the spec
\* of ours and delete it.
UserSharesDirectly ==
  /\ share.phase = "absent"
  /\ Edit
  /\ \E sp \in UserShare, c \in {"none", "other"} :
       share' = [NoShare EXCEPT !.phase = "live", !.ctl = c, !.spec = sp]
  /\ UNCHANGED <<ing, queue, w, faults>>

UserEditsShare ==
  /\ share.phase = "live" /\ share.ctl # "other"
  /\ Edit
  /\ \E sp \in UserShare \ {share.spec} : share' = [share EXCEPT !.spec = sp]
  /\ ShareEvent(share')
  /\ UNCHANGED <<ing, w, faults>>

UserDeletesShare ==
  /\ share.phase = "live"
  /\ Edit
  /\ share' = [share EXCEPT !.phase = "deleting"]
  /\ ShareEvent(share)
  /\ UNCHANGED <<ing, w, faults>>

\* The share controller publishes the share under its name, or under a URL
\* that zrok made up.
ShareServed ==
  /\ share.phase = "live"
  /\ share' = [share EXCEPT !.url = IF share.spec.name = None THEN NoName ELSE share.spec.name]
  /\ share' # share
  /\ ShareEvent(share)
  /\ UNCHANGED <<ing, w, edits, faults>>

\* It clears the URL while it replaces the share.
ShareHeals ==
  /\ share.phase = "live" /\ share.url # None
  /\ Fault("heal")
  /\ share' = [share EXCEPT !.url = None]
  /\ ShareEvent(share)
  /\ UNCHANGED <<ing, w, edits>>

\* It lets a deleted share go.
ShareGone ==
  /\ share.phase = "deleting"
  /\ share' = NoShare
  /\ ShareEvent(share)
  /\ UNCHANGED <<ing, w, edits, faults>>

\* Its Ingress is gone, or is another one by now.
Ownerless == share.ctl = "ingress" /\ (~ing.live \/ ing.uid # share.uid)

Collect ==
  /\ share.phase = "live"
  /\ Ownerless
  /\ share' = [share EXCEPT !.phase = "deleting"]
  /\ ShareEvent(share)
  /\ UNCHANGED <<ing, w, edits, faults>>

-----------------------------------------------------------------------------
Reconcile == Ignore \/ Panic \/ StartReconcile
Step == Apply \/ ApplyFails \/ Mirror \/ MirrorFails
Environment ==
  \/ UserCreates \/ UserEdits \/ UserDeletes
  \/ UserSharesDirectly \/ UserEditsShare \/ UserDeletesShare
  \/ ShareServed \/ ShareHeals \/ ShareGone \/ Collect

Next == Reconcile \/ Step \/ Crash \/ Environment
Spec == Init /\ [][Next]_vars

\* The queue is served, a reconcile goes on, the share controller publishes
\* and lets go (ShareController!Converges), and the collector collects.
Fairness ==
  /\ WF_vars(Reconcile) /\ WF_vars(Step)
  /\ WF_vars(ShareServed) /\ WF_vars(ShareGone) /\ WF_vars(Collect)
FairSpec == Spec /\ Fairness

-----------------------------------------------------------------------------
(* Properties.                                                             *)

\* Every variable has its type.
TypeOK ==
  /\ ing \in Ingress
  /\ share \in Share
  /\ queue \in BOOLEAN
  /\ w \in Worker
  /\ edits \in 0 .. MaxEdits /\ faults \in 0 .. MaxFaults

\* A reconcile under way has an Ingress with something to translate, and with
\* the types what it makes of that is a share's spec.
Sound == TypeOK /\ (w.pc # "idle" => Handled(w.obj.spec))

\* No reconcile changes a share that belongs to another controller.
OthersUntouched ==
  [][share.ctl = "other" /\ w' # w => share' = share]_vars

\* The share is the Ingress's own and says what the Ingress says.
Follows ==
  /\ share.phase # "absent" /\ ~Ownerless /\ share.ctl = "ingress"
  /\ share.spec.env = WantedEnv(ing.spec)
  /\ share.spec.upstream = ing.spec.backend
  /\ WantedName(ing.spec) \in {None, share.spec.name}

\* With an empty queue and no reconcile under way, nothing is out of date: a
\* zrok Ingress with a usable backend has its share, which says what it says,
\* and carries the share's URL, if there is one.  Nobody would look again, as
\* a reconcile that succeeds asks for no other: no edit of the Ingress or of
\* the share between the read and the write, no answer and no failed write
\* goes by without an event or a retry.
NothingMissed ==
  ~queue /\ w.pc = "idle" /\ ing.live /\ Handled(ing.spec) =>
    Follows /\ share.url \in {None, ing.lb}

\* Until its key is queued again, a reconcile has the Ingress as it is, and
\* once it has applied the share, the share follows.
Abreast ==
  ~queue /\ ing.live /\ Handled(ing.spec) =>
    /\ w.pc # "idle" => w.obj = ing
    /\ w.pc # "apply" => Follows
    /\ w.pc = "idle" => share.url \in {None, ing.lb}

\* The inductive invariant.
IInv == Sound /\ Abreast

\* Once edits and faults cease, a zrok Ingress with a usable backend has a
\* share that follows it and carries the share's URL as its hostname, unless
\* another controller holds the share; and without an Ingress no share of
\* one is left.  No event that all of this depends on gets lost.
Converges ==
  <>[](/\ ing.live /\ Handled(ing.spec) =>
            share.ctl = "other" \/ (share.phase = "live" /\ Follows /\ ing.lb = share.url)
       /\ ~ing.live => share.phase = "absent" \/ share.ctl # "ingress")
=============================================================================
