----------------------------- MODULE GatewayStatus -----------------------------
(***************************************************************************)
(* The Wireguard controller and the gateway it runs: passes of Reconcile   *)
(* over the Service, the Secret, the Deployment and the status of one      *)
(* Wireguard (internal/controller/wireguard_controller.go, apply.go), with *)
(* the Deployment controller, the garbage collector and users beside it.   *)
(*                                                                         *)
(* As in PeerReconciler the controller reads from caches that hold some    *)
(* earlier state of their kind and move on independently; "stale" has the  *)
(* kinds that were written since. The status is updated with the           *)
(* resourceVersion of a cached copy, so an outdated one is refused, and a  *)
(* refused update is dropped. Applies are forced and need no version. Of   *)
(* the Service's cache nothing is read, so its events enqueue at once.     *)
(*                                                                         *)
(* Each API write of a pass is a step of its own. The peers of the pass    *)
(* are PeerReconciler's; of the Secret this module keeps what the spec     *)
(* puts in it. The Service's legacy field manager is left out: it is       *)
(* handled by the same code as the Deployment's.                           *)
(***************************************************************************)
EXTENDS GatewaySpec

CONSTANTS
    InitialSpecs,   \* the specs a Wireguard may be created with
    ClusterIPs,     \* the addresses the cluster may give a Service
    Keys,           \* the sets of keys that a referenced Secret may have
    Interferences,  \* the kinds of interference an instance considers
    MaxChanges      \* bound: how often users, failures and restarts interfere

ASSUME BoundAssumption == MaxChanges \in Nat

ASSUME NamesAssumption ==
    Specs \intersect {"none", "legacy", "edited", "mixed"} = {} /\ InitialSpecs \subseteq Specs

VARIABLES
    wg, svc, secret, dep, creds,    \* the API server's objects; creds: the referenced Secrets
    pod,                            \* the gateway's pod and the template it runs
    cwg, csecret, cdep,             \* the operator's caches
    stale,                          \* the kinds written since their cache moved
    queued, timer,                  \* the work queue and a pending RequeueAfter
    pc, this, cond, result,         \* the running pass, the Wireguard it renders, the condition
                                    \* it is to record and what it returns after
    endpoint, publicKey,            \* the server identity it has found
    applied, seen,                  \* the Deployment its apply returned, the Secrets it checked
    changes                         \* interferences so far

api   == <<wg, svc, secret, dep, creds>>
cache == <<cwg, csecret, cdep>>
pass  == <<pc, this, cond, result, endpoint, publicKey, applied, seen>>
vars  == <<api, pod, cache, stale, queued, timer, pass, changes>>

--------------------------------------------------------------------------------
(* State *)

SomeSpec == CHOOSE s \in Specs : TRUE

\* The template of a Deployment: rendered from a spec; or written by the operator's predecessor,
\* edited by a user, or rendered while the predecessor's fields stay beside it.
Templates == Specs \union {"legacy", "edited", "mixed"}

ApplyReasons == {"ServiceApplyFailed", "DeploymentApplyFailed"}

DegradedReasons == InvalidReasons \union ApplyReasons \union {"ClusterIPOutsideLocalCIDRs"}

\* Server keys by number. A number that nobody knows any more can stand for a new key.
KeyNumbers == 0..4

\* A Wireguard's status: the summary, the Ready condition and the Degraded one, each with the
\* generation it observed, and the identity. "" stands for a condition that is not there.
WireguardStatuses ==
    [summary: {"", "Pending", "Ready", "Error"},
     ready: {"", "True", "False"}, readyGen: Nat,
     degraded: DegradedReasons \union {"", "False"}, degradedGen: Nat,
     endpoint: ClusterIPs \union {0}, publicKey: KeyNumbers]

NewStatus ==
    [summary |-> "", ready |-> "", readyGen |-> 0, degraded |-> "", degradedGen |-> 0,
     endpoint |-> 0, publicKey |-> 0]

Wireguards == [live: BOOLEAN, uid: Nat, gen: Nat, spec: Specs, status: WireguardStatuses]

\* A copy of the Wireguard: what the code reads of one that may be outdated. "started": its
\* status.status is not empty.
WireguardCopies == [live: BOOLEAN, uid: Nat, gen: Nat, spec: Specs, started: BOOLEAN]

wireguardCopy ==
    [live |-> wg.live, uid |-> wg.uid, gen |-> wg.gen, spec |-> wg.spec, started |-> wg.status.summary # ""]

NoWireguard == [live |-> FALSE, uid |-> 0, gen |-> 0, spec |-> SomeSpec, started |-> FALSE]

Services == [live: BOOLEAN, owner: Nat, ip: ClusterIPs \union {0}]

NoService == [live |-> FALSE, owner |-> 0, ip |-> 0]

\* What state.json has of a spec: all but spec.gluetun.
desiredState(spec) == <<Content[spec].peerCIDR, Content[spec].localCIDRs>>

\* The Secret: the server's key pair, by number, and the spec that state.json was rendered from.
SecretObjects == [live: BOOLEAN, owner: Nat, key: KeyNumbers, spec: Specs]

SecretCopies == [live: BOOLEAN, key: KeyNumbers, spec: Specs]

secretCopy == [live |-> secret.live, key |-> secret.key, spec |-> secret.spec]

NoSecret == [live |-> FALSE, owner |-> 0, key |-> 0, spec |-> SomeSpec]

\* "rolling": it has the defaulted rollingUpdate block; "legacy": managedFields has the legacy
\* manager; "observed": status.observedGeneration is the generation. The status counts the
\* ready pods; the model has the templates they run.
Deployments ==
    [live: BOOLEAN, owner: Nat, template: Templates, rolling: BOOLEAN, legacy: BOOLEAN,
     observed: BOOLEAN, updated: 0..1, ready: SUBSET Templates]

DeploymentCopies == [live: BOOLEAN, rolling: BOOLEAN, legacy: BOOLEAN]

deploymentCopy == [live |-> dep.live, rolling |-> dep.rolling, legacy |-> dep.legacy]

NoDeployment ==
    [live |-> FALSE, owner |-> 0, template |-> "edited", rolling |-> FALSE, legacy |-> FALSE,
     observed |-> FALSE, updated |-> 0, ready |-> {}]

NoPod == [template |-> "none", ready |-> FALSE]

Pods == [template: Templates, ready: BOOLEAN] \union {NoPod}

\* A condition that updateStatus is asked to record.
Conditions ==
    {[type |-> "Progressing", reason |-> "FetchingStatus"], [type |-> "Ready", reason |-> "Active"],
     [type |-> "Ready", reason |-> "DeploymentNotReady"]}
        \union [type: {"Degraded"}, reason: DegradedReasons]

NoCondition == [type |-> "Progressing", reason |-> "FetchingStatus"]

\* The kinds that are read from a cache.
Kinds == {"wg", "secret", "dep"}

\* The type invariant.
TypeOK ==
    /\ wg \in Wireguards /\ cwg \in WireguardCopies /\ this \in WireguardCopies
    /\ svc \in Services
    /\ secret \in SecretObjects /\ csecret \in SecretCopies
    /\ dep \in Deployments /\ cdep \in DeploymentCopies /\ applied \in Deployments
    /\ creds \in [Secrets -> Keys] /\ seen \in [Secrets -> Keys]
    /\ pod \in Pods
    /\ stale \subseteq Kinds
    /\ queued \in BOOLEAN /\ timer \in BOOLEAN
    /\ pc \in {"idle", "service", "secret", "strategy", "migrate", "deployment", "status"}
    /\ cond \in Conditions /\ result \in {"done", "timer", "retry"}
    /\ endpoint \in ClusterIPs \union {0} /\ publicKey \in KeyNumbers
    /\ changes \in 0 .. MaxChanges

NoPass ==
    /\ pc = "idle" /\ this = NoWireguard /\ cond = NoCondition /\ result = "done"
    /\ endpoint = 0 /\ publicKey = 0 /\ applied = NoDeployment

\* A new Wireguard, in a new cluster or over the Deployment of the operator's predecessor,
\* whose pod runs. The controller starts by listing.
Init ==
    /\ \E s \in InitialSpecs : wg = [live |-> TRUE, uid |-> 1, gen |-> 1, spec |-> s, status |-> NewStatus]
    /\ svc = NoService /\ secret = NoSecret
    /\ \/ dep = NoDeployment
       \/ dep = [live |-> TRUE, owner |-> 1, template |-> "legacy", rolling |-> TRUE, legacy |-> TRUE,
                 observed |-> TRUE, updated |-> 1, ready |-> {"legacy"}]
    /\ creds \in [Secrets -> Keys]
    /\ pod = IF dep.live THEN [template |-> "legacy", ready |-> TRUE] ELSE NoPod
    /\ cwg = wireguardCopy /\ csecret = secretCopy /\ cdep = deploymentCopy
    /\ stale = {} /\ queued = TRUE /\ timer = FALSE
    /\ NoPass /\ seen = creds
    /\ changes = 0

\* A pass is over, and with it what it has read.
ClearPass ==
    /\ pc' = "idle" /\ this' = NoWireguard /\ cond' = NoCondition /\ result' = "done"
    /\ endpoint' = 0 /\ publicKey' = 0 /\ applied' = NoDeployment
    /\ UNCHANGED seen

--------------------------------------------------------------------------------
(* Users, failures and the rest of the cluster *)

Interfere(kind) == kind \in Interferences /\ changes < MaxChanges /\ changes' = changes + 1

\* A spec edit makes a new generation.
EditSpec ==
    /\ Interfere("spec") /\ wg.live
    /\ \E s \in Specs \ {wg.spec} : wg' = [wg EXCEPT !.spec = s, !.gen = @ + 1]
    /\ stale' = stale \union {"wg"}
    /\ UNCHANGED <<svc, secret, dep, creds, pod, cache, queued, timer, pass>>

\* The Wireguard is deleted, or one of its name is created anew. (Bound: not before
\* the predecessor's Deployment is taken over and its pod gone.)
ReplaceWireguard ==
    /\ \/ /\ Interfere("replace") /\ wg.live /\ wg' = [wg EXCEPT !.live = FALSE]
          /\ "legacy" \notin {dep.template, pod.template} \union dep.ready
       \/ /\ ~wg.live /\ UNCHANGED changes
          /\ \E s \in InitialSpecs :
                wg' = [live |-> TRUE, uid |-> wg.uid + 1, gen |-> 1, spec |-> s, status |-> NewStatus]
    /\ stale' = stale \union {"wg"}
    /\ UNCHANGED <<svc, secret, dep, creds, pod, cache, queued, timer, pass>>

\* A referenced Secret changes. Nothing watches it for its gateway. (A cache that shows it late
\* cannot be told from a change that comes late.)
EditCreds ==
    /\ Interfere("creds")
    /\ \E s \in Secrets, k \in Keys : k # creds[s] /\ creds' = [creds EXCEPT ![s] = k]
    /\ UNCHANGED <<wg, svc, secret, dep, pod, cache, stale, queued, timer, pass>>

RemoveService == svc.live /\ svc' = NoService /\ queued' = TRUE /\ UNCHANGED <<secret, dep, stale>>

RemoveSecret ==
    secret.live /\ secret' = NoSecret /\ stale' = stale \union {"secret"} /\ UNCHANGED <<svc, dep, queued>>

RemoveDeployment ==
    dep.live /\ dep' = NoDeployment /\ stale' = stale \union {"dep"} /\ UNCHANGED <<svc, secret, queued>>

\* Someone deletes an object that the operator made.
DeleteObject ==
    /\ Interfere("delete")
    /\ RemoveService \/ RemoveSecret \/ RemoveDeployment
    /\ UNCHANGED <<wg, creds, pod, cache, timer, pass>>

\* The Wireguard that owns the object is no more.
Orphaned(object) == object.live /\ (~wg.live \/ object.owner # wg.uid)

CollectGarbage ==
    /\ \/ Orphaned(svc) /\ RemoveService
       \/ Orphaned(secret) /\ RemoveSecret
       \/ Orphaned(dep) /\ RemoveDeployment
    /\ UNCHANGED <<wg, creds, pod, cache, timer, pass, changes>>

\* A write to the Deployment, by whoever.
WriteDeployment(d) ==
    /\ dep' = d
    /\ stale' = IF d = dep THEN stale ELSE stale \union {"dep"}

\* Someone edits the template. (Bound: of a Deployment that the operator has taken over.)
EditDeployment ==
    /\ Interfere("edit") /\ dep.live /\ ~dep.rolling /\ dep.template # "edited"
    /\ WriteDeployment([dep EXCEPT !.template = "edited", !.observed = FALSE])
    /\ UNCHANGED <<wg, svc, secret, creds, pod, cache, queued, timer, pass>>

--------------------------------------------------------------------------------
(* The Deployment controller *)

clusterOnly == <<wg, svc, secret, creds, cache, queued, timer, pass>>

\* Recreate: the pod of a Deployment that is gone or has another template is stopped, and only
\* then is one of the new template started.
ReplacePod ==
    /\ \/ ~dep.live /\ pod # NoPod /\ pod' = NoPod
       \/ dep.live /\ pod.template # dep.template /\ pod' = [template |-> dep.template, ready |-> FALSE]
    /\ UNCHANGED <<clusterOnly, dep, stale, changes>>

PodReady ==
    /\ pod # NoPod /\ ~pod.ready /\ pod' = [pod EXCEPT !.ready = TRUE]
    /\ UNCHANGED <<clusterOnly, dep, stale, changes>>

PodUnready ==
    /\ Interfere("unready")
    /\ pod.ready /\ pod' = [pod EXCEPT !.ready = FALSE]
    /\ UNCHANGED <<clusterOnly, dep, stale>>

\* The controller's account of the pod, as of now.
accounted ==
    [dep EXCEPT !.observed = TRUE, !.updated = IF pod.template = dep.template THEN 1 ELSE 0,
                !.ready = IF pod.ready THEN {pod.template} ELSE {}]

SyncDeployment ==
    /\ dep.live /\ dep # accounted
    /\ WriteDeployment(accounted)
    /\ UNCHANGED <<clusterOnly, pod, changes>>

--------------------------------------------------------------------------------
(* Caches, work queue and restarts *)

\* A cache moves: the Wireguard's own events and those of the objects it owns enqueue it.
SyncCache(kind) ==
    /\ kind \in stale /\ stale' = stale \ {kind}
    /\ cwg' = IF kind = "wg" THEN wireguardCopy ELSE cwg
    /\ csecret' = IF kind = "secret" THEN secretCopy ELSE csecret
    /\ cdep' = IF kind = "dep" THEN deploymentCopy ELSE cdep
    /\ queued' = TRUE
    /\ UNCHANGED <<api, pod, timer, pass, changes>>

\* The minute of a RequeueAfter is over.
RequeueAfter ==
    /\ timer /\ timer' = FALSE /\ queued' = TRUE
    /\ UNCHANGED <<api, pod, cache, stale, pass, changes>>

\* The operator is restarted: it lists every kind before the first pass.
Restart ==
    /\ Interfere("restart")
    /\ cwg' = wireguardCopy /\ csecret' = secretCopy /\ cdep' = deploymentCopy
    /\ stale' = {}
    /\ queued' = (wg.live \/ svc.live \/ secret.live \/ dep.live) /\ timer' = FALSE
    /\ ClearPass
    /\ UNCHANGED <<api, pod>>

--------------------------------------------------------------------------------
(* The pass *)

degraded(reason) == [type |-> "Degraded", reason |-> reason]

\* The pass has a condition to record; "then" is what it returns afterwards.
Record(c, then) == pc' = "status" /\ cond' = c /\ result' = then

EndPass(returned) ==
    /\ timer' = (timer \/ returned = "timer")
    /\ queued' = (queued \/ returned = "retry")
    /\ ClearPass

\* Mutant: a spec problem is final.
specRecheckNever == "done"

\* A spec problem is looked at again in a minute.
specRecheck == "timer"

\* Reconcile fetches the Wireguard. One that is gone concerns its peers only; one without a
\* status gets one first, and the event of that write goes on; one whose spec cannot be
\* rendered is Degraded.
fetch ==
    /\ pc = "idle" /\ queued /\ queued' = FALSE
    /\ IF ~cwg.live THEN UNCHANGED pass
       ELSE /\ this' = cwg
            /\ seen' = IF cwg.started THEN creds ELSE seen
            /\ LET problem == specProblem(Content[cwg.spec], creds)
               IN  IF ~cwg.started
                   THEN Record([type |-> "Progressing", reason |-> "FetchingStatus"], "done")
                   ELSE IF problem # "" THEN Record(degraded(problem), specRecheck)
                   ELSE pc' = "service" /\ UNCHANGED <<cond, result>>
            /\ UNCHANGED <<endpoint, publicKey, applied>>
    /\ UNCHANGED <<api, pod, cache, stale, timer, changes>>

\* The Service is applied. The cluster gives a new one an address, which must be a local one.
applyService ==
    /\ pc = "service"
    /\ \E ip \in ClusterIPs :
        /\ svc.live => ip = svc.ip
        /\ svc' = [live |-> TRUE, owner |-> this.uid, ip |-> ip]
        /\ endpoint' = ip
        /\ IF clusterIPOutside(ip, Content[this.spec].localCIDRs)
           THEN Record(degraded("ClusterIPOutsideLocalCIDRs"), "timer")
           ELSE pc' = "secret" /\ UNCHANGED <<cond, result>>
    /\ queued' = (queued \/ svc' # svc)
    /\ UNCHANGED <<wg, secret, dep, creds, pod, cache, stale, timer, this, publicKey, applied, seen, changes>>

\* The peers are reconciled, and the Secret is compared through the cache. A changed one is
\* updated without a resourceVersion; the rest of the pass uses the key of the copy.
updateSecret ==
    /\ pc = "secret" /\ csecret.live
    /\ IF desiredState(csecret.spec) = desiredState(this.spec) THEN UNCHANGED <<secret, stale>>
       ELSE /\ secret.live
            /\ secret' = [live |-> TRUE, owner |-> this.uid, key |-> csecret.key, spec |-> this.spec]
            /\ stale' = stale \union {"secret"}
    /\ publicKey' = csecret.key
    /\ pc' = IF cdep.rolling THEN "strategy" ELSE IF cdep.legacy THEN "migrate" ELSE "deployment"
    /\ UNCHANGED <<wg, svc, dep, creds, pod, cache, queued, timer, this, cond, result, endpoint,
                   applied, seen, changes>>

\* A generated key: one that is not in use, nor known to anyone.
newKey == CHOOSE k \in KeyNumbers \ {0} : k \notin {csecret.key, wg.status.publicKey, publicKey}

\* A new Secret ends the pass: its event starts the one that goes on.
createSecret ==
    /\ pc = "secret" /\ ~csecret.live /\ ~secret.live
    /\ secret' = [live |-> TRUE, owner |-> this.uid, key |-> newKey, spec |-> this.spec]
    /\ stale' = stale \union {"secret"}
    /\ EndPass("done")
    /\ UNCHANGED <<wg, svc, dep, creds, pod, cache, changes>>

\* The cache and the API server disagree on whether the Secret exists: the request fails.
secretFails ==
    /\ pc = "secret"
    /\ \/ csecret.live /\ desiredState(csecret.spec) # desiredState(this.spec) /\ ~secret.live
       \/ ~csecret.live /\ secret.live
    /\ EndPass("retry")
    /\ UNCHANGED <<api, pod, cache, stale, changes>>

failDeployment == Record(degraded("DeploymentApplyFailed"), "retry")

deploymentStep == <<wg, svc, secret, creds, pod, cache, queued, timer, this, endpoint, publicKey, seen, changes>>

\* applyDeployment clears the rollingUpdate block that the cached Deployment shows.
clearRollingUpdate ==
    /\ pc = "strategy"
    /\ IF cdep.live /\ cdep.rolling
       THEN IF dep.live
            THEN /\ WriteDeployment(IF dep.rolling THEN [dep EXCEPT !.rolling = FALSE, !.observed = FALSE]
                                                  ELSE dep)
                 /\ pc' = "migrate" /\ UNCHANGED <<cond, result>>
            ELSE failDeployment /\ UNCHANGED <<dep, stale>>
       ELSE pc' = "migrate" /\ UNCHANGED <<dep, stale, cond, result>>
    /\ UNCHANGED <<deploymentStep, applied>>

\* applyOwned hands the legacy manager's fields to its own. The patch has the resourceVersion
\* of the cached copy.
migrateFields ==
    /\ pc = "migrate"
    /\ IF cdep.live /\ cdep.legacy
       THEN IF dep.live /\ "dep" \notin stale
            THEN WriteDeployment([dep EXCEPT !.legacy = FALSE]) /\ pc' = "deployment" /\ UNCHANGED <<cond, result>>
            ELSE failDeployment /\ UNCHANGED <<dep, stale>>
       ELSE pc' = "deployment" /\ UNCHANGED <<dep, stale, cond, result>>
    /\ UNCHANGED <<deploymentStep, applied>>

\* readyReplicas is 1.
oneReady(d) == \E template \in d.ready : d.ready = {template}

\* Mutant: a ready pod will do.
rolloutProblemOfReady(d) == ~d.observed \/ ~oneReady(d)

\* The Deployment has rolled out the spec it carries; spec.replicas is 1.
rolloutProblem(d) == ~d.observed \/ ~oneReady(d) \/ d.updated # 1

\* What the apply makes of the Deployment. A field that the legacy manager still has stays.
appliedDeployment(spec, owner) ==
    LET template == IF dep.legacy THEN "mixed" ELSE spec
    IN  IF dep.live
        THEN [dep EXCEPT !.owner = owner, !.template = template,
                         !.observed = @ /\ dep.template = template]
        ELSE [NoDeployment EXCEPT !.live = TRUE, !.owner = owner, !.template = spec]

\* The Deployment is applied; Recreate beside a rollingUpdate block is invalid. What the apply
\* returns decides the Ready condition. (The identity goes to the peers in between.)
applyDeployment ==
    /\ pc = "deployment"
    /\ IF dep.live /\ dep.rolling
       THEN failDeployment /\ UNCHANGED <<dep, stale, applied>>
       ELSE LET d == appliedDeployment(this.spec, this.uid)
            IN  /\ WriteDeployment(d) /\ applied' = d
                /\ Record([type |-> "Ready",
                           reason |-> IF rolloutProblem(d) THEN "DeploymentNotReady" ELSE "Active"], "done")
    /\ UNCHANGED deploymentStep

\* Mutant: Ready leaves Degraded as it is.
recordedKeepingDegraded(status, c, gen) ==
    CASE c.type = "Ready" ->
            [status EXCEPT !.summary = IF c.reason = "Active" THEN "Ready" ELSE "Pending",
                           !.ready = IF c.reason = "Active" THEN "True" ELSE "False", !.readyGen = gen,
                           !.endpoint = endpoint, !.publicKey = publicKey]
      [] c.type = "Degraded" ->
            [status EXCEPT !.summary = "Error", !.degraded = c.reason, !.degradedGen = gen]
      [] OTHER -> [status EXCEPT !.summary = "Pending"]

\* Mutant: every condition is taken for a Degraded one.
recordedDegraded(status, c, gen) ==
    [status EXCEPT !.summary = "Error", !.degraded = c.reason, !.degradedGen = gen]

\* The status that records c over an earlier one. Ready clears Degraded and sets the identity.
recorded(status, c, gen) ==
    CASE c.type = "Ready" ->
            [status EXCEPT !.summary = IF c.reason = "Active" THEN "Ready" ELSE "Pending",
                           !.ready = IF c.reason = "Active" THEN "True" ELSE "False", !.readyGen = gen,
                           !.degraded = "False", !.degradedGen = gen,
                           !.endpoint = endpoint, !.publicKey = publicKey]
      [] c.type = "Degraded" ->
            [status EXCEPT !.summary = "Error", !.degraded = c.reason, !.degradedGen = gen]
      [] OTHER -> [status EXCEPT !.summary = "Pending"]

\* updateStatus reads the Wireguard again from the cache and records the condition for the
\* generation the pass rendered. An update from an outdated copy is refused and dropped; one
\* that goes through was made from the status as it is.
updateStatus ==
    /\ pc = "status"
    /\ LET status == recorded(wg.status, cond, this.gen)
       IN  IF cwg.live /\ "wg" \notin stale /\ status # wg.status
           THEN wg' = [wg EXCEPT !.status = status] /\ stale' = stale \union {"wg"}
           ELSE UNCHANGED <<wg, stale>>
    /\ EndPass(result)
    /\ UNCHANGED <<svc, secret, dep, creds, pod, cache, changes>>

\* A request fails. Service and Deployment record it. After any other the pass just ends: one
\* for the peers, the Secret, the annotation of the gateway's pods that follows its update, or a
\* status, be it the one that would record a failure.
PassFails ==
    /\ Interfere("failure")
    /\ \/ /\ \/ pc = "service" /\ Record(degraded("ServiceApplyFailed"), "retry")
             \/ pc \in {"strategy", "migrate", "deployment"} /\ failDeployment
          /\ UNCHANGED <<queued, timer, this, endpoint, publicKey, applied, seen>>
       \/ pc # "idle" /\ EndPass("retry")
    /\ UNCHANGED <<api, pod, cache, stale>>

--------------------------------------------------------------------------------
(* Specification *)

Pass ==
    \/ fetch \/ applyService \/ updateSecret \/ createSecret \/ secretFails
    \/ clearRollingUpdate \/ migrateFields \/ applyDeployment \/ updateStatus

Users ==
    \/ EditSpec \/ ReplaceWireguard \/ EditCreds \/ DeleteObject \/ EditDeployment \/ PodUnready \/ Restart \/ PassFails

Cluster == CollectGarbage \/ ReplacePod \/ PodReady \/ SyncDeployment

Next == Pass \/ Users \/ Cluster \/ RequeueAfter \/ \E kind \in Kinds : SyncCache(kind)

\* The worker takes what is queued, events arrive, the timer goes off, and the controllers of
\* the cluster do their part; pods start. Users owe nothing.
Fairness ==
    /\ WF_vars(Pass \/ RequeueAfter) /\ WF_vars(Cluster)
    /\ WF_vars(SyncCache("wg")) /\ WF_vars(SyncCache("secret") \/ SyncCache("dep"))

Spec == Init /\ [][Next]_vars /\ Fairness

--------------------------------------------------------------------------------
(* Properties *)

\* A published summary of Ready for the current generation means that the Deployment
\* controller counted one ready pod, and that it runs the template rendered from the current
\* spec: neither an older pod, nor an older spec, nor a spec edited meanwhile is reported as
\* this one's. (A Wireguard recreated under the pass is reported by the next.)
ReadyMeansRolledOut ==
    [][wg'.status # wg.status /\ wg'.status.summary = "Ready" /\ wg'.status.readyGen = wg'.gen
            /\ this.uid = wg'.uid => applied.ready = {wg'.spec}]_wg

\* What is rendered keeps apart the addresses that are routed apart: the peers' pool, the local
\* ranges and the probe's address (specProblem), and the gateway is reached locally
\* (clusterIPOutside).
RenderedSound ==
    /\ dep.live /\ dep.template \in Specs =>
        LET spec == Content[dep.template]
            local == UNION {c.addresses : c \in spec.localCIDRs}
        IN  /\ spec.peerCIDR.addresses \intersect local = {}
            /\ ProbeAddress \notin spec.peerCIDR.addresses \union local
            /\ Cardinality(spec.peerCIDR.addresses) >= 4
    /\ pc \in {"secret", "strategy", "migrate", "deployment"} =>
        \E c \in Content[this.spec].localCIDRs : endpoint \in c.addresses

\* Nothing runs or is queued, no event is on its way, and the garbage collector is done.
Quiescent ==
    /\ pc = "idle" /\ ~queued /\ stale = {}
    /\ ~Orphaned(svc) /\ ~Orphaned(secret) /\ ~Orphaned(dep)

\* The objects and the status are what a pass that checked the given Secrets would make of the
\* Wireguard as it is.
UpToDate(secrets) ==
    LET problem == specProblem(Content[wg.spec], secrets)
        reports(summary, reason) ==
            /\ wg.status.summary = summary
            /\ wg.status.degraded = reason /\ wg.status.degradedGen = wg.gen
    IN  IF problem # "" THEN reports("Error", problem)
        ELSE /\ svc.live
             /\ IF clusterIPOutside(svc.ip, Content[wg.spec].localCIDRs)
                THEN reports("Error", "ClusterIPOutsideLocalCIDRs")
                ELSE /\ secret.live /\ desiredState(secret.spec) = desiredState(wg.spec)
                     /\ dep.live /\ dep.template = wg.spec /\ ~dep.rolling
                     /\ reports(IF rolloutProblem(dep) THEN "Pending" ELSE "Ready", "False")
                     /\ wg.status.readyGen = wg.gen
                     /\ wg.status.endpoint = svc.ip /\ wg.status.publicKey = secret.key

\* At rest the gateway's objects are there, carry nothing of a Wireguard of the same name that
\* is gone nor of the operator's predecessor, and the status reports them: every update that
\* was refused and dropped has been made good by a later pass (updateStatus).
QuiescentReported == Quiescent /\ wg.live => UpToDate(seen)

\* Once users and failures stop, the gateway comes to be and stays as the spec says, and ready
\* unless Degraded tells why not; a referenced Secret that was mended clears Degraded although
\* nothing watches it (the RequeueAfter of a spec problem).
Converges ==
    <>[](wg.live =>
        /\ UpToDate(seen)
        /\ wg.status.summary # "Pending"
        /\ specProblem(Content[wg.spec], seen) # "" => specProblem(Content[wg.spec], creds) # "")
================================================================================
