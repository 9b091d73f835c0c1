------------------------- MODULE GatewayStatus_proofs --------------------------
(***************************************************************************)
(* Proofs about the gateway's status: the types, that what is rendered is  *)
(* sound, that Ready is only published for a spec that has rolled out, and *)
(* that at rest the status reports what is.                                *)
(***************************************************************************)
EXTENDS GatewayStatus, TLAPS

--------------------------------------------------------------------------------
(* Types *)

LEMMA CopyTypes ==
    ASSUME TypeOK
    PROVE  wireguardCopy \in WireguardCopies /\ secretCopy \in SecretCopies /\ deploymentCopy \in DeploymentCopies
  <1>1. wireguardCopy \in WireguardCopies
    BY DEF TypeOK, wireguardCopy, WireguardCopies, Wireguards
  <1>2. secretCopy \in SecretCopies
    BY DEF TypeOK, secretCopy, SecretCopies, SecretObjects
  <1>3. deploymentCopy \in DeploymentCopies
    BY DEF TypeOK, deploymentCopy, DeploymentCopies, Deployments
  <1> QED
    BY <1>1, <1>2, <1>3

LEMMA NoneTypes ==
    ASSUME Specs # {}
    PROVE  /\ NoWireguard \in WireguardCopies /\ NoService \in Services /\ NoSecret \in SecretObjects
           /\ NoDeployment \in Deployments /\ NoCondition \in Conditions /\ NoPod \in Pods
           /\ NewStatus \in WireguardStatuses
  <1>1. SomeSpec \in Specs
    BY DEF SomeSpec
  <1>2. NoWireguard \in WireguardCopies
    BY <1>1 DEF NoWireguard, WireguardCopies
  <1>3. NoService \in Services
    BY DEF NoService, Services
  <1>4. NoSecret \in SecretObjects
    BY <1>1 DEF NoSecret, SecretObjects, KeyNumbers
  <1>5. NoDeployment \in Deployments
    BY DEF NoDeployment, Deployments, Templates
  <1>6. NoCondition \in Conditions /\ NoPod \in Pods
    BY DEF NoCondition, Conditions, Pods
  <1>7. NewStatus \in WireguardStatuses
    BY DEF NewStatus, WireguardStatuses, KeyNumbers
  <1> QED
    BY <1>2, <1>3, <1>4, <1>5, <1>6, <1>7

LEMMA ConditionTypes ==
    /\ \A reason \in DegradedReasons : degraded(reason) \in Conditions
    /\ \A c \in Conditions : \/ c.type = "Ready" /\ c.reason \in {"Active", "DeploymentNotReady"}
                             \/ c.type = "Degraded" /\ c.reason \in DegradedReasons
                             \/ c.type = "Progressing"
  BY DEF Conditions, degraded

LEMMA RecordedType ==
    ASSUME NEW status \in WireguardStatuses, NEW c \in Conditions, NEW gen \in Nat,
           endpoint \in ClusterIPs \union {0}, publicKey \in KeyNumbers
    PROVE  recorded(status, c, gen) \in WireguardStatuses
  <1>1. CASE c.type = "Ready"
    BY <1>1, Zenon DEF recorded, WireguardStatuses
  <1>2. CASE c.type = "Degraded"
    <2>1. c.reason \in DegradedReasons
      BY <1>2, ConditionTypes
    <2> QED
      BY <1>2, <2>1, Zenon DEF recorded, WireguardStatuses
  <1>3. CASE c.type = "Progressing"
    BY <1>3, Zenon DEF recorded, WireguardStatuses
  <1> QED
    BY <1>1, <1>2, <1>3, ConditionTypes

\* What recording a condition does to the summary and to the generation of Ready.
LEMMA RecordedReady ==
    ASSUME NEW status \in WireguardStatuses, NEW c \in Conditions, NEW gen,
           recorded(status, c, gen).summary = "Ready"
    PROVE  c.type = "Ready" /\ c.reason = "Active" /\ recorded(status, c, gen).readyGen = gen
  <1>1. CASE c.type = "Ready"
    BY <1>1, Zenon DEF recorded, WireguardStatuses
  <1>2. CASE c.type = "Degraded"
    BY <1>2, Zenon DEF recorded, WireguardStatuses
  <1>3. CASE c.type = "Progressing"
    BY <1>3, Zenon DEF recorded, WireguardStatuses
  <1> QED
    BY <1>1, <1>2, <1>3, ConditionTypes

\* The problem of a spec has a reason, and a spec without one is sound.
Renderable(s) ==
    LET spec == Content[s]
        local == UNION {c.addresses : c \in spec.localCIDRs}
    IN  /\ spec.peerCIDR.addresses \intersect local = {}
        /\ ProbeAddress \notin spec.peerCIDR.addresses \union local
        /\ Cardinality(spec.peerCIDR.addresses) >= 4

LEMMA ProblemReason ==
    ASSUME NEW spec, NEW secrets
    PROVE  specProblem(spec, secrets) \in InvalidReasons \union {""}
  BY DEF specProblem, InvalidReasons

LEMMA NoProblem ==
    ASSUME NEW s \in Specs, NEW secrets, specProblem(Content[s], secrets) = ""
    PROVE  Renderable(s)
  <1> DEFINE spec == Content[s]
             local == UNION {c.addresses : c \in spec.localCIDRs}
  <1>1. /\ validatePeerCIDR(spec.peerCIDR) /\ ~probeAddressInPeerCIDR(spec.peerCIDR)
        /\ ~peerCIDROverlap(spec.peerCIDR, spec.localCIDRs) /\ ~probeAddressInLocalCIDRs(spec.localCIDRs)
    BY DEF specProblem
  <1>2. Cardinality(spec.peerCIDR.addresses) >= 4
    BY <1>1, SpecsAssumption, Zenon DEF validatePeerCIDR, canonicalIPv4
  <1>3. ProbeAddress \notin spec.peerCIDR.addresses
    BY <1>1, Zenon DEF probeAddressInPeerCIDR, Contains
  <1>4. ProbeAddress \notin local
    BY <1>1, Zenon DEF probeAddressInLocalCIDRs, Contains
  <1>5. spec.peerCIDR.addresses \intersect local = {}
    BY <1>1, Zenon DEF peerCIDROverlap, Overlaps
  <1> QED
    BY <1>2, <1>3, <1>4, <1>5, Zenon DEF Renderable

--------------------------------------------------------------------------------
(* The type invariant, action by action *)

LEMMA SpecsNonempty == TypeOK => Specs # {}
  BY DEF TypeOK, Wireguards

LEMMA PassTypes ==
    ASSUME TypeOK
    PROVE  /\ ClearPass => /\ pc' \in {"idle", "service", "secret", "strategy", "migrate", "deployment", "status"}
                           /\ this' \in WireguardCopies /\ cond' \in Conditions
                           /\ result' \in {"done", "timer", "retry"} /\ endpoint' \in ClusterIPs \union {0}
                           /\ publicKey' \in KeyNumbers /\ applied' \in Deployments /\ seen' \in [Secrets -> Keys]
           /\ \A returned : EndPass(returned) => timer' \in BOOLEAN /\ queued' \in BOOLEAN
  <1>1. NoWireguard \in WireguardCopies /\ NoCondition \in Conditions /\ NoDeployment \in Deployments
    BY SpecsNonempty, NoneTypes
  <1>2. ClearPass => this' \in WireguardCopies /\ cond' \in Conditions /\ applied' \in Deployments
    BY <1>1 DEF ClearPass
  <1>3. ClearPass => /\ pc' \in {"idle", "service", "secret", "strategy", "migrate", "deployment", "status"}
                     /\ result' \in {"done", "timer", "retry"} /\ endpoint' \in ClusterIPs \union {0}
                     /\ publicKey' \in KeyNumbers /\ seen' \in [Secrets -> Keys]
    BY DEF ClearPass, KeyNumbers, TypeOK
  <1>4. \A returned : EndPass(returned) => timer' \in BOOLEAN /\ queued' \in BOOLEAN
    BY DEF EndPass
  <1> QED
    BY <1>2, <1>3, <1>4

\* The Deployment as each of its writers leaves it.
LEMMA DeploymentTypes ==
    ASSUME TypeOK
    PROVE  /\ [dep EXCEPT !.template = "edited", !.observed = FALSE] \in Deployments
           /\ [dep EXCEPT !.rolling = FALSE, !.observed = FALSE] \in Deployments
           /\ [dep EXCEPT !.legacy = FALSE] \in Deployments
           /\ accounted \in Deployments
           /\ \A spec \in Specs, owner \in Nat : appliedDeployment(spec, owner) \in Deployments
  <1>1. dep \in Deployments /\ pod \in Pods
    BY DEF TypeOK
  <1>2. [dep EXCEPT !.template = "edited", !.observed = FALSE] \in Deployments
    BY <1>1, Zenon DEF Deployments, Templates
  <1>3. [dep EXCEPT !.rolling = FALSE, !.observed = FALSE] \in Deployments
    BY <1>1, Zenon DEF Deployments
  <1>4. [dep EXCEPT !.legacy = FALSE] \in Deployments
    BY <1>1, Zenon DEF Deployments
  <1>5. accounted \in Deployments
    <2>1. pod.ready => pod.template \in Templates
      BY <1>1 DEF Pods, NoPod
    <2>2. (IF pod.ready THEN {pod.template} ELSE {}) \in SUBSET Templates
      BY <2>1
    <2>3. (IF pod.template = dep.template THEN 1 ELSE 0) \in 0..1
      OBVIOUS
    <2> QED
      BY <1>1, <2>2, <2>3, Zenon DEF accounted, Deployments
  <1>6. ASSUME NEW spec \in Specs, NEW owner \in Nat PROVE appliedDeployment(spec, owner) \in Deployments
    <2>1. NoDeployment \in Deployments
      BY NoneTypes
    <2>2. spec \in Templates /\ "mixed" \in Templates
      BY DEF Templates
    <2>3. CASE dep.live
      BY <1>1, <2>2, <2>3, Zenon DEF appliedDeployment, Deployments
    <2>4. CASE ~dep.live
      <3>1. appliedDeployment(spec, owner) = [NoDeployment EXCEPT !.live = TRUE, !.owner = owner, !.template = spec]
        BY <2>4 DEF appliedDeployment
      <3> QED
        BY <3>1, <2>1, <2>2, Zenon DEF Deployments
    <2> QED
      BY <2>3, <2>4
  <1> QED
    BY <1>2, <1>3, <1>4, <1>5, <1>6

LEMMA WriteType ==
    ASSUME TypeOK, NEW d \in Deployments, WriteDeployment(d)
    PROVE  dep' \in Deployments /\ stale' \subseteq Kinds
  BY DEF WriteDeployment, TypeOK, Kinds

LEMMA RemoveTypes ==
    ASSUME TypeOK, RemoveService \/ RemoveSecret \/ RemoveDeployment
    PROVE  svc' \in Services /\ secret' \in SecretObjects /\ dep' \in Deployments /\ stale' \subseteq Kinds /\ queued' \in BOOLEAN
  BY NoneTypes, SpecsNonempty, Zenon DEF RemoveService, RemoveSecret, RemoveDeployment, TypeOK, Kinds

LEMMA InitType == Init => TypeOK
  <1> SUFFICES ASSUME Init PROVE TypeOK
    OBVIOUS
  <1>1. PICK s \in InitialSpecs : wg = [live |-> TRUE, uid |-> 1, gen |-> 1, spec |-> s, status |-> NewStatus]
    BY Zenon DEF Init
  <1>2. s \in Specs /\ Specs # {}
    BY NamesAssumption
  <1>3. wg \in Wireguards
    BY <1>1, <1>2, NoneTypes DEF Wireguards
  <1>4. svc \in Services /\ secret \in SecretObjects /\ applied \in Deployments
    BY <1>2, NoneTypes DEF Init, NoPass
  <1>5. dep \in Deployments
    <2>1. CASE dep = NoDeployment
      BY <1>2, <2>1, NoneTypes
    <2>2. CASE dep # NoDeployment
      <3>1. dep = [live |-> TRUE, owner |-> 1, template |-> "legacy", rolling |-> TRUE, legacy |-> TRUE,
                   observed |-> TRUE, updated |-> 1, ready |-> {"legacy"}]
        BY <2>2 DEF Init
      <3> QED
        BY <3>1 DEF Deployments, Templates
    <2> QED
      BY <2>1, <2>2
  <1>6. cwg \in WireguardCopies
    BY <1>3, Zenon DEF Init, wireguardCopy, WireguardCopies, Wireguards
  <1>7. csecret \in SecretCopies
    BY <1>4 DEF Init, secretCopy, SecretCopies, SecretObjects
  <1>8. cdep \in DeploymentCopies
    BY <1>5 DEF Init, deploymentCopy, DeploymentCopies, Deployments
  <1>9. this \in WireguardCopies /\ cond \in Conditions
    BY <1>2, NoneTypes DEF Init, NoPass
  <1>10. pod \in Pods
    BY DEF Init, Pods, Templates
  <1>11. creds \in [Secrets -> Keys] /\ seen \in [Secrets -> Keys]
    BY DEF Init
  <1>12. changes \in 0 .. MaxChanges
    BY BoundAssumption DEF Init
  <1>13. /\ stale \subseteq Kinds /\ queued \in BOOLEAN /\ timer \in BOOLEAN
         /\ pc = "idle" /\ result = "done" /\ endpoint \in ClusterIPs \union {0} /\ publicKey \in KeyNumbers
    <2>1. stale = {} /\ queued = TRUE /\ timer = FALSE
      BY DEF Init
    <2>2. pc = "idle" /\ result = "done" /\ endpoint = 0 /\ publicKey = 0
      BY DEF Init, NoPass
    <2>3. publicKey \in KeyNumbers /\ endpoint \in ClusterIPs \union {0}
      BY <2>2 DEF KeyNumbers
    <2>4. stale \subseteq Kinds /\ queued \in BOOLEAN /\ timer \in BOOLEAN
      BY <2>1, Zenon
    <2> QED
      BY <2>2, <2>3, <2>4
  <1> QED
    BY <1>3, <1>4, <1>5, <1>6, <1>7, <1>8, <1>9, <1>10, <1>11, <1>12, <1>13 DEF TypeOK

LEMMA InterfereType ==
    ASSUME TypeOK, NEW kind, Interfere(kind)
    PROVE  changes' \in 0 .. MaxChanges
  BY BoundAssumption DEF Interfere, TypeOK

LEMMA UserType ==
    ASSUME TypeOK, Users
    PROVE  TypeOK'
  <1>1. CASE EditSpec
    <2>1. wg' \in Wireguards
      <3>1. PICK s \in Specs : wg' = [wg EXCEPT !.spec = s, !.gen = @ + 1]
        BY <1>1, Zenon DEF EditSpec
      <3>2. wg \in Wireguards
        BY DEF TypeOK
      <3>3. wg.gen + 1 \in Nat
        BY <3>2 DEF Wireguards
      <3>4. wg' = [wg EXCEPT !.spec = s, !.gen = wg.gen + 1]
        BY <3>1
      <3> QED
        BY <3>2, <3>3, <3>4, Zenon DEF Wireguards
    <2>2. changes' \in 0 .. MaxChanges /\ stale' \subseteq Kinds
      BY <1>1, InterfereType DEF EditSpec, TypeOK, Kinds
    <2> QED
      BY <1>1, <2>1, <2>2 DEF EditSpec, TypeOK, cache, pass
  <1>2. CASE ReplaceWireguard
    <2>1. wg' \in Wireguards
      <3>1. CASE wg' = [wg EXCEPT !.live = FALSE]
        BY <3>1, Zenon DEF TypeOK, Wireguards
      <3>2. CASE wg' # [wg EXCEPT !.live = FALSE]
        <4>1. PICK s \in InitialSpecs : wg' = [live |-> TRUE, uid |-> wg.uid + 1, gen |-> 1, spec |-> s, status |-> NewStatus]
          BY <1>2, <3>2 DEF ReplaceWireguard
        <4>2. s \in Specs /\ NewStatus \in WireguardStatuses /\ wg.uid \in Nat
          BY NamesAssumption, NoneTypes DEF TypeOK, Wireguards
        <4> QED
          BY <4>1, <4>2 DEF Wireguards
      <3> QED
        BY <3>1, <3>2
    <2>2. changes' \in 0 .. MaxChanges /\ stale' \subseteq Kinds
      BY <1>2, InterfereType DEF ReplaceWireguard, TypeOK, Kinds
    <2> QED
      BY <1>2, <2>1, <2>2 DEF ReplaceWireguard, TypeOK, cache, pass
  <1>3. CASE EditCreds
    <2>1. creds' \in [Secrets -> Keys]
      BY <1>3 DEF EditCreds, TypeOK
    <2>2. changes' \in 0 .. MaxChanges
      BY <1>3, InterfereType DEF EditCreds
    <2> QED
      BY <1>3, <2>1, <2>2 DEF EditCreds, TypeOK, cache, pass
  <1>4. CASE DeleteObject
    <2>1. svc' \in Services /\ secret' \in SecretObjects /\ dep' \in Deployments /\ stale' \subseteq Kinds /\ queued' \in BOOLEAN
      BY <1>4, RemoveTypes DEF DeleteObject
    <2>2. changes' \in 0 .. MaxChanges
      BY <1>4, InterfereType DEF DeleteObject
    <2> QED
      BY <1>4, <2>1, <2>2 DEF DeleteObject, TypeOK, cache, pass
  <1>5. CASE EditDeployment
    <2>1. dep' \in Deployments /\ stale' \subseteq Kinds
      BY <1>5, DeploymentTypes, WriteType DEF EditDeployment
    <2>2. changes' \in 0 .. MaxChanges
      BY <1>5, InterfereType DEF EditDeployment
    <2> QED
      BY <1>5, <2>1, <2>2 DEF EditDeployment, TypeOK, cache, pass
  <1>6. CASE PodUnready
    <2>1. pod' \in Pods
      <3>1. pod \in [template: Templates, ready: BOOLEAN]
        BY <1>6 DEF PodUnready, TypeOK, Pods, NoPod
      <3>2. pod' = [pod EXCEPT !.ready = FALSE]
        BY <1>6 DEF PodUnready
      <3> QED
        BY <3>1, <3>2, Zenon DEF Pods
    <2>2. changes' \in 0 .. MaxChanges
      BY <1>6, InterfereType DEF PodUnready
    <2> QED
      BY <1>6, <2>1, <2>2 DEF PodUnready, TypeOK, clusterOnly, cache, pass
  <1>7. CASE Restart
    <2>1. cwg' \in WireguardCopies /\ csecret' \in SecretCopies /\ cdep' \in DeploymentCopies
      BY <1>7, CopyTypes DEF Restart
    <2>2. changes' \in 0 .. MaxChanges
      BY <1>7, InterfereType DEF Restart
    <2>3. stale' \subseteq Kinds /\ queued' \in BOOLEAN /\ timer' \in BOOLEAN
      BY <1>7, Zenon DEF Restart
    <2>4. ClearPass
      BY <1>7 DEF Restart
    <2>5. UNCHANGED <<wg, svc, secret, dep, creds, pod>>
      BY <1>7 DEF Restart, api
    <2> QED
      BY <2>1, <2>2, <2>3, <2>4, <2>5, PassTypes DEF TypeOK
  <1>8. CASE PassFails
    <2>1. changes' \in 0 .. MaxChanges
      BY <1>8, InterfereType DEF PassFails
    <2>2. UNCHANGED <<wg, svc, secret, dep, creds, pod, cwg, csecret, cdep, stale>>
      BY <1>8 DEF PassFails, api, cache
    <2>3. CASE EndPass("retry")
      <3>1. ClearPass
        BY <2>3 DEF EndPass
      <3> QED
        BY <2>1, <2>2, <2>3, <3>1, PassTypes DEF TypeOK
    <2>4. CASE ~EndPass("retry")
      <3>1. UNCHANGED <<queued, timer, this, endpoint, publicKey, applied, seen>>
        BY <1>8, <2>4 DEF PassFails
      <3>2. \E reason \in ApplyReasons : Record(degraded(reason), "retry")
        BY <1>8, <2>4 DEF PassFails, failDeployment, ApplyReasons
      <3>3. pc' = "status" /\ cond' \in Conditions /\ result' = "retry"
        BY <3>2, ConditionTypes DEF Record, DegradedReasons
      <3> QED
        BY <2>1, <2>2, <3>1, <3>3 DEF TypeOK
    <2> QED
      BY <2>3, <2>4
  <1> QED
    BY <1>1, <1>2, <1>3, <1>4, <1>5, <1>6, <1>7, <1>8 DEF Users

LEMMA ClusterType ==
    ASSUME TypeOK, Cluster
    PROVE  TypeOK'
  <1>1. CASE CollectGarbage
    <2>1. svc' \in Services /\ secret' \in SecretObjects /\ dep' \in Deployments /\ stale' \subseteq Kinds /\ queued' \in BOOLEAN
      BY <1>1, RemoveTypes DEF CollectGarbage
    <2> QED
      BY <1>1, <2>1 DEF CollectGarbage, TypeOK, cache, pass
  <1>2. CASE ReplacePod
    <2>1. pod' \in Pods
      <3>1. dep.template \in Templates
        BY DEF TypeOK, Deployments
      <3>2. pod' = NoPod \/ pod' = [template |-> dep.template, ready |-> FALSE]
        BY <1>2 DEF ReplacePod
      <3>3. [template |-> dep.template, ready |-> FALSE] \in [template: Templates, ready: BOOLEAN]
        BY <3>1
      <3> QED
        BY <3>2, <3>3, Zenon DEF Pods
    <2> QED
      BY <1>2, <2>1 DEF ReplacePod, TypeOK, clusterOnly, cache, pass
  <1>3. CASE PodReady
    <2>1. pod' \in Pods
      <3>1. pod \in [template: Templates, ready: BOOLEAN]
        BY <1>3 DEF PodReady, TypeOK, Pods
      <3>2. pod' = [pod EXCEPT !.ready = TRUE]
        BY <1>3 DEF PodReady
      <3> QED
        BY <3>1, <3>2, Zenon DEF Pods
    <2> QED
      BY <1>3, <2>1 DEF PodReady, TypeOK, clusterOnly, cache, pass
  <1>4. CASE SyncDeployment
    <2>1. dep' \in Deployments /\ stale' \subseteq Kinds
      BY <1>4, DeploymentTypes, WriteType DEF SyncDeployment
    <2> QED
      BY <1>4, <2>1 DEF SyncDeployment, TypeOK, clusterOnly, cache, pass
  <1> QED
    BY <1>1, <1>2, <1>3, <1>4 DEF Cluster

LEMMA CacheType ==
    ASSUME TypeOK, RequeueAfter \/ \E kind \in Kinds : SyncCache(kind)
    PROVE  TypeOK'
  <1>1. CASE RequeueAfter
    BY <1>1, Zenon DEF RequeueAfter, TypeOK, api, cache, pass
  <1>2. ASSUME NEW kind \in Kinds, SyncCache(kind) PROVE TypeOK'
    <2>1. cwg' \in WireguardCopies /\ csecret' \in SecretCopies /\ cdep' \in DeploymentCopies
      BY <1>2, CopyTypes DEF SyncCache, TypeOK
    <2>2. stale' \subseteq Kinds /\ queued' \in BOOLEAN
      BY <1>2 DEF SyncCache, TypeOK
    <2> QED
      BY <1>2, <2>1, <2>2 DEF SyncCache, TypeOK, api, pass
  <1> QED
    BY <1>1, <1>2

\* newKey finds a number that none of the three uses.
LEMMA NewKeyType ==
    ASSUME TypeOK
    PROVE  newKey \in KeyNumbers
  <1>1. csecret.key \in 0..4 /\ wg.status.publicKey \in 0..4 /\ publicKey \in 0..4
    BY Zenon DEF TypeOK, SecretCopies, Wireguards, WireguardStatuses, KeyNumbers
  <1>2. \E k \in KeyNumbers \ {0} : k \notin {csecret.key, wg.status.publicKey, publicKey}
    BY <1>1 DEF KeyNumbers
  <1> QED
    BY <1>2 DEF newKey

LEMMA FetchType ==
    ASSUME TypeOK, fetch
    PROVE  TypeOK'
  <1>1. UNCHANGED <<wg, svc, secret, dep, creds, pod, cwg, csecret, cdep, stale, timer, changes>> /\ queued' = FALSE
    BY Zenon DEF fetch, api, cache
  <1>2. CASE ~cwg.live
    <2>1. UNCHANGED pass
      BY <1>2 DEF fetch
    <2> QED
      BY <1>1, <2>1, Zenon DEF TypeOK, pass
  <1>3. CASE cwg.live
    <2>1. this' \in WireguardCopies /\ seen' \in [Secrets -> Keys] /\ UNCHANGED <<endpoint, publicKey, applied>>
      BY <1>3, Zenon DEF fetch, TypeOK
    <2>2. PICK problem : problem = specProblem(Content[cwg.spec], creds)
      OBVIOUS
    <2>3. problem \in InvalidReasons \union {""}
      BY <2>2, ProblemReason, Zenon
    <2>4. \/ Record(NoCondition, "done")
          \/ problem # "" /\ Record(degraded(problem), specRecheck)
          \/ pc' = "service" /\ UNCHANGED <<cond, result>>
      BY <1>3, <2>2, Zenon DEF fetch, NoCondition
    <2>5. NoCondition \in Conditions /\ (problem # "" => degraded(problem) \in Conditions)
      BY <2>3, ConditionTypes, Zenon DEF DegradedReasons, NoCondition, Conditions
    <2>6. /\ pc' \in {"service", "status"} /\ cond' \in Conditions
          /\ result' \in {"done", "timer", "retry"}
      BY <2>4, <2>5, Zenon DEF Record, specRecheck, TypeOK
    <2> QED
      BY <1>1, <2>1, <2>6, Zenon DEF TypeOK
  <1> QED
    BY <1>2, <1>3

LEMMA ServiceType ==
    ASSUME TypeOK, applyService
    PROVE  TypeOK'
  <1>1. UNCHANGED <<wg, secret, dep, creds, pod, cwg, csecret, cdep, stale, timer, this, publicKey, applied, seen, changes>>
    BY DEF applyService, cache
  <1>2. PICK ip \in ClusterIPs :
            /\ svc' = [live |-> TRUE, owner |-> this.uid, ip |-> ip] /\ endpoint' = ip
            /\ \/ Record(degraded("ClusterIPOutsideLocalCIDRs"), "timer")
               \/ pc' = "secret" /\ UNCHANGED <<cond, result>>
    BY Zenon DEF applyService
  <1>3. this.uid \in Nat
    BY DEF TypeOK, WireguardCopies
  <1>4. svc' \in Services /\ endpoint' \in ClusterIPs \union {0}
    BY <1>2, <1>3 DEF Services
  <1>5. degraded("ClusterIPOutsideLocalCIDRs") \in Conditions
    BY ConditionTypes DEF DegradedReasons
  <1>6. pc' \in {"secret", "status"} /\ cond' \in Conditions /\ result' \in {"done", "timer", "retry"}
    BY <1>2, <1>5 DEF Record, TypeOK
  <1>7. queued' \in BOOLEAN
    BY DEF applyService
  <1> QED
    BY <1>1, <1>4, <1>6, <1>7 DEF TypeOK

LEMMA SecretType ==
    ASSUME TypeOK, updateSecret \/ createSecret \/ secretFails
    PROVE  TypeOK'
  <1>1. this.uid \in Nat /\ this.spec \in Specs /\ csecret.key \in KeyNumbers
    BY DEF TypeOK, WireguardCopies, SecretCopies
  <1>2. CASE updateSecret
    <2>1. secret' \in SecretObjects
      <3>1. secret' = secret \/ secret' = [live |-> TRUE, owner |-> this.uid, key |-> csecret.key, spec |-> this.spec]
        BY <1>2, Zenon DEF updateSecret
      <3>2. [live |-> TRUE, owner |-> this.uid, key |-> csecret.key, spec |-> this.spec] \in SecretObjects
        BY <1>1 DEF SecretObjects
      <3> QED
        BY <3>1, <3>2, Zenon DEF TypeOK
    <2>2. stale' \subseteq Kinds
      BY <1>2, Zenon DEF updateSecret, TypeOK, Kinds
    <2>3. publicKey' \in KeyNumbers
      BY <1>1, <1>2, Zenon DEF updateSecret
    <2>4. pc' \in {"strategy", "migrate", "deployment"}
      BY <1>2 DEF updateSecret
    <2> QED
      BY <1>2, <2>1, <2>2, <2>3, <2>4 DEF updateSecret, TypeOK, cache
  <1>3. CASE createSecret
    <2>1. secret' \in SecretObjects
      BY <1>1, <1>3, NewKeyType, Zenon DEF createSecret, SecretObjects
    <2>2. stale' \subseteq Kinds
      BY <1>3 DEF createSecret, TypeOK, Kinds
    <2>3. EndPass("done") /\ ClearPass
      BY <1>3 DEF createSecret, EndPass
    <2>4. UNCHANGED <<wg, svc, dep, creds, pod, cwg, csecret, cdep, changes>>
      BY <1>3 DEF createSecret, cache
    <2> QED
      BY <2>1, <2>2, <2>3, <2>4, PassTypes DEF TypeOK
  <1>4. CASE secretFails
    <2>1. EndPass("retry") /\ ClearPass
      BY <1>4 DEF secretFails, EndPass
    <2>2. UNCHANGED <<wg, svc, secret, dep, creds, pod, cwg, csecret, cdep, stale, changes>>
      BY <1>4, Zenon DEF secretFails, api, cache
    <2> QED
      BY <2>1, <2>2, PassTypes DEF TypeOK
  <1> QED
    BY <1>2, <1>3, <1>4

\* What the three steps on the Deployment do to the pass.
LEMMA DeploymentPass ==
    ASSUME TypeOK, clearRollingUpdate \/ migrateFields
    PROVE  /\ UNCHANGED <<wg, svc, secret, creds, pod, cwg, csecret, cdep, queued, timer, this, endpoint, publicKey, applied, seen, changes>>
           /\ \/ failDeployment /\ UNCHANGED <<dep, stale>>
              \/ /\ clearRollingUpdate /\ pc' = "migrate" /\ UNCHANGED <<cond, result>>
                 /\ \/ UNCHANGED <<dep, stale>>
                    \/ dep.rolling /\ WriteDeployment([dep EXCEPT !.rolling = FALSE, !.observed = FALSE])
              \/ /\ migrateFields /\ pc' = "deployment" /\ UNCHANGED <<cond, result>>
                 /\ \/ UNCHANGED <<dep, stale>> /\ ~(cdep.live /\ cdep.legacy)
                    \/ WriteDeployment([dep EXCEPT !.legacy = FALSE])
  <1>1. CASE clearRollingUpdate
    <2>1. WriteDeployment(dep) => UNCHANGED <<dep, stale>>
      BY DEF WriteDeployment
    <2> QED
      BY <1>1, <2>1 DEF clearRollingUpdate, deploymentStep, cache
  <1>2. CASE migrateFields
    BY <1>2 DEF migrateFields, deploymentStep, cache
  <1> QED
    BY <1>1, <1>2

LEMMA FailType ==
    ASSUME failDeployment
    PROVE  pc' = "status" /\ cond' = degraded("DeploymentApplyFailed") /\ cond' \in Conditions /\ result' = "retry"
  <1>1. degraded("DeploymentApplyFailed") \in Conditions
    BY ConditionTypes DEF DegradedReasons, ApplyReasons
  <1> QED
    BY <1>1 DEF failDeployment, Record

\* The apply: it fails, or returns what it wrote and the condition follows from that.
LEMMA ApplyPass ==
    ASSUME TypeOK, applyDeployment
    PROVE  /\ UNCHANGED <<wg, svc, secret, creds, pod, cwg, csecret, cdep, queued, timer, this, endpoint, publicKey, seen, changes>>
           /\ \/ failDeployment /\ UNCHANGED <<dep, stale, applied>>
              \/ /\ WriteDeployment(appliedDeployment(this.spec, this.uid))
                 /\ applied' = appliedDeployment(this.spec, this.uid)
                 /\ cond'.type = "Ready" /\ cond'.reason = IF rolloutProblem(applied') THEN "DeploymentNotReady" ELSE "Active"
                 /\ cond' \in Conditions /\ pc' = "status" /\ result' = "done"
  <1>1. UNCHANGED <<wg, svc, secret, creds, pod, cwg, csecret, cdep, queued, timer, this, endpoint, publicKey, seen, changes>>
    BY DEF applyDeployment, deploymentStep, cache
  <1>2. CASE dep.live /\ dep.rolling
    BY <1>1, <1>2 DEF applyDeployment
  <1>3. CASE ~(dep.live /\ dep.rolling)
    <2>1. PICK d : d = appliedDeployment(this.spec, this.uid)
      OBVIOUS
    <2>2. PICK c : c = [type |-> "Ready", reason |-> IF rolloutProblem(d) THEN "DeploymentNotReady" ELSE "Active"]
      BY Zenon
    <2>3. WriteDeployment(d) /\ applied' = d /\ Record(c, "done")
      BY <1>3, <2>1, <2>2 DEF applyDeployment
    <2>4. c \in Conditions /\ c.type = "Ready" /\ c.reason = IF rolloutProblem(d) THEN "DeploymentNotReady" ELSE "Active"
      <3>1. CASE rolloutProblem(d)
        BY <2>2, <3>1 DEF Conditions
      <3>2. CASE ~rolloutProblem(d)
        BY <2>2, <3>2 DEF Conditions
      <3> QED
        BY <3>1, <3>2
    <2>5. pc' = "status" /\ cond' = c /\ result' = "done"
      BY <2>3 DEF Record
    <2> QED
      BY <1>1, <2>1, <2>3, <2>4, <2>5
  <1> QED
    BY <1>2, <1>3

LEMMA DeploymentType ==
    ASSUME TypeOK, clearRollingUpdate \/ migrateFields \/ applyDeployment
    PROVE  TypeOK'
  <1>1. dep' \in Deployments /\ stale' \subseteq Kinds
    <2>1. \/ UNCHANGED <<dep, stale>>
          \/ WriteDeployment([dep EXCEPT !.rolling = FALSE, !.observed = FALSE])
          \/ WriteDeployment([dep EXCEPT !.legacy = FALSE])
          \/ WriteDeployment(appliedDeployment(this.spec, this.uid))
      BY DeploymentPass, ApplyPass
    <2>2. appliedDeployment(this.spec, this.uid) \in Deployments
      BY DeploymentTypes DEF TypeOK, WireguardCopies
    <2> QED
      BY <2>1, <2>2, DeploymentTypes, WriteType DEF TypeOK
  <1>2. applied' \in Deployments
    <2>1. this.spec \in Specs /\ this.uid \in Nat /\ applied \in Deployments
      BY DEF TypeOK, WireguardCopies
    <2>2. UNCHANGED applied \/ applied' = appliedDeployment(this.spec, this.uid)
      BY DeploymentPass, ApplyPass
    <2> QED
      BY <2>1, <2>2, DeploymentTypes
  <1>3. pc' \in {"migrate", "deployment", "status"} /\ cond' \in Conditions /\ result' \in {"done", "timer", "retry"}
    BY DeploymentPass, ApplyPass, FailType DEF TypeOK
  <1>4. UNCHANGED <<wg, svc, secret, creds, pod, cwg, csecret, cdep, queued, timer, this, endpoint, publicKey, seen, changes>>
    BY DeploymentPass, ApplyPass
  <1> QED
    BY <1>1, <1>2, <1>3, <1>4 DEF TypeOK

\* The status update, in constants: it is refused or it records the pass's condition.
LEMMA StatusPass ==
    ASSUME TypeOK, updateStatus
    PROVE  /\ \/ UNCHANGED <<wg, stale>>
              \/ /\ wg' = [wg EXCEPT !.status = recorded(wg.status, cond, this.gen)]
                 /\ stale' = stale \union {"wg"}
           /\ EndPass(result) /\ ClearPass
           /\ UNCHANGED <<svc, secret, dep, creds, pod, cwg, csecret, cdep, changes>>
  BY DEF updateStatus, EndPass, cache

LEMMA StatusType ==
    ASSUME TypeOK, updateStatus
    PROVE  TypeOK'
  <1>1. wg \in Wireguards /\ wg.status \in WireguardStatuses /\ this.gen \in Nat
    BY DEF TypeOK, Wireguards, WireguardCopies
  <1>2. PICK status : status = recorded(wg.status, cond, this.gen)
    OBVIOUS
  <1>3. status \in WireguardStatuses
    BY <1>1, <1>2, RecordedType DEF TypeOK
  <1>4. [wg EXCEPT !.status = status] \in Wireguards
    BY <1>1, <1>3 DEF Wireguards
  <1>5. wg' \in Wireguards
    BY <1>1, <1>2, <1>4, StatusPass
  <1>6. stale' \subseteq Kinds
    BY StatusPass DEF TypeOK, Kinds
  <1> QED
    BY <1>5, <1>6, StatusPass, PassTypes DEF TypeOK

LEMMA StepType == TypeOK /\ [Next]_vars => TypeOK'
  <1> SUFFICES ASSUME TypeOK, [Next]_vars PROVE TypeOK'
    OBVIOUS
  <1>1. CASE UNCHANGED vars
    BY <1>1 DEF vars, TypeOK, api, cache, pass
  <1>2. CASE Pass
    BY <1>2, FetchType, ServiceType, SecretType, DeploymentType, StatusType DEF Pass
  <1> QED
    BY <1>1, <1>2, UserType, ClusterType, CacheType DEF Next

\* Every variable keeps its type (wireguard_controller.go's objects, copies and pass).
THEOREM TypeCorrect == Spec => []TypeOK
  BY InitType, StepType, PTL DEF Spec

--------------------------------------------------------------------------------
(* The inductive invariant. Copies of the Wireguard are of an earlier one, or *)
(* of this one at a generation that fixes the spec; a Deployment's account of *)
(* its pod that is up to date names the template; the legacy manager's fields *)
(* are seen by the cache until they are migrated; what a pass renders was     *)
(* checked.                                                                   *)

Earlier(c) ==
    /\ c.uid <= wg.uid
    /\ c.uid = wg.uid => c.gen <= wg.gen /\ (c.gen = wg.gen => c.spec = wg.spec)

CopiesOK == wg.uid > 0 /\ Earlier(cwg) /\ Earlier(this)

AccountOK(d) == d.live /\ d.observed /\ d.updated = 1 /\ d.ready # {} => d.ready = {d.template}

LegacySeen == dep.legacy => dep.live /\ cdep.live /\ cdep.legacy

PassOK ==
    /\ pc = "deployment" => ~dep.legacy
    /\ pc = "status" /\ cond.type = "Ready" /\ cond.reason = "Active" => applied.ready = {this.spec}

RenderOK ==
    /\ dep.live /\ dep.template \in Specs => Renderable(dep.template)
    /\ pc \in {"service", "secret", "strategy", "migrate", "deployment"} => Renderable(this.spec)
    /\ pc \in {"secret", "strategy", "migrate", "deployment"} =>
        \E c \in Content[this.spec].localCIDRs : endpoint \in c.addresses

DeployOK == AccountOK(dep) /\ LegacySeen /\ PassOK /\ RenderOK

GatewayInv == TypeOK /\ CopiesOK /\ DeployOK

\* The Wireguard only gets newer.
LEMMA CopiesStep == TypeOK /\ TypeOK' /\ CopiesOK /\ [Next]_vars => CopiesOK'
  <1> SUFFICES ASSUME TypeOK, TypeOK', CopiesOK, [Next]_vars PROVE CopiesOK'
    OBVIOUS
  <1>1. /\ wg.uid \in Nat /\ wg.gen \in Nat /\ cwg.uid \in Nat /\ cwg.gen \in Nat /\ this.uid \in Nat /\ this.gen \in Nat
        /\ wg'.uid \in Nat /\ wg'.gen \in Nat
    BY DEF TypeOK, Wireguards, WireguardCopies
  <1>2. \/ UNCHANGED <<wg.uid, wg.gen, wg.spec>>
        \/ wg'.uid = wg.uid /\ wg'.gen = wg.gen + 1 /\ UNCHANGED <<cwg, this>>
        \/ wg'.uid = wg.uid + 1 /\ UNCHANGED <<cwg, this>>
    <2>1. wg \in Wireguards
      BY DEF TypeOK
    <2>2. CASE EditSpec
      BY <2>1, <2>2 DEF EditSpec, Wireguards, cache, pass
    <2>3. CASE ReplaceWireguard
      BY <2>1, <2>3 DEF ReplaceWireguard, Wireguards, cache, pass
    <2>4. CASE updateStatus
      <3>1. UNCHANGED wg \/ wg' = [wg EXCEPT !.status = recorded(wg.status, cond, this.gen)]
        BY <2>4, StatusPass
      <3> QED
        BY <2>1, <3>1 DEF Wireguards
    <2>5. CASE ~(EditSpec \/ ReplaceWireguard \/ updateStatus)
      <3>1. CASE Pass
        BY <2>5, <3>1, DeploymentPass, ApplyPass, Zenon DEF Pass, fetch, applyService, updateSecret, createSecret, secretFails, api
      <3>2. CASE Users
        BY <2>5, <3>2 DEF Users, EditCreds, DeleteObject, EditDeployment, PodUnready, Restart, PassFails, api, clusterOnly
      <3>3. CASE Cluster
        BY <3>3 DEF Cluster, CollectGarbage, ReplacePod, PodReady, SyncDeployment, clusterOnly
      <3>4. CASE UNCHANGED vars \/ RequeueAfter \/ \E kind \in Kinds : SyncCache(kind)
        BY <3>4 DEF vars, RequeueAfter, SyncCache, api
      <3> QED
        BY <3>1, <3>2, <3>3, <3>4 DEF Next
    <2> QED
      BY <2>2, <2>3, <2>4, <2>5
  <1>3. \/ UNCHANGED cwg
        \/ cwg' = wireguardCopy /\ UNCHANGED wg
    <2>1. CASE Pass
      BY <2>1, DeploymentPass, ApplyPass, StatusPass, Zenon
      DEF Pass, fetch, applyService, updateSecret, createSecret, secretFails, cache
    <2>2. CASE Users
      BY <2>2, Zenon DEF Users, EditSpec, ReplaceWireguard, EditCreds, DeleteObject, EditDeployment, PodUnready, Restart, PassFails, api, clusterOnly, cache
    <2>3. CASE Cluster
      BY <2>3 DEF Cluster, CollectGarbage, ReplacePod, PodReady, SyncDeployment, clusterOnly, cache
    <2>4. CASE UNCHANGED vars \/ RequeueAfter \/ \E kind \in Kinds : SyncCache(kind)
      BY <2>4 DEF vars, RequeueAfter, SyncCache, api, cache
    <2> QED
      BY <2>1, <2>2, <2>3, <2>4 DEF Next
  <1>4. this' \in {this, cwg, NoWireguard} /\ (this' = this \/ UNCHANGED <<wg, cwg>> \/ this' = NoWireguard)
    <2>1. CASE Pass
      BY <2>1, DeploymentPass, ApplyPass, StatusPass, Zenon
      DEF Pass, fetch, applyService, updateSecret, createSecret, secretFails, EndPass, ClearPass, api, cache, pass
    <2>2. CASE Users
      BY <2>2, Zenon DEF Users, EditSpec, ReplaceWireguard, EditCreds, DeleteObject, EditDeployment, PodUnready, Restart, PassFails,
                  clusterOnly, pass, EndPass, ClearPass
    <2>3. CASE Cluster
      BY <2>3 DEF Cluster, CollectGarbage, ReplacePod, PodReady, SyncDeployment, clusterOnly, pass
    <2>4. CASE UNCHANGED vars \/ RequeueAfter \/ \E kind \in Kinds : SyncCache(kind)
      BY <2>4 DEF vars, RequeueAfter, SyncCache, pass
    <2> QED
      BY <2>1, <2>2, <2>3, <2>4 DEF Next
  <1>5. wg'.uid > 0
    BY <1>1, <1>2 DEF CopiesOK
  <1>6. ASSUME NEW c, c.uid \in Nat, c.gen \in Nat, Earlier(c),
               UNCHANGED <<wg.uid, wg.gen, wg.spec>> \/ (wg'.uid = wg.uid /\ wg'.gen = wg.gen + 1) \/ wg'.uid = wg.uid + 1
        PROVE  /\ c.uid <= wg'.uid
               /\ c.uid = wg'.uid => c.gen <= wg'.gen /\ (c.gen = wg'.gen => c.spec = wg'.spec)
    BY <1>1, <1>6 DEF Earlier
  <1>7. Earlier(cwg)'
    <2>1. CASE UNCHANGED cwg
      <3>1. /\ cwg.uid <= wg'.uid
            /\ cwg.uid = wg'.uid => cwg.gen <= wg'.gen /\ (cwg.gen = wg'.gen => cwg.spec = wg'.spec)
        BY <1>1, <1>2, <1>6 DEF CopiesOK
      <3> QED
        BY <2>1, <3>1 DEF Earlier
    <2>2. CASE cwg' = wireguardCopy /\ UNCHANGED wg
      <3>1. cwg'.uid = wg'.uid /\ cwg'.gen = wg'.gen /\ cwg'.spec = wg'.spec
        BY <2>2, Zenon DEF wireguardCopy
      <3>2. wg'.uid <= wg'.uid /\ wg'.gen <= wg'.gen
        BY <1>1
      <3> QED
        BY <3>1, <3>2 DEF Earlier
    <2> QED
      BY <1>3, <2>1, <2>2
  <1>8. Earlier(this)'
    <2>1. CASE this' = this
      <3>1. /\ this.uid <= wg'.uid
            /\ this.uid = wg'.uid => this.gen <= wg'.gen /\ (this.gen = wg'.gen => this.spec = wg'.spec)
        BY <1>1, <1>2, <1>6 DEF CopiesOK
      <3> QED
        BY <2>1, <3>1 DEF Earlier
    <2>2. CASE this' = cwg /\ UNCHANGED <<wg, cwg>>
      BY <2>2 DEF Earlier, CopiesOK
    <2>3. CASE this' = NoWireguard
      BY <1>1, <1>5, <2>3 DEF Earlier, NoWireguard
    <2> QED
      BY <1>4, <2>1, <2>2, <2>3
  <1> QED
    BY <1>5, <1>7, <1>8 DEF CopiesOK

\* The Deployment is not written: only the pass moves, and not to a step that renders.
LEMMA DeployKept ==
    ASSUME DeployOK, UNCHANGED <<dep, cdep, this>>,
           \/ UNCHANGED <<pc, cond, applied, endpoint>>
           \/ pc' = "status" /\ cond'.type # "Ready"
           \/ pc' = "idle"
    PROVE  DeployOK'
  BY DEF DeployOK, AccountOK, LegacySeen, PassOK, RenderOK

LEMMA DeployCleared ==
    ASSUME DeployOK, UNCHANGED <<dep, cdep>>, ClearPass
    PROVE  DeployOK'
  BY Zenon DEF DeployOK, AccountOK, LegacySeen, PassOK, RenderOK, ClearPass

\* The Deployment is written, or gone, without a rendered template, and the pass stays.
LEMMA DeployWritten ==
    ASSUME DeployOK, AccountOK(dep)', LegacySeen', dep'.legacy => dep.legacy,
           dep'.live /\ dep'.template \in Specs => dep.live /\ dep.template = dep'.template,
           UNCHANGED <<this, pc, cond, applied, endpoint>>
    PROVE  DeployOK'
  BY DEF DeployOK, PassOK, RenderOK

LEMMA DegradedNotReady == \A reason : degraded(reason).type # "Ready"
  BY DEF degraded

LEMMA UserDeploy ==
    ASSUME TypeOK, DeployOK, Users
    PROVE  DeployOK'
  <1>1. CASE EditSpec \/ ReplaceWireguard \/ EditCreds \/ PodUnready
    <2>1. UNCHANGED <<dep, cdep, this, pc, cond, applied, endpoint>>
      BY <1>1, Zenon DEF EditSpec, ReplaceWireguard, EditCreds, PodUnready, cache, pass, clusterOnly
    <2> QED
      BY <2>1, DeployKept
  <1>2. CASE DeleteObject
    <2>1. UNCHANGED <<cdep, this, pc, cond, applied, endpoint>> /\ (UNCHANGED dep \/ dep' = NoDeployment)
      BY <1>2 DEF DeleteObject, RemoveService, RemoveSecret, RemoveDeployment, cache, pass
    <2>2. CASE UNCHANGED dep
      BY <2>1, <2>2, DeployKept
    <2>3. CASE dep' = NoDeployment
      <3>1. ~dep'.live /\ ~dep'.legacy
        BY <2>3 DEF NoDeployment
      <3>2. AccountOK(dep)' /\ LegacySeen'
        BY <3>1 DEF AccountOK, LegacySeen
      <3> QED
        BY <2>1, <3>1, <3>2, DeployWritten
    <2> QED
      BY <2>1, <2>2, <2>3
  <1>3. CASE EditDeployment
    <2>1. UNCHANGED <<cdep, this, pc, cond, applied, endpoint>> /\ dep' = [dep EXCEPT !.template = "edited", !.observed = FALSE]
      BY <1>3 DEF EditDeployment, WriteDeployment, cache, pass
    <2>2. dep'.live = dep.live /\ dep'.legacy = dep.legacy /\ dep'.template = "edited" /\ ~dep'.observed
      BY <2>1 DEF TypeOK, Deployments
    <2>3. AccountOK(dep)' /\ LegacySeen'
      BY <2>1, <2>2 DEF AccountOK, DeployOK, LegacySeen
    <2> QED
      BY <2>1, <2>2, <2>3, DeployWritten, NamesAssumption
  <1>4. CASE Restart
    <2>1. UNCHANGED dep /\ cdep' = deploymentCopy /\ ClearPass
      BY <1>4 DEF Restart, api
    <2>2. LegacySeen'
      BY <2>1 DEF LegacySeen, DeployOK, deploymentCopy
    <2> QED
      BY <2>1, <2>2 DEF DeployOK, AccountOK, PassOK, RenderOK, ClearPass
  <1>5. CASE PassFails
    <2>1. UNCHANGED <<dep, cdep>>
      BY <1>5 DEF PassFails, api, cache
    <2>2. CASE EndPass("retry")
      BY <2>1, <2>2, DeployCleared DEF EndPass
    <2>3. CASE ~EndPass("retry")
      <3>1. UNCHANGED this /\ pc' = "status" /\ \E reason : cond' = degraded(reason)
        BY <1>5, <2>3 DEF PassFails, Record, failDeployment
      <3> QED
        BY <2>1, <3>1, DegradedNotReady, DeployKept
    <2> QED
      BY <2>2, <2>3
  <1> QED
    BY <1>1, <1>2, <1>3, <1>4, <1>5 DEF Users

LEMMA ClusterDeploy ==
    ASSUME TypeOK, DeployOK, Cluster
    PROVE  DeployOK'
  <1>1. CASE CollectGarbage
    <2>1. UNCHANGED <<cdep, this, pc, cond, applied, endpoint>> /\ (UNCHANGED dep \/ dep' = NoDeployment)
      BY <1>1 DEF CollectGarbage, RemoveService, RemoveSecret, RemoveDeployment, cache, pass
    <2>2. CASE UNCHANGED dep
      BY <2>1, <2>2, DeployKept
    <2>3. CASE dep' = NoDeployment
      <3>1. ~dep'.live /\ ~dep'.legacy
        BY <2>3 DEF NoDeployment
      <3>2. AccountOK(dep)' /\ LegacySeen'
        BY <3>1 DEF AccountOK, LegacySeen
      <3> QED
        BY <2>1, <3>1, <3>2, DeployWritten
    <2> QED
      BY <2>1, <2>2, <2>3
  <1>2. CASE ReplacePod \/ PodReady
    <2>1. UNCHANGED <<dep, cdep, this, pc, cond, applied, endpoint>>
      BY <1>2 DEF ReplacePod, PodReady, clusterOnly, cache, pass
    <2> QED
      BY <2>1, DeployKept
  <1>3. CASE SyncDeployment
    <2>1. UNCHANGED <<cdep, this, pc, cond, applied, endpoint>> /\ dep' = accounted
      BY <1>3 DEF SyncDeployment, WriteDeployment, clusterOnly, cache, pass
    <2>2. /\ dep'.live = dep.live /\ dep'.legacy = dep.legacy /\ dep'.template = dep.template
          /\ dep'.updated = IF pod.template = dep.template THEN 1 ELSE 0
          /\ dep'.ready = IF pod.ready THEN {pod.template} ELSE {}
      BY <2>1 DEF accounted, TypeOK, Deployments
    <2>3. AccountOK(dep)'
      BY <2>2 DEF AccountOK
    <2>4. LegacySeen'
      BY <2>1, <2>2 DEF DeployOK, LegacySeen
    <2> QED
      BY <2>1, <2>2, <2>3, <2>4, DeployWritten
  <1> QED
    BY <1>1, <1>2, <1>3 DEF Cluster

LEMMA CacheDeploy ==
    ASSUME TypeOK, DeployOK, RequeueAfter \/ \E kind \in Kinds : SyncCache(kind)
    PROVE  DeployOK'
  <1>1. UNCHANGED <<dep, this, pc, cond, applied, endpoint>> /\ cdep' \in {cdep, deploymentCopy}
    BY DEF RequeueAfter, SyncCache, api, cache, pass
  <1>2. LegacySeen'
    BY <1>1 DEF DeployOK, LegacySeen, deploymentCopy
  <1> QED
    BY <1>1, <1>2 DEF DeployOK, AccountOK, PassOK, RenderOK

LEMMA FetchDeploy ==
    ASSUME TypeOK, DeployOK, fetch
    PROVE  DeployOK'
  <1>1. UNCHANGED <<dep, cdep>>
    BY Zenon DEF fetch, api, cache
  <1>2. CASE ~cwg.live
    <2>1. UNCHANGED <<this, pc, cond, applied, endpoint>>
      BY <1>2 DEF fetch, pass
    <2> QED
      BY <1>1, <2>1, DeployKept
  <1>3. CASE cwg.live
    <2>1. this' = cwg /\ cwg.spec \in Specs
      BY <1>3, Zenon DEF fetch, TypeOK, WireguardCopies
    <2>2. PICK problem : problem = specProblem(Content[cwg.spec], creds)
      OBVIOUS
    <2>3. \/ Record(NoCondition, "done")
          \/ Record(degraded(problem), specRecheck)
          \/ pc' = "service" /\ problem = ""
      BY <1>3, <2>2, Zenon DEF fetch, NoCondition
    <2>4. \/ pc' = "status" /\ cond'.type # "Ready"
          \/ pc' = "service" /\ Renderable(this'.spec)
      <3>1. NoCondition.type # "Ready" /\ degraded(problem).type # "Ready"
        BY DegradedNotReady DEF NoCondition
      <3>2. problem = "" => Renderable(cwg.spec)
        BY <2>1, <2>2, NoProblem, Zenon
      <3> QED
        BY <2>1, <2>3, <3>1, <3>2, Zenon DEF Record
    <2> QED
      BY <1>1, <2>4, Zenon DEF DeployOK, AccountOK, LegacySeen, PassOK, RenderOK
  <1> QED
    BY <1>2, <1>3

LEMMA ServiceDeploy ==
    ASSUME TypeOK, DeployOK, applyService
    PROVE  DeployOK'
  <1>1. UNCHANGED <<dep, cdep, this, applied>> /\ pc = "service"
    BY Zenon DEF applyService, cache
  <1>2. PICK ip \in ClusterIPs :
            /\ endpoint' = ip
            /\ \/ Record(degraded("ClusterIPOutsideLocalCIDRs"), "timer")
               \/ pc' = "secret" /\ ~clusterIPOutside(ip, Content[this.spec].localCIDRs)
    BY DEF applyService
  <1>3. \/ pc' = "status" /\ cond'.type # "Ready"
        \/ pc' = "secret" /\ \E c \in Content[this.spec].localCIDRs : endpoint' \in c.addresses
    BY <1>2, DegradedNotReady DEF Record, clusterIPOutside, Contains
  <1>4. Renderable(this.spec)
    BY <1>1 DEF DeployOK, RenderOK
  <1> QED
    BY <1>1, <1>3, <1>4 DEF DeployOK, AccountOK, LegacySeen, PassOK, RenderOK

LEMMA SecretDeploy ==
    ASSUME TypeOK, DeployOK, updateSecret \/ createSecret \/ secretFails
    PROVE  DeployOK'
  <1>1. CASE updateSecret
    <2>1. /\ UNCHANGED <<dep, cdep, this, cond, applied, endpoint>> /\ pc = "secret"
          /\ pc' \in {"strategy", "migrate", "deployment"} /\ (pc' = "deployment" => ~cdep.legacy)
      BY <1>1, Zenon DEF updateSecret, cache
    <2> QED
      BY <2>1 DEF DeployOK, AccountOK, LegacySeen, PassOK, RenderOK
  <1>2. CASE createSecret \/ secretFails
    <2>1. UNCHANGED <<dep, cdep>> /\ ClearPass
      BY <1>2 DEF createSecret, secretFails, EndPass, api, cache
    <2> QED
      BY <2>1, DeployCleared
  <1> QED
    BY <1>1, <1>2

LEMMA StrategyDeploy ==
    ASSUME TypeOK, DeployOK, clearRollingUpdate \/ migrateFields
    PROVE  DeployOK'
  <1>1. UNCHANGED <<cdep, this, endpoint, applied>>
    BY DeploymentPass
  <1>2. CASE failDeployment /\ UNCHANGED <<dep, stale>>
    BY <1>1, <1>2, FailType, DegradedNotReady, DeployKept
  <1>3. CASE ~(failDeployment /\ UNCHANGED <<dep, stale>>) /\ clearRollingUpdate
    <2>1. pc = "strategy" /\ pc' = "migrate"
      BY <1>3, DeploymentPass DEF clearRollingUpdate, migrateFields
    <2>2. dep' = dep \/ dep' = [dep EXCEPT !.rolling = FALSE, !.observed = FALSE]
      BY <1>3, <2>1, DeploymentPass DEF WriteDeployment
    <2>3. /\ dep'.live = dep.live /\ dep'.legacy = dep.legacy /\ dep'.template = dep.template
          /\ dep' = dep \/ ~dep'.observed
      <3>1. dep \in Deployments
        BY DEF TypeOK
      <3>2. CASE dep' = dep
        BY <3>2
      <3>3. CASE dep' = [dep EXCEPT !.rolling = FALSE, !.observed = FALSE]
        BY <3>1, <3>3 DEF Deployments
      <3> QED
        BY <2>2, <3>2, <3>3
    <2> QED
      BY <1>1, <2>1, <2>3 DEF DeployOK, AccountOK, LegacySeen, PassOK, RenderOK
  <1>4. CASE ~(failDeployment /\ UNCHANGED <<dep, stale>>) /\ ~clearRollingUpdate
    <2>1. pc = "migrate" /\ pc' = "deployment"
      BY <1>4, DeploymentPass DEF migrateFields
    <2>2. (dep' = dep /\ ~dep.legacy) \/ dep' = [dep EXCEPT !.legacy = FALSE]
      BY <1>4, <2>1, DeploymentPass DEF WriteDeployment, DeployOK, LegacySeen
    <2>3. /\ dep'.live = dep.live /\ ~dep'.legacy /\ dep'.template = dep.template
          /\ dep'.observed = dep.observed /\ dep'.updated = dep.updated /\ dep'.ready = dep.ready
      BY <2>2 DEF TypeOK, Deployments
    <2> QED
      BY <1>1, <2>1, <2>3 DEF DeployOK, AccountOK, LegacySeen, PassOK, RenderOK
  <1> QED
    BY <1>2, <1>3, <1>4

LEMMA ApplyDeploy ==
    ASSUME TypeOK, DeployOK, applyDeployment
    PROVE  DeployOK'
  <1>1. UNCHANGED <<cdep, this, endpoint>> /\ pc = "deployment"
    BY ApplyPass DEF applyDeployment
  <1>2. CASE failDeployment /\ UNCHANGED <<dep, stale, applied>>
    BY <1>1, <1>2, FailType, DegradedNotReady, DeployKept
  <1>3. CASE ~(failDeployment /\ UNCHANGED <<dep, stale, applied>>)
    <2>1. PICK d \in Deployments : d = appliedDeployment(this.spec, this.uid)
      BY DeploymentTypes DEF TypeOK, WireguardCopies
    <2>2. dep' = d /\ applied' = d /\ pc' = "status" /\ (cond'.reason = "Active" => ~rolloutProblem(d))
      BY <1>3, <2>1, ApplyPass DEF WriteDeployment
    <2>3. ~dep.legacy /\ Renderable(this.spec)
      BY <1>1 DEF DeployOK, PassOK, RenderOK
    <2>4. /\ d.live /\ ~d.legacy /\ d.template = this.spec
          /\ \/ ~d.observed
             \/ dep.live /\ dep.observed /\ dep.template = this.spec /\ d.updated = dep.updated /\ d.ready = dep.ready
      <3>1. CASE dep.live
        <4>1. d = [dep EXCEPT !.owner = this.uid, !.template = this.spec, !.observed = @ /\ dep.template = this.spec]
          BY <2>1, <2>3, <3>1 DEF appliedDeployment
        <4> QED
          BY <2>3, <3>1, <4>1 DEF TypeOK, Deployments
      <3>2. CASE ~dep.live
        <4>1. d = [NoDeployment EXCEPT !.live = TRUE, !.owner = this.uid, !.template = this.spec]
          BY <2>1, <3>2 DEF appliedDeployment
        <4> QED
          BY <4>1 DEF NoDeployment
      <3> QED
        BY <3>1, <3>2
    <2>5. AccountOK(d)
      BY <2>4 DEF DeployOK, AccountOK
    <2>6. ~rolloutProblem(d) => d.ready = {this.spec}
      <3>1. ~rolloutProblem(d) => d.observed /\ d.updated = 1 /\ d.ready # {}
        BY DEF rolloutProblem, oneReady
      <3> QED
        BY <2>4, <2>5, <3>1 DEF AccountOK
    <2>7. AccountOK(dep)'
      BY <2>2, <2>5 DEF AccountOK
    <2>8. LegacySeen' /\ PassOK' /\ RenderOK'
      BY <1>1, <2>2, <2>3, <2>4, <2>6 DEF LegacySeen, PassOK, RenderOK
    <2> QED
      BY <2>7, <2>8 DEF DeployOK
  <1> QED
    BY <1>2, <1>3

LEMMA DeployStep == TypeOK /\ DeployOK /\ [Next]_vars => DeployOK'
  <1> SUFFICES ASSUME TypeOK, DeployOK, [Next]_vars PROVE DeployOK'
    OBVIOUS
  <1>1. CASE UNCHANGED vars
    <2>1. UNCHANGED <<dep, cdep, this, pc, cond, applied, endpoint>>
      BY <1>1 DEF vars, api, cache, pass
    <2> QED
      BY <2>1, DeployKept
  <1>2. CASE updateStatus
    BY <1>2, StatusPass, DeployCleared
  <1>3. CASE Pass
    BY <1>2, <1>3, FetchDeploy, ServiceDeploy, SecretDeploy, StrategyDeploy, ApplyDeploy DEF Pass
  <1> QED
    BY <1>1, <1>3, UserDeploy, ClusterDeploy, CacheDeploy DEF Next

LEMMA InitGateway == Init => GatewayInv
  <1> SUFFICES ASSUME Init PROVE GatewayInv
    OBVIOUS
  <1>1. TypeOK
    BY InitType
  <1>2. CopiesOK
    <2>1. wg.uid = 1 /\ wg.gen = 1 /\ cwg.uid = 1 /\ cwg.gen = 1 /\ cwg.spec = wg.spec
      <3>1. wg.uid = 1 /\ wg.gen = 1
        BY DEF Init
      <3>2. cwg = wireguardCopy
        BY DEF Init
      <3> QED
        BY <3>1, <3>2, Zenon DEF wireguardCopy
    <2>2. this.uid = 0
      BY Zenon DEF Init, NoPass, NoWireguard
    <2> QED
      BY <2>1, <2>2 DEF CopiesOK, Earlier
  <1>3. /\ pc = "idle" /\ (dep.live => dep.template = "legacy" /\ dep.ready = {"legacy"})
        /\ dep.legacy => dep.live /\ cdep.live /\ cdep.legacy
    <2>1. pc = "idle"
      BY DEF Init, NoPass
    <2>2. cdep.live = dep.live /\ cdep.legacy = dep.legacy
      BY DEF Init, deploymentCopy
    <2>3. CASE dep = NoDeployment
      BY <2>1, <2>3 DEF NoDeployment
    <2>4. CASE dep = [live |-> TRUE, owner |-> 1, template |-> "legacy", rolling |-> TRUE, legacy |-> TRUE,
                      observed |-> TRUE, updated |-> 1, ready |-> {"legacy"}]
      BY <2>1, <2>2, <2>4
    <2> QED
      BY <2>3, <2>4, Zenon DEF Init
  <1>4. DeployOK
    BY <1>3, NamesAssumption DEF DeployOK, AccountOK, LegacySeen, PassOK, RenderOK
  <1> QED
    BY <1>1, <1>2, <1>4 DEF GatewayInv

LEMMA StepGateway == GatewayInv /\ [Next]_vars => GatewayInv'
  BY StepType, CopiesStep, DeployStep DEF GatewayInv

\* For any specs, addresses and interference: what has been rendered keeps the pool, the local
\* ranges and the probe's address apart, and the endpoint is local (specProblem,
\* clusterIPOutside).
THEOREM RenderedIsSound == Spec => []RenderedSound
  <1>1. GatewayInv => RenderedSound
    BY Zenon DEF GatewayInv, DeployOK, RenderOK, RenderedSound, Renderable
  <1> QED
    BY <1>1, InitGateway, StepGateway, PTL DEF Spec

\* For any lag of the caches and any interference: a Ready that is published for the current
\* generation was counted from a ready pod of that generation's template (rolloutProblem,
\* updateStatus).
THEOREM ReadyIsRolledOut == Spec => ReadyMeansRolledOut
  <1> DEFINE Rolled == wg'.status # wg.status /\ wg'.status.summary = "Ready" /\ wg'.status.readyGen = wg'.gen
                            /\ this.uid = wg'.uid => applied.ready = {wg'.spec}
  <1>1. GatewayInv /\ [Next]_vars => [Rolled]_wg
    <2> SUFFICES ASSUME GatewayInv, [Next]_vars, wg'.status # wg.status, wg'.status.summary = "Ready",
                        wg'.status.readyGen = wg'.gen, this.uid = wg'.uid
                 PROVE  applied.ready = {wg'.spec}
      OBVIOUS
    <2>1. TypeOK /\ wg \in Wireguards /\ wg.status \in WireguardStatuses /\ cond \in Conditions
      BY DEF GatewayInv, TypeOK, Wireguards
    <2>2. updateStatus
      <3>1. ~EditSpec /\ ~ReplaceWireguard
        <4>1. NewStatus.summary # "Ready"
          BY DEF NewStatus
        <4>2. ~EditSpec
          BY <2>1, Zenon DEF EditSpec, Wireguards
        <4>3. ~ReplaceWireguard
          BY <2>1, <4>1 DEF ReplaceWireguard, Wireguards
        <4> QED
          BY <4>2, <4>3
      <3>2. wg' # wg
        OBVIOUS
      <3>3. ~Users /\ ~Cluster
        BY <3>1, <3>2 DEF Users, EditCreds, DeleteObject, EditDeployment, PodUnready, Restart, PassFails, api, clusterOnly,
                         Cluster, CollectGarbage, ReplacePod, PodReady, SyncDeployment
      <3>4. Pass
        BY <3>2, <3>3 DEF Next, vars, RequeueAfter, SyncCache, api
      <3> QED
        BY <2>1, <3>2, <3>4, DeploymentPass, ApplyPass, Zenon DEF Pass, fetch, applyService, updateSecret, createSecret, secretFails, api
    <2>3. PICK status : status = recorded(wg.status, cond, this.gen)
      OBVIOUS
    <2>4. wg' = [wg EXCEPT !.status = status]
      BY <2>1, <2>2, <2>3, StatusPass
    <2>5. wg'.status = status /\ wg'.gen = wg.gen /\ wg'.uid = wg.uid /\ wg'.spec = wg.spec
      BY <2>1, <2>4 DEF Wireguards
    <2>6. cond.type = "Ready" /\ cond.reason = "Active" /\ status.readyGen = this.gen
      <3>1. recorded(wg.status, cond, this.gen).summary = "Ready"
        BY <2>3, <2>5
      <3> QED
        BY <2>1, <2>3, <3>1, RecordedReady
    <2>7. applied.ready = {this.spec}
      BY <2>2, <2>6 DEF updateStatus, GatewayInv, DeployOK, PassOK
    <2>8. this.spec = wg.spec
      BY <2>5, <2>6 DEF GatewayInv, CopiesOK, Earlier
    <2> QED
      BY <2>5, <2>7, <2>8
  <1> QED
    BY <1>1, InitGateway, StepGateway, PTL DEF Spec, ReadyMeansRolledOut

--------------------------------------------------------------------------------
(* Quiescence. A cache without news shows what is; and a pass that no news    *)
(* has overtaken decided from what is still so.                                *)

CachesOK ==
    /\ "wg" \notin stale => cwg = wireguardCopy
    /\ "secret" \notin stale => csecret = secretCopy
    /\ "dep" \notin stale => cdep = deploymentCopy

\* No cache moves, and what is written is news.
Noted ==
    /\ UNCHANGED <<cwg, csecret, cdep>> /\ stale \subseteq stale'
    /\ wg' = wg \/ "wg" \in stale'
    /\ secret' = secret \/ "secret" \in stale'
    /\ dep' = dep \/ "dep" \in stale'

LEMMA WriteNoted ==
    ASSUME NEW d, WriteDeployment(d)
    PROVE  stale \subseteq stale' /\ (dep' = dep \/ "dep" \in stale')
  BY DEF WriteDeployment

LEMMA StepNoted ==
    ASSUME TypeOK, [Next]_vars, ~Restart, \A kind \in Kinds : ~SyncCache(kind)
    PROVE  Noted
  <1>1. CASE fetch \/ applyService \/ updateSecret \/ createSecret \/ secretFails
    BY <1>1, Zenon DEF fetch, applyService, updateSecret, createSecret, secretFails, Noted, api, cache
  <1>2. CASE clearRollingUpdate \/ migrateFields
    <2>1. stale \subseteq stale' /\ (dep' = dep \/ "dep" \in stale')
      BY <1>2, DeploymentPass, WriteNoted
    <2> QED
      BY <1>2, <2>1, DeploymentPass DEF Noted
  <1>3. CASE applyDeployment
    <2>1. stale \subseteq stale' /\ (dep' = dep \/ "dep" \in stale')
      BY <1>3, ApplyPass, WriteNoted
    <2> QED
      BY <1>3, <2>1, ApplyPass DEF Noted
  <1>4. CASE updateStatus
    BY <1>4, StatusPass DEF Noted
  <1>5. CASE EditSpec \/ ReplaceWireguard \/ EditCreds \/ PodUnready \/ PassFails
    BY <1>5, Zenon DEF EditSpec, ReplaceWireguard, EditCreds, PodUnready, PassFails, Noted, api, cache, clusterOnly
  <1>6. CASE DeleteObject \/ CollectGarbage
    BY <1>6 DEF DeleteObject, CollectGarbage, RemoveService, RemoveSecret, RemoveDeployment, Noted, cache
  <1>7. CASE EditDeployment
    <2>1. stale \subseteq stale' /\ (dep' = dep \/ "dep" \in stale')
      BY <1>7, WriteNoted DEF EditDeployment
    <2> QED
      BY <1>7, <2>1 DEF EditDeployment, Noted, cache
  <1>8. CASE SyncDeployment
    <2>1. stale \subseteq stale' /\ (dep' = dep \/ "dep" \in stale')
      BY <1>8, WriteNoted DEF SyncDeployment
    <2> QED
      BY <1>8, <2>1, Zenon DEF SyncDeployment, Noted, cache, clusterOnly
  <1>9. CASE ReplacePod \/ PodReady \/ RequeueAfter \/ UNCHANGED vars
    BY <1>9 DEF ReplacePod, PodReady, RequeueAfter, vars, Noted, api, cache, clusterOnly
  <1> QED
    BY <1>1, <1>2, <1>3, <1>4, <1>5, <1>6, <1>7, <1>8, <1>9 DEF Next, Pass, Users, Cluster

LEMMA CachesStep == TypeOK /\ CachesOK /\ [Next]_vars => CachesOK'
  <1> SUFFICES ASSUME TypeOK, CachesOK, [Next]_vars PROVE CachesOK'
    OBVIOUS
  <1>1. CASE Restart
    BY <1>1, Zenon DEF Restart, api, CachesOK, wireguardCopy, secretCopy, deploymentCopy
  <1>2. ASSUME NEW kind \in Kinds, SyncCache(kind) PROVE CachesOK'
    BY <1>2, Zenon DEF SyncCache, api, CachesOK, wireguardCopy, secretCopy, deploymentCopy
  <1>3. CASE Noted
    BY <1>3, Zenon DEF Noted, CachesOK, wireguardCopy, secretCopy, deploymentCopy
  <1> QED
    BY <1>1, <1>2, <1>3, StepNoted

Calm == ~queued /\ stale = {}

Problem == specProblem(Content[this.spec], seen)

Endpointed == svc.live /\ svc.ip = endpoint

Outside == clusterIPOutside(endpoint, Content[this.spec].localCIDRs)

Keyed == csecret.live /\ desiredState(csecret.spec) = desiredState(this.spec) /\ publicKey = csecret.key

RolledOut == dep = applied /\ dep.live /\ dep.template = this.spec /\ ~dep.rolling

\* The condition that the pass is to record is the one that is due.
StatusDue ==
    \/ result = "retry"
    \/ ~this.started /\ cond = NoCondition
    \/ this.started /\ Problem # "" /\ cond = degraded(Problem)
    \/ this.started /\ Problem = "" /\ Endpointed /\ Outside /\ cond = degraded("ClusterIPOutsideLocalCIDRs")
    \/ /\ this.started /\ Problem = "" /\ Endpointed /\ ~Outside /\ Keyed /\ RolledOut
       /\ cond.type = "Ready" /\ cond.reason = IF rolloutProblem(dep) THEN "DeploymentNotReady" ELSE "Active"

CalmPass ==
    /\ pc # "idle" => this = cwg /\ cwg.live
    /\ pc \in {"service", "secret", "strategy", "migrate", "deployment"} => this.started /\ Problem = ""
    /\ pc \in {"secret", "strategy", "migrate", "deployment"} => Endpointed /\ ~Outside
    /\ pc \in {"strategy", "migrate", "deployment"} => Keyed
    /\ pc = "status" => StatusDue

CalmOK == Calm => CalmPass /\ (pc = "idle" /\ wg.live => UpToDate(seen))

LEMMA CalmKept ==
    ASSUME CalmOK,
           UNCHANGED <<wg, svc, secret, dep, cwg, csecret, stale, queued, pc, this, cond, result, endpoint, publicKey, applied, seen>>
    PROVE  CalmOK'
  <1>1. UpToDate(seen) => UpToDate(seen)'
    BY Zenon DEF UpToDate
  <1>2. Calm' => Calm
    BY DEF Calm
  <1>3. CalmPass => CalmPass'
    BY Zenon DEF CalmPass, StatusDue, Problem, Endpointed, Outside, Keyed, RolledOut
  <1> QED
    BY <1>1, <1>2, <1>3 DEF CalmOK

LEMMA NotCalm ==
    ASSUME queued' \/ stale' # {}
    PROVE  CalmOK'
  BY DEF CalmOK, Calm

LEMMA UserCalm ==
    ASSUME TypeOK, CachesOK, CalmOK, Users
    PROVE  CalmOK'
  <1>1. CASE EditSpec \/ ReplaceWireguard
    BY <1>1, NotCalm, Zenon DEF EditSpec, ReplaceWireguard
  <1>2. CASE EditCreds \/ PodUnready
    BY <1>2, CalmKept DEF EditCreds, PodUnready, cache, pass, clusterOnly
  <1>3. CASE DeleteObject
    BY <1>3, NotCalm DEF DeleteObject, RemoveService, RemoveSecret, RemoveDeployment
  <1>4. CASE EditDeployment
    <2>1. PICK d : d = [dep EXCEPT !.template = "edited", !.observed = FALSE]
      OBVIOUS
    <2>2. d.template = "edited" /\ WriteDeployment(d) /\ dep.template # "edited"
      BY <1>4, <2>1 DEF EditDeployment, TypeOK, Deployments
    <2>3. stale' = stale \union {"dep"}
      BY <2>2 DEF WriteDeployment
    <2> QED
      BY <2>3, NotCalm
  <1>5. CASE Restart
    <2>1. pc' = "idle" /\ (queued' \/ ~wg'.live)
      BY <1>5, Zenon DEF Restart, ClearPass, api
    <2> QED
      BY <2>1, Zenon DEF CalmOK, Calm, CalmPass
  <1>6. CASE PassFails
    <2>1. CASE EndPass("retry")
      BY <2>1, NotCalm, Zenon DEF EndPass
    <2>2. CASE ~EndPass("retry")
      <3>1. /\ pc # "idle" /\ pc' = "status" /\ result' = "retry"
            /\ UNCHANGED <<this, cwg, queued, stale>>
        BY <1>6, <2>2 DEF PassFails, Record, failDeployment, cache
      <3> QED
        BY <3>1, Zenon DEF CalmOK, Calm, CalmPass, StatusDue
    <2> QED
      BY <2>1, <2>2
  <1> QED
    BY <1>1, <1>2, <1>3, <1>4, <1>5, <1>6 DEF Users

LEMMA ClusterCalm ==
    ASSUME TypeOK, CalmOK, Cluster \/ RequeueAfter \/ (\E kind \in Kinds : SyncCache(kind)) \/ UNCHANGED vars
    PROVE  CalmOK'
  <1>1. CASE CollectGarbage
    BY <1>1, NotCalm DEF CollectGarbage, RemoveService, RemoveSecret, RemoveDeployment
  <1>2. CASE ReplacePod \/ PodReady
    BY <1>2, CalmKept DEF ReplacePod, PodReady, clusterOnly, cache, pass
  <1>3. CASE SyncDeployment
    <2>1. stale' = stale \union {"dep"}
      BY <1>3 DEF SyncDeployment, WriteDeployment
    <2> QED
      BY <2>1, NotCalm
  <1>4. CASE RequeueAfter \/ \E kind \in Kinds : SyncCache(kind)
    BY <1>4, NotCalm DEF RequeueAfter, SyncCache
  <1>5. CASE UNCHANGED vars
    BY <1>5, CalmKept DEF vars, api, cache, pass
  <1> QED
    BY <1>1, <1>2, <1>3, <1>4, <1>5 DEF Cluster

LEMMA FetchCalm ==
    ASSUME TypeOK, CachesOK, fetch
    PROVE  CalmOK'
  <1> SUFFICES ASSUME Calm' PROVE CalmPass' /\ (pc' = "idle" /\ wg'.live => UpToDate(seen)')
    BY DEF CalmOK
  <1>1. stale = {} /\ UNCHANGED <<wg, cwg>> /\ pc = "idle"
    BY Zenon DEF Calm, fetch, api, cache
  <1>2. CASE ~cwg.live
    <2>1. ~wg.live
      <3>1. cwg = wireguardCopy
        BY <1>1 DEF CachesOK
      <3>2. cwg.live = wg.live
        BY <3>1, Zenon DEF wireguardCopy
      <3> QED
        BY <1>2, <3>2
    <2>2. pc' = "idle"
      BY <1>1, <1>2, Zenon DEF fetch, pass
    <2> QED
      BY <1>1, <2>1, <2>2 DEF CalmPass
  <1>3. CASE cwg.live
    <2>1. this' = cwg /\ (cwg.started => seen' = creds)
      BY <1>3, Zenon DEF fetch
    <2>2. PICK problem : problem = specProblem(Content[cwg.spec], creds)
      OBVIOUS
    <2>3. cwg.started => Problem' = problem
      BY <2>1, <2>2 DEF Problem
    <2>4. \/ ~cwg.started /\ Record(NoCondition, "done")
          \/ cwg.started /\ problem # "" /\ Record(degraded(problem), specRecheck)
          \/ cwg.started /\ problem = "" /\ pc' = "service"
      BY <1>3, <2>2, Zenon DEF fetch, NoCondition
    <2>5. CASE ~cwg.started /\ Record(NoCondition, "done")
      BY <1>1, <1>3, <2>1, <2>5, Zenon DEF Record, CalmPass, StatusDue, NoCondition
    <2>6. CASE cwg.started /\ problem # "" /\ Record(degraded(problem), specRecheck)
      <3>1. pc' = "status" /\ cond' = degraded(problem)
        BY <2>6, Zenon DEF Record
      <3>2. StatusDue'
        BY <2>1, <2>3, <2>6, <3>1, Zenon DEF StatusDue, degraded
      <3> QED
        BY <1>1, <1>3, <2>1, <3>1, <3>2 DEF CalmPass
    <2>7. CASE cwg.started /\ problem = "" /\ pc' = "service"
      BY <1>1, <1>3, <2>1, <2>3, <2>7, Zenon DEF CalmPass
    <2> QED
      BY <2>4, <2>5, <2>6, <2>7, Zenon
  <1> QED
    BY <1>2, <1>3

LEMMA ServiceCalm ==
    ASSUME TypeOK, CachesOK, CalmOK, applyService
    PROVE  CalmOK'
  <1> SUFFICES ASSUME Calm' PROVE CalmPass' /\ (pc' = "idle" /\ wg'.live => UpToDate(seen)')
    BY DEF CalmOK
  <1>1. Calm /\ UNCHANGED <<this, seen, cwg>> /\ pc = "service"
    BY Zenon DEF Calm, applyService, cache
  <1>2. this = cwg /\ cwg.live /\ this.started /\ Problem = ""
    BY <1>1, Zenon DEF CalmOK, CalmPass
  <1>3. Problem' = ""
    BY <1>1, <1>2, Zenon DEF Problem
  <1>4. PICK ip \in ClusterIPs :
            /\ svc' = [live |-> TRUE, owner |-> this.uid, ip |-> ip] /\ endpoint' = ip
            /\ \/ clusterIPOutside(ip, Content[this.spec].localCIDRs) /\ Record(degraded("ClusterIPOutsideLocalCIDRs"), "timer")
               \/ ~clusterIPOutside(ip, Content[this.spec].localCIDRs) /\ pc' = "secret"
    BY Zenon DEF applyService
  <1>5. Endpointed'
    BY <1>4, Zenon DEF Endpointed
  <1>6. \/ Outside' /\ pc' = "status" /\ cond' = degraded("ClusterIPOutsideLocalCIDRs")
        \/ ~Outside' /\ pc' = "secret"
    BY <1>1, <1>4, Zenon DEF Outside, Record
  <1>7. CASE pc' = "status"
    <2>1. StatusDue'
      BY <1>1, <1>2, <1>3, <1>5, <1>6, <1>7, Zenon DEF StatusDue
    <2> QED
      BY <1>1, <1>2, <1>7, <2>1, Zenon DEF CalmPass
  <1>8. CASE pc' = "secret"
    BY <1>1, <1>2, <1>3, <1>5, <1>6, <1>8, Zenon DEF CalmPass
  <1> QED
    BY <1>6, <1>7, <1>8

LEMMA SecretCalm ==
    ASSUME TypeOK, CachesOK, CalmOK, updateSecret \/ createSecret \/ secretFails
    PROVE  CalmOK'
  <1>1. CASE createSecret
    BY <1>1, NotCalm DEF createSecret
  <1>2. CASE secretFails
    BY <1>2, NotCalm, Zenon DEF secretFails, EndPass
  <1>3. CASE updateSecret /\ desiredState(csecret.spec) # desiredState(this.spec)
    BY <1>3, NotCalm, Zenon DEF updateSecret
  <1>4. CASE updateSecret /\ desiredState(csecret.spec) = desiredState(this.spec)
    <2> SUFFICES ASSUME Calm' PROVE CalmPass' /\ (pc' = "idle" /\ wg'.live => UpToDate(seen)')
      BY DEF CalmOK
    <2>1. /\ UNCHANGED <<stale, queued, this, seen, svc, endpoint, cwg, csecret, cdep, dep>>
          /\ csecret.live /\ publicKey' = csecret.key
          /\ pc = "secret" /\ pc' \in {"strategy", "migrate", "deployment"}
      BY <1>4, Zenon DEF updateSecret, cache
    <2>2. Calm
      BY <2>1 DEF Calm
    <2>3. this = cwg /\ cwg.live /\ this.started /\ Problem = "" /\ Endpointed /\ ~Outside
      BY <2>1, <2>2, Zenon DEF CalmOK, CalmPass
    <2>4. Problem' = "" /\ Endpointed' /\ ~Outside'
      BY <2>1, <2>3, Zenon DEF Problem, Endpointed, Outside
    <2>5. Keyed'
      BY <1>4, <2>1 DEF Keyed, desiredState
    <2> QED
      BY <2>1, <2>3, <2>4, <2>5, Zenon DEF CalmPass
  <1> QED
    BY <1>1, <1>2, <1>3, <1>4

\* The steps on the Deployment: what the pass has found before them stays.
LEMMA DeploymentCalm ==
    ASSUME TypeOK, CachesOK, CalmOK, clearRollingUpdate \/ migrateFields
    PROVE  CalmOK'
  <1> SUFFICES ASSUME Calm' PROVE CalmPass' /\ (pc' = "idle" /\ wg'.live => UpToDate(seen)')
    BY DEF CalmOK
  <1>1. UNCHANGED <<svc, cwg, csecret, cdep, queued, this, endpoint, publicKey, seen>>
    BY DeploymentPass
  <1>2. stale = {} /\ dep' = dep
    <2>1. \/ UNCHANGED <<dep, stale>>
          \/ WriteDeployment([dep EXCEPT !.rolling = FALSE, !.observed = FALSE])
          \/ WriteDeployment([dep EXCEPT !.legacy = FALSE])
      BY DeploymentPass
    <2> QED
      BY <2>1, Zenon DEF WriteDeployment, Calm
  <1>3. Calm
    BY <1>1, <1>2 DEF Calm
  <1>4. pc \in {"strategy", "migrate"}
    BY DEF clearRollingUpdate, migrateFields
  <1>5. this = cwg /\ cwg.live /\ this.started /\ Problem = "" /\ Endpointed /\ ~Outside /\ Keyed
    BY <1>3, <1>4, Zenon DEF CalmOK, CalmPass
  <1>6. Problem' = "" /\ Endpointed' /\ ~Outside' /\ Keyed'
    BY <1>1, <1>5, Zenon DEF Problem, Endpointed, Outside, Keyed, desiredState
  <1>7. CASE failDeployment
    BY <1>1, <1>5, <1>7, FailType, Zenon DEF CalmPass, StatusDue
  <1>8. CASE ~failDeployment
    <2>1. pc' \in {"migrate", "deployment"}
      BY <1>8, DeploymentPass
    <2> QED
      BY <1>1, <1>5, <1>6, <2>1, Zenon DEF CalmPass
  <1> QED
    BY <1>7, <1>8

LEMMA ApplyCalm ==
    ASSUME GatewayInv, CachesOK, CalmOK, applyDeployment
    PROVE  CalmOK'
  <1> SUFFICES ASSUME Calm' PROVE CalmPass' /\ (pc' = "idle" /\ wg'.live => UpToDate(seen)')
    BY DEF CalmOK
  <1>0. TypeOK /\ pc = "deployment" /\ ~dep.legacy
    BY DEF GatewayInv, applyDeployment, DeployOK, PassOK
  <1>1. UNCHANGED <<svc, cwg, csecret, queued, this, endpoint, publicKey, seen>>
    BY <1>0, ApplyPass
  <1>2. stale = {} /\ dep' = dep
    BY <1>0, ApplyPass DEF WriteDeployment, Calm
  <1>3. Calm
    BY <1>1, <1>2 DEF Calm
  <1>4. this = cwg /\ cwg.live /\ this.started /\ Problem = "" /\ Endpointed /\ ~Outside /\ Keyed
    BY <1>0, <1>3, Zenon DEF CalmOK, CalmPass
  <1>5. Problem' = "" /\ Endpointed' /\ ~Outside' /\ Keyed'
    BY <1>1, <1>4, Zenon DEF Problem, Endpointed, Outside, Keyed, desiredState
  <1>6. CASE failDeployment
    BY <1>1, <1>4, <1>6, FailType, Zenon DEF CalmPass, StatusDue
  <1>7. CASE ~failDeployment
    <2>1. PICK d : d = appliedDeployment(this.spec, this.uid)
      OBVIOUS
    <2>2. /\ dep = d /\ applied' = d /\ pc' = "status"
          /\ cond'.type = "Ready" /\ cond'.reason = IF rolloutProblem(d) THEN "DeploymentNotReady" ELSE "Active"
      BY <1>0, <1>2, <1>7, <2>1, ApplyPass DEF WriteDeployment
    <2>3. ~(dep.live /\ dep.rolling)
      BY <1>7 DEF applyDeployment
    <2>4. dep.live
      <3>1. CASE ~dep.live
        <4>1. d = [NoDeployment EXCEPT !.live = TRUE, !.owner = this.uid, !.template = this.spec]
          BY <2>1, <3>1 DEF appliedDeployment
        <4> QED
          BY <2>2, <4>1 DEF NoDeployment
      <3> QED
        BY <3>1
    <2>5. dep.template = this.spec
      <3>1. d = [dep EXCEPT !.owner = this.uid, !.template = this.spec, !.observed = @ /\ dep.template = this.spec]
        BY <1>0, <2>1, <2>4 DEF appliedDeployment
      <3>2. dep \in Deployments
        BY <1>0 DEF TypeOK
      <3> QED
        BY <2>2, <3>1, <3>2 DEF Deployments
    <2>6. RolledOut'
      BY <1>1, <1>2, <2>2, <2>3, <2>4, <2>5 DEF RolledOut
    <2>7. cond'.type = "Ready" /\ cond'.reason = IF rolloutProblem(dep)' THEN "DeploymentNotReady" ELSE "Active"
      BY <1>2, <2>2
    <2>8. StatusDue'
      BY <1>1, <1>4, <1>5, <2>6, <2>7, Zenon DEF StatusDue
    <2> QED
      BY <1>1, <1>4, <2>2, <2>8, Zenon DEF CalmPass
  <1> QED
    BY <1>6, <1>7

\* What a recorded condition leaves in the status.
LEMMA RecordedReadyFields ==
    ASSUME NEW status \in WireguardStatuses, NEW c \in Conditions, NEW gen, c.type = "Ready"
    PROVE  /\ recorded(status, c, gen).summary = IF c.reason = "Active" THEN "Ready" ELSE "Pending"
           /\ recorded(status, c, gen).readyGen = gen
           /\ recorded(status, c, gen).degraded = "False"
           /\ recorded(status, c, gen).degradedGen = gen
           /\ recorded(status, c, gen).endpoint = endpoint
           /\ recorded(status, c, gen).publicKey = publicKey
  BY Zenon DEF recorded, WireguardStatuses

LEMMA RecordedDegradedFields ==
    ASSUME NEW status \in WireguardStatuses, NEW c \in Conditions, NEW gen, c.type = "Degraded"
    PROVE  /\ recorded(status, c, gen).summary = "Error"
           /\ recorded(status, c, gen).degraded = c.reason
           /\ recorded(status, c, gen).degradedGen = gen
  BY Zenon DEF recorded, WireguardStatuses

LEMMA RecordedProgressing ==
    ASSUME NEW status \in WireguardStatuses, NEW c \in Conditions, NEW gen, c.type = "Progressing"
    PROVE  recorded(status, c, gen).summary = "Pending"
  BY Zenon DEF recorded, WireguardStatuses

LEMMA StatusCalm ==
    ASSUME TypeOK, CachesOK, CalmOK, updateStatus
    PROVE  CalmOK'
  <1> SUFFICES ASSUME Calm' PROVE CalmPass' /\ (pc' = "idle" /\ wg'.live => UpToDate(seen)')
    BY DEF CalmOK
  <1>1. /\ pc = "status" /\ pc' = "idle" /\ stale = {} /\ wg' = wg /\ ~queued /\ result # "retry"
        /\ UNCHANGED <<svc, secret, dep, seen>>
    BY StatusPass, Zenon DEF Calm, updateStatus, EndPass, ClearPass
  <1>2. CalmPass
    BY <1>1 DEF CalmOK, Calm
  <1>3. this = cwg /\ cwg.live /\ StatusDue
    BY <1>1, <1>2 DEF CalmPass
  <1>4. this = wireguardCopy /\ csecret = secretCopy
    BY <1>1, <1>3 DEF CachesOK
  <1>5. this.gen = wg.gen /\ this.spec = wg.spec /\ this.started = (wg.status.summary # "")
    BY <1>4, Zenon DEF wireguardCopy
  <1>6. recorded(wg.status, cond, wg.gen) = wg.status
    BY <1>1, <1>3, <1>5, Zenon DEF updateStatus, Calm
  <1>7. wg.status \in WireguardStatuses /\ cond \in Conditions
    BY DEF TypeOK, Wireguards
  <1>8. cond.type = "Ready" =>
            /\ wg.status.summary = IF cond.reason = "Active" THEN "Ready" ELSE "Pending"
            /\ wg.status.readyGen = wg.gen /\ wg.status.degraded = "False" /\ wg.status.degradedGen = wg.gen
            /\ wg.status.endpoint = endpoint /\ wg.status.publicKey = publicKey
    BY <1>6, <1>7, RecordedReadyFields
  <1>9. /\ cond.type = "Degraded" =>
            wg.status.summary = "Error" /\ wg.status.degraded = cond.reason /\ wg.status.degradedGen = wg.gen
        /\ cond.type = "Progressing" => wg.status.summary = "Pending"
    BY <1>6, <1>7, RecordedDegradedFields, RecordedProgressing
  <1>10. UpToDate(seen)
    <2>1. CASE ~this.started /\ cond = NoCondition
      BY <1>5, <1>9, <2>1, Zenon DEF NoCondition
    <2>2. CASE Problem # "" /\ cond = degraded(Problem)
      <3>1. cond.type = "Degraded" /\ cond.reason = Problem
        BY <2>2, Zenon DEF degraded
      <3> QED
        BY <1>5, <1>9, <2>2, <3>1, Zenon DEF UpToDate, Problem
    <2>3. CASE Problem = "" /\ Endpointed /\ Outside /\ cond = degraded("ClusterIPOutsideLocalCIDRs")
      <3>1. cond.type = "Degraded" /\ cond.reason = "ClusterIPOutsideLocalCIDRs"
        BY <2>3, Zenon DEF degraded
      <3>2. svc.live /\ clusterIPOutside(svc.ip, Content[wg.spec].localCIDRs)
        BY <1>5, <2>3, Zenon DEF Endpointed, Outside
      <3>3. specProblem(Content[wg.spec], seen) = ""
        BY <1>5, <2>3, Zenon DEF Problem
      <3> QED
        BY <1>9, <3>1, <3>2, <3>3, Zenon DEF UpToDate
    <2>4. CASE /\ Problem = "" /\ Endpointed /\ ~Outside /\ Keyed /\ RolledOut
               /\ cond.type = "Ready" /\ cond.reason = IF rolloutProblem(dep) THEN "DeploymentNotReady" ELSE "Active"
      <3>1. svc.live /\ svc.ip = endpoint /\ ~clusterIPOutside(svc.ip, Content[wg.spec].localCIDRs)
        BY <1>5, <2>4, Zenon DEF Endpointed, Outside
      <3>2. specProblem(Content[wg.spec], seen) = ""
        BY <1>5, <2>4, Zenon DEF Problem
      <3>3. secret.live /\ secret.key = publicKey /\ secret.spec = csecret.spec
        BY <1>4, <2>4, Zenon DEF Keyed, secretCopy
      <3>4. desiredState(secret.spec) = desiredState(wg.spec)
        BY <1>5, <2>4, <3>3, Zenon DEF Keyed
      <3>5. dep.live /\ dep.template = wg.spec /\ ~dep.rolling
        BY <1>5, <2>4, Zenon DEF RolledOut
      <3>6. wg.status.summary = IF rolloutProblem(dep) THEN "Pending" ELSE "Ready"
        BY <1>8, <2>4, Zenon
      <3>7. /\ wg.status.readyGen = wg.gen /\ wg.status.degraded = "False" /\ wg.status.degradedGen = wg.gen
            /\ wg.status.endpoint = svc.ip /\ wg.status.publicKey = secret.key
        BY <1>8, <2>4, <3>1, <3>3, Zenon
      <3> QED
        BY <3>1, <3>2, <3>3, <3>4, <3>5, <3>6, <3>7, Zenon DEF UpToDate
    <2> QED
      BY <1>1, <1>3, <2>1, <2>2, <2>3, <2>4, Zenon DEF StatusDue
  <1>11. UpToDate(seen)'
    BY <1>1, <1>10, Zenon DEF UpToDate
  <1> QED
    BY <1>1, <1>11 DEF CalmPass

QuietInv == GatewayInv /\ CachesOK /\ CalmOK

LEMMA InitQuiet == Init => QuietInv
  <1> SUFFICES ASSUME Init PROVE QuietInv
    OBVIOUS
  <1>1. CachesOK
    BY Zenon DEF Init, CachesOK
  <1>2. CalmOK
    BY Zenon DEF Init, CalmOK, Calm
  <1> QED
    BY <1>1, <1>2, InitGateway DEF QuietInv

LEMMA StepQuiet == QuietInv /\ [Next]_vars => QuietInv'
  <1> SUFFICES ASSUME GatewayInv, CachesOK, CalmOK, [Next]_vars PROVE QuietInv'
    BY DEF QuietInv
  <1>1. TypeOK
    BY DEF GatewayInv
  <1>2. CalmOK'
    BY <1>1, UserCalm, ClusterCalm, FetchCalm, ServiceCalm, SecretCalm, DeploymentCalm, ApplyCalm, StatusCalm DEF Next, Pass
  <1> QED
    BY <1>1, <1>2, StepGateway, CachesStep DEF QuietInv

\* For any lag of the caches and any interference: at rest the gateway's objects and status are
\* what the spec asks for, whatever was refused, dropped or lost on the way (updateStatus, the
\* watches of SetupWithManager).
THEOREM QuiescenceReported == Spec => []QuiescentReported
  <1>1. QuietInv => QuiescentReported
    BY DEF QuietInv, QuiescentReported, Quiescent, CalmOK, Calm
  <1> QED
    BY <1>1, InitQuiet, StepQuiet, PTL DEF Spec
================================================================================
