------------------------- MODULE InjectionPolicy_proofs -------------------------
(***************************************************************************)
(* Proofs about InjectionPolicy, for any Wireguards, pods, lag and number  *)
(* of interferences: type correctness, the binding that has its policy,    *)
(* the pods that are admitted, and what is left when nothing is to be done.*)
(***************************************************************************)
EXTENDS InjectionPolicy, FiniteSetTheorems, TLAPS

--------------------------------------------------------------------------------
(* Values *)

LEMMA Empty == Cardinality({}) = 0 /\ \A S : <<>> \in Seq(S) /\ Len(<<>>) = 0
  <1>1. Cardinality({}) = 0
    BY FS_EmptySet
  <1>2. \A S : <<>> \in Seq(S) /\ Len(<<>>) = 0
    OBVIOUS
  <1> QED
    BY <1>1, <1>2

LEMMA DefaultType ==
    ASSUME NEW list \in Lists
    PROVE  defaultGateway(list) \in SUBSET Wireguards /\ Cardinality(defaultGateway(list)) <= 1
  BY Empty DEF defaultGateway

LEMMA NoPodType == NoPod \in Pods
  BY DEF NoPod, Pods

LEMMA InjectedType ==
    ASSUME NEW p \in Pods, NEW g \in Gateways PROVE injected(p, g) \in Pods
  <1>1. injectedSidecar(g) \in Containers
    BY DEF injectedSidecar, Containers, Names
  <1>2. <<injectedSidecar(g)>> \o p.initContainers \in Seq(Containers)
    BY <1>1 DEF Pods
  <1>3. p.volumes \o injectedVolumes \in Seq(Volumes)
    BY DEF Pods, injectedVolumes, Volumes
  <1> QED
    BY <1>2, <1>3 DEF injected, Pods

LEMMA MutatedType ==
    ASSUME TypeOK, NEW p \in Pods PROVE mutated(p) \in Pods
  <1>1. cpolicy # {} => (CHOOSE g \in cpolicy : TRUE) \in Gateways
    BY PodsAssumption DEF TypeOK
  <1> QED
    BY <1>1, InjectedType DEF mutated, renderInjectPolicy

LEMMA WebhookType ==
    ASSUME NEW p \in Pods, NEW q \in webhookResults(p) PROVE q \in Pods
  <1>1. mesh \in Containers
    BY DEF mesh, Containers, Names
  <1>2. <<mesh>> \o p.initContainers \in Seq(Containers) /\ p.initContainers \o <<mesh>> \in Seq(Containers)
    BY <1>1 DEF Pods
  <1> QED
    BY <1>2 DEF webhookResults, Pods

LEMMA InitType == Init => TypeOK
  <1> SUFFICES ASSUME Init PROVE TypeOK
    OBVIOUS
  <1>1. wgs \in Lists /\ cache \in Lists
    BY DEF Init, Lists
  <1>2. pending \in Seq(Lists) /\ Len(pending) <= MaxLag
    BY Empty, BoundsAssumption DEF Init
  <1>3. policy \in SUBSET Wireguards /\ Cardinality(policy) <= 1 /\ policy = gateway /\ policy = cpolicy
    BY Empty DEF Init
  <1>4. asked \in Pods /\ pod \in Pods /\ admitted \in SUBSET Pods
    BY NoPodType DEF Init
  <1>5. /\ served \in BOOLEAN /\ binding \in BOOLEAN /\ queued \in BOOLEAN /\ timer \in BOOLEAN /\ cbinding \in BOOLEAN
        /\ pc = "idle" /\ stage = "none"
    BY DEF Init
  <1>6. changes \in 0 .. MaxChanges
    BY BoundsAssumption DEF Init
  <1> QED
    BY <1>1, <1>2, <1>3, <1>4, <1>5, <1>6 DEF TypeOK

LEMMA StepType == TypeOK /\ [Next]_vars => TypeOK'
  <1> SUFFICES ASSUME TypeOK, [Next]_vars PROVE TypeOK'
    OBVIOUS
  <1> USE DEF TypeOK
  <1>1. ASSUME NEW kind, Interfere(kind) PROVE changes' \in 0 .. MaxChanges
    BY <1>1, BoundsAssumption DEF Interfere
  <1>2. ASSUME NEW w \in Wireguards, NEW to \in {"absent", "plain", "default"}, EditWireguard(w, to)
        PROVE  TypeOK'
    <2>1. wgs' \in Lists
      BY <1>2 DEF EditWireguard, Lists
    <2>2. pending' \in Seq(Lists) /\ Len(pending') <= MaxLag
      BY <1>2, <2>1, BoundsAssumption DEF EditWireguard
    <2> QED
      BY <1>1, <1>2, <2>1, <2>2 DEF EditWireguard, admission
  <1>3. CASE ServePolicies
    BY <1>1, <1>3 DEF ServePolicies, admission
  <1>4. CASE SyncCache
    <2>1. cache' \in Lists /\ pending' \in Seq(Lists) /\ Len(pending') <= MaxLag
      BY <1>4, BoundsAssumption DEF SyncCache
    <2> QED
      BY <1>4, <2>1 DEF SyncCache, admission
  <1>5. CASE RequeueAfter
    BY <1>5 DEF RequeueAfter, admission
  <1>6. CASE Restart
    <2>1. pending' \in Seq(Lists) /\ Len(pending') <= MaxLag
      BY <1>6, Empty, BoundsAssumption DEF Restart
    <2>2. gateway' \in SUBSET Wireguards /\ Cardinality(gateway') <= 1
      BY <1>6, Empty DEF Restart
    <2>3. changes' \in 0 .. MaxChanges
      BY <1>1, <1>6 DEF Restart
    <2> QED
      BY <1>6, <2>1, <2>2, <2>3 DEF Restart, admission
  <1>7. CASE servedPolicyVersion
    BY <1>7 DEF servedPolicyVersion, admission
  <1>8. CASE listWireguards
    BY <1>8, DefaultType DEF listWireguards, admission
  <1>9. CASE applyPolicy
    BY <1>9 DEF applyPolicy, admission
  <1>10. CASE applyBinding
    BY <1>10, Empty DEF applyBinding, admission
  <1>11. CASE deleteInjectPolicy
    <2>1. policy' \in SUBSET Wireguards /\ Cardinality(policy') <= 1
      <3>1. policy' = {} \/ policy' = policy
        BY <1>11 DEF deleteInjectPolicy
      <3>2. Cardinality({}) = 0
        BY Empty
      <3>3. CASE policy' = {}
        BY <3>2, <3>3
      <3>4. CASE policy' = policy
        BY <3>4
      <3> QED
        BY <3>1, <3>3, <3>4
    <2> QED
      BY <1>11, <2>1 DEF deleteInjectPolicy, admission
  <1>12. CASE PassFails
    BY <1>1, <1>12, Empty DEF PassFails, admission
  <1>13. CASE SyncPolicy
    BY <1>13 DEF SyncPolicy, reconciler
  <1>14. CASE SyncBinding
    BY <1>14 DEF SyncBinding, reconciler
  <1>15. ASSUME NEW p \in Submitted, CreatePod(p) PROVE TypeOK'
    BY <1>1, <1>15, PodsAssumption DEF CreatePod, reconciler
  <1>16. CASE CallPolicy
    BY <1>16, MutatedType DEF CallPolicy, reconciler
  <1>17. CASE CallWebhooks
    BY <1>17, WebhookType DEF CallWebhooks, reconciler
  <1>18. CASE Decide
    BY <1>18, NoPodType DEF Decide, reconciler
  <1>19. CASE UNCHANGED vars
    BY <1>19 DEF vars, admission
  <1> QED
    BY <1>2, <1>3, <1>4, <1>5, <1>6, <1>7, <1>8, <1>9, <1>10, <1>11, <1>12, <1>13, <1>14, <1>15, <1>16,
       <1>17, <1>18, <1>19 DEF Next, Pass

\* Every state has the types of the model, and no policy names two gateways (defaultGateway).
THEOREM TypeCorrect == Spec => []TypeOK
  BY InitType, StepType, PTL DEF Spec

--------------------------------------------------------------------------------
(* The binding has its policy. The order of the pass's requests does it.     *)

BindingInv ==
    /\ pc = "applyPolicy" => gateway # {}
    /\ pc = "applyBinding" => policy # {}
    /\ pc = "deletePolicy" => ~binding
    /\ BindingHasPolicy

LEMMA BindingStep == BindingInv /\ [Next]_vars => BindingInv'
  <1> SUFFICES ASSUME BindingInv, [Next]_vars PROVE BindingInv'
    OBVIOUS
  <1> USE DEF BindingInv, BindingHasPolicy
  <1>1. CASE UNCHANGED <<policy, binding, pc, gateway>>
    BY <1>1
  <1>2. CASE Pass
    BY <1>2 DEF Pass, servedPolicyVersion, listWireguards, applyPolicy, applyBinding, deleteInjectPolicy
  <1>3. CASE PassFails \/ Restart
    BY <1>3 DEF PassFails, Restart
  <1>4. CASE SyncCache \/ RequeueAfter \/ ServePolicies
    BY <1>1, <1>4 DEF SyncCache, RequeueAfter, ServePolicies
  <1>5. ASSUME NEW w, NEW to, EditWireguard(w, to) PROVE BindingInv'
    BY <1>1, <1>5 DEF EditWireguard
  <1>6. CASE SyncPolicy \/ SyncBinding \/ CallPolicy \/ CallWebhooks \/ Decide
    BY <1>1, <1>6 DEF SyncPolicy, SyncBinding, CallPolicy, CallWebhooks, Decide, reconciler
  <1>7. ASSUME NEW p, CreatePod(p) PROVE BindingInv'
    BY <1>1, <1>7 DEF CreatePod, reconciler
  <1>8. CASE UNCHANGED vars
    BY <1>1, <1>8 DEF vars
  <1> QED
    BY <1>2, <1>3, <1>4, <1>5, <1>6, <1>7, <1>8 DEF Next

\* Whatever request of a pass fails, and wherever it is cut short, no binding is left without its
\* policy (Reconcile, deleteInjectPolicy).
THEOREM BindingsBacked == Spec => []BindingHasPolicy
  <1>1. Init => BindingInv
    BY DEF Init, BindingInv, BindingHasPolicy
  <1>2. BindingInv => BindingHasPolicy
    BY DEF BindingInv
  <1> QED
    BY <1>1, <1>2, BindingStep, PTL DEF Spec

--------------------------------------------------------------------------------
(* Admission. A pod without a sidecar of its own gets only the policy's; in   *)
(* one that has its own, another container may come first, no other sidecar.  *)

FromPolicy(p) ==
    \A i \in DOMAIN p.initContainers : p.initContainers[i].name = SidecarContainer =>
        /\ p.initContainers[i].gateway \in Wireguards
        /\ \A v \in {"wg-key", "wg-token"} : \E j \in DOMAIN p.volumes : p.volumes[j] = v

FromAuthor(p) ==
    /\ ~notYetInjected(p)
    /\ p.initContainers[1].name = SidecarContainer =>
            asked.initContainers # <<>> /\ p.initContainers[1] = asked.initContainers[1]

Origin(p) == IF notYetInjected(asked) THEN FromPolicy(p) ELSE FromAuthor(p)

AdmissionInv ==
    /\ stage # "none" => Origin(pod) /\ admitted = {}
    /\ AdmittedTunnelled

LEMMA InjectedOrigin ==
    ASSUME NEW p \in Pods, NEW g \in Wireguards, notYetInjected(p) PROVE FromPolicy(injected(p, g))
  <1> DEFINE c == <<injectedSidecar(g)>> \o p.initContainers
             v == p.volumes \o injectedVolumes
  <1>1. injected(p, g).initContainers = c /\ injected(p, g).volumes = v
    BY DEF injected, Pods
  <1>2. /\ c[1] = injectedSidecar(g)
        /\ \A i \in DOMAIN c : i # 1 => i - 1 \in DOMAIN p.initContainers /\ c[i] = p.initContainers[i - 1]
    BY DEF Pods
  <1>3. \A i \in DOMAIN c : c[i].name = SidecarContainer => c[i].gateway \in Wireguards
    BY <1>2 DEF notYetInjected, injectedSidecar
  <1>4. \A w \in {"wg-key", "wg-token"} : \E j \in DOMAIN v : v[j] = w
    <2>1. /\ Len(p.volumes) + 1 \in DOMAIN v /\ v[Len(p.volumes) + 1] = "wg-key"
          /\ Len(p.volumes) + 2 \in DOMAIN v /\ v[Len(p.volumes) + 2] = "wg-token"
      BY DEF Pods, injectedVolumes
    <2> QED
      BY <2>1
  <1> HIDE DEF c, v
  <1> QED
    BY <1>1, <1>3, <1>4 DEF FromPolicy

LEMMA MutatedOrigin ==
    ASSUME TypeOK, NEW p \in Pods, Origin(p) PROVE Origin(mutated(p))
  <1>1. CASE mutated(p) = p
    BY <1>1
  <1>2. CASE mutated(p) # p
    <2> DEFINE g == CHOOSE h \in cpolicy : TRUE
    <2>1. notYetInjected(p) /\ g \in Wireguards /\ mutated(p) = injected(p, g)
      BY <1>2 DEF mutated, renderInjectPolicy, TypeOK
    <2> HIDE DEF g
    <2>2. FromPolicy(mutated(p)) /\ notYetInjected(asked)
      BY <2>1, InjectedOrigin DEF Origin, FromAuthor
    <2> QED
      BY <2>2 DEF Origin
  <1> QED
    BY <1>1, <1>2

LEMMA WebhookOrigin ==
    ASSUME NEW p \in Pods, NEW q \in webhookResults(p), Origin(p) PROVE Origin(q)
  <1> DEFINE before == <<mesh>> \o p.initContainers
             after  == p.initContainers \o <<mesh>>
  <1>1. /\ before[1] = mesh /\ Len(before) = Len(p.initContainers) + 1
        /\ \A i \in DOMAIN before : i # 1 => i - 1 \in DOMAIN p.initContainers /\ before[i] = p.initContainers[i - 1]
        /\ \A i \in DOMAIN p.initContainers : i + 1 \in DOMAIN before /\ before[i + 1] = p.initContainers[i]
    BY DEF Pods
  <1>2. /\ \A i \in DOMAIN p.initContainers : i \in DOMAIN after /\ after[i] = p.initContainers[i]
        /\ \A i \in DOMAIN after : i \in DOMAIN p.initContainers \/ after[i] = mesh
    BY DEF Pods
  <1>3. mesh.name # SidecarContainer
    BY DEF mesh, SidecarContainer
  <1>4. \A i \in DOMAIN p.initContainers : 1 \in DOMAIN p.initContainers
    BY DEF Pods
  <1>5. /\ q.volumes = p.volumes
        /\ q.initContainers = p.initContainers \/ q.initContainers = before \/ q.initContainers = after
    BY DEF webhookResults, Pods
  <1> HIDE DEF before, after
  <1>6. FromPolicy(p) => FromPolicy(q)
    BY <1>1, <1>2, <1>3, <1>5 DEF FromPolicy
  <1>7. FromAuthor(p) => FromAuthor(q)
    BY <1>1, <1>2, <1>3, <1>4, <1>5 DEF FromAuthor, notYetInjected
  <1> QED
    BY <1>6, <1>7 DEF Origin

\* What the backstop accepts is as promised.
LEMMA AcceptedTunnelled ==
    ASSUME NEW p \in Pods, Origin(p), accepted(p), injectMatchResources(p)
    PROVE  LET first == p.initContainers[1]
           IN  /\ ~p.hostNetwork /\ first.name = SidecarContainer /\ first.always
               /\ \A i \in DOMAIN p.initContainers : p.initContainers[i].name = SidecarContainer => i = 1
               /\ \/ notYetInjected(asked) /\ first.gateway \in Wireguards
                     /\ \A v \in {"wg-key", "wg-token"} : \E i \in DOMAIN p.volumes : p.volumes[i] = v
                  \/ asked.initContainers # <<>> /\ first = asked.initContainers[1]
  <1>1. ~p.hostNetwork /\ p.initContainers # <<>> /\ p.initContainers[1].name = SidecarContainer /\ p.initContainers[1].always
    BY DEF accepted, requireInjection
  <1>2. 1 \in DOMAIN p.initContainers
    BY <1>1 DEF Pods
  <1>3. \A i \in DOMAIN p.initContainers : p.initContainers[i].name = SidecarContainer => i = 1
    BY <1>1, <1>2 DEF accepted, distinctNames
  <1> QED
    BY <1>1, <1>2, <1>3 DEF Origin, FromPolicy, FromAuthor

LEMMA AdmissionStep == TypeOK /\ AdmissionInv /\ [Next]_vars => AdmissionInv'
  <1> SUFFICES ASSUME TypeOK, AdmissionInv, [Next]_vars PROVE AdmissionInv'
    OBVIOUS
  <1>1. CASE UNCHANGED <<stage, asked, pod, admitted>>
    BY <1>1 DEF AdmissionInv, AdmittedTunnelled, Origin, FromPolicy, FromAuthor
  <1>2. CASE Pass
    BY <1>1, <1>2 DEF Pass, servedPolicyVersion, listWireguards, applyPolicy, applyBinding, deleteInjectPolicy, admission
  <1>3. CASE PassFails \/ Restart \/ SyncCache \/ RequeueAfter \/ ServePolicies
    BY <1>1, <1>3 DEF PassFails, Restart, SyncCache, RequeueAfter, ServePolicies, admission
  <1>4. ASSUME NEW w, NEW to, EditWireguard(w, to) PROVE AdmissionInv'
    BY <1>1, <1>4 DEF EditWireguard, admission
  <1>5. CASE SyncPolicy \/ SyncBinding
    BY <1>1, <1>5 DEF SyncPolicy, SyncBinding
  <1>6. ASSUME NEW p \in Submitted, CreatePod(p) PROVE AdmissionInv'
    <2>1. p \in Pods /\ asked' = p /\ pod' = p /\ admitted' = {}
      BY <1>6, PodsAssumption DEF CreatePod
    <2>2. notYetInjected(p) => FromPolicy(p)
      BY DEF notYetInjected, FromPolicy
    <2>3. ~notYetInjected(p) => p.initContainers # <<>>
      BY <2>1 DEF notYetInjected, Pods
    <2> QED
      BY <2>1, <2>2, <2>3 DEF AdmissionInv, AdmittedTunnelled, Origin, FromAuthor
  <1>7. CASE CallPolicy
    <2>1. UNCHANGED <<asked, admitted>> /\ pod' = mutated(pod) /\ Origin(pod) /\ admitted = {} /\ pod \in Pods
      BY <1>7 DEF CallPolicy, AdmissionInv, TypeOK
    <2>2. Origin(mutated(pod))
      BY <2>1, MutatedOrigin
    <2> QED
      BY <2>1, <2>2 DEF AdmissionInv, AdmittedTunnelled, Origin, FromAuthor
  <1>8. CASE CallWebhooks
    <2>1. UNCHANGED <<asked, admitted>> /\ pod' \in webhookResults(pod) /\ Origin(pod) /\ admitted = {} /\ pod \in Pods
      BY <1>8 DEF CallWebhooks, AdmissionInv, TypeOK
    <2>2. Origin(pod')
      BY <2>1, WebhookOrigin
    <2> QED
      BY <2>1, <2>2 DEF AdmissionInv, AdmittedTunnelled, Origin, FromAuthor
  <1>9. CASE Decide
    <2>1. stage' = "none" /\ admitted = {} /\ Origin(pod) /\ pod \in Pods
      BY <1>9 DEF Decide, AdmissionInv, TypeOK
    <2>2. CASE accepted(pod)
      <3>1. admitted' = {pod} /\ asked' = asked
        BY <1>9, <2>2 DEF Decide
      <3> QED
        BY <2>1, <2>2, <3>1, AcceptedTunnelled DEF AdmissionInv, AdmittedTunnelled
    <2>3. CASE ~accepted(pod)
      <3>1. admitted' = {}
        BY <1>9, <2>1, <2>3 DEF Decide
      <3> QED
        BY <2>1, <3>1 DEF AdmissionInv, AdmittedTunnelled
    <2> QED
      BY <2>2, <2>3
  <1>10. CASE UNCHANGED vars
    BY <1>1, <1>10 DEF vars, admission
  <1> QED
    BY <1>2, <1>3, <1>4, <1>5, <1>6, <1>7, <1>8, <1>9, <1>10 DEF Next

\* No labelled pod is created without the sidecar in first place, whatever pods there are, whatever
\* happens to the policy between the calls and whatever webhooks do (renderInjectPolicy, the
\* backstop in config/admission).
THEOREM PodsTunnelled == Spec => []AdmittedTunnelled
  <1>1. Init => AdmissionInv
    BY DEF Init, AdmissionInv, AdmittedTunnelled
  <1>2. AdmissionInv => AdmittedTunnelled
    BY DEF AdmissionInv
  <1> QED
    BY <1>1, <1>2, AdmissionStep, InitType, StepType, PTL DEF Spec

--------------------------------------------------------------------------------
(* Quiescence. Until the request is queued again, a pass works from the       *)
(* current cache, and what it leaves is what that cache calls for.             *)

SyncInv ==
    /\ pending = <<>> => cache = wgs
    /\ pending # <<>> => pending[Len(pending)] = wgs
    /\ pc # "idle" => served
    /\ ~queued /\ ~timer /\ pc = "idle" =>
            served /\ policy = defaultGateway(cache) /\ (binding <=> policy # {})
    /\ ~queued /\ pc = "applyPolicy" => gateway = defaultGateway(cache) /\ gateway # {}
    /\ ~queued /\ pc = "applyBinding" => policy = defaultGateway(cache) /\ policy # {}
    /\ ~queued /\ pc = "deleteBinding" => defaultGateway(cache) = {}
    /\ ~queued /\ pc = "deletePolicy" => defaultGateway(cache) = {} /\ ~binding

LEMMA SyncStep == TypeOK /\ SyncInv /\ [Next]_vars => SyncInv'
  <1> SUFFICES ASSUME TypeOK, SyncInv, [Next]_vars PROVE SyncInv'
    OBVIOUS
  <1>1. CASE UNCHANGED reconciler
    BY <1>1 DEF SyncInv, reconciler
  <1>2. CASE Pass
    <2>1. CASE servedPolicyVersion
      BY <2>1 DEF SyncInv, servedPolicyVersion
    <2>2. CASE listWireguards
      BY <2>2 DEF SyncInv, listWireguards
    <2>3. CASE applyPolicy
      BY <2>3 DEF SyncInv, applyPolicy
    <2>4. CASE applyBinding
      BY <2>4 DEF SyncInv, applyBinding, TypeOK
    <2>5. CASE deleteInjectPolicy
      <3>1. CASE pc = "deleteBinding"
        BY <2>5, <3>1 DEF SyncInv, deleteInjectPolicy
      <3>2. CASE pc = "deletePolicy"
        <4>1. /\ pc' = "idle" /\ policy' = {} /\ binding' = binding
              /\ UNCHANGED <<wgs, cache, pending, served, queued, timer>>
          BY <2>5, <3>2 DEF deleteInjectPolicy
        <4> QED
          BY <3>2, <4>1 DEF SyncInv
      <3> QED
        BY <2>5, <3>1, <3>2 DEF deleteInjectPolicy
    <2> QED
      BY <1>2, <2>1, <2>2, <2>3, <2>4, <2>5 DEF Pass
  <1>3. CASE PassFails \/ Restart
    BY <1>3 DEF SyncInv, PassFails, Restart
  <1>4. CASE RequeueAfter \/ ServePolicies
    BY <1>4 DEF SyncInv, RequeueAfter, ServePolicies
  <1>5. CASE SyncCache
    <2>1. pending \in Seq(Lists) /\ pending # <<>> /\ pending' = Tail(pending) /\ cache' = Head(pending)
          /\ UNCHANGED <<wgs, served, pc>> /\ queued'
      BY <1>5 DEF SyncCache, TypeOK
    <2>2. pending' = <<>> => cache' = pending[Len(pending)]
      <3>1. Len(pending) \in Nat \ {0} /\ Len(pending') = Len(pending) - 1 /\ cache' = pending[1]
        BY <2>1
      <3>2. pending' = <<>> => Len(pending') = 0
        OBVIOUS
      <3> QED
        BY <3>1, <3>2
    <2>3. pending' # <<>> => pending'[Len(pending')] = pending[Len(pending)]
      BY <2>1
    <2> QED
      BY <2>1, <2>2, <2>3 DEF SyncInv
  <1>6. ASSUME NEW w, NEW to, EditWireguard(w, to) PROVE SyncInv'
    <2>1. pending \in Seq(Lists) /\ pending' = Append(pending, wgs')
          /\ UNCHANGED <<cache, served, policy, binding, queued, timer, pc, gateway>>
      BY <1>6 DEF EditWireguard, TypeOK
    <2>2. pending' # <<>> /\ pending'[Len(pending')] = wgs'
      BY <2>1
    <2> QED
      BY <2>1, <2>2 DEF SyncInv
  <1>7. CASE SyncPolicy \/ SyncBinding \/ CallPolicy \/ CallWebhooks \/ Decide
    BY <1>1, <1>7 DEF SyncPolicy, SyncBinding, CallPolicy, CallWebhooks, Decide
  <1>8. ASSUME NEW p, CreatePod(p) PROVE SyncInv'
    BY <1>1, <1>8 DEF CreatePod
  <1>9. CASE UNCHANGED vars
    BY <1>1, <1>9 DEF vars, reconciler
  <1> QED
    BY <1>2, <1>3, <1>4, <1>5, <1>6, <1>7, <1>8, <1>9 DEF Next

\* The names of an injected pod do not depend on the gateway.
LEMMA NamesSame ==
    ASSUME NEW p \in Pods, NEW g, NEW h, distinctNames(injected(p, h)) PROVE distinctNames(injected(p, g))
  <1> DEFINE c(x) == <<injectedSidecar(x)>> \o p.initContainers
             v == p.volumes \o injectedVolumes
  <1>1. \A x : injected(p, x).initContainers = c(x) /\ injected(p, x).volumes = v
    BY DEF injected, Pods
  <1>2. /\ DOMAIN c(g) = DOMAIN c(h)
        /\ \A i \in DOMAIN c(g) : c(g)[i].name = c(h)[i].name
    BY DEF injectedSidecar, Pods
  <1> HIDE DEF c, v
  <1> QED
    BY <1>1, <1>2 DEF distinctNames

\* A pod that can be injected is, and is then left as it is.
LEMMA InjectableInjected ==
    ASSUME NEW p \in Pods, Injectable(p), NEW g
    PROVE  /\ renderInjectPolicy(p, g) = injected(p, g)
           /\ renderInjectPolicy(injected(p, g), g) = injected(p, g)
           /\ injected(p, g).initContainers[1].gateway = g
           /\ Tail(injected(p, g).initContainers) = p.initContainers
           /\ accepted(injected(p, g))
  <1> DEFINE c == <<injectedSidecar(g)>> \o p.initContainers
  <1>1. injected(p, g) = [p EXCEPT !.initContainers = c, !.volumes = @ \o injectedVolumes]
    BY DEF injected
  <1>2. c # <<>> /\ 1 \in DOMAIN c /\ c[1] = injectedSidecar(g) /\ Tail(c) = p.initContainers
    BY DEF Pods
  <1> HIDE DEF c
  <1>3. injected(p, g).initContainers = c /\ ~injected(p, g).hostNetwork
    BY <1>1 DEF Pods, Injectable
  <1>4. ~notYetInjected(injected(p, g))
    BY <1>2, <1>3 DEF notYetInjected, injectedSidecar
  <1>5. requireInjection(injected(p, g))
    BY <1>2, <1>3 DEF requireInjection, injectedSidecar
  <1>6. distinctNames(injected(p, g))
    BY NamesSame DEF Injectable
  <1> QED
    BY <1>2, <1>3, <1>4, <1>5, <1>6 DEF renderInjectPolicy, accepted, injectedSidecar, Injectable

\* Whatever happened before, when the operator has nothing left to do the next pod is injected
\* with the one default gateway, or refused without one (Reconcile, SetupWithManager's kick,
\* renderInjectPolicy).
THEOREM QuiescenceInStep == Spec => []QuiescentInStep
  <1>1. Init => SyncInv
    BY DEF Init, SyncInv
  <1>2. TypeOK /\ SyncInv => QuiescentInStep
    <2> SUFFICES ASSUME TypeOK, SyncInv, Quiescent, served, NEW p \in Submitted, Injectable(p)
                 PROVE  /\ accepted(mutated(p)) <=> defaultGateway(wgs) # {}
                        /\ accepted(mutated(p)) =>
                            /\ {mutated(p).initContainers[1].gateway} = defaultGateway(wgs)
                            /\ mutated(mutated(p)) = mutated(p)
                            /\ Tail(mutated(p).initContainers) = p.initContainers
      BY DEF QuiescentInStep, InStep
    <2>1. p \in Pods /\ cpolicy = defaultGateway(wgs) /\ (cbinding <=> cpolicy # {})
      BY PodsAssumption DEF Quiescent, SyncInv
    <2>2. CASE defaultGateway(wgs) = {}
      <3>1. mutated(p) = p
        BY <2>1, <2>2 DEF mutated
      <3>2. ~accepted(p)
        <4>1. p.initContainers # <<>> => 1 \in DOMAIN p.initContainers
          BY <2>1 DEF Pods
        <4> QED
          BY <4>1 DEF accepted, requireInjection, Injectable, notYetInjected
      <3> QED
        BY <2>2, <3>1, <3>2
    <2>3. CASE defaultGateway(wgs) # {}
      <3> DEFINE g == CHOOSE h \in cpolicy : TRUE
      <3>1. \A q : mutated(q) = renderInjectPolicy(q, g)
        BY <2>1, <2>3 DEF mutated
      <3>2. defaultGateway(wgs) = {g}
        <4>1. Cardinality(defaultGateway(wgs)) = 1
          BY <2>3 DEF defaultGateway
        <4>2. \E x : defaultGateway(wgs) = {x}
          <5>1. defaultGateway(wgs) \subseteq Wireguards
            BY DEF defaultGateway
          <5> QED
            BY <4>1, <5>1, FiniteAssumption, FS_Subset, FS_Singleton
        <4> QED
          BY <2>1, <4>2
      <3> HIDE DEF g
      <3> QED
        BY <2>1, <2>3, <3>1, <3>2, InjectableInjected
    <2> QED
      BY <2>2, <2>3
  <1> QED
    BY <1>1, <1>2, SyncStep, InitType, StepType, PTL DEF Spec
================================================================================
