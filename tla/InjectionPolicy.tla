---------------------------- MODULE InjectionPolicy ----------------------------
(***************************************************************************)
(* The policy that injects the sidecar, its binding, and the pods that are *)
(* created meanwhile (injection.go). While exactly one Wireguard of the    *)
(* operator's namespace is annotated as the default, the policy aims the   *)
(* sidecars of new pods at it; otherwise there is none, and the static     *)
(* backstop refuses labelled pods. The reconciler never reads the two      *)
(* objects back: it must leave them right after any sequence of events,    *)
(* failures and restarts.                                                  *)
(*                                                                         *)
(* The API server reads policy and binding through caches of its own. It   *)
(* calls the policy, then the webhooks of others, perhaps the policy once  *)
(* more, and last the backstop. One pod is created at a time.              *)
(***************************************************************************)
EXTENDS PodAdmission

CONSTANTS
    Wireguards,     \* Wireguards of the operator's namespace, by name
    Submitted,      \* the pods that may be created
    MaxLag,         \* bound: how many versions the cache is behind
    Interferences,  \* the kinds of interference an instance considers
    MaxChanges      \* bound: how often they happen

ASSUME PodsAssumption == Wireguards \subseteq Gateways /\ Submitted \subseteq Pods

ASSUME FiniteAssumption == IsFiniteSet(Wireguards)

ASSUME BoundsAssumption == MaxLag \in Nat /\ MaxChanges \in Nat

VARIABLES
    wgs,            \* the Wireguards, in the API
    cache, pending, \* the cached ones, and the versions the watch has yet to deliver
    served,         \* the cluster serves MutatingAdmissionPolicy
    policy,         \* the gateway that the policy injects, in a set; no policy if empty
    binding,        \* its binding exists
    queued, timer,  \* the request is in the work queue; it is to be added later
    pc, gateway,    \* the pass's place, and the gateway it applies, in a set
    cpolicy, cbinding,  \* the policy and its binding as admission sees them
    stage,          \* where the admission of a pod is
    asked, pod,     \* the pod as it was submitted, and as it is now
    admitted,       \* the last pod that was created, in a set
    changes

admission == <<cpolicy, cbinding, stage, asked, pod, admitted>>
vars == <<wgs, cache, pending, served, policy, binding, queued, timer, pc, gateway, admission, changes>>

\* "default": annotated as the default gateway.
Lists == [Wireguards -> {"absent", "plain", "default"}]

\* The pod while none is being created.
NoPod ==
    [enabled |-> FALSE, component |-> FALSE, system |-> FALSE, hostNetwork |-> FALSE,
     initContainers |-> <<>>, volumes |-> <<>>]

\* The type invariant; the policy never names two gateways.
TypeOK ==
    /\ wgs \in Lists /\ cache \in Lists /\ pending \in Seq(Lists) /\ Len(pending) <= MaxLag
    /\ served \in BOOLEAN /\ binding \in BOOLEAN /\ queued \in BOOLEAN /\ timer \in BOOLEAN
    /\ policy \in SUBSET Wireguards /\ Cardinality(policy) <= 1
    /\ pc \in {"idle", "list", "applyPolicy", "applyBinding", "deleteBinding", "deletePolicy"}
    /\ gateway \in SUBSET Wireguards /\ Cardinality(gateway) <= 1
    /\ cpolicy \in SUBSET Wireguards /\ Cardinality(cpolicy) <= 1 /\ cbinding \in BOOLEAN
    /\ stage \in {"none", "mutate", "webhooks", "reinvoke", "validate"}
    /\ asked \in Pods /\ pod \in Pods /\ admitted \in SUBSET Pods
    /\ changes \in 0 .. MaxChanges

Init ==
    /\ wgs \in [Wireguards -> {"absent", "plain"}] /\ cache = wgs /\ pending = <<>>
    /\ served \in BOOLEAN /\ policy = {} /\ binding = FALSE
    /\ queued = TRUE /\ timer = FALSE /\ pc = "idle" /\ gateway = {}
    /\ cpolicy = {} /\ cbinding = FALSE
    /\ stage = "none" /\ asked = NoPod /\ pod = NoPod /\ admitted = {}
    /\ changes = 0

--------------------------------------------------------------------------------
(* The environment, the watch and the work queue *)

Interfere(kind) == kind \in Interferences /\ changes < MaxChanges /\ changes' = changes + 1

\* A Wireguard is created, deleted, or gets or loses the annotation.
EditWireguard(w, to) ==
    /\ Interfere("user") /\ to # wgs[w]
    /\ wgs' = [wgs EXCEPT ![w] = to]
    /\ Len(pending) < MaxLag /\ pending' = Append(pending, wgs')
    /\ UNCHANGED <<cache, served, policy, binding, queued, timer, pc, gateway, admission>>

\* The beta is enabled, or the cluster upgraded.
ServePolicies ==
    /\ Interfere("serve") /\ ~served /\ served' = TRUE
    /\ UNCHANGED <<wgs, cache, pending, policy, binding, queued, timer, pc, gateway, admission>>

\* Every change of this model passes AnnotationChangedPredicate.
SyncCache ==
    /\ pending # <<>>
    /\ cache' = Head(pending) /\ pending' = Tail(pending)
    /\ queued' = TRUE
    /\ UNCHANGED <<wgs, served, policy, binding, timer, pc, gateway, admission, changes>>

RequeueAfter ==
    /\ timer /\ timer' = FALSE /\ queued' = TRUE
    /\ UNCHANGED <<wgs, cache, pending, served, policy, binding, pc, gateway, admission, changes>>

\* Mutant: only the Wireguards found raise an event.
RestartUnkicked ==
    /\ Interfere("restart")
    /\ cache' = wgs /\ pending' = <<>>
    /\ queued' = (\E w \in Wireguards : wgs[w] # "absent") /\ timer' = FALSE
    /\ pc' = "idle" /\ gateway' = {}
    /\ UNCHANGED <<wgs, served, policy, binding, admission>>

\* The start-up kick queues the request even when no Wireguard exists.
Restart ==
    /\ Interfere("restart")
    /\ cache' = wgs /\ pending' = <<>> /\ queued' = TRUE /\ timer' = FALSE
    /\ pc' = "idle" /\ gateway' = {}
    /\ UNCHANGED <<wgs, served, policy, binding, admission>>

--------------------------------------------------------------------------------
(* Reconcile *)

\* Mutant: one of several defaults is taken.
defaultGatewayAny(list) == {w \in Wireguards : list[w] = "default"}

\* The one default, in a set; empty for the error when there is none or several.
defaultGateway(list) ==
    LET defaults == {w \in Wireguards : list[w] = "default"}
    IN  IF Cardinality(defaults) = 1 THEN defaults ELSE {}

\* Mutant: a cluster that does not serve the policies is not asked again.
servedPolicyVersionOnce ==
    /\ pc = "idle" /\ queued /\ queued' = FALSE
    /\ pc' = IF served THEN "list" ELSE "idle"
    /\ UNCHANGED <<wgs, cache, pending, served, policy, binding, timer, gateway, admission, changes>>

servedPolicyVersion ==
    /\ pc = "idle" /\ queued /\ queued' = FALSE
    /\ IF served THEN pc' = "list" /\ UNCHANGED timer ELSE timer' = TRUE /\ UNCHANGED pc
    /\ UNCHANGED <<wgs, cache, pending, served, policy, binding, gateway, admission, changes>>

listWireguards ==
    /\ pc = "list"
    /\ gateway' = defaultGateway(cache)
    /\ pc' = IF gateway' # {} THEN "applyPolicy" ELSE "deleteBinding"
    /\ UNCHANGED <<wgs, cache, pending, served, policy, binding, queued, timer, admission, changes>>

applyPolicy ==
    /\ pc = "applyPolicy" /\ pc' = "applyBinding"
    /\ policy' = gateway
    /\ UNCHANGED <<wgs, cache, pending, served, binding, queued, timer, gateway, admission, changes>>

applyBinding ==
    /\ pc = "applyBinding" /\ pc' = "idle" /\ gateway' = {}
    /\ binding' = TRUE
    /\ UNCHANGED <<wgs, cache, pending, served, policy, queued, timer, admission, changes>>

\* Mutant: the policy goes before its binding.
deleteInjectPolicyFirst ==
    /\ \/ pc = "deleteBinding" /\ pc' = "deletePolicy" /\ policy' = {} /\ UNCHANGED binding
       \/ pc = "deletePolicy" /\ pc' = "idle" /\ binding' = FALSE /\ UNCHANGED policy
    /\ UNCHANGED <<wgs, cache, pending, served, queued, timer, gateway, admission, changes>>

\* The binding, then the policy; neither existing is no error.
deleteInjectPolicy ==
    /\ \/ pc = "deleteBinding" /\ pc' = "deletePolicy" /\ binding' = FALSE /\ UNCHANGED policy
       \/ pc = "deletePolicy" /\ pc' = "idle" /\ policy' = {} /\ UNCHANGED binding
    /\ UNCHANGED <<wgs, cache, pending, served, queued, timer, gateway, admission, changes>>

\* A request fails, and the pass is retried.
PassFails ==
    /\ Interfere("failure") /\ pc # "idle"
    /\ pc' = "idle" /\ gateway' = {} /\ queued' = TRUE
    /\ UNCHANGED <<wgs, cache, pending, served, policy, binding, timer, admission>>

--------------------------------------------------------------------------------
(* Admission *)

reconciler == <<wgs, cache, pending, served, policy, binding, queued, timer, pc, gateway>>

SyncPolicy ==
    /\ cpolicy # policy /\ cpolicy' = policy
    /\ UNCHANGED <<reconciler, cbinding, stage, asked, pod, admitted, changes>>

SyncBinding ==
    /\ cbinding # binding /\ cbinding' = binding
    /\ UNCHANGED <<reconciler, cpolicy, stage, asked, pod, admitted, changes>>

CreatePod(p) ==
    /\ Interfere("create") /\ stage = "none"
    /\ stage' = "mutate" /\ asked' = p /\ pod' = p /\ admitted' = {}
    /\ UNCHANGED <<reconciler, cpolicy, cbinding>>

\* What the policy makes of a pod now: a binding without its policy does nothing.
mutated(p) ==
    IF cbinding /\ cpolicy # {} THEN renderInjectPolicy(p, CHOOSE g \in cpolicy : TRUE) ELSE p

CallPolicy ==
    /\ stage \in {"mutate", "reinvoke"}
    /\ stage' = IF stage = "mutate" THEN "webhooks" ELSE "validate"
    /\ pod' = mutated(pod)
    /\ UNCHANGED <<reconciler, cpolicy, cbinding, asked, admitted, changes>>

mesh == [name |-> "mesh", always |-> TRUE, gateway |-> NoGateway]

\* What a webhook may do to the pod: nothing, an init container at either end, the label.
webhookResults(p) ==
    {p, [p EXCEPT !.initContainers = <<mesh>> \o @], [p EXCEPT !.initContainers = @ \o <<mesh>>],
     [p EXCEPT !.enabled = TRUE]}

\* The webhooks of others are called. A change may call for the policy again (IfNeeded).
CallWebhooks ==
    /\ stage = "webhooks" /\ stage' \in {"reinvoke", "validate"}
    /\ pod' \in webhookResults(pod)
    /\ UNCHANGED <<reconciler, cpolicy, cbinding, asked, admitted, changes>>

accepted(p) == requireInjection(p) /\ distinctNames(p)

\* The backstop and the API server's validation decide.
Decide ==
    /\ stage = "validate" /\ stage' = "none" /\ pod' = NoPod
    /\ IF accepted(pod) THEN admitted' = {pod} /\ UNCHANGED asked ELSE asked' = NoPod /\ UNCHANGED admitted
    /\ UNCHANGED <<reconciler, cpolicy, cbinding, changes>>

--------------------------------------------------------------------------------
(* Specification *)

Pass == servedPolicyVersion \/ listWireguards \/ applyPolicy \/ applyBinding \/ deleteInjectPolicy

Next ==
    \/ Pass \/ SyncCache \/ RequeueAfter \/ PassFails \/ Restart \/ ServePolicies
    \/ \E w \in Wireguards, to \in {"absent", "plain", "default"} : EditWireguard(w, to)
    \/ SyncPolicy \/ SyncBinding
    \/ CallPolicy \/ CallWebhooks \/ Decide \/ \E p \in Submitted : CreatePod(p)

Spec == Init /\ [][Next]_vars

\* The watches deliver, the timer expires and the one worker takes from the queue.
FairSpec ==
    /\ Spec /\ WF_vars(Pass) /\ WF_vars(SyncCache) /\ WF_vars(RequeueAfter)
    /\ WF_vars(SyncPolicy) /\ WF_vars(SyncBinding)

--------------------------------------------------------------------------------
(* Properties *)

\* A binding never outlives its policy nor precedes it, wherever a pass is cut short (Reconcile,
\* deleteInjectPolicy).
BindingHasPolicy == binding => policy # {}

\* Every pod that is created and that the label is for has the sidecar first and for good: the
\* operator's, with its volumes, unless its author put one there. Neither a policy that comes or
\* goes between two calls, nor what webhooks do, nor a policy called twice lets another through
\* (renderInjectPolicy, require_injection_policy.yaml).
AdmittedTunnelled ==
    \A p \in admitted : injectMatchResources(p) =>
        LET first == p.initContainers[1]
        IN  /\ ~p.hostNetwork /\ first.name = SidecarContainer /\ first.always
            /\ \A i \in DOMAIN p.initContainers : p.initContainers[i].name = SidecarContainer => i = 1
            /\ \/ notYetInjected(asked) /\ first.gateway \in Wireguards
                  /\ \A v \in {"wg-key", "wg-token"} : \E i \in DOMAIN p.volumes : p.volumes[i] = v
               \/ asked.initContainers # <<>> /\ first = asked.initContainers[1]

\* A pod with the label, and nothing in it that stands in the way of the sidecar.
Injectable(p) ==
    injectMatchResources(p) /\ ~p.hostNetwork /\ notYetInjected(p) /\ distinctNames(injected(p, NoGateway))

\* Injection is as the Wireguards call for: exactly the one default gateway is injected, into every
\* pod that can be, once however often the policy is called, and the pod keeps what is its own;
\* without one default such a pod is refused.
InStep ==
    \A p \in Submitted : Injectable(p) =>
        /\ accepted(mutated(p)) <=> defaultGateway(wgs) # {}
        /\ accepted(mutated(p)) =>
            /\ {mutated(p).initContainers[1].gateway} = defaultGateway(wgs)
            /\ mutated(mutated(p)) = mutated(p)
            /\ Tail(mutated(p).initContainers) = p.initContainers

\* Nothing runs, is queued or on its way.
Quiescent ==
    pc = "idle" /\ ~queued /\ ~timer /\ pending = <<>> /\ cpolicy = policy /\ cbinding = binding

\* When the operator has nothing left to do and the cluster serves the policies, pods are injected
\* or refused as the Wireguards call for (Reconcile, SetupWithManager, renderInjectPolicy).
QuiescentInStep == Quiescent /\ served => InStep

\* Once nothing interferes any more, injection comes to be as the Wireguards call for, also on a
\* cluster that starts to serve the policies late (policyRecheck).
Converges == <>[](served => InStep)
================================================================================
