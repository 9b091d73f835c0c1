------------------------------ MODULE PodAdmission ------------------------------
(***************************************************************************)
(* What the two admission policies do to a pod that is being created: the  *)
(* MutatingAdmissionPolicy that the operator renders (injection.go) and    *)
(* the static backstop (config/admission). A pod is what they look at: its *)
(* labels and namespace, whether it is in the host's network, its init     *)
(* containers and its volumes by name. A field that a manifest leaves out  *)
(* is the empty list.                                                      *)
(***************************************************************************)
EXTENDS Integers, Sequences, FiniteSets

CONSTANTS
    Gateways,       \* Wireguards that a sidecar may be aimed at
    NoGateway       \* ... and none, of a container that is no sidecar

SidecarContainer == "wg-client"

Names == {SidecarContainer, "app", "mesh"}

Volumes == {"wg-key", "wg-token", "data"}

\* "always": its restartPolicy is Always; "gateway": the --wireguard it is started with.
Containers == [name: Names, always: BOOLEAN, gateway: Gateways \union {NoGateway}]

\* "enabled": labelled for injection; "component": it has the component label; "system": it is
\* created in kube-system.
Pods ==
    [enabled: BOOLEAN, component: BOOLEAN, system: BOOLEAN, hostNetwork: BOOLEAN,
     initContainers: Seq(Containers), volumes: Seq(Volumes)]

\* The pods that both bindings select.
injectMatchResources(pod) == pod.enabled /\ ~pod.component /\ ~pod.system

injectedSidecar(gateway) == [name |-> SidecarContainer, always |-> TRUE, gateway |-> gateway]

injectedVolumes == <<"wg-key", "wg-token">>

notYetInjected(pod) == \A i \in DOMAIN pod.initContainers : pod.initContainers[i].name # SidecarContainer

\* The patch: the sidecar comes first, the volumes last.
injected(pod, gateway) ==
    [pod EXCEPT !.initContainers = <<injectedSidecar(gateway)>> \o @, !.volumes = @ \o injectedVolumes]

\* What the rendered policy makes of a pod.
renderInjectPolicy(pod, gateway) ==
    IF injectMatchResources(pod) /\ notYetInjected(pod) THEN injected(pod, gateway) ELSE pod

\* Mutant: the sidecar may be anywhere.
requireInjectionAnywhere(pod) ==
    injectMatchResources(pod) =>
        /\ ~pod.hostNetwork
        /\ \E i \in DOMAIN pod.initContainers :
            pod.initContainers[i].name = SidecarContainer /\ pod.initContainers[i].always

\* The backstop lets a pod pass.
requireInjection(pod) ==
    injectMatchResources(pod) =>
        /\ ~pod.hostNetwork
        /\ pod.initContainers # <<>>
        /\ pod.initContainers[1].name = SidecarContainer /\ pod.initContainers[1].always

\* The API server's own validation: names are given once.
distinctNames(pod) ==
    /\ \A i, j \in DOMAIN pod.initContainers :
        pod.initContainers[i].name = pod.initContainers[j].name => i = j
    /\ \A i, j \in DOMAIN pod.volumes : pod.volumes[i] = pod.volumes[j] => i = j
================================================================================
