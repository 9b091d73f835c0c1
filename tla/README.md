# Verification of tunnel-operator

TLA+ models of the WireGuard gateway operator in `src/`, the TLC runs that check them on small
instances, and TLAPS proofs of the core results for every instance. `PROJECT.json` lists the
components, the source lines each definition models, the runs, the hazards and the theorems.

## The system

| Part | Source | Model |
|---|---|---|
| Wireguard reconciler: admits WireguardPeers, allocates their addresses, writes the Secret with the server's key and `state.json`, publishes endpoint and key in the peers' status | `internal/controller/wireguard_controller.go`, `peers.go`, `internal/ipam`, `internal/resources/secret.go` | `PeerAdmission`, `PeerReconciler`, `Roster` |
| Gateway agent: makes the WireGuard device, routing and iptables of the gateway pod match `state.json` | `cmd/agent`, `internal/agent`, `internal/wireguard`, `internal/datapath` | `WireguardDevice`, `Agent` |
| Client sidecar: registers a pod as a WireguardPeer and routes the pod through the tunnel | `internal/sidecar` | `SidecarPeer`, `SidecarRoutes` |
| The gateway itself: checks the spec, applies Service and Deployment, reports rollout and problems in the Wireguard's status | `wireguard_controller.go`, `gateway.go`, `apply.go`, `internal/resources` | `GatewaySpec`, `GatewayStatus` |
| Injection policy reconciler: renders the admission policy that injects the sidecar; the static backstop refuses pods without it | `internal/controller/injection.go`, `config/admission` | `PodAdmission`, `InjectionPolicy` |
| Client RoleBinding reconciler: binds the sidecar's role in the namespaces that have labelled pods | `internal/controller/injection_rbac.go` | `ClientRoleBinding` |
| Manager start-up, API types, resource builders, environment parsing | `cmd/manager`, `api`, `internal/resources`, `internal/sidecar/config.go` | see "Not modelled" |

The parts meet in API objects and files. A sidecar creates a WireguardPeer. The reconciler
allocates its address and writes two things: the Secret, which the kubelet mounts as the
`state.json` that the agent follows, and the peer's status, which the sidecar applies. Each module
models one part, with the others as its environment. The seams are explicit:

* `Roster` is what `PeerReconciler` promises of the files and of the peers' addresses, without
  passes or caches; the refinement is checked (`ImplementsRoster`) and proved (`RosterImplemented`).
* `Agent` assumes of the file that no two listed peers share an address (`FilesAssumption`). That is
  proved of every Secret, as the agent parses it (`PeerPromises_proofs!AgentAssumptionMet`).
* `PeerReconciler` and `GatewayStatus` are two views of one `Reconcile`: the first has the peers and
  ends a pass early where the second has the Service, the Deployment and the status; the second has
  of the Secret what the spec puts there.
* `InjectionPolicy` composes the reconciler with admission, of which `PodAdmission` has the two
  policies.
* `SidecarPeer` has the operator publish, change and withdraw statuses in any order
  (`PublishStatus`). What a complete status does in the pod is one step there and every netlink
  request in `SidecarRoutes`.

## Modules

### PeerAdmission

The decisions of a pass, as operators: admission (`admissionProblem`, `admitPeers`), who keeps a
shared key or address (`dedupePublicKeys`, `dedupeAddresses`), what is usable in a pool
(`addressUsable`), the allocator (`GetUsedIPs`, `AllocateIP`) and whether a status must be written
(`peerStatusMatches`). Addresses are numbers and a pool is a base with a size, so the network, the
gateway and the last address are at their real places. A status is its reason with the peer that
its message names; a public key is a model value, `BadKey` one that does not parse. The Go loops
are given by the sets they compute.

### PeerReconciler

`Reconcile` against the API server. Each kind has its own cache, which holds some earlier state
and moves forward on its own; moving it enqueues the gateways concerned. A status write succeeds
only if the copy is current (resourceVersion); the Secret is updated without a version, as in the
code. Instead of numbering versions the model keeps the set of objects written since a copy was
taken. Users create, edit and delete peers, gateways and Secrets; requests fail; the operator
restarts. Every write of a pass is a step, in the code's order: refusals by stage, allocations,
the Secret, then the identity of each admitted peer.

Abstractions:

* The reads at the start of a pass, and the Secret's Get with its Update, are one step each. A
  cache that moves in between could as well have moved before or after.
* The loops run in any order, since a cache lists in any.
* A write refused as invalid is a skipped write, like one that conflicts.
* Failures of the Service and Deployment applies are `PassFails`; other spec problems end a pass
  like an invalid peerCIDR. The endpoint, the local CIDRs and the server's key are one `identity`.
* The first pass, which only writes a status, and the Wireguard's own conditions are
  `GatewayStatus`'s.

### Roster

The abstract specification. A gateway's file is written whole, under one server key for as long as
it exists, and is always well formed: one address for a key, no address for two, and only addresses
the pool can give a peer. A lease, the address in a peer's status, is granted and released, and is
exchanged for another only when some pool cannot use it. `PeerReconciler` maps the Secrets to the
files (`fileOf`) and the peers' addresses to the leases.

### GatewaySpec and GatewayStatus

`GatewaySpec` has the checks: `specProblem` in the code's order, `clusterIPOutside`, and what counts
as reserved. A prefix is the set of its IPv4 addresses with what `ParsePrefix` says of its text, and
a variable's name is a sequence of parts, so that a Secret's key under a prefix is a concatenation.

`GatewayStatus` has a pass as the sequence of its API writes: the fetch with its checks, the Service,
the Secret, the patch that clears `rollingUpdate`, the patch that migrates the field manager, the
Deployment, the status. Beside it run the Deployment controller (Recreate, one pod, a status that
lags), the garbage collector, the caches and users. Specs, objects and referenced Secrets are edited
and deleted, the Wireguard is replaced by one of the same name, pods become unready, requests fail and
the operator restarts, between any two steps. It starts in a new cluster, or over the Deployment that
the operator's predecessor left; in the second case two bounds apply, also to the proofs: the
Wireguard is not replaced before the operator has taken that Deployment over and its pod is gone, and
the template is not edited before the `rollingUpdate` block is cleared.

Abstractions:

* A Deployment's template is the spec it was rendered from; `mixed` is one in which fields of the
  legacy manager stay. The status of the Deployment counts pods, and the model has their templates.
* The peers of the pass, and the identity written to them, are `PeerReconciler`'s.
* After an update of the Secret the code annotates the gateway's pods, which makes the kubelet refresh
  the mounted file sooner. The annotation is left out here and in `PeerReconciler`; a failure of it
  ends the pass (`PassFails`).
* The Service's field-manager migration is left out: it is the same code as the Deployment's.
* A referenced Secret is read as it is, since a cache that lags cannot be told from a later edit.
* Server keys are five numbers, and one that is neither cached, published nor held by the pass may be
  used again.

### WireguardDevice and Agent

`WireguardDevice` has the peer diff (`createPeersConfiguration`) and the kernel's rule that an
allowed IP belongs to one peer. `Agent` runs three threads over it: the file watcher with its
start-up, the health probe, which syncs the device before it answers, and the reassert ticker.
Nothing serialises the Syncs; a mutex serialises the Ensures. Reads and the requests that depend
on them are separate steps. The file changes, requests fail, gluetun restarts and flushes
iptables, and the agent restarts, at any point.

Abstractions: the hash is the content; a peerCIDR stands for its gateway address too; the iptables
rules of a peerCIDR are one unit; the peer-path and gluetun checks are the flag `tunnel`; there is
one probe at a time; an unreadable file at a tick changes nothing and is no step; the peers of one
configuration are sent one by one, which allows for the parts wgctrl may split it into. The main
table's route of an earlier peerCIDR stays, as in the code, and no property mentions it.

### SidecarPeer

The sidecars of successive pods of one name: the key file with its creation and its write, the
watch cache, and each pass's decision, delete and create. A pod deleted by force leaves its sidecar
running next to the new pod's. The garbage collector removes the peers of pods that are gone.

Abstractions: the kick of a watch event is subsumed by the ticker, as a pass may start at any
time; UIDs that nothing refers to are used again, which keeps the state finite and cannot be
observed; edits of ownerReferences in place and a missing RoleBinding are left out. A torn key file
keeps the sidecar from starting until its pod is deleted, as in the code, and the run `sidecars`
therefore does not check deadlock.

### SidecarRoutes

A pass over the pod's main table: link, device, plan, local routes, default route, stale routes and
IPv6 defaults, each request a step that can fail. The status changes, wg0 vanishes with its routes,
and the CNI sets its default route again. A table has one route per destination and priority, as in
the kernel, so replacing a default of equal priority removes it.

Abstractions: the key is constant, so a device is known by its server; the CNI has one gateway;
IPv6 default routes are one flag; while the status is not ready Apply is not called.

### ClientRoleBinding

One namespace: its pods, the RoleBinding of the managed name, a cache of each that lags behind by a
bounded number of versions, the forced apply and the delete pinned to a UID. `applied` is the
operator's entry in managedFields: whether it ever applied this very object. `dropped` is history: a
relabelled pod was delivered and no pass has read the pods since. The map of refusals already logged
is left out.

### PodAdmission and InjectionPolicy

`PodAdmission` has what the two policies do to a pod: the selectors, the rendered patch with its
match condition, and the validations of the backstop. A pod is its labels, whether it is in the
host's network or in kube-system, its init containers (name, restart policy, gateway) and its volumes
by name.

`InjectionPolicy` has the Wireguards in the operator's namespace, their cache, the served API, the
policy with its binding, and the passes: the unserved API with its recheck, the choice of the one
default gateway, the apply of policy then binding, the delete of binding then policy, and the
start-up kick. Pods are created meanwhile: the API server sees policy and binding through caches of
its own, calls the policy, then other webhooks, perhaps the policy again, and last the backstop. One
pod is created at a time. The operator never reads its objects back, and users who edit them are not
modelled; nor is the backstop ever missing.

## Runs

| Run | Checks | Instance |
|---|---|---|
| `peer_churn` | distinct keys and addresses in every Secret; addresses never swapped; the server's key stable; outcome at rest; refinement of `Roster` | 2 peers, 2 keys besides a bad one and none, a /30, any 2 changes by users, failures or restarts |
| `peer_gateways` | usable addresses and outcome at rest, with edited pools and moved peers | 2 gateways, 3 pools (one invalid), 1 change |
| `peer_settles` | the allocator at its limit; verdicts at rest; the operator comes to rest (liveness) | 3 peers for 2 addresses, with keys of their own or one key; a deleted peer or Secret |
| `peer_servedkey` | finding 1 | 2 changes |
| `agent` | an exclusive Sync is exact; Err is honest; the pod comes to match the file and to be ready (liveness) | 4 files (swapped addresses, another peerCIDR, an invalid one), any 1 interference |
| `sidecars` | a sidecar deletes only stale peers; the last pod is registered and applies what is published (liveness) | 2 pods, 2 tunnels, caches 1 behind, 2 changes |
| `sidecar_routes` | the routes during, after and between passes; convergence | 4 tables, 3 tunnels, 4 changes |
| `rolebinding` | the binding at rest, that rest is reached, and that only objects the operator applied are deleted | 2 pods, caches 2 behind, 6 changes |
| `rolebinding_relabel` | finding 2 | 3 changes |
| `rolebinding_touched` | finding 3 | 3 changes |
| `injection_policy` | order of policy and binding, the pods that are admitted, outcome at rest, convergence | 2 Wireguards, 8 pods (with and without label, sidecar, volume or host network of their own), cache 2 behind, 4 changes |
| `gateway_status` | what is rendered is sound; Ready only for what has rolled out; objects and status at rest; convergence | 3 specs (one with a referenced Secret, one that leaves out a range of Services, one that overlaps), 2 addresses for Services, a new or a predecessor's Deployment, any 1 change |

Bounds. `MaxChanges` counts what users, failures and restarts do; the program's own steps are not
bounded. Two changes let an edit overtake a pass that an earlier edit started, which is what the
races need. Two peers can share a key or an address and three overflow a /30, whose usable addresses
are the first after the gateway and the last. `Interferences` selects the kinds of change, so that
each run spends its bound on one question. `MaxLag` bounds how far a cache is behind, in versions.
Symmetry of the public keys is used in runs of safety properties only. `gateway_status` allows a
single change, at any point, while passes, rollout, garbage collection and caches interleave. Its
invariants and its action property are proved for any number of changes; `Converges` is checked with
one only, so two failures in a row, or an edit followed by a failure, are not covered there.

Deadlock is checked where the program never stops by itself (`agent`, `sidecar_routes`). The
reconcilers have nothing to do once they are done.

The properties at rest (`QuiescentServed`, `QuiescentVerdicts`, `QuiescentBound`,
`QuiescentInStep`, `QuiescentReported`) speak of states in which nothing is queued, running or on its
way: what is wrong there stays wrong until someone touches an object. They are what makes skipped
writes, dropped events and stale reads harmless.

### Fairness

* Watch events arrive, and the worker takes what is queued: weak fairness of the caches and of a
  pass. client-go and controller-runtime give both.
* The agent's threads run, the kubelet keeps probing and the ticker ticks.
* The sidecar's loop has a ticker; the garbage collector works.
* `RequeueAfter` fires.
* The Deployment controller and the garbage collector work, and pods start (`GatewayStatus`).
* The API server's caches of policy and binding move on (`InjectionPolicy`). No pod has to be created.

`Settles` of `PeerReconciler` needs one assumption more, which it states: from some point on, passes
begin with up-to-date caches. While passes keep reading a Secret that is older than the peers, two
peers with one key can take it from each other time and again (finding 1 shows one turn of this).
Failures are bounded by `MaxChanges`, that is, they stop: the backoff retries do the rest.

## Findings

1. `peer_servedkey`. `docs/crd-wireguardpeer.md` promises that the peer served under a key keeps
   it. `admittedKeys` reads who is served from the cached Secret, which can be older than the
   cached peers, and then the older peer wins. That is the only way: of a pass that begins with the
   current Secret the promise is proved (`FreshServedKeyKept`). The outcome at rest is consistent all
   the same (`RestServed`, `RestTruthful`).
2. `rolebinding_relabel`. A comment says that a pod update never changes whether a namespace needs
   the binding, and the watch drops updates. The component label, which `needsClientRoleBinding`
   reads, can change in an update; the binding is then missing or left over until another event
   comes, such as the next pod or the periodic resync of an existing binding.
3. `rolebinding_touched`. `docs/injection.md` says that only a RoleBinding with the operator's label
   is touched. The apply is forced, and decided on a cache that may not show a user's new object.

Two remarks from reading the code, which no run is about:

* `docs/gluetun-egress.md` says that a Wireguard whose referenced Secret sets a reserved variable is
  Degraded. Nothing watches a referenced Secret, so one that comes to set it after a pass is noticed
  by the next pass, whenever that is. `QuiescentReported` therefore speaks of the Secrets as the last
  pass saw them. The other direction is checked: a mended Secret clears Degraded (`Converges`).
* When the annotation of the pods fails or meets a conflict, the next pass finds the Secret as it
  should be and does not annotate again. The file then arrives with the kubelet's next refresh.

## Proofs

The proofs hold for every value of the constants that satisfies the named assumptions: any number of
peers, gateways, pods, keys, pools, specs and changes, any files, and any lag of the caches. Every
`_proofs` module proves `TypeCorrect`, except `PeerPromises_proofs`, which extends `PeerReconciler_proofs`.

### PeerReconciler, Roster, Agent

* `PassesDistinct`, `SecretsDistinct`, `SecretsUsable`, from the invariant `IInv`: `TypeOK`,
  `PassDistinct` and `ServedOK`. That a Secret is well formed is not inductive by itself, since a
  pass renders it from peers it admitted several steps before. `PassDistinct` says why these are
  fit: they have keys and addresses of their own, all taken out of what the allocator may still hand
  out. It rests on lemmas about the deduplications, `GetUsedIPs` and `AllocateIP`.
* `KeysStable`, from `KeyInv`: while both exist, the cached Secret and the live one have one key.
  A Secret is created only when the cache shows none, and an update keeps the key of the cached copy,
  so neither can bring in a second key, however old the copy is.
* `AddressesKept`, from `AInv`: a copy that is not outdated agrees with the API object, so a write
  that succeeds replaces what the pass has seen.
* `OneKeyHolder`, `AddressConflictNamed`, `AllocatesLowest`: what the pure decisions return, for any
  number of peers and a pool of any size. The code finds a holder, and a free address, with one scan;
  that the model's definition by an order has exactly one result needs that the order is total and
  that < on the naturals is well founded (creation times first, names among equals).
* `FreshServedKeyKept`, from the types and what `beats` says: the condition under which the promise of
  finding 1 holds.
* `RestServed`, `RestTruthful`, from `QInv`: `TypeOK` and `RestInv`. That every peer's status is right at
  rest says nothing of the steps before, so `RestInv` speaks of each gateway at all times. Something is
  going to bring the worker back to it (`Touched`: it is queued, or an event of its own or of a peer
  the cache shows with it is on its way), or the running pass is at it, or it is as it should be by
  the caches (`AtRest`). Of the running pass it says that its gateway is touched or the pass has
  written nothing: it has skipped each write because the object already was as it should be, and what
  remains is as it was decided (`CalmPass`, with a part for each stage). Two facts support this. A
  cache without news shows what is (`CachesCurrent`), and only ready peers hold addresses, so that
  a refused peer takes none from the pool. One case is out of the reach of the
  runs' instances: with four peers on a /30, the holder of a key that a refusal names may itself be
  without an address. `QuiescentVerdicts` allows for it, and the proof covers it.
* `RosterImplemented`: a step changes at most one Secret or one peer (`OneFile`, `OnePeer`); `IInv`,
  `KeyInv` and `AInv` then give each of `Roster`'s guards.
* `AgentAssumptionMet`: every Secret, as the agent parses it, is a state `Agent` is about, with distinct
  addresses.
* `ExclusiveSyncExact`, from `SyncInv`: the configurations an exclusive thread has left to send
  account for everything in which the device differs from its state. It needs that peers that are
  not on the device own no addresses and that a state's addresses are distinct; then the order in
  which allowed IPs move does not matter.
* `OtherPeersUndisturbed`, from `SyncInv` too: on the way there, no peer that already was as the state
  describes it is removed or loses its address.
* `NothingToSend`: the diff is empty exactly when the device is as described, so that the probes'
  Syncs leave the running sessions alone.
* `ErrIsHonest`, from `EnsureInv`: one thread at a time is inside Ensure and its list of rules is
  current, so that its deletions and additions end with exactly the wanted rule.

### GatewayStatus

* `RenderedIsSound` and `ReadyIsRolledOut`, from `GatewayInv`. A copy of the Wireguard is of an
  earlier one, or of this one at a generation that fixes the spec (`CopiesOK`); an account of the pod
  that is observed, updated and has a ready pod names the Deployment's template (`AccountOK`); the
  legacy manager's fields are seen by the cache until they are migrated (`LegacySeen`), so an apply
  never mixes templates and Active is only decided on the pass's own (`PassOK`); and what a pass
  renders was checked (`RenderOK`).
* `QuiescenceReported`, from `QuietInv`, which adds two facts. A cache without news shows what is
  (`CachesOK`). And while nothing is queued and no event is on its way, what the running pass has
  found is still so, the condition it is to record is the one that is due or the pass is to be
  retried, and an idle operator is up to date (`CalmOK`). A step that would break this leaves an
  event behind or queues a pass.

### SidecarPeer, SidecarRoutes

* `DeletesStale`, from `DeleteInv`: a version of the peer that a cache can still show has its owner's
  key; if it has the UID of the current one it has the same owner, and its reference is the owner's
  if the current one's is. The delete is pinned to the UID of such a version.
* `GatewayRemembered`, `LocalsRouted`, `RoutesKept`, `SessionsKept`, from `RouteInv`: some route tells
  the gateway (`Known`), the sidecar's routes are the ones it makes (`TableOK`), a plan only has
  routes that may go, and the default route moves to wg0 after the local routes are there (`PlanOK`).
* `PassesExact`, from `ExactInv`: in an undisturbed pass every route that must go is in the plan.

### ClientRoleBinding, InjectionPolicy

* `DeletesApplied`, from `VersionInv`: a version with the operator's label was applied by it, and if
  a version was, so was the current one of that UID.
* `QuiescenceBound`, from `SyncInv`: the last version on its way is the current one, and a pass that
  no event has overtaken decided from what the caches show.
* `BindingsBacked`, from `BindingInv`, which adds to `BindingHasPolicy` what holds between two writes
  of a pass.
* `PodsTunnelled`, from `AdmissionInv`: throughout an admission, a pod submitted without a sidecar has
  only the policy's, with its volumes; in one submitted with a sidecar the policy adds none, and a
  sidecar that comes first came first.
* `QuiescenceInStep`, from `SyncInv`: the last version on its way is the current one, and a pass that is
  not queued again works from the current cache; with lemmas on what the patch makes of a pod.

Left to TLC: liveness (`Settles`, `Converges`, `BecomesReady`, `Registers`, `AppliesPublished`), which
the prover cannot do. Every other property the passing runs check is proved.

## Not modelled

* Resource builders: pure rendering. The modules have the fields that later decisions read.
* API types and generated copies: declarations.
* Manager start-up (`cmd/manager`): flags, scheme and registration. One operator works at a time, as
  in `config/manager`, which enables leader election; the flag itself is off by default.
* The sidecar's configuration from its environment, and the agent's flags: stateless parsing.
* The migration of the Service's field manager, and the annotation of the gateway's pods (above).
* The CEL text of the policy, and the texts of conditions, logs and errors.
* How a link is made in userspace, the peer-path check and gluetun's health: `Agent` has the outcome.
