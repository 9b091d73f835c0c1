----------------------------- MODULE PeerReconciler -----------------------------
(***************************************************************************)
(* The Wireguard controller against the API server: passes of Reconcile    *)
(* over the WireguardPeers and the Secret of each gateway                  *)
(* (internal/controller/wireguard_controller.go), with users who create,   *)
(* edit and delete the objects meanwhile.                                  *)
(*                                                                         *)
(* The controller reads from an informer cache per kind. A cache holds     *)
(* some earlier state of its kind, it only moves forward, and the kinds    *)
(* move independently; moving enqueues the gateways of the objects that    *)
(* changed. Status writes carry the resourceVersion that was read, so one  *)
(* made from an outdated copy is refused. Rather than number the versions, *)
(* the model keeps the set of objects that were written since a copy was   *)
(* taken. The Secret is written without a resourceVersion. One worker runs *)
(* the passes, and the queue never hands it a gateway twice.               *)
(*                                                                         *)
(* Each API write of a pass is a step of its own. The reads at its start   *)
(* (Wireguard, Secret, peer list) are one step: a cache that moves between *)
(* them can as well move after them. The loops run in any order, as the    *)
(* cache lists its objects in any.                                         *)
(***************************************************************************)
EXTENDS PeerAdmission

CONSTANTS
    InitialPool,    \* the peerCIDR every gateway starts with
    InitialPeers,   \* the peers a cluster may start with
    Interferences,  \* the kinds of interference an instance considers
    MaxChanges      \* bound: how often users, failures and restarts interfere

ASSUME MaxChangesAssumption == MaxChanges \in Nat

ASSUME GatewaysAssumption == Gateways # {} /\ InitialPool \in Pools /\ validatePeerCIDR(InitialPool)

VARIABLES
    wg, peers, secret,      \* the API server's Wireguards, WireguardPeers and Secrets
    cwg, cpeers, csecret,   \* the operator's caches of them
    staleWgs, stalePeers, staleSecrets, \* the objects written since the caches last moved
    queue,                  \* the work queue
    pc, gw, pool,           \* the running pass, its gateway and the peerCIDR it renders
    mem, outdated,          \* its copies of the peers, and which were written since it read them
    verdict,                \* what it records on each peer; ready for those it keeps
    refuse, keep, admitted, \* peers still to be refused, still to be allocated, and served
    used, serverKey,        \* addresses taken, and the key of the Secret it read
    lastKey, clock, changes \* keys generated, creation time, interferences so far

api   == <<wg, peers, secret>>
cache == <<cwg, cpeers, csecret, staleWgs, stalePeers, staleSecrets>>
pass  == <<pc, gw, pool, mem, outdated, verdict, refuse, keep, admitted, used, serverKey>>
env   == <<lastKey, clock, changes>>
vars  == <<api, cache, queue, pass, env>>

--------------------------------------------------------------------------------
(* State *)

WireguardObjects == [live: BOOLEAN, pool: Pools, same: BOOLEAN]

\* The Secret of a gateway: the server's key pair, by number, and the state.json content.
SecretObjects == [live: BOOLEAN, key: Nat, pool: Pools, served: [Peers -> Entries]]

SomePool == CHOOSE p \in Pools : TRUE

SomeGateway == CHOOSE g \in Gateways : TRUE

AbsentWireguard == [live |-> FALSE, pool |-> SomePool, same |-> FALSE]

AbsentPeer ==
    [live |-> FALSE, created |-> 0, gateway |-> SomeGateway, key |-> NoKey, address |-> NoAddress,
     status |-> notReady(""), observed |-> TRUE, identity |-> NoServer]

AbsentSecret ==
    [live |-> FALSE, key |-> NoServer, pool |-> SomePool, served |-> [p \in Peers |-> NoEntry]]

Nobody == [p \in Peers |-> AbsentPeer]

NoVerdict == [p \in Peers |-> ready]

\* The type invariant: the objects and the pass have the shapes their Go types give them.
TypeOK ==
    /\ wg \in [Gateways -> WireguardObjects] /\ cwg \in [Gateways -> WireguardObjects]
    /\ peers \in [Peers -> PeerObjects] /\ cpeers \in [Peers -> PeerObjects]
    /\ secret \in [Gateways -> SecretObjects] /\ csecret \in [Gateways -> SecretObjects]
    /\ staleWgs \in SUBSET Gateways /\ stalePeers \in SUBSET Peers /\ staleSecrets \in SUBSET Gateways
    /\ queue \in SUBSET Gateways
    /\ pc \in {"idle", "orphans", "peers", "identity"}
    /\ gw \in Gateways /\ pool \in Pools
    /\ mem \in [Peers -> PeerObjects] /\ outdated \in SUBSET Peers
    /\ verdict \in [Peers -> Statuses]
    /\ refuse \in SUBSET Peers /\ keep \in SUBSET Peers /\ admitted \in SUBSET Peers
    /\ used \in SUBSET AllAddresses
    /\ serverKey \in Nat /\ lastKey \in Nat /\ clock \in Nat
    /\ changes \in 0 .. MaxChanges

NoPass ==
    /\ pc = "idle" /\ gw = SomeGateway /\ pool = SomePool
    /\ mem = Nobody /\ outdated = {} /\ verdict = NoVerdict
    /\ refuse = {} /\ keep = {} /\ admitted = {} /\ used = {} /\ serverKey = NoServer

NewPeer(now, g, k) ==
    [AbsentPeer EXCEPT !.live = TRUE, !.created = now, !.gateway = g, !.key = k]

\* New peers, as users created them before the operator first started.
ASSUME InitialPeersAssumption ==
    InitialPeers \subseteq [Peers -> {AbsentPeer} \union {NewPeer(0, g, k) : g \in Gateways, k \in SpecKeys}]

\* A cluster with gateways and some peers, all created before the operator first starts.
Init ==
    /\ wg = [g \in Gateways |-> [live |-> TRUE, pool |-> InitialPool, same |-> FALSE]]
    /\ peers \in InitialPeers
    /\ secret = [g \in Gateways |-> AbsentSecret]
    /\ cwg = wg /\ cpeers = peers /\ csecret = secret
    /\ staleWgs = {} /\ stalePeers = {} /\ staleSecrets = {}
    /\ queue = Gateways
    /\ NoPass
    /\ lastKey = 0 /\ clock = 0 /\ changes = 0

--------------------------------------------------------------------------------
(* Users and failures *)

Interfere(kind) == kind \in Interferences /\ changes < MaxChanges /\ changes' = changes + 1

\* Any write to a peer makes every copy of it outdated.
SetPeer(p, obj) ==
    /\ peers' = [peers EXCEPT ![p] = obj]
    /\ stalePeers' = stalePeers \union {p}
    /\ outdated' = IF pc = "idle" THEN {} ELSE outdated \union {p}
    /\ UNCHANGED <<wg, secret, cwg, cpeers, csecret, staleWgs, staleSecrets, queue, lastKey,
                   pc, gw, pool, mem, verdict, refuse, keep, admitted, used, serverKey>>

\* creationTimestamp has a resolution of a second, so two peers may share one.
CreatePeer(p, g, k) ==
    /\ Interfere("create") /\ ~peers[p].live
    /\ \E now \in {clock, clock + 1} :
        /\ clock' = now
        /\ SetPeer(p, NewPeer(now, g, k))

DeletePeer(p) ==
    /\ Interfere("delete") /\ peers[p].live
    /\ SetPeer(p, AbsentPeer) /\ UNCHANGED clock

\* An edit of the spec increments the generation; the status stays.
EditPeer(p, g, k) ==
    /\ Interfere("edit") /\ peers[p].live /\ <<g, k>> # <<peers[p].gateway, peers[p].key>>
    /\ SetPeer(p, [peers[p] EXCEPT !.gateway = g, !.key = k,
                                   !.observed = peers[p].status.reason \in {"", "Ready"}])
    /\ UNCHANGED clock

EditWireguard(g, obj) ==
    /\ Interfere("wireguard") /\ obj # wg[g]
    /\ wg' = [wg EXCEPT ![g] = obj]
    /\ staleWgs' = staleWgs \union {g}
    /\ UNCHANGED <<peers, secret, cwg, cpeers, csecret, stalePeers, staleSecrets, queue, pass,
                   lastKey, clock>>

\* By a user, or by the garbage collector when the gateway is gone.
DeleteSecret(g) ==
    /\ Interfere("secret") /\ secret[g].live
    /\ secret' = [secret EXCEPT ![g] = AbsentSecret]
    /\ staleSecrets' = staleSecrets \union {g}
    /\ UNCHANGED <<wg, peers, cwg, cpeers, csecret, staleWgs, stalePeers, queue, pass,
                   lastKey, clock>>

\* An event of the owned Service or Deployment, or the cache's periodic resync.
Resync(g) ==
    /\ Interfere("resync") /\ queue' = queue \union {g}
    /\ UNCHANGED <<api, cache, pass, lastKey, clock>>

EndPass ==
    /\ pc' = "idle" /\ gw' = SomeGateway /\ pool' = SomePool
    /\ mem' = Nobody /\ outdated' = {} /\ verdict' = NoVerdict
    /\ refuse' = {} /\ keep' = {} /\ admitted' = {} /\ used' = {} /\ serverKey' = NoServer

\* Any read or write of a pass that fails for another reason than Conflict or NotFound, the
\* Service and Deployment applies included: the pass returns the error and is retried.
PassFails ==
    /\ Interfere("failure") /\ pc # "idle"
    /\ queue' = queue \union {gw}
    /\ EndPass
    /\ UNCHANGED <<api, cache, lastKey, clock>>

\* The operator stops wherever it is and starts again with freshly listed caches.
Restart ==
    /\ Interfere("restart")
    /\ cwg' = wg /\ cpeers' = peers /\ csecret' = secret
    /\ staleWgs' = {} /\ stalePeers' = {} /\ staleSecrets' = {}
    /\ queue' = {g \in Gateways : wg[g].live}
                    \union {peers[p].gateway : p \in {q \in Peers : peers[q].live}}
    /\ EndPass
    /\ UNCHANGED <<api, lastKey, clock>>

--------------------------------------------------------------------------------
(* The caches *)

\* Mutant: only the gateway a peer names now is enqueued.
SyncPeersNewOnly ==
    /\ stalePeers # {}
    /\ cpeers' = peers /\ stalePeers' = {}
    /\ queue' = queue \union {peers[p].gateway : p \in {q \in stalePeers : peers[q].live}}
    /\ UNCHANGED <<api, cwg, csecret, staleWgs, staleSecrets, pass, env>>

\* A peer update enqueues the gateway it named before and the one it names now.
SyncPeers ==
    LET named(objs) == {objs[p].gateway : p \in {q \in stalePeers : objs[q].live}}
    IN  /\ stalePeers # {}
        /\ cpeers' = peers /\ stalePeers' = {}
        /\ queue' = queue \union named(cpeers) \union named(peers)
        /\ UNCHANGED <<api, cwg, csecret, staleWgs, staleSecrets, pass, env>>

SyncWireguards ==
    /\ staleWgs # {}
    /\ cwg' = wg /\ staleWgs' = {}
    /\ queue' = queue \union staleWgs
    /\ UNCHANGED <<api, cpeers, csecret, stalePeers, staleSecrets, pass, env>>

\* The controller owns the Secret, so a change to it enqueues its gateway.
SyncSecrets ==
    /\ staleSecrets # {}
    /\ csecret' = secret /\ staleSecrets' = {}
    /\ queue' = queue \union staleSecrets
    /\ UNCHANGED <<api, cwg, cpeers, staleWgs, stalePeers, pass, env>>

--------------------------------------------------------------------------------
(* A pass *)

Dequeue(g) == pc = "idle" /\ g \in queue /\ queue' = queue \ {g}

ListPeers(g, objs) == gw' = g /\ mem' = objs /\ outdated' = stalePeers

\* Mutant: the pass ends when the Wireguard is gone.
markPeersWireguardNotFoundSkipped(g) ==
    /\ Dequeue(g) /\ ~cwg[g].live
    /\ UNCHANGED <<api, cache, pass, env>>

\* The Wireguard is gone: its peers are told so.
markPeersWireguardNotFound(g) ==
    /\ Dequeue(g) /\ ~cwg[g].live
    /\ pc' = "orphans"
    /\ ListPeers(g, cpeers)
    /\ verdict' = [p \in Peers |-> wireguardNotFound]
    /\ refuse' = getWireguardPeers(cpeers, g)
    /\ UNCHANGED <<api, cache, pool, keep, admitted, used, serverKey, env>>

\* A spec that cannot be rendered ends the pass before it reads the peers.
rejectSpec(g) ==
    /\ Dequeue(g) /\ cwg[g].live /\ ~validatePeerCIDR(cwg[g].pool)
    /\ UNCHANGED <<api, cache, pass, env>>

\* The peers are listed and split into those to refuse and those to keep.
reconcilePeers(g) ==
    LET current == csecret[g].served
        listed  == listedPeers(cpeers, current, cwg[g], g)
        kept    == keptPeers(cpeers, current, cwg[g], g)
    IN  /\ Dequeue(g) /\ cwg[g].live /\ validatePeerCIDR(cwg[g].pool)
        /\ pc' = "peers" /\ pool' = cwg[g].pool
        /\ ListPeers(g, listed)
        /\ verdict' = refusals(cpeers, current, cwg[g], g)
        /\ refuse' = getWireguardPeers(cpeers, g) \ kept
        /\ keep' = kept
        /\ used' = GetUsedIPs(cwg[g].pool, listed, kept)
        /\ UNCHANGED <<api, cache, admitted, serverKey, env>>

\* Mutant: the write carries no resourceVersion.
StatusUpdateBlind(p, obj) ==
    peers' = [peers EXCEPT ![p] = obj] /\ stalePeers' = stalePeers \union {p}

\* Status().Update: refused with Conflict or NotFound unless the copy is current, and then
\* skipped. The written object carries the new resourceVersion back into the pass.
StatusUpdate(p, obj) ==
    IF p \notin outdated
    THEN /\ peers' = [peers EXCEPT ![p] = obj]
         /\ stalePeers' = stalePeers \union {p}
    ELSE UNCHANGED <<peers, stalePeers>>

\* The refusal clears what only an admitted peer holds.
markPeerNotReady(p, status) ==
    IF peerStatusMatches(mem[p], status)
    THEN UNCHANGED <<peers, stalePeers>>
    ELSE StatusUpdate(p, [mem[p] EXCEPT !.status = status, !.address = NoAddress,
                                        !.identity = NoServer, !.observed = TRUE])

\* One iteration of admitPeers, of either releaseLosers, or of markPeersWireguardNotFound.
refusePeer(p) ==
    /\ pc \in {"peers", "orphans"} /\ p \in refuse
    /\ \A q \in refuse : stage(verdict[p]) <= stage(verdict[q])
    /\ markPeerNotReady(p, verdict[p])
    /\ refuse' = refuse \ {p}
    /\ UNCHANGED <<wg, secret, cwg, cpeers, csecret, staleWgs, staleSecrets, queue, pc, gw, pool,
                   mem, outdated, verdict, keep, admitted, used, serverKey, env>>

orphansDone ==
    /\ pc = "orphans" /\ refuse = {}
    /\ EndPass
    /\ UNCHANGED <<api, cache, queue, env>>

Allocating(p) == pc = "peers" /\ refuse = {} /\ p \in keep /\ keep' = keep \ {p}

\* allocatePeers, for a peer that holds an address and is ready: nothing to write.
keepPeer(p) ==
    /\ Allocating(p)
    /\ mem[p].address # NoAddress /\ mem[p].status = ready
    /\ admitted' = admitted \union {p}
    /\ UNCHANGED <<api, cache, queue, pc, gw, pool, mem, outdated, verdict, refuse, used,
                   serverKey, env>>

\* allocatePeers, for a peer that needs an address or its readiness recorded: one write sets
\* both. A new address is taken whether or not the write succeeds, and the peer is served only
\* if it did; an address it held before stays its own.
servePeer(p) ==
    LET isNew == mem[p].address = NoAddress
    IN  /\ Allocating(p) /\ (isNew \/ mem[p].status # ready)
        /\ \E ip \in IF isNew THEN AllocateIP(pool, used) ELSE {mem[p].address} :
            LET obj == [mem[p] EXCEPT !.address = ip, !.status = ready, !.observed = TRUE]
            IN  /\ used' = used \union {ip}
                /\ StatusUpdate(p, obj)
                /\ mem' = [mem EXCEPT ![p] = obj]
                /\ admitted' = IF p \notin outdated \/ ~isNew THEN admitted \union {p} ELSE admitted
        /\ UNCHANGED <<wg, secret, cwg, cpeers, csecret, staleWgs, staleSecrets, queue, pc, gw, pool,
                       outdated, verdict, refuse, serverKey, env>>

\* allocatePeers, for a peer the pool has no address for.
exhaustPeer(p) ==
    /\ Allocating(p) /\ mem[p].address = NoAddress /\ AllocateIP(pool, used) = {}
    /\ markPeerNotReady(p, addressPoolExhausted)
    /\ UNCHANGED <<wg, secret, cwg, cpeers, csecret, staleWgs, staleSecrets, queue, pc, gw, pool,
                   mem, outdated, verdict, refuse, admitted, used, serverKey, env>>

\* The Secret a pass renders from the peers it admitted.
desiredState(key) ==
    [live |-> TRUE, key |-> key, pool |-> pool,
     served |-> [p \in Peers |-> IF p \in admitted
                                 THEN [key |-> mem[p].key, address |-> mem[p].address]
                                 ELSE NoEntry]]

SecretWrite(desired) ==
    /\ secret' = [secret EXCEPT ![gw] = desired]
    /\ staleSecrets' = staleSecrets \union {gw}

PeersDone == pc = "peers" /\ refuse = {} /\ keep = {}

\* The cached Secret is compared with the one rendered under its key and overwritten if they
\* differ, without a resourceVersion. Updating one that is gone fails, and the pass is retried.
\* (The annotation that is then put on the gateway's pods changes nothing here; if it fails, the
\* pass has failed.)
updateSecret ==
    LET cached  == csecret[gw]
        desired == desiredState(cached.key)
        write   == desired # cached
    IN  /\ PeersDone /\ cached.live
        /\ IF write /\ ~secret[gw].live
           THEN EndPass /\ queue' = queue \union {gw} /\ UNCHANGED <<secret, staleSecrets>>
           ELSE /\ IF write THEN SecretWrite(desired) ELSE UNCHANGED <<secret, staleSecrets>>
                /\ pc' = "identity" /\ serverKey' = cached.key
                /\ UNCHANGED <<queue, gw, pool, mem, outdated, verdict, refuse, keep, admitted, used>>
        /\ UNCHANGED <<wg, peers, cwg, cpeers, csecret, staleWgs, stalePeers, env>>

\* Mutant: the new Secret replaces one the cache does not show yet.
createSecretOverwriting ==
    /\ PeersDone /\ ~csecret[gw].live
    /\ SecretWrite(desiredState(lastKey + 1))
    /\ lastKey' = lastKey + 1
    /\ EndPass
    /\ UNCHANGED <<wg, peers, cwg, cpeers, csecret, staleWgs, stalePeers, queue, clock, changes>>

\* No Secret in the cache: one is created with a new key and the pass ends. If it exists after
\* all, the creation fails and the pass is retried.
createSecret ==
    /\ PeersDone /\ ~csecret[gw].live
    /\ IF secret[gw].live
       THEN queue' = queue \union {gw} /\ UNCHANGED <<secret, staleSecrets, lastKey>>
       ELSE /\ SecretWrite(desiredState(lastKey + 1))
            /\ lastKey' = lastKey + 1
            /\ UNCHANGED queue
    /\ EndPass
    /\ UNCHANGED <<wg, peers, cwg, cpeers, csecret, staleWgs, stalePeers, clock, changes>>

\* Mutant: a peer that carries some identity is not told of another.
syncPeerIdentityOnce(p) ==
    /\ pc = "identity" /\ p \in admitted
    /\ IF mem[p].identity # NoServer
       THEN UNCHANGED <<peers, stalePeers>>
       ELSE StatusUpdate(p, [mem[p] EXCEPT !.identity = serverKey])
    /\ admitted' = admitted \ {p}
    /\ UNCHANGED <<wg, secret, cwg, cpeers, csecret, staleWgs, staleSecrets, queue, pc, gw, pool,
                   mem, outdated, verdict, refuse, keep, used, serverKey, env>>

\* The served peers are told the server's identity, unless they carry it already.
syncPeerIdentity(p) ==
    /\ pc = "identity" /\ p \in admitted
    /\ IF mem[p].identity = serverKey
       THEN UNCHANGED <<peers, stalePeers>>
       ELSE StatusUpdate(p, [mem[p] EXCEPT !.identity = serverKey])
    /\ admitted' = admitted \ {p}
    /\ UNCHANGED <<wg, secret, cwg, cpeers, csecret, staleWgs, staleSecrets, queue, pc, gw, pool,
                   mem, outdated, verdict, refuse, keep, used, serverKey, env>>

passDone ==
    /\ pc = "identity" /\ admitted = {}
    /\ EndPass
    /\ UNCHANGED <<api, cache, queue, env>>

--------------------------------------------------------------------------------
(* Specification *)

User ==
    \/ \E p \in Peers, g \in Gateways, k \in SpecKeys : CreatePeer(p, g, k) \/ EditPeer(p, g, k)
    \/ \E p \in Peers : DeletePeer(p)
    \/ \E g \in Gateways, obj \in [live: {TRUE}, pool: Pools, same: BOOLEAN] \union {AbsentWireguard} :
            EditWireguard(g, obj)
    \/ \E g \in Gateways : DeleteSecret(g)

Failure == PassFails \/ Restart \/ \E g \in Gateways : Resync(g)

Pass ==
    \/ \E g \in Gateways : markPeersWireguardNotFound(g) \/ rejectSpec(g) \/ reconcilePeers(g)
    \/ \E p \in Peers : \/ refusePeer(p) \/ keepPeer(p) \/ servePeer(p) \/ exhaustPeer(p)
                        \/ syncPeerIdentity(p)
    \/ orphansDone \/ updateSecret \/ createSecret \/ passDone

Next == User \/ Failure \/ SyncPeers \/ SyncWireguards \/ SyncSecrets \/ Pass

Spec == Init /\ [][Next]_vars

\* Watch events arrive, and the worker keeps working.
FairSpec ==
    Spec /\ WF_vars(SyncPeers) /\ WF_vars(SyncWireguards) /\ WF_vars(SyncSecrets) /\ WF_vars(Pass)

--------------------------------------------------------------------------------
(* Properties *)

\* No state.json ever lists two peers under one public key, or with one address: the agent keys
\* peers by public key and WireGuard routes an address to one peer (dedupePublicKeys,
\* dedupeAddresses, allocatePeers).
ServedDistinct ==
    \A g \in Gateways : \A p, q \in Peers :
        LET served == secret[g].served
        IN  p # q /\ served[p] # NoEntry /\ served[q] # NoEntry
                => served[p].key # served[q].key /\ served[p].address # served[q].address

\* Every listed peer has a canonical key and an address that the pool rendered beside it can
\* give a peer: never the network's or the gateway's own (addressUsable, AllocateIP).
ServedUsable ==
    \A g \in Gateways : \A p \in Peers :
        LET entry == secret[g].served[p]
        IN  entry # NoEntry => entry.key \in PublicKeys /\ addressUsable(entry.address, secret[g].pool)

\* What makes every Secret a pass renders well formed: the peers it keeps or has admitted have
\* keys of their own and, once they have one, usable addresses of their own, all of them taken
\* out of what the allocator may still hand out. A pass inherits no peers from the last.
PassDistinct ==
    /\ pc = "idle" => admitted = {}
    /\ pc = "peers" =>
        /\ deriveReservedIPs(pool) \subseteq used
        /\ \A p \in keep \union admitted :
            /\ mem[p].key \in PublicKeys
            /\ mem[p].address # NoAddress => mem[p].address \in used /\ addressUsable(mem[p].address, pool)
        /\ \A p \in admitted : mem[p].address # NoAddress
        /\ \A p, q \in keep \union admitted : p # q =>
            /\ mem[p].key # mem[q].key
            /\ mem[p].address # NoAddress => mem[p].address # mem[q].address

\* An unconditional update from an old copy never replaces the server's key: the key of a
\* Secret lives as long as the Secret (Reconcile's r.Update of the Secret).
ServerKeyStable ==
    [][\A g \in Gateways : secret[g].live /\ secret'[g].live => secret'[g].key = secret[g].key]_secret

\* A peer's address is never swapped for another while its gateway can still use it: it is
\* first released. The resourceVersion of the status write guards it (allocatePeers).
AddressNeverSwapped ==
    [][\A p \in Peers :
        LET old == peers[p].address
            new == peers'[p].address
        IN  NoAddress \notin {old, new} /\ old # new => ~addressUsable(old, pool)]_peers

\* Nothing runs, nothing is queued and no event is on its way.
Quiescent ==
    /\ pc = "idle" /\ queue = {}
    /\ staleWgs = {} /\ stalePeers = {} /\ staleSecrets = {}

\* What rest means for a gateway w named g, its Secret and the peers objs.
Serving(w) == w.live /\ validatePeerCIDR(w.pool)

ListsReady(w, state, objs, g) ==
    /\ state.live /\ state.pool = w.pool
    /\ \A p \in Peers :
        state.served[p] = IF p \in getWireguardPeers(objs, g) /\ objs[p].status = ready
                          THEN [key |-> objs[p].key, address |-> objs[p].address] ELSE NoEntry

Introduced(state, objs, p) == objs[p].status = ready => objs[p].identity = state.key

Truthful(w, objs, g, p) ==
    LET status    == objs[p].status
        having(S) == {q \in getWireguardPeers(objs, g) : objs[q].status \in S}
    IN  CASE status.reason = "PublicKeyConflict" ->
                \E q \in having({ready, addressPoolExhausted}) :
                    status.holder = {q} /\ objs[q].key = objs[p].key
          [] status.reason = "AddressPoolExhausted" ->
                \A a \in addresses(w.pool) :
                    addressUsable(a, w.pool) => \E q \in having({ready}) : objs[q].address = a
          [] OTHER -> status = admissionProblem(objs, w, g, p)

HoldsNothing(obj) == obj.address = NoAddress /\ obj.identity = NoServer /\ obj.observed

\* At rest the Secret exists and lists exactly the ready peers of its gateway, each with its
\* current key and address, under the current pool, and each ready peer carries the identity of
\* the server it is served by. Every skipped, lost or outdated write has been made good.
QuiescentServed ==
    Quiescent => \A g \in Gateways : Serving(wg[g]) =>
        /\ ListsReady(wg[g], secret[g], peers, g)
        /\ \A p \in getWireguardPeers(peers, g) : Introduced(secret[g], peers, p)

\* At rest every refusal is true of the cluster as it is: the named holder has the key and is
\* ready, or lacks only an address; a full pool is full of ready peers; no address conflict is
\* left; a peer of a missing gateway says so; and a refused peer holds neither an address nor an
\* identity, under a condition of its current generation (the statuses notReady describes).
QuiescentVerdicts ==
    Quiescent => \A g \in Gateways : \A p \in getWireguardPeers(peers, g) :
        /\ ~wg[g].live => peers[p].status = wireguardNotFound
        /\ Serving(wg[g]) => Truthful(wg[g], peers, g, p)
        /\ ~wg[g].live \/ Serving(wg[g]) => peers[p].status = ready \/ HoldsNothing(peers[p])

\* Once users and failures stop, the operator comes to rest: its own writes do not keep it
\* going, and no skipped write leaves it waiting. This takes watch events that sooner or later
\* arrive before the next pass begins: while passes go on reading a Secret older than the peers
\* beside it, two peers with one key can take it from each other forever (dedupePublicKeys).
Settles ==
    LET EventsFirst == pc = "idle" /\ pc' # "idle" => staleWgs \union stalePeers \union staleSecrets = {}
    IN  <>[][EventsFirst]_vars => <>[]Quiescent

\* A pass that begins does not refuse the key to a peer that the Secret of its gateway lists
\* under it, unless the holder it names is listed under its own key too.
KeepsServedKey ==
    \A p \in Peers :
        pc = "idle" /\ pc' = "peers" /\ verdict'[p].reason = "PublicKeyConflict"
            /\ secret[gw'].served[p].key = mem'[p].key
                => \A q \in verdict'[p].holder : secret[gw'].served[q].key = mem'[q].key

\* The peer the server is already serving under a key is not refused that key in favour of one
\* it is not serving (docs/crd-wireguardpeer.md).
ServedKeyKept == [][KeepsServedKey]_vars

\* The Secret as the agent reads it: the peers' names are of no account.
fileOf(object) ==
    [live |-> object.live, key |-> object.key, pool |-> object.pool,
     entries |-> {object.served[p] : p \in Peers} \ {NoEntry}]

Promise == INSTANCE Roster WITH
    file <- [g \in Gateways |-> fileOf(secret[g])],
    lease <- [p \in Peers |-> peers[p].address],
    Usable <- addressUsable

\* Every step of the operator, and of the users and failures beside it, is one that the Roster
\* allows: files are written whole, well formed and under one server key, and leases change one
\* at a time and never behind a peer's back.
ImplementsRoster == Promise!Spec
================================================================================
