------------------------------ MODULE SidecarPeer ------------------------------
(***************************************************************************)
(* How the client sidecars of the pods that bear one name, one after the   *)
(* other, register their WireguardPeer and apply what the operator         *)
(* publishes in its status (internal/sidecar: sidecar.go, peer.go, key.go, *)
(* tunnel.go).                                                             *)
(*                                                                         *)
(* A sidecar reads the peer through a watch cache and writes to the API. A *)
(* pod deleted by force leaves its sidecar running beside the next one's;  *)
(* a container restart keeps the key file. A pass runs on every change and *)
(* on a ticker, so at any time.                                            *)
(***************************************************************************)
EXTENDS Integers, Sequences, FiniteSets

CONSTANTS
    Pods,           \* UIDs of the pods of the name; the lower comes first
    Tunnels,        \* complete statuses, each a Tunnel
    UIDs,           \* bound: UIDs of peers
    MaxLag,         \* bound: how many versions a cache is behind
    Interferences,  \* the kinds of interference an instance considers
    MaxChanges      \* bound: how often they happen

ASSUME PodsAssumption == Pods \subseteq Nat \ {0} /\ 1 \in Pods /\ UIDs # {}

ASSUME BoundsAssumption == MaxLag \in Nat /\ MaxChanges \in Nat

VARIABLES
    peer,           \* the WireguardPeer under the name, in the API
    exists,         \* the pods that exist in the API
    running,        \* the pods whose sidecar runs
    pc, existing,   \* each sidecar's place, and the UID it read for its delete
    cache, pending, \* its cached peer, and the versions the watch has yet to deliver
    keyfile,        \* the pod's key file
    generated,      \* how many keys have been generated
    applied,        \* the Tunnel last applied in the pod, in a set
    changes

process == <<pc, existing, keyfile, generated, applied>>
vars    == <<peer, exists, running, process, cache, pending, changes>>

--------------------------------------------------------------------------------
(* State *)

NoPod == 0      \* the controller of a peer that no Pod controls

NoKey == 0      \* no key file
TornKey == -1   \* a file without a valid key

Keys == Nat \ {0}

\* "other": the spec names another Wireguard than the pod's; "restored": it no longer does.
PeerObjects ==
    [live: BOOLEAN, uid: UIDs, owner: Pods \union {NoPod}, key: Keys \union {NoKey},
     ref: {"own", "other", "restored"}, status: Tunnels \union {"waiting", "invalid"}]

SomeUID == CHOOSE u \in UIDs : TRUE

NoPeer ==
    [live |-> FALSE, uid |-> SomeUID, owner |-> NoPod, key |-> NoKey, ref |-> "own", status |-> "waiting"]

\* The type invariant.
TypeOK ==
    /\ peer \in PeerObjects
    /\ exists \in SUBSET Pods /\ running \in SUBSET Pods
    /\ pc \in [Pods -> {"boot", "key", "idle", "delete", "create"}] /\ existing \in [Pods -> UIDs]
    /\ cache \in [Pods -> PeerObjects]
    /\ pending \in [Pods -> Seq(PeerObjects)] /\ \A p \in Pods : Len(pending[p]) <= MaxLag
    /\ keyfile \in [Pods -> Keys \union {NoKey, TornKey}]
    /\ generated \in Nat
    /\ applied \in [Pods -> SUBSET Tunnels]
    /\ changes \in 0 .. MaxChanges

Init ==
    /\ peer = NoPeer /\ exists = {1} /\ running = {1}
    /\ pc = [p \in Pods |-> "boot"] /\ existing = [p \in Pods |-> SomeUID]
    /\ cache = [p \in Pods |-> NoPeer] /\ pending = [p \in Pods |-> <<>>]
    /\ keyfile = [p \in Pods |-> NoKey] /\ generated = 0
    /\ applied = [p \in Pods |-> {}]
    /\ changes = 0

\* A write of the peer: the watches have one more version to deliver.
Write(obj) ==
    /\ peer' = obj
    /\ pending' = [p \in Pods |->
            IF p \in running /\ pc[p] \notin {"boot", "key"} THEN Append(pending[p], obj) ELSE pending[p]]
    /\ \A p \in Pods : Len(pending'[p]) <= MaxLag

\* The peer and the versions of it that anyone may still read.
Versions ==
    {peer} \union {cache[p] : p \in Pods} \union
    UNION {{pending[p][i] : i \in DOMAIN pending[p]} : p \in Pods}

\* UIDs that nothing refers to: the API never uses one twice.
FreeUIDs == {u \in UIDs : (\A v \in Versions : v.uid # u) /\ \A p \in Pods : existing[p] # u}

\* A peer is created.
WriteNew(obj) == FreeUIDs # {} /\ Write([obj EXCEPT !.uid = CHOOSE u \in FreeUIDs : TRUE])

--------------------------------------------------------------------------------
(* The environment *)

Interfere(kind) == kind \in Interferences /\ changes < MaxChanges /\ changes' = changes + 1

\* The operator publishes a status, or takes it back.
PublishStatus(status) ==
    /\ peer.live /\ status # peer.status
    /\ \/ peer.status = "waiting" /\ UNCHANGED changes
       \/ Interfere("status")
    /\ Write([peer EXCEPT !.status = status])
    /\ UNCHANGED <<exists, running, process, cache>>

\* A user deletes the peer, writes one by hand, or has it name another Wireguard and back.
UserEdits ==
    /\ Interfere("user")
    /\ \/ peer.live /\ Write(NoPeer)
       \/ ~peer.live /\ WriteNew([NoPeer EXCEPT !.live = TRUE])
       \/ peer.live /\ peer.ref # "other" /\ Write([peer EXCEPT !.ref = "other"])
       \/ peer.live /\ peer.ref = "other" /\ Write([peer EXCEPT !.ref = "restored"])
    /\ UNCHANGED <<exists, running, process, cache>>

\* The garbage collector deletes a peer whose pod is gone.
CollectGarbage ==
    /\ peer.live /\ peer.owner # NoPod /\ peer.owner \notin exists
    /\ Write(NoPeer)
    /\ UNCHANGED <<exists, running, process, cache, changes>>

\* A pod is deleted, by force if its sidecar runs on, and the next one of the name is created.
ReplacePod(p, q, force) ==
    /\ Interfere("pod")
    /\ p \in exists /\ q = p + 1
    /\ exists' = {q} /\ running' = (IF force THEN running ELSE running \ {p}) \union {q}
    /\ UNCHANGED <<peer, process, cache, pending>>

StopSidecar(p) ==
    /\ p \in running \ exists
    /\ running' = running \ {p}
    /\ pending' = [pending EXCEPT ![p] = <<>>]
    /\ UNCHANGED <<peer, exists, process, cache, changes>>

RestartContainer(p) ==
    /\ Interfere("restart") /\ p \in running /\ pc[p] # "boot"
    /\ pc' = [pc EXCEPT ![p] = "boot"]
    /\ existing' = [existing EXCEPT ![p] = SomeUID]
    /\ pending' = [pending EXCEPT ![p] = <<>>] /\ cache' = [cache EXCEPT ![p] = NoPeer]
    /\ UNCHANGED <<peer, exists, running, keyfile, generated, applied>>

\* The watch delivers the next version.
SyncCache(p) ==
    /\ p \in running /\ pending[p] # <<>>
    /\ cache' = [cache EXCEPT ![p] = Head(pending[p])]
    /\ pending' = [pending EXCEPT ![p] = Tail(@)]
    /\ UNCHANGED <<peer, exists, running, process, changes>>

--------------------------------------------------------------------------------
(* Start-up *)

Goto(p, place) == pc' = [pc EXCEPT ![p] = place]

\* startWatch: the cache lists the peer, and the loop begins.
startWatch(p) == Goto(p, "idle") /\ cache' = [cache EXCEPT ![p] = peer]

\* The key file is read, or created, empty at first. Run fails on a file without a valid key.
LoadOrCreateKey(p) ==
    /\ p \in running /\ pc[p] = "boot" /\ keyfile[p] # TornKey
    /\ IF keyfile[p] = NoKey
       THEN keyfile' = [keyfile EXCEPT ![p] = TornKey] /\ Goto(p, "key") /\ UNCHANGED cache
       ELSE startWatch(p) /\ UNCHANGED keyfile
    /\ UNCHANGED <<peer, exists, running, existing, pending, generated, applied, changes>>

\* The key is written into it.
WriteKey(p) ==
    /\ p \in running /\ pc[p] = "key"
    /\ generated' = generated + 1
    /\ keyfile' = [keyfile EXCEPT ![p] = generated + 1]
    /\ startWatch(p)
    /\ UNCHANGED <<peer, exists, running, existing, pending, applied, changes>>

--------------------------------------------------------------------------------
(* A pass *)

\* Mutant: the Wireguard named is not compared.
decidePeerByKey(p, obj) ==
    CASE ~obj.live -> "create"
      [] obj.live /\ obj.owner = NoPod -> "refuse"
      [] obj.live /\ obj.owner # NoPod -> IF obj.owner = p /\ obj.key = keyfile[p] THEN "keep" ELSE "replace"

decidePeer(p, obj) ==
    CASE ~obj.live -> "create"
      [] obj.live /\ obj.owner = NoPod -> "refuse"
      [] obj.live /\ obj.owner # NoPod ->
            IF obj.owner = p /\ obj.key = keyfile[p] /\ obj.ref # "other" THEN "keep" ELSE "replace"

\* Mutant: a status that does not parse is applied.
desiredTunnelUnparsed(obj) == {obj.status} \ {"waiting"}

\* The Tunnel of a complete status whose values parse, in a set.
desiredTunnel(obj) == {obj.status} \intersect Tunnels

desiredPeer(p) ==
    [live |-> TRUE, uid |-> SomeUID, owner |-> p, key |-> keyfile[p], ref |-> "own", status |-> "waiting"]

\* Mutant: a Tunnel once applied is never applied anew.
stepOnce(p) ==
    LET action == decidePeer(p, cache[p])
    IN  /\ p \in running /\ pc[p] = "idle"
        /\ applied' = [applied EXCEPT ![p] =
                IF action = "keep" /\ @ = {} THEN desiredTunnel(cache[p]) ELSE @]
        /\ IF action = "replace" THEN Goto(p, "delete") /\ existing' = [existing EXCEPT ![p] = cache[p].uid]
           ELSE /\ IF action = "create" THEN Goto(p, "create") ELSE UNCHANGED pc
                /\ UNCHANGED existing
        /\ UNCHANGED <<peer, exists, running, cache, pending, keyfile, generated, changes>>

\* ensurePeer reads the cached peer and decides. A peer that is kept is applied once its status
\* is complete and parses; until then, and on a refusal, the pass ends.
step(p) ==
    LET action == decidePeer(p, cache[p])
    IN  /\ p \in running /\ pc[p] = "idle"
        /\ applied' = [applied EXCEPT ![p] =
                IF action = "keep" /\ desiredTunnel(cache[p]) # {} THEN desiredTunnel(cache[p]) ELSE @]
        /\ IF action = "replace" THEN Goto(p, "delete") /\ existing' = [existing EXCEPT ![p] = cache[p].uid]
           ELSE /\ IF action = "create" THEN Goto(p, "create") ELSE UNCHANGED pc
                /\ UNCHANGED existing
        /\ UNCHANGED <<peer, exists, running, cache, pending, keyfile, generated, changes>>

\* Mutant: the delete is not pinned to the UID that was read.
DeletePeerUnpinned(p) ==
    /\ p \in running /\ pc[p] = "delete" /\ Goto(p, "create")
    /\ existing' = [existing EXCEPT ![p] = SomeUID]
    /\ IF peer.live THEN Write(NoPeer) ELSE UNCHANGED <<peer, pending>>
    /\ UNCHANGED <<exists, running, cache, keyfile, generated, applied, changes>>

\* The stale peer is deleted, if it is still the one that was read: NotFound and Conflict are
\* no errors.
DeletePeer(p) ==
    /\ p \in running /\ pc[p] = "delete" /\ Goto(p, "create")
    /\ existing' = [existing EXCEPT ![p] = SomeUID]
    /\ IF peer.live /\ peer.uid = existing[p] THEN Write(NoPeer) ELSE UNCHANGED <<peer, pending>>
    /\ UNCHANGED <<exists, running, cache, keyfile, generated, applied, changes>>

\* The pod's own is created, unless there is one: AlreadyExists is no error.
CreatePeer(p) ==
    /\ p \in running /\ pc[p] = "create" /\ Goto(p, "idle")
    /\ IF peer.live THEN UNCHANGED <<peer, pending>> ELSE WriteNew(desiredPeer(p))
    /\ UNCHANGED <<exists, running, existing, cache, keyfile, generated, applied, changes>>

\* A write fails otherwise.
WriteFails(p) ==
    /\ Interfere("failure") /\ p \in running /\ pc[p] \in {"delete", "create"}
    /\ Goto(p, "idle")
    /\ existing' = [existing EXCEPT ![p] = SomeUID]
    /\ UNCHANGED <<peer, exists, running, cache, pending, keyfile, generated, applied>>

--------------------------------------------------------------------------------
(* Specification *)

Sidecar(p) == LoadOrCreateKey(p) \/ WriteKey(p) \/ step(p) \/ DeletePeer(p) \/ CreatePeer(p)

Environment ==
    \/ \E status \in Tunnels \union {"waiting", "invalid"} : PublishStatus(status)
    \/ UserEdits \/ CollectGarbage
    \/ \E p, q \in Pods, force \in BOOLEAN : ReplacePod(p, q, force)
    \/ \E p \in Pods : StopSidecar(p) \/ RestartContainer(p) \/ WriteFails(p)

Next == Environment \/ \E p \in Pods : Sidecar(p) \/ SyncCache(p)

Spec == Init /\ [][Next]_vars

\* The loop runs, the watch delivers and the garbage collector works.
FairSpec ==
    /\ Spec
    /\ \A p \in Pods : WF_vars(Sidecar(p)) /\ WF_vars(SyncCache(p))
    /\ WF_vars(CollectGarbage)

--------------------------------------------------------------------------------
(* Properties *)

\* A sidecar never deletes a peer that no Pod controls, nor one that it registered itself and
\* that nobody has edited since, however stale its cache, and across restarts of its container
\* (decidePeer, the UID precondition in ensurePeer, LoadOrCreateKey).
OnlyStaleDeleted ==
    [][\A p \in Pods : DeletePeer(p) /\ peer.live /\ ~peer'.live =>
            peer.owner # NoPod /\ ~(peer.owner = p /\ peer.ref = "own")]_vars

\* A sidecar's own peer, as it wants it.
Registered(p) == peer.live /\ peer.owner = p /\ peer.key = keyfile[p] /\ peer.ref # "other"

\* Once only one sidecar is left, its pod exists, its key file is no torn one and no peer that
\* nobody controls is in the way, its peer comes to be registered for good, whatever peers
\* earlier pods left behind (ensurePeer, loop).
Registers ==
    \A p \in Pods :
        <>[](running = {p} /\ exists = {p} /\ keyfile[p] # TornKey /\ ~(peer.live /\ peer.owner = NoPod))
            => <>[]Registered(p)

\* ... and what the operator publishes last in it comes to be applied (step, desiredTunnel).
AppliesPublished ==
    \A p \in Pods, t \in Tunnels :
        <>[](running = {p} /\ Registered(p) /\ peer.status = t) => <>[](applied[p] = {t})
================================================================================
