---------------------------- MODULE WireguardDevice ----------------------------
(***************************************************************************)
(* The WireGuard device of a gateway and the configuration the agent       *)
(* computes for it from a state.json (internal/wireguard/wireguard.go).    *)
(*                                                                         *)
(* The kernel gives an allowed IP to one peer at a time: configuring it    *)
(* for a peer takes it from the peer that had it.                          *)
(***************************************************************************)
EXTENDS Integers, FiniteSets

CONSTANTS
    PublicKeys,     \* peers' public keys
    Addresses,      \* peers' addresses
    NoAddress,      \* the address of a key that a state does not list
    CIDRs,          \* peerCIDRs; each stands for its gateway address too
    NoCIDR,         \* an empty spec.peerCIDR
    DefaultPeerCIDR4,
    ServerKeys,     \* private keys of the server
    NoServerKey     \* none

ASSUME AddressAssumption == NoAddress \notin Addresses

ASSUME CIDRAssumption == DefaultPeerCIDR4 \in CIDRs /\ NoCIDR \notin CIDRs

ASSUME ServerKeyAssumption == NoServerKey \notin ServerKeys

--------------------------------------------------------------------------------
(* Values *)

\* The content of a state.json. A peer without an address, or a missing key, makes it invalid.
States ==
    [complete: BOOLEAN, key: ServerKeys \union {NoServerKey}, cidr: CIDRs \union {NoCIDR},
     address: [PublicKeys -> Addresses \union {NoAddress}]]

PeerCIDR(state) == IF state.cidr = NoCIDR THEN DefaultPeerCIDR4 ELSE state.cidr

IsStateValid(state) == state.complete /\ state.key # NoServerKey

listed(state) == {k \in PublicKeys : state.address[k] # NoAddress}

\* No two listed peers share an address: what the operator writes (PeerReconciler!ServedDistinct).
DistinctAddresses(state) ==
    \A j, k \in listed(state) : j # k => state.address[j] # state.address[k]

\* Peers and their allowed IPs; a key that is not a peer has none.
Devices ==
    [key: ServerKeys \union {NoServerKey}, members: SUBSET PublicKeys, ips: [PublicKeys -> SUBSET Addresses]]

NewDevice == [key |-> NoServerKey, members |-> {}, ips |-> [k \in PublicKeys |-> {}]]

PeerConfigs == [pub: PublicKeys, op: {"remove", "update", "add"}, ips: SUBSET Addresses]

--------------------------------------------------------------------------------
(* Configuration *)

desiredAllowed(state, k) == IF state.address[k] = NoAddress THEN {} ELSE {state.address[k]}

\* The device a state describes.
describes(state, device) ==
    /\ device.members = listed(state)
    /\ \A k \in PublicKeys : device.ips[k] = desiredAllowed(state, k)

removals(device, state) ==
    {[pub |-> k, op |-> "remove", ips |-> device.ips[k]] : k \in device.members \ listed(state)}

\* Mutant: an unknown peer stays on the device.
createPeersConfigurationKeepingUnknown(device, state) ==
    {[pub |-> k, op |-> IF k \in device.members THEN "update" ELSE "add", ips |-> desiredAllowed(state, k)] :
        k \in {j \in listed(state) : j \notin device.members \/ device.ips[j] # desiredAllowed(state, j)}}

\* What must change, by public key: unknown peers go, known ones are updated if their allowed
\* IPs differ, and missing ones are added.
createPeersConfiguration(device, state) ==
    removals(device, state)
        \union
    {[pub |-> k, op |-> IF k \in device.members THEN "update" ELSE "add", ips |-> desiredAllowed(state, k)] :
        k \in {j \in listed(state) : j \notin device.members \/ device.ips[j] # desiredAllowed(state, j)}}

\* The allowed IPs once peer k has the set ips.
assign(device, k, ips) ==
    [j \in PublicKeys |-> IF j = k THEN ips ELSE device.ips[j] \ ips]

\* The kernel configures one peer. An update replaces the allowed IPs of a peer that exists and
\* ignores one that does not; an addition that finds the peer appends to what it has.
applyPeer(device, c) ==
    CASE c.op = "remove" ->
            [device EXCEPT !.members = @ \ {c.pub}, !.ips = [@ EXCEPT ![c.pub] = {}]]
      [] c.op = "update" /\ c.pub \in device.members ->
            [device EXCEPT !.ips = assign(device, c.pub, c.ips)]
      [] c.op = "update" /\ c.pub \notin device.members -> device
      [] c.op = "add" ->
            [device EXCEPT !.members = @ \union {c.pub},
                           !.ips = assign(device, c.pub, device.ips[c.pub] \union c.ips)]
================================================================================
