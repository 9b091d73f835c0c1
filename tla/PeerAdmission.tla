----------------------------- MODULE PeerAdmission -----------------------------
(***************************************************************************)
(* What the Wireguard controller decides about the WireguardPeers of one   *)
(* gateway from the objects it has read: which it refuses and why, which   *)
(* of two holders of a key or an address keeps it, and which address the   *)
(* allocator hands out (internal/controller/peers.go, internal/ipam).      *)
(*                                                                         *)
(* Names are numbers, so that the lexical order of the code is <. An       *)
(* address is a number and a peerCIDR an interval of them. Keys are opaque *)
(* except for the two the code tells apart: the empty key and the keys     *)
(* that wgtypes.ParseKey rejects or does not return unchanged.             *)
(***************************************************************************)
EXTENDS Integers, FiniteSets

CONSTANTS
    Peers,          \* the namespace/name of every WireguardPeer that may exist
    Gateways,       \* the namespace/name of every Wireguard that may exist
    Neighbours,     \* Neighbours[g]: the peers that live in gateway g's namespace
    PublicKeys,     \* canonical WireGuard public keys
    NoKey,          \* an empty spec.publicKey
    BadKey,         \* a key that is not canonical base64 of 32 bytes
    Pools           \* the values of spec.peerCIDR

ASSUME PeersAssumption == Peers \subseteq Nat \ {0}

ASSUME NeighboursAssumption == Neighbours \in [Gateways -> SUBSET Peers]

ASSUME KeysAssumption == NoKey \notin PublicKeys /\ BadKey \notin PublicKeys

ASSUME PoolsAssumption == Pools \subseteq [base: Nat, size: Nat \ {0}]

--------------------------------------------------------------------------------
(* Values *)

NoAddress == -1

NoServer == 0

SpecKeys == PublicKeys \union {NoKey, BadKey}

\* The addresses of a prefix; the network address is the first, the gateway's the second.
addresses(pool) == pool.base .. (pool.base + pool.size - 1)

deriveReservedIPs(pool) == {pool.base, pool.base + 1}

\* A canonical prefix of length 30 or shorter.
validatePeerCIDR(pool) == pool.size >= 4

AllAddresses == UNION {addresses(pool) : pool \in Pools}

Reasons == {"", "Ready", "WireguardNotFound", "NamespaceNotAllowed", "PublicKeyMissing",
            "InvalidPublicKey", "PublicKeyConflict", "AddressConflict", "AddressPoolExhausted"}

\* A peer's status.status, message and Ready condition: why it is not ready and, for a
\* conflict, the holder its message names (a set that should have one element). "Ready" stands
\* for status ready with no Ready condition.
Statuses == [reason: Reasons, holder: SUBSET Peers]

notReady(reason) == [reason |-> reason, holder |-> {}]

publicKeyConflict(holder) == [reason |-> "PublicKeyConflict", holder |-> holder]

addressConflict(holder) == [reason |-> "AddressConflict", holder |-> holder]

addressPoolExhausted == notReady("AddressPoolExhausted")

wireguardNotFound == notReady("WireguardNotFound")

ready == notReady("Ready")

\* A WireguardPeer. "observed": no Ready condition, or one with the current generation;
\* "identity" stands for status.serverPublicKey, endpoint and localCIDRs, written together.
PeerObjects ==
    [live: BOOLEAN, created: Nat, gateway: Gateways, key: SpecKeys,
     address: AllAddresses \union {NoAddress}, status: Statuses, observed: BOOLEAN, identity: Nat]

\* One peer of the state.json that the gateway's agent applies; a peer the file does not
\* list has the zero entry.
Entries == [key: SpecKeys, address: AllAddresses \union {NoAddress}]

NoEntry == [key |-> NoKey, address |-> NoAddress]

--------------------------------------------------------------------------------
(* Decisions. objs is the peer list the pass works on, current the keys the  *)
(* Secret it read lists each peer under.                                      *)

\* A peer ranks before another by creation time, then by name.
older(objs, a, b) ==
    \/ objs[a].created < objs[b].created
    \/ objs[a].created = objs[b].created /\ a < b

\* The peers, in any namespace, that name gateway g.
getWireguardPeers(objs, g) == {p \in Peers : objs[p].live /\ objs[p].gateway = g}

namespaceNotAllowed(wg, g, p) == wg.same /\ p \notin Neighbours[g]

\* The status admitPeers records on a peer, or ready when it has no objection.
admissionProblem(objs, wg, g, p) ==
    CASE namespaceNotAllowed(wg, g, p)  -> notReady("NamespaceNotAllowed")
      [] OTHER ->
            CASE objs[p].key = NoKey  -> notReady("PublicKeyMissing")
              [] objs[p].key = BadKey -> notReady("InvalidPublicKey")
              [] OTHER                -> ready

admitPeers(objs, wg, g) ==
    {p \in getWireguardPeers(objs, g) : admissionProblem(objs, wg, g, p) = ready}

\* A contender the served state lists under its own key beats one it does not; among
\* equals the older wins.
beats(objs, current, a, b) ==
    LET listed(p) == current[p].key = objs[p].key
    IN  IF listed(a) # listed(b) THEN listed(a) ELSE older(objs, a, b)

\* Mutant: the losers stay in the list.
dedupePublicKeysKeepingLosers(objs, current, S) == S

\* The holders of their public key, and of their address, among the peers S. The code finds
\* each with one scan of the list; the order is total, so the scan's order is immaterial.
dedupePublicKeys(objs, current, S) ==
    {p \in S : \A q \in S : q # p /\ objs[q].key = objs[p].key => ~beats(objs, current, q, p)}

dedupeAddresses(objs, S) ==
    {p \in S : \A q \in S :
        q # p /\ objs[q].address = objs[p].address /\ objs[p].address # NoAddress
            => ~older(objs, q, p)}

\* An address of the pool that the allocator could have handed out.
addressUsable(address, pool) ==
    address \in addresses(pool) /\ address \notin deriveReservedIPs(pool)

\* Mutant: an address of another pool is kept.
clearUnusableNothing(objs, pool, S) == objs

\* The list with every unusable address of the peers S cleared, in memory only.
clearUnusable(objs, pool, S) ==
    [p \in Peers |-> IF p \in S /\ ~addressUsable(objs[p].address, pool)
                     THEN [objs[p] EXCEPT !.address = NoAddress] ELSE objs[p]]

\* Mutant: the reserved addresses are not taken.
GetUsedIPsUnreserved(pool, objs, S) == {objs[p].address : p \in S} \ {NoAddress}

GetUsedIPs(pool, objs, S) ==
    deriveReservedIPs(pool) \union ({objs[p].address : p \in S} \ {NoAddress})

\* Mutant: the scan ends one address too early.
AllocateIPBeforeEnd(pool, used) ==
    LET free == (addresses(pool) \ {pool.base + pool.size - 1}) \ used
    IN  {ip \in free : \A other \in free : ip <= other}

\* The first address of the pool that is not used, as a set: empty when the pool is full.
AllocateIP(pool, used) ==
    LET free == addresses(pool) \ used
    IN  {ip \in free : \A other \in free : ip <= other}

\* The peers a pass keeps: the holders of their keys that also hold their addresses, once the
\* addresses the gateway cannot use are cleared.
keyHolders(objs, current, wg, g) == dedupePublicKeys(objs, current, admitPeers(objs, wg, g))

listedPeers(objs, current, wg, g) ==
    clearUnusable(objs, wg.pool, keyHolders(objs, current, wg, g))

keptPeers(objs, current, wg, g) ==
    dedupeAddresses(listedPeers(objs, current, wg, g), keyHolders(objs, current, wg, g))

\* What it records on each of the others: the admission problem, the loss of the key, or the
\* loss of the address.
refusals(objs, current, wg, g) ==
    LET keyed == keyHolders(objs, current, wg, g)
        kept  == keptPeers(objs, current, wg, g)
    IN  [p \in Peers |->
            CASE p \in kept -> ready
              [] p \in keyed \ kept ->
                    addressConflict({q \in kept : objs[q].address = objs[p].address})
              [] p \in admitPeers(objs, wg, g) \ keyed ->
                    publicKeyConflict({q \in keyed : objs[q].key = objs[p].key})
              [] OTHER -> admissionProblem(objs, wg, g, p)]

\* The place of a refusal in the order of the pass's writes.
stage(status) ==
    CASE status.reason = "PublicKeyConflict" -> 2
      [] status.reason = "AddressConflict"   -> 3
      [] OTHER -> 1

\* Mutants: the comparison never succeeds, or takes any refusal for the current one.
peerStatusMatchesNever(obj, status) == FALSE

peerStatusMatchesAny(obj, status) == obj.status.reason \notin {"", "Ready"}

\* markPeerNotReady writes nothing to a peer that already records the refusal.
peerStatusMatches(obj, status) ==
    /\ obj.status = status
    /\ obj.address = NoAddress
    /\ obj.identity = NoServer
    /\ obj.observed
================================================================================
