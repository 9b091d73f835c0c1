------------------------- MODULE PeerReconciler_proofs -------------------------
(***************************************************************************)
(* Proofs about PeerReconciler for any number of peers, gateways, keys,    *)
(* pools and interferences: the type invariant; that no Secret ever lists  *)
(* two peers with one key or one address, or an unusable address; that the *)
(* server's key and the peers' addresses stay; what the decisions of a     *)
(* pass compute; and when a served key is safe.                            *)
(***************************************************************************)
EXTENDS PeerReconciler, WellFoundedInduction, TLAPS

--------------------------------------------------------------------------------
(* The decisions of a pass *)

\* The values CHOOSE picks for absent objects exist.
LEMMA Defaults == SomePool \in Pools /\ SomeGateway \in Gateways
  BY GatewaysAssumption DEF SomePool, SomeGateway

\* A pool the controller renders has room for its two reserved addresses.
LEMMA ReservedInPool ==
    ASSUME NEW q \in Pools, validatePeerCIDR(q)
    PROVE  deriveReservedIPs(q) \subseteq AllAddresses
  <1>1. q.base \in Nat /\ q.size \in Nat /\ q.size >= 4
    BY PoolsAssumption DEF validatePeerCIDR
  <1>2. q.base \in addresses(q) /\ q.base + 1 \in addresses(q)
    BY <1>1 DEF addresses
  <1> QED
    BY <1>2 DEF AllAddresses, deriveReservedIPs

\* Of two peers one is older: creation time, then name, is a total order (older).
LEMMA OlderTotal ==
    ASSUME NEW objs \in [Peers -> PeerObjects], NEW p \in Peers, NEW q \in Peers, p # q
    PROVE  older(objs, p, q) \/ older(objs, q, p)
  BY PeersAssumption DEF older, PeerObjects

\* Two peers that both keep their keys have different keys (dedupePublicKeys).
LEMMA HoldersDistinctKeys ==
    ASSUME NEW objs \in [Peers -> PeerObjects], NEW current, NEW S \in SUBSET Peers,
           NEW p \in dedupePublicKeys(objs, current, S),
           NEW q \in dedupePublicKeys(objs, current, S), p # q
    PROVE  objs[p].key # objs[q].key
  <1>1. p \in Peers /\ q \in Peers /\ p \in S /\ q \in S
    BY DEF dedupePublicKeys
  <1>2. beats(objs, current, p, q) \/ beats(objs, current, q, p)
    BY <1>1, OlderTotal DEF beats
  <1> QED
    BY <1>1, <1>2 DEF dedupePublicKeys

\* Two peers that both keep their addresses have different ones (dedupeAddresses).
LEMMA HoldersDistinctAddresses ==
    ASSUME NEW objs \in [Peers -> PeerObjects], NEW S \in SUBSET Peers,
           NEW p \in dedupeAddresses(objs, S), NEW q \in dedupeAddresses(objs, S), p # q,
           objs[p].address # NoAddress
    PROVE  objs[p].address # objs[q].address
  <1>1. p \in Peers /\ q \in Peers /\ p \in S /\ q \in S
    BY DEF dedupeAddresses
  <1>2. older(objs, p, q) \/ older(objs, q, p)
    BY <1>1, OlderTotal
  <1> QED
    BY <1>1, <1>2 DEF dedupeAddresses

\* Clearing addresses touches nothing else, and leaves the peers in question usable ones.
LEMMA Cleared ==
    ASSUME NEW objs \in [Peers -> PeerObjects], NEW q, NEW S \in SUBSET Peers
    PROVE  LET c == clearUnusable(objs, q, S)
           IN  /\ c \in [Peers -> PeerObjects]
               /\ \A p \in Peers : c[p].key = objs[p].key /\ c[p].created = objs[p].created
               /\ \A p \in S : c[p].address = NoAddress \/ addressUsable(c[p].address, q)
  BY DEF clearUnusable, PeerObjects

\* Every recorded refusal is a status.
LEMMA RefusalsType ==
    ASSUME NEW objs, NEW current, NEW w, NEW g
    PROVE  refusals(objs, current, w, g) \in [Peers -> Statuses]
  <1> DEFINE kept == keptPeers(objs, current, w, g)
             keyed == keyHolders(objs, current, w, g)
             adm == admitPeers(objs, w, g)
  <1>1. adm \subseteq Peers /\ keyed \subseteq adm /\ kept \subseteq keyed
    BY DEF admitPeers, getWireguardPeers, keyHolders, dedupePublicKeys, keptPeers, dedupeAddresses
  <1>2. \A p \in Peers : admissionProblem(objs, w, g, p) \in Statuses
    BY DEF admissionProblem, notReady, ready, Statuses, Reasons
  <1>3. \A H \in SUBSET Peers : addressConflict(H) \in Statuses /\ publicKeyConflict(H) \in Statuses
    BY DEF addressConflict, publicKeyConflict, Statuses, Reasons
  <1>4. ready \in Statuses
    BY DEF ready, notReady, Statuses, Reasons
  <1> QED
    BY <1>1, <1>2, <1>3, <1>4 DEF refusals

\* The peers a pass keeps are what PassDistinct asks of them.
LEMMA KeptPeers ==
    ASSUME NEW objs \in [Peers -> PeerObjects], NEW current, NEW g, NEW w \in WireguardObjects,
           NEW listed, listed = listedPeers(objs, current, w, g),
           NEW kept, kept = keptPeers(objs, current, w, g)
    PROVE  /\ listed \in [Peers -> PeerObjects]
           /\ kept \in SUBSET Peers
           /\ \A p \in kept : listed[p].key \in PublicKeys
           /\ \A p \in kept : listed[p].address = NoAddress \/ addressUsable(listed[p].address, w.pool)
           /\ \A p, q \in kept : p # q =>
                /\ listed[p].key # listed[q].key
                /\ listed[p].address # NoAddress => listed[p].address # listed[q].address
  <1> DEFINE adm == admitPeers(objs, w, g)
             keyed == keyHolders(objs, current, w, g)
  <1>1. adm \in SUBSET Peers /\ \A p \in adm : objs[p].key \in PublicKeys
    BY DEF admitPeers, getWireguardPeers, admissionProblem, notReady, ready, PeerObjects, SpecKeys
  <1>2. keyed \subseteq adm /\ kept \subseteq keyed
    BY DEF keyHolders, dedupePublicKeys, keptPeers, dedupeAddresses
  <1>3. /\ listed \in [Peers -> PeerObjects]
        /\ \A p \in Peers : listed[p].key = objs[p].key
        /\ \A p \in keyed : listed[p].address = NoAddress \/ addressUsable(listed[p].address, w.pool)
    BY <1>1, <1>2, Cleared DEF listedPeers
  <1>4. \A p, q \in keyed : p # q => objs[p].key # objs[q].key
    BY <1>1, HoldersDistinctKeys DEF keyHolders
  <1>5. \A p, q \in kept : p # q /\ listed[p].address # NoAddress => listed[p].address # listed[q].address
    BY <1>1, <1>2, <1>3, HoldersDistinctAddresses DEF keptPeers
  <1> QED
    BY <1>1, <1>2, <1>3, <1>4, <1>5

\* Their types alone.
LEMMA KeptType ==
    ASSUME NEW objs \in [Peers -> PeerObjects], NEW current, NEW g, NEW w \in WireguardObjects
    PROVE  /\ listedPeers(objs, current, w, g) \in [Peers -> PeerObjects]
           /\ keptPeers(objs, current, w, g) \in SUBSET Peers
  BY KeptPeers

\* A set of naturals has a least element: the order is well founded.
LEMMA LeastNatural ==
    ASSUME NEW S \in SUBSET Nat, S # {} PROVE \E n \in S : \A m \in S : n <= m
  <1> DEFINE R == OpToRel(<, Nat)
  <1>1. IsWellFoundedOn(R, Nat)
    BY NatLessThanWellFounded, Zenon
  <1>2. \A x, y \in Nat : <<y, x>> \in R <=> y < x
    BY DEF OpToRel
  <1> HIDE DEF R
  <1>3. PICK x \in S : \A y \in S : ~(<<y, x>> \in R)
    BY <1>1, WFMin, Zenon
  <1>4. x \in Nat /\ \A y \in S : y \in Nat /\ ~(y < x)
    BY <1>2, <1>3, Zenon
  <1>5. \A y \in S : x <= y
    BY <1>4
  <1> QED
    BY <1>5

\* The allocator gives up only when every address of the pool is taken (AllocateIP's scan).
LEMMA AllocateFull ==
    ASSUME NEW q \in Pools, NEW U, AllocateIP(q, U) = {}
    PROVE  addresses(q) \subseteq U
  <1> DEFINE free == addresses(q) \ U
  <1>1. free \in SUBSET Nat
    BY PoolsAssumption DEF addresses
  <1>2. {ip \in free : \A other \in free : ip <= other} = {}
    BY DEF AllocateIP
  <1> HIDE DEF free
  <1>3. free = {}
    BY <1>1, <1>2, LeastNatural
  <1> QED
    BY <1>3 DEF free

\* Among any peers one is the oldest.
LEMMA OldestExists ==
    ASSUME NEW objs \in [Peers -> PeerObjects], NEW S \in SUBSET Peers, S # {}
    PROVE  \E p \in S : \A q \in S : q # p => ~older(objs, q, p)
  <1> DEFINE T == {objs[p].created : p \in S}
  <1>1. T \in SUBSET Nat /\ T # {}
    BY DEF PeerObjects
  <1>2. PICK t \in T : \A u \in T : t <= u
    BY <1>1, LeastNatural, Zenon
  <1> DEFINE F == {p \in S : objs[p].created = t}
  <1>3. F \in SUBSET Nat /\ F # {}
    BY PeersAssumption, Zenon
  <1>4. PICK p \in F : \A q \in F : p <= q
    BY <1>3, LeastNatural, Zenon
  <1>5. \A q \in S : q # p => ~older(objs, q, p)
    <2> TAKE q \in S
    <2>1. objs[q].created \in Nat /\ objs[p].created = t /\ t \in Nat /\ t <= objs[q].created
      BY <1>1, <1>2, <1>4 DEF PeerObjects
    <2>2. objs[q].created = t => p <= q
      BY <1>4
    <2>3. p \in Nat /\ q \in Nat
      BY <1>4, PeersAssumption
    <2> QED
      BY <2>1, <2>2, <2>3 DEF older
  <1> QED
    BY <1>4, <1>5

\* Of the contenders for a key one keeps it: the oldest of those the state lists under it, or
\* the oldest of all when it lists none (dedupePublicKeys).
LEMMA HolderExists ==
    ASSUME NEW objs \in [Peers -> PeerObjects], NEW current, NEW S \in SUBSET Peers, NEW p \in S
    PROVE  \E q \in dedupePublicKeys(objs, current, S) : objs[q].key = objs[p].key
  <1> DEFINE C == {q \in S : objs[q].key = objs[p].key}
             listed(q) == current[q].key = objs[q].key
             L == {q \in C : listed(q)}
             D == IF L = {} THEN C ELSE L
  <1>1. C \in SUBSET Peers /\ C # {} /\ D \in SUBSET Peers /\ D # {} /\ D \subseteq C
    OBVIOUS
  <1>2. PICK h \in D : \A q \in D : q # h => ~older(objs, q, h)
    <2> HIDE DEF D
    <2> QED
      BY <1>1, OldestExists
  <1>3. \A q \in C : q # h => ~beats(objs, current, q, h)
    BY <1>2 DEF beats
  <1>4. h \in C
    BY <1>1, <1>2
  <1> QED
    BY <1>3, <1>4 DEF dedupePublicKeys

\* Every public key that an admitted peer has is held by exactly one of them, for any number of
\* contenders and whatever the state the pass read lists (dedupePublicKeys).
THEOREM OneKeyHolder ==
    ASSUME NEW objs \in [Peers -> PeerObjects], NEW current, NEW S \in SUBSET Peers, NEW p \in S
    PROVE  \E h \in S : {q \in dedupePublicKeys(objs, current, S) : objs[q].key = objs[p].key} = {h}
  <1>1. PICK h \in dedupePublicKeys(objs, current, S) : objs[h].key = objs[p].key
    BY HolderExists
  <1>2. \A q \in dedupePublicKeys(objs, current, S) : q # h => objs[q].key # objs[h].key
    BY HoldersDistinctKeys
  <1>3. h \in S
    BY DEF dedupePublicKeys
  <1> QED
    BY <1>1, <1>2, <1>3

\* Of the peers that list one address the oldest keeps it (dedupeAddresses).
LEMMA AddressHolderExists ==
    ASSUME NEW objs \in [Peers -> PeerObjects], NEW S \in SUBSET Peers, NEW p \in S
    PROVE  \E q \in dedupeAddresses(objs, S) : objs[q].address = objs[p].address
  <1> DEFINE C == {q \in S : objs[q].address = objs[p].address}
  <1>1. C \in SUBSET Peers /\ C # {}
    OBVIOUS
  <1>2. PICK h \in C : \A q \in C : q # h => ~older(objs, q, h)
    <2> HIDE DEF C
    <2> QED
      BY <1>1, OldestExists
  <1> QED
    BY <1>2 DEF dedupeAddresses

\* A peer that is refused its address is told of exactly one peer that has it, and that one is
\* kept, although addresses outside the pool are cleared before the holders are found
\* (clearUnusable, dedupeAddresses and the message of AddressConflict).
THEOREM AddressConflictNamed ==
    ASSUME NEW objs \in [Peers -> PeerObjects], NEW current, NEW g, NEW w \in WireguardObjects,
           NEW p \in Peers, refusals(objs, current, w, g)[p].reason = "AddressConflict"
    PROVE  \E h \in keptPeers(objs, current, w, g) :
             /\ refusals(objs, current, w, g)[p] = addressConflict({h})
             /\ objs[h].address = objs[p].address
  <1> DEFINE keyed == keyHolders(objs, current, w, g)
             list == listedPeers(objs, current, w, g)
             kept == keptPeers(objs, current, w, g)
             v == refusals(objs, current, w, g)
  <1>1. keyed \in SUBSET Peers /\ kept \subseteq keyed /\ kept = dedupeAddresses(list, keyed)
    BY Zenon DEF keyHolders, dedupePublicKeys, admitPeers, getWireguardPeers, keptPeers, dedupeAddresses
  <1>2. list \in [Peers -> PeerObjects]
    BY KeptType
  <1>3. \A q \in keyed : list[q].address = IF addressUsable(objs[q].address, w.pool) THEN objs[q].address ELSE NoAddress
    BY <1>1 DEF listedPeers, clearUnusable, PeerObjects
  <1>4. p \in keyed \ kept /\ v[p] = addressConflict({q \in kept : objs[q].address = objs[p].address})
    <2>1. \A H : publicKeyConflict(H).reason # "AddressConflict"
      BY DEF publicKeyConflict
    <2>2. ready.reason # "AddressConflict" /\ admissionProblem(objs, w, g, p).reason # "AddressConflict"
      BY DEF admissionProblem, ready, notReady
    <2> QED
      BY <2>1, <2>2 DEF refusals
  <1> HIDE DEF keyed, kept, list, v
  <1>5. list[p].address # NoAddress
    BY <1>1, <1>4 DEF dedupeAddresses
  <1>6. addressUsable(objs[p].address, w.pool) /\ list[p].address = objs[p].address
    BY <1>3, <1>4, <1>5
  <1>7. PICK h \in kept : list[h].address = list[p].address
    BY <1>1, <1>2, <1>4, AddressHolderExists
  <1>8. objs[h].address = objs[p].address
    BY <1>1, <1>3, <1>5, <1>6, <1>7
  <1>9. \A q \in kept : objs[q].address = objs[p].address => q = h
    <2> SUFFICES ASSUME NEW q \in kept, objs[q].address = objs[p].address, q # h PROVE FALSE
      OBVIOUS
    <2>1. list[q].address = list[h].address /\ list[h].address # NoAddress
      BY <1>1, <1>3, <1>5, <1>6, <1>7
    <2> QED
      BY <1>1, <1>2, <2>1, HoldersDistinctAddresses
  <1>10. {q \in kept : objs[q].address = objs[p].address} = {h}
    BY <1>8, <1>9
  <1> QED
    BY <1>4, <1>8, <1>10, Zenon DEF kept, v

\* The allocator returns the lowest address of the pool that is not taken, and nothing exactly
\* when all are taken (AllocateIP).
THEOREM AllocatesLowest ==
    ASSUME NEW q \in Pools, NEW U
    PROVE  /\ AllocateIP(q, U) = {} <=> addresses(q) \subseteq U
           /\ ~(addresses(q) \subseteq U) => \E ip \in addresses(q) \ U :
                /\ AllocateIP(q, U) = {ip}
                /\ \A other \in addresses(q) \ U : ip <= other
  <1>1. addresses(q) \subseteq Nat
    BY PoolsAssumption DEF addresses
  <1>2. addresses(q) \subseteq U => AllocateIP(q, U) = {}
    BY DEF AllocateIP
  <1>3. ASSUME NEW ip \in AllocateIP(q, U)
        PROVE  /\ ip \in addresses(q) \ U /\ AllocateIP(q, U) = {ip}
               /\ \A other \in addresses(q) \ U : ip <= other
    <2>1. ip \in addresses(q) \ U /\ \A other \in addresses(q) \ U : ip <= other
      BY DEF AllocateIP
    <2>2. \A other \in AllocateIP(q, U) : other = ip
      <3> TAKE other \in AllocateIP(q, U)
      <3>1. other \in addresses(q) \ U /\ other <= ip /\ ip <= other
        BY <2>1 DEF AllocateIP
      <3>2. ip \in Nat /\ other \in Nat
        BY <1>1, <2>1, <3>1
      <3> QED
        BY <3>1, <3>2
    <2> QED
      BY <2>1, <2>2
  <1>4. AllocateIP(q, U) = {} => addresses(q) \subseteq U
    BY AllocateFull
  <1> QED
    BY <1>2, <1>3, <1>4

\* What a pass decides about peer p of gateway g: it is kept, it has an admission problem, it
\* lost an address, or it lost its key to one named peer that itself lost at most an address.
RefusalSound(objs, w, g, listed, kept, v, p) ==
    /\ v[p] = ready <=> p \in kept
    /\ \/ v[p] = admissionProblem(objs, w, g, p)
       \/ v[p].reason = "AddressConflict" /\ listed[p].address # NoAddress
       \/ \E q \in getWireguardPeers(objs, g) :
            /\ v[p] = publicKeyConflict({q}) /\ objs[q].key = objs[p].key
            /\ v[q] = ready \/ v[q].reason = "AddressConflict"

\* The verdicts refusals computes are of these kinds.
LEMMA RefusalFacts ==
    ASSUME NEW objs \in [Peers -> PeerObjects], NEW current, NEW g, NEW w \in WireguardObjects,
           NEW listed, listed = listedPeers(objs, current, w, g),
           NEW kept, kept = keptPeers(objs, current, w, g),
           NEW v, v = refusals(objs, current, w, g),
           NEW p \in getWireguardPeers(objs, g)
    PROVE  RefusalSound(objs, w, g, listed, kept, v, p)
  <1> DEFINE G == getWireguardPeers(objs, g)
             adm == admitPeers(objs, w, g)
             keyed == keyHolders(objs, current, w, g)
  <1>1. G \subseteq Peers /\ adm \subseteq G /\ keyed \subseteq adm /\ kept \subseteq keyed
    BY DEF getWireguardPeers, admitPeers, keyHolders, dedupePublicKeys, keptPeers, dedupeAddresses
  <1>2. \A q \in kept : v[q] = ready
    BY <1>1 DEF refusals
  <1>3. \A q \in keyed \ kept : v[q] = addressConflict({r \in kept : objs[r].address = objs[q].address})
    BY <1>1, Zenon DEF refusals
  <1>4. \A q \in adm \ keyed : v[q] = publicKeyConflict({r \in keyed : objs[r].key = objs[q].key})
    BY <1>1, Zenon DEF refusals
  <1>5. \A q \in G \ adm : v[q] = admissionProblem(objs, w, g, q) /\ v[q] # ready
    BY <1>1 DEF refusals, admitPeers
  <1>6. \A q \in adm : admissionProblem(objs, w, g, q) = ready
    BY DEF admitPeers
  <1>7. \A H : addressConflict(H).reason = "AddressConflict" /\ publicKeyConflict(H).reason = "PublicKeyConflict"
    BY DEF addressConflict, publicKeyConflict
  <1>8. ready.reason = "Ready"
    BY DEF ready, notReady
  <1>9. \A q \in keyed \ kept : listed[q].address # NoAddress
    BY DEF keptPeers, dedupeAddresses
  <1>10. \A q \in adm \ keyed : \E h \in keyed : v[q] = publicKeyConflict({h}) /\ objs[h].key = objs[q].key
    <2> TAKE q \in adm \ keyed
    <2>1. PICK h \in keyed : objs[h].key = objs[q].key
      BY <1>1, HolderExists DEF keyHolders
    <2>2. \A r \in keyed : r # h => objs[r].key # objs[h].key
      BY <1>1, HoldersDistinctKeys DEF keyHolders
    <2>3. {r \in keyed : objs[r].key = objs[q].key} = {h}
      BY <2>1, <2>2
    <2> QED
      BY <1>4, <2>1, <2>3, Zenon
  <1> HIDE DEF G, adm, keyed
  <1>11. p \in G
    BY DEF G
  <1>12. \A q \in keyed \ kept : v[q].reason = "AddressConflict"
    <2> TAKE q \in keyed \ kept
    <2>1. PICK H : v[q] = addressConflict(H)
      BY <1>3, Zenon
    <2> QED
      BY <1>7, <2>1
  <1>13. v[p] = ready <=> p \in kept
    <2>1. CASE p \in kept
      BY <1>2, <2>1
    <2>2. CASE p \in keyed \ kept
      BY <1>8, <1>12, <2>2
    <2>3. CASE p \in adm \ keyed
      BY <1>1, <1>7, <1>8, <1>10, <2>3, Zenon
    <2>4. CASE p \in G \ adm
      BY <1>1, <1>5, <2>4
    <2> QED
      BY <1>11, <2>1, <2>2, <2>3, <2>4
  <1>14. CASE p \in kept
    BY <1>1, <1>2, <1>6, <1>13, <1>14 DEF RefusalSound
  <1>15. CASE p \in keyed \ kept
    BY <1>9, <1>12, <1>13, <1>15 DEF RefusalSound
  <1>16. CASE p \in adm \ keyed
    <2>1. PICK h \in keyed : v[p] = publicKeyConflict({h}) /\ objs[h].key = objs[p].key
      BY <1>10, <1>16, Zenon
    <2>2. h \in getWireguardPeers(objs, g) /\ (v[h] = ready \/ v[h].reason = "AddressConflict")
      BY <1>1, <1>2, <1>12, <2>1 DEF G
    <2> QED
      BY <1>13, <2>1, <2>2, Zenon DEF RefusalSound
  <1>17. CASE p \in G \ adm
    BY <1>5, <1>13, <1>17 DEF RefusalSound
  <1> QED
    BY <1>11, <1>14, <1>15, <1>16, <1>17

--------------------------------------------------------------------------------
(* Type correctness *)

\* The values absent objects and an ended pass have.
LEMMA AbsentTypes ==
    /\ AbsentWireguard \in WireguardObjects
    /\ AbsentPeer \in PeerObjects
    /\ AbsentSecret \in SecretObjects
    /\ Nobody \in [Peers -> PeerObjects]
    /\ NoVerdict \in [Peers -> Statuses]
  BY Defaults DEF AbsentWireguard, AbsentPeer, AbsentSecret, Nobody, NoVerdict, NoEntry, NoServer,
       WireguardObjects, PeerObjects, SecretObjects, Entries, SpecKeys, Statuses, Reasons,
       notReady, ready

LEMMA NewPeerType ==
    ASSUME NEW now \in Nat, NEW g \in Gateways, NEW k \in SpecKeys
    PROVE  NewPeer(now, g, k) \in PeerObjects
  BY AbsentTypes, Zenon DEF NewPeer, PeerObjects

\* The updates of a peer the model makes yield a peer.
LEMMA PeerFields ==
    ASSUME NEW obj \in PeerObjects
    PROVE  /\ \A status \in Statuses :
                [obj EXCEPT !.status = status, !.address = NoAddress,
                            !.identity = NoServer, !.observed = TRUE] \in PeerObjects
           /\ \A status \in Statuses, ip \in AllAddresses :
                [obj EXCEPT !.address = ip, !.status = status, !.observed = TRUE] \in PeerObjects
           /\ \A n \in Nat : [obj EXCEPT !.identity = n] \in PeerObjects
  <1>1. NoServer \in Nat
    BY DEF NoServer
  <1> QED
    BY <1>1, Zenon DEF PeerObjects

\* The part of TypeOK about the running pass.
PassTypeOK ==
    /\ pc \in {"idle", "orphans", "peers", "identity"}
    /\ gw \in Gateways /\ pool \in Pools
    /\ mem \in [Peers -> PeerObjects] /\ outdated \in SUBSET Peers
    /\ verdict \in [Peers -> Statuses]
    /\ refuse \in SUBSET Peers /\ keep \in SUBSET Peers /\ admitted \in SUBSET Peers
    /\ used \in SUBSET AllAddresses
    /\ serverKey \in Nat

LEMMA EndPassType == EndPass => PassTypeOK'
  BY Defaults, AbsentTypes DEF EndPass, PassTypeOK, NoServer

\* Initially every variable has its type.
LEMMA InitType == Init => TypeOK
  <1> SUFFICES ASSUME Init PROVE TypeOK
    OBVIOUS
  <1>1. wg \in [Gateways -> WireguardObjects]
    BY GatewaysAssumption DEF Init, WireguardObjects
  <1>2. peers \in [Peers -> PeerObjects]
    <2> DEFINE Start == {AbsentPeer} \union {NewPeer(0, g, k) : g \in Gateways, k \in SpecKeys}
    <2>1. Start \subseteq PeerObjects
      BY AbsentTypes, NewPeerType
    <2>2. peers \in [Peers -> Start]
      BY InitialPeersAssumption DEF Init
    <2> HIDE DEF Start
    <2> QED
      BY <2>1, <2>2
  <1>3. secret \in [Gateways -> SecretObjects]
    BY AbsentTypes DEF Init
  <1>4. PassTypeOK
    BY Defaults, AbsentTypes DEF Init, NoPass, PassTypeOK, NoServer
  <1>5. /\ cwg = wg /\ cpeers = peers /\ csecret = secret
        /\ staleWgs = {} /\ stalePeers = {} /\ staleSecrets = {} /\ queue = Gateways
        /\ lastKey = 0 /\ clock = 0 /\ changes = 0
    BY DEF Init
  <1> QED
    BY <1>1, <1>2, <1>3, <1>4, <1>5, MaxChangesAssumption DEF TypeOK, PassTypeOK

LEMMA InterfereType == ASSUME TypeOK, NEW kind, Interfere(kind) PROVE changes' \in 0 .. MaxChanges
  BY MaxChangesAssumption DEF TypeOK, Interfere

\* Interferences preserve the types.
LEMMA UserType == ASSUME TypeOK, User PROVE TypeOK'
  <1> USE DEF TypeOK
  <1>1. ASSUME NEW p \in Peers, NEW g \in Gateways, NEW k \in SpecKeys, CreatePeer(p, g, k)
        PROVE  TypeOK'
    BY <1>1, NewPeerType, InterfereType DEF CreatePeer, SetPeer
  <1>2. ASSUME NEW p \in Peers, NEW g \in Gateways, NEW k \in SpecKeys, EditPeer(p, g, k)
        PROVE  TypeOK'
    <2>1. peers'[p] \in PeerObjects
      <3> DEFINE edited(b) == [peers[p] EXCEPT !.gateway = g, !.key = k, !.observed = b]
      <3>1. \E b \in BOOLEAN : peers'[p] = edited(b)
        <4> DEFINE bare == peers[p].status.reason \in {"", "Ready"}
        <4>1. peers'[p] = edited(bare)
          BY <1>2 DEF EditPeer, SetPeer
        <4>2. bare \in BOOLEAN
          OBVIOUS
        <4> HIDE DEF bare, edited
        <4> WITNESS bare \in BOOLEAN
        <4> QED
          BY <4>1
      <3>2. PICK b \in BOOLEAN : peers'[p] = edited(b)
        BY <3>1, Zenon
      <3>3. peers[p] \in PeerObjects
        OBVIOUS
      <3>4. edited(b) \in PeerObjects
        BY <3>3, Zenon DEF PeerObjects
      <3> QED
        BY <3>2, <3>4
    <2> QED
      BY <1>2, <2>1, InterfereType DEF EditPeer, SetPeer
  <1>3. ASSUME NEW p \in Peers, DeletePeer(p) PROVE TypeOK'
    BY <1>3, AbsentTypes, InterfereType DEF DeletePeer, SetPeer
  <1>4. ASSUME NEW g \in Gateways,
               NEW obj \in [live: {TRUE}, pool: Pools, same: BOOLEAN] \union {AbsentWireguard},
               EditWireguard(g, obj)
        PROVE  TypeOK'
    <2>1. obj \in WireguardObjects
      BY AbsentTypes, Zenon DEF WireguardObjects
    <2> QED
      BY <1>4, <2>1, InterfereType DEF EditWireguard, pass
  <1>5. ASSUME NEW g \in Gateways, DeleteSecret(g) PROVE TypeOK'
    BY <1>5, AbsentTypes, InterfereType DEF DeleteSecret, pass
  <1> QED
    BY <1>1, <1>2, <1>3, <1>4, <1>5, Zenon DEF User

LEMMA FailureType == ASSUME TypeOK, Failure PROVE TypeOK'
  <1> USE DEF TypeOK
  <1>1. CASE PassFails
    BY <1>1, EndPassType, InterfereType DEF PassFails, PassTypeOK, api, cache
  <1>2. CASE Restart
    <2>1. queue' \in SUBSET Gateways
      BY <1>2 DEF Restart, PeerObjects
    <2> QED
      BY <1>2, <2>1, EndPassType, InterfereType DEF Restart, PassTypeOK, api
  <1>3. ASSUME NEW g \in Gateways, Resync(g) PROVE TypeOK'
    BY <1>3, InterfereType DEF Resync, api, cache, pass
  <1> QED
    BY <1>1, <1>2, <1>3 DEF Failure

LEMMA SyncType == ASSUME TypeOK, SyncPeers \/ SyncWireguards \/ SyncSecrets PROVE TypeOK'
  <1> USE DEF TypeOK, api, pass, env
  <1>1. CASE SyncPeers
    <2>1. queue' \in SUBSET Gateways
      BY <1>1 DEF SyncPeers, PeerObjects
    <2> QED
      BY <1>1, <2>1, Zenon DEF SyncPeers
  <1>2. CASE SyncWireguards
    BY <1>2 DEF SyncWireguards
  <1>3. CASE SyncSecrets
    BY <1>3 DEF SyncSecrets
  <1> QED
    BY <1>1, <1>2, <1>3

\* A status write leaves peers and the stale set well typed.
LEMMA StatusUpdateType ==
    ASSUME TypeOK, NEW p \in Peers, NEW obj \in PeerObjects, StatusUpdate(p, obj)
    PROVE  peers' \in [Peers -> PeerObjects] /\ stalePeers' \in SUBSET Peers
  BY DEF TypeOK, StatusUpdate

LEMMA MarkType ==
    ASSUME TypeOK, NEW p \in Peers, NEW status \in Statuses, markPeerNotReady(p, status)
    PROVE  peers' \in [Peers -> PeerObjects] /\ stalePeers' \in SUBSET Peers
  <1>1. [mem[p] EXCEPT !.status = status, !.address = NoAddress,
                       !.identity = NoServer, !.observed = TRUE] \in PeerObjects
    BY PeerFields, Zenon DEF TypeOK
  <1> QED
    BY <1>1, StatusUpdateType DEF markPeerNotReady, TypeOK

\* The address the allocator hands out is one of the pool that was not used.
LEMMA AllocateFree ==
    ASSUME NEW q \in Pools, NEW U, NEW ip \in AllocateIP(q, U)
    PROVE  ip \in addresses(q) /\ ip \notin U /\ ip \in AllAddresses /\ ip # NoAddress
  <1>1. ip \in addresses(q) /\ ip \notin U
    BY DEF AllocateIP
  <1>2. ip \in Nat
    BY <1>1, PoolsAssumption DEF addresses
  <1> QED
    BY <1>1, <1>2 DEF AllAddresses, NoAddress

\* The rendered Secret has its type.
LEMMA DesiredType ==
    ASSUME TypeOK, NEW key \in Nat PROVE desiredState(key) \in SecretObjects
  <1>1. \A p \in Peers : [key |-> mem[p].key, address |-> mem[p].address] \in Entries
    BY DEF TypeOK, PeerObjects, Entries
  <1>2. NoEntry \in Entries
    BY DEF NoEntry, Entries, SpecKeys
  <1> QED
    BY <1>1, <1>2 DEF TypeOK, desiredState, SecretObjects

\* Every step of a pass preserves the types.
LEMMA PassType == ASSUME TypeOK, Pass PROVE TypeOK'
  <1> USE DEF TypeOK, api, cache, env
  <1>1. ASSUME NEW g \in Gateways, markPeersWireguardNotFound(g) PROVE TypeOK'
    <2>1. wireguardNotFound \in Statuses
      BY Zenon DEF wireguardNotFound, notReady, Statuses, Reasons
    <2>2. getWireguardPeers(cpeers, g) \in SUBSET Peers
      BY DEF getWireguardPeers
    <2> QED
      BY <1>1, <2>1, <2>2 DEF markPeersWireguardNotFound, Dequeue, ListPeers
  <1>2. ASSUME NEW g \in Gateways, rejectSpec(g) PROVE TypeOK'
    BY <1>2 DEF rejectSpec, Dequeue, pass
  <1>3. ASSUME NEW g \in Gateways, reconcilePeers(g) PROVE TypeOK'
    <2> DEFINE current == csecret[g].served
               listed == listedPeers(cpeers, current, cwg[g], g)
               kept == keptPeers(cpeers, current, cwg[g], g)
    <2>1. cwg[g] \in WireguardObjects /\ cwg[g].pool \in Pools
      BY DEF WireguardObjects
    <2>2. listed \in [Peers -> PeerObjects] /\ kept \in SUBSET Peers
      <3>1. cpeers \in [Peers -> PeerObjects]
        OBVIOUS
      <3> QED
        BY ONLY <2>1, <3>1, KeptType, Zenon
    <2>3. refusals(cpeers, current, cwg[g], g) \in [Peers -> Statuses]
      BY RefusalsType
    <2>4. getWireguardPeers(cpeers, g) \ kept \in SUBSET Peers
      BY DEF getWireguardPeers
    <2>5. GetUsedIPs(cwg[g].pool, listed, kept) \in SUBSET AllAddresses
      <3>1. \A p \in kept : listed[p].address \in AllAddresses \union {NoAddress}
        BY <2>2 DEF PeerObjects
      <3>2. deriveReservedIPs(cwg[g].pool) \subseteq AllAddresses
        BY <1>3, <2>1, ReservedInPool DEF reconcilePeers
      <3> QED
        BY <3>1, <3>2 DEF GetUsedIPs
    <2> HIDE DEF current, listed, kept
    <2>6. /\ pc' = "peers" /\ gw' = g /\ pool' = cwg[g].pool /\ mem' = listed /\ outdated' = stalePeers
          /\ verdict' = refusals(cpeers, current, cwg[g], g)
          /\ refuse' = getWireguardPeers(cpeers, g) \ kept /\ keep' = kept
          /\ used' = GetUsedIPs(cwg[g].pool, listed, kept)
          /\ queue' = queue \ {g}
          /\ UNCHANGED <<api, cache, admitted, serverKey, env>>
      BY <1>3 DEF reconcilePeers, Dequeue, ListPeers, current, listed, kept
    <2> QED
      BY <2>1, <2>2, <2>3, <2>4, <2>5, <2>6
  <1>4. ASSUME NEW p \in Peers, refusePeer(p) PROVE TypeOK'
    <2>1. peers' \in [Peers -> PeerObjects] /\ stalePeers' \in SUBSET Peers
      BY <1>4, MarkType DEF refusePeer
    <2> QED
      BY <1>4, <2>1 DEF refusePeer
  <1>5. ASSUME NEW p \in Peers, keepPeer(p) PROVE TypeOK'
    BY <1>5 DEF keepPeer, Allocating
  <1>6. ASSUME NEW p \in Peers, servePeer(p) PROVE TypeOK'
    <2> DEFINE isNew == mem[p].address = NoAddress
               obj(ip) == [mem[p] EXCEPT !.address = ip, !.status = ready, !.observed = TRUE]
    <2>1. PICK ip \in IF isNew THEN AllocateIP(pool, used) ELSE {mem[p].address} :
            /\ used' = used \union {ip}
            /\ StatusUpdate(p, obj(ip))
            /\ mem' = [mem EXCEPT ![p] = obj(ip)]
            /\ admitted' = IF p \notin outdated \/ ~isNew THEN admitted \union {p} ELSE admitted
      BY <1>6, Zenon DEF servePeer
    <2>2. ip \in AllAddresses
      BY <2>1, AllocateFree DEF PeerObjects
    <2>3. obj(ip) \in PeerObjects
      <3>1. ready \in Statuses
        BY Zenon DEF ready, notReady, Statuses, Reasons
      <3> QED
        BY <2>2, <3>1, PeerFields, Zenon
    <2>4. peers' \in [Peers -> PeerObjects] /\ stalePeers' \in SUBSET Peers
      BY <2>1, <2>3, StatusUpdateType
    <2>5. mem' \in [Peers -> PeerObjects]
      BY <2>1, <2>3
    <2> QED
      BY <1>6, <2>1, <2>2, <2>4, <2>5 DEF servePeer, Allocating
  <1>7. ASSUME NEW p \in Peers, exhaustPeer(p) PROVE TypeOK'
    <2>1. addressPoolExhausted \in Statuses
      BY Zenon DEF addressPoolExhausted, notReady, Statuses, Reasons
    <2>2. peers' \in [Peers -> PeerObjects] /\ stalePeers' \in SUBSET Peers
      BY <1>7, <2>1, MarkType DEF exhaustPeer
    <2> QED
      BY <1>7, <2>2 DEF exhaustPeer, Allocating
  <1>8. ASSUME NEW p \in Peers, syncPeerIdentity(p) PROVE TypeOK'
    <2>1. [mem[p] EXCEPT !.identity = serverKey] \in PeerObjects
      BY ZenonT(40) DEF PeerObjects
    <2>2. peers' \in [Peers -> PeerObjects] /\ stalePeers' \in SUBSET Peers
      BY <1>8, <2>1, StatusUpdateType DEF syncPeerIdentity
    <2> QED
      BY <1>8, <2>2 DEF syncPeerIdentity
  <1>9. CASE orphansDone \/ passDone
    BY <1>9, EndPassType DEF orphansDone, passDone, PassTypeOK
  <1>10. CASE updateSecret
    <2>1. csecret[gw].key \in Nat
      BY DEF SecretObjects
    <2>2. desiredState(csecret[gw].key) \in SecretObjects
      BY <2>1, DesiredType
    <2>3. secret' \in [Gateways -> SecretObjects] /\ staleSecrets' \in SUBSET Gateways
      BY <1>10, <2>2 DEF updateSecret, SecretWrite
    <2>4. PassTypeOK' /\ queue' \in SUBSET Gateways
      BY <1>10, <2>1, EndPassType DEF updateSecret, PassTypeOK
    <2> QED
      BY <1>10, <2>3, <2>4 DEF updateSecret, PassTypeOK
  <1>11. CASE createSecret
    <2>1. desiredState(lastKey + 1) \in SecretObjects
      BY DesiredType
    <2>2. secret' \in [Gateways -> SecretObjects] /\ staleSecrets' \in SUBSET Gateways
      BY <1>11, <2>1 DEF createSecret, SecretWrite
    <2> QED
      BY <1>11, <2>2, EndPassType DEF createSecret, PassTypeOK
  <1> QED
    BY <1>1, <1>2, <1>3, <1>4, <1>5, <1>6, <1>7, <1>8, <1>9, <1>10, <1>11, Zenon DEF Pass

\* Every variable keeps the type its Go declaration gives it.
THEOREM TypeCorrect == Spec => []TypeOK
  <1>1. TypeOK /\ [Next]_vars => TypeOK'
    <2> SUFFICES ASSUME TypeOK, [Next]_vars PROVE TypeOK'
      OBVIOUS
    <2>1. CASE UNCHANGED vars
      BY <2>1 DEF vars, api, cache, pass, env, TypeOK
    <2> QED
      BY <2>1, UserType, FailureType, SyncType, PassType DEF Next
  <1> QED
    BY <1>1, InitType, PTL DEF Spec

--------------------------------------------------------------------------------
(* What the Secrets list. ServedDistinct and ServedUsable are not inductive: *)
(* a Secret is rendered from the pass's memory, so they need PassDistinct.    *)

ServedOK == ServedDistinct /\ ServedUsable

IInv == TypeOK /\ PassDistinct /\ ServedOK

LEMMA EndPassDistinct == EndPass => PassDistinct'
  BY DEF EndPass, PassDistinct

\* Peers that leave the list, or move from it to the admitted with their addresses, clash with nobody.
LEMMA FewerDistinct ==
    ASSUME PassDistinct, pc = "peers", UNCHANGED <<pc, pool, used, mem>>, keep' \subseteq keep,
           admitted' \subseteq keep \union admitted,
           \A p \in admitted' : p \in admitted \/ mem[p].address # NoAddress
    PROVE  PassDistinct'
  <1>1. keep' \union admitted' \subseteq keep \union admitted
    OBVIOUS
  <1>2. \A p \in admitted' : mem'[p].address # NoAddress
    BY DEF PassDistinct
  <1> QED
    BY <1>1, <1>2 DEF PassDistinct

LEMMA SameServed == ServedOK /\ UNCHANGED secret => ServedOK'
  BY DEF ServedOK, ServedDistinct, ServedUsable

LEMMA SamePass ==
    PassDistinct /\ UNCHANGED <<pc, pool, mem, keep, admitted, used>> => PassDistinct'
  BY DEF PassDistinct

\* A Secret without entries lists nobody twice.
LEMMA AbsentServes == \A p \in Peers : AbsentSecret.served[p] = NoEntry
  BY DEF AbsentSecret

\* Steps other than a pass's own.
LEMMA OtherSafe ==
    ASSUME IInv, User \/ Failure \/ SyncPeers \/ SyncWireguards \/ SyncSecrets
    PROVE  PassDistinct' /\ ServedOK'
  <1>1. CASE SyncPeers \/ SyncWireguards \/ SyncSecrets
    BY <1>1, SamePass, SameServed, Zenon DEF IInv, SyncPeers, SyncWireguards, SyncSecrets, api, pass
  <1>2. CASE Failure
    BY <1>2, SamePass, SameServed, EndPassDistinct, Zenon DEF IInv, Failure, PassFails, Restart, Resync, api, pass
  <1>3. CASE \E p \in Peers, g \in Gateways, k \in SpecKeys : CreatePeer(p, g, k) \/ EditPeer(p, g, k)
    BY <1>3, SamePass, SameServed DEF IInv, CreatePeer, EditPeer, SetPeer
  <1>4. CASE \E p \in Peers : DeletePeer(p)
    BY <1>4, SamePass, SameServed DEF IInv, DeletePeer, SetPeer
  <1>5. CASE \E g \in Gateways, obj \in [live: {TRUE}, pool: Pools, same: BOOLEAN] \union {AbsentWireguard} :
                EditWireguard(g, obj)
    BY <1>5, SamePass, SameServed DEF IInv, EditWireguard, pass
  <1>6. ASSUME NEW g \in Gateways, DeleteSecret(g) PROVE PassDistinct' /\ ServedOK'
    <2>1. PassDistinct'
      BY <1>6, SamePass DEF IInv, DeleteSecret, pass
    <2>2. \A h \in Gateways : secret'[h] = secret[h] \/ \A p \in Peers : secret'[h].served[p] = NoEntry
      BY <1>6, AbsentServes DEF IInv, TypeOK, DeleteSecret
    <2>3. ServedDistinct' /\ ServedUsable'
      <3>1. ASSUME NEW h \in Gateways, NEW p \in Peers, secret'[h].served[p] # NoEntry
            PROVE  secret'[h] = secret[h]
        BY <2>2, <3>1
      <3>2. ServedDistinct'
        BY <3>1 DEF IInv, ServedOK, ServedDistinct
      <3>3. ServedUsable'
        BY <3>1 DEF IInv, ServedOK, ServedUsable
      <3> QED
        BY <3>2, <3>3
    <2> QED
      BY <2>1, <2>3 DEF ServedOK
  <1> QED
    BY <1>1, <1>2, <1>3, <1>4, <1>5, <1>6, Zenon DEF User

\* A rendered Secret lists the admitted peers as PassDistinct describes them.
LEMMA RenderedSafe ==
    ASSUME IInv, pc = "peers", NEW key, SecretWrite(desiredState(key))
    PROVE  ServedOK'
  <1> DEFINE d == desiredState(key)
  <1>1. d.pool = pool
    BY DEF desiredState
  <1>2. \A p \in Peers : d.served[p] # NoEntry => p \in admitted /\ d.served[p].key = mem[p].key
                                                   /\ d.served[p].address = mem[p].address
    BY DEF desiredState
  <1>3. secret'[gw] = d /\ \A h \in Gateways : h # gw => secret'[h] = secret[h]
    BY DEF IInv, TypeOK, SecretWrite
  <1> HIDE DEF d
  <1>4. \A p, q \in Peers : p # q /\ d.served[p] # NoEntry /\ d.served[q] # NoEntry
            => d.served[p].key # d.served[q].key /\ d.served[p].address # d.served[q].address
    <2> SUFFICES ASSUME NEW p \in Peers, NEW q \in Peers, p # q,
                        d.served[p] # NoEntry, d.served[q] # NoEntry
                 PROVE  d.served[p].key # d.served[q].key /\ d.served[p].address # d.served[q].address
      OBVIOUS
    <2>1. /\ p \in admitted /\ d.served[p].key = mem[p].key /\ d.served[p].address = mem[p].address
          /\ q \in admitted /\ d.served[q].key = mem[q].key /\ d.served[q].address = mem[q].address
      BY <1>2
    <2>2. mem[p].key # mem[q].key /\ mem[p].address # mem[q].address
      BY <2>1 DEF IInv, PassDistinct
    <2> QED
      BY <2>1, <2>2
  <1>5. \A p \in Peers : d.served[p] # NoEntry
            => d.served[p].key \in PublicKeys /\ addressUsable(d.served[p].address, d.pool)
    BY <1>1, <1>2 DEF IInv, PassDistinct
  <1>6. ServedDistinct'
    <2> SUFFICES ASSUME NEW h \in Gateways, NEW p \in Peers, NEW q \in Peers, p # q,
                        secret'[h].served[p] # NoEntry, secret'[h].served[q] # NoEntry
                 PROVE  /\ secret'[h].served[p].key # secret'[h].served[q].key
                        /\ secret'[h].served[p].address # secret'[h].served[q].address
      BY DEF ServedDistinct
    <2>1. CASE h = gw
      BY <1>3, <1>4, <2>1
    <2>2. CASE h # gw
      BY <1>3, <2>2 DEF IInv, ServedOK, ServedDistinct
    <2> QED
      BY <2>1, <2>2
  <1>7. ServedUsable'
    <2> SUFFICES ASSUME NEW h \in Gateways, NEW p \in Peers, secret'[h].served[p] # NoEntry
                 PROVE  /\ secret'[h].served[p].key \in PublicKeys
                        /\ addressUsable(secret'[h].served[p].address, secret'[h].pool)
      BY DEF ServedUsable
    <2>1. CASE h = gw
      BY <1>3, <1>5, <2>1
    <2>2. CASE h # gw
      BY <1>3, <2>2 DEF IInv, ServedOK, ServedUsable
    <2> QED
      BY <2>1, <2>2
  <1> QED
    BY <1>6, <1>7 DEF ServedOK

\* Every step of a pass.
LEMMA PassSafe == ASSUME IInv, Pass PROVE PassDistinct' /\ ServedOK'
  <1>1. ASSUME NEW g \in Gateways, markPeersWireguardNotFound(g) \/ rejectSpec(g)
        PROVE  PassDistinct' /\ ServedOK'
    <2>1. CASE markPeersWireguardNotFound(g)
      BY <2>1, SameServed, Zenon DEF IInv, markPeersWireguardNotFound, api, PassDistinct
    <2>2. CASE rejectSpec(g)
      BY <2>2, SameServed, SamePass DEF IInv, rejectSpec, api, pass
    <2> QED
      BY <1>1, <2>1, <2>2
  <1>2. ASSUME NEW g \in Gateways, reconcilePeers(g) PROVE PassDistinct' /\ ServedOK'
    <2> DEFINE current == csecret[g].served
               listed == listedPeers(cpeers, current, cwg[g], g)
               kept == keptPeers(cpeers, current, cwg[g], g)
    <2>1. cwg[g] \in WireguardObjects /\ cpeers \in [Peers -> PeerObjects]
      BY DEF IInv, TypeOK
    <2>2. /\ \A p \in kept : listed[p].key \in PublicKeys
          /\ \A p \in kept : listed[p].address = NoAddress \/ addressUsable(listed[p].address, cwg[g].pool)
          /\ \A p, q \in kept : p # q =>
               /\ listed[p].key # listed[q].key
               /\ listed[p].address # NoAddress => listed[p].address # listed[q].address
      <3>1. listed = listedPeers(cpeers, current, cwg[g], g) /\ kept = keptPeers(cpeers, current, cwg[g], g)
        OBVIOUS
      <3> HIDE DEF current, listed, kept
      <3> QED
        BY <2>1, <3>1, KeptPeers
    <2> HIDE DEF current, listed, kept
    <2>3. /\ pc' = "peers" /\ pool' = cwg[g].pool /\ mem' = listed /\ keep' = kept /\ admitted' = {}
          /\ used' = GetUsedIPs(cwg[g].pool, listed, kept) /\ UNCHANGED secret
      BY <1>2, Zenon DEF IInv, PassDistinct, reconcilePeers, Dequeue, ListPeers, api, current, listed, kept
    <2>4. /\ deriveReservedIPs(pool') \subseteq used'
          /\ \A p \in kept : listed[p].address # NoAddress => listed[p].address \in used'
      BY <2>3 DEF GetUsedIPs
    <2>5. PassDistinct'
      BY <2>2, <2>3, <2>4 DEF PassDistinct
    <2> QED
      BY <2>3, <2>5, SameServed DEF IInv
  <1>3. ASSUME NEW p \in Peers, refusePeer(p) \/ exhaustPeer(p) \/ keepPeer(p) \/ syncPeerIdentity(p)
        PROVE  PassDistinct' /\ ServedOK'
    <2>1. CASE refusePeer(p)
      BY <2>1, SamePass, SameServed DEF IInv, refusePeer
    <2>2. CASE exhaustPeer(p)
      <3>1. /\ pc = "peers" /\ UNCHANGED <<secret, pc, pool, used, mem, admitted>> /\ keep' \subseteq keep
        BY <2>2 DEF exhaustPeer, Allocating
      <3> QED
        BY <3>1, FewerDistinct, SameServed DEF IInv
    <2>3. CASE keepPeer(p)
      <3>1. /\ pc = "peers" /\ UNCHANGED <<secret, pc, pool, used, mem>> /\ p \in keep /\ keep' \subseteq keep
            /\ admitted' = admitted \union {p} /\ mem[p].address # NoAddress
        BY <2>3 DEF keepPeer, Allocating, api
      <3> QED
        BY <3>1, FewerDistinct, SameServed DEF IInv
    <2>4. CASE syncPeerIdentity(p)
      BY <2>4, SameServed DEF IInv, syncPeerIdentity, PassDistinct
    <2> QED
      BY <1>3, <2>1, <2>2, <2>3, <2>4
  <1>4. ASSUME NEW p \in Peers, servePeer(p) PROVE PassDistinct' /\ ServedOK'
    <2> DEFINE isNew == mem[p].address = NoAddress
    <2>1. /\ pc = "peers" /\ pc' = "peers" /\ pool' = pool /\ p \in keep /\ keep' = keep \ {p}
          /\ admitted' \subseteq admitted \union {p} /\ UNCHANGED secret
      BY <1>4 DEF servePeer, Allocating
    <2>2. PICK ip \in IF isNew THEN AllocateIP(pool, used) ELSE {mem[p].address} :
            /\ used' = used \union {ip}
            /\ mem' = [mem EXCEPT ![p] = [mem[p] EXCEPT !.address = ip, !.status = ready, !.observed = TRUE]]
      BY <1>4, Zenon DEF servePeer
    <2>3. /\ \A q \in Peers : q # p => mem'[q] = mem[q]
          /\ mem'[p].key = mem[p].key /\ mem'[p].address = ip
      BY <2>2 DEF IInv, TypeOK, PeerObjects
    <2>4. ip # NoAddress /\ addressUsable(ip, pool)
      <3>1. CASE isNew
        <4>1. ip \in addresses(pool) /\ ip \notin used /\ ip # NoAddress
          BY <2>2, <3>1, AllocateFree DEF IInv, TypeOK
        <4> QED
          BY <4>1, <2>1 DEF IInv, PassDistinct, addressUsable
      <3>2. CASE ~isNew
        BY <2>1, <2>2, <3>2 DEF IInv, PassDistinct
      <3> QED
        BY <3>1, <3>2
    <2>5. \A q \in keep \union admitted : q # p => mem[q].address # ip
      <3>1. CASE isNew
        <4>1. ip \notin used /\ ip # NoAddress
          BY <2>2, <3>1, AllocateFree DEF IInv, TypeOK
        <4> QED
          BY <4>1, <2>1 DEF IInv, PassDistinct
      <3>2. CASE ~isNew
        BY <2>1, <2>2, <3>2 DEF IInv, PassDistinct
      <3> QED
        BY <3>1, <3>2
    <2>6. keep' \union admitted' \subseteq keep \union admitted
      BY <2>1
    <2>7. keep \union admitted \subseteq Peers
      BY DEF IInv, TypeOK
    <2> HIDE DEF isNew
    <2>8. \A q \in keep' \union admitted' :
            /\ mem'[q].key = mem[q].key
            /\ q # p => mem'[q].address = mem[q].address
      BY <2>3, <2>6, <2>7
    <2>9. PassDistinct'
      <3>1. deriveReservedIPs(pool') \subseteq used'
        BY <2>1, <2>2 DEF IInv, PassDistinct
      <3>2. \A q \in keep' \union admitted' :
              /\ mem'[q].key \in PublicKeys
              /\ mem'[q].address # NoAddress => mem'[q].address \in used' /\ addressUsable(mem'[q].address, pool')
        BY <2>1, <2>2, <2>3, <2>4, <2>6, <2>8 DEF IInv, PassDistinct
      <3>3. \A q \in admitted' : mem'[q].address # NoAddress
        BY <2>1, <2>3, <2>4, <2>8 DEF IInv, PassDistinct
      <3>4. \A q, r \in keep' \union admitted' : q # r =>
              /\ mem'[q].key # mem'[r].key
              /\ mem'[q].address # NoAddress => mem'[q].address # mem'[r].address
        <4> TAKE q, r \in keep' \union admitted'
        <4> HAVE q # r
        <4>1. q \in keep \union admitted /\ r \in keep \union admitted
          BY <2>6
        <4>2. mem[q].key # mem[r].key /\ (mem[q].address # NoAddress => mem[q].address # mem[r].address)
          BY <2>1, <4>1 DEF IInv, PassDistinct
        <4>3. mem'[q].key # mem'[r].key
          BY <2>8, <4>2
        <4>4. mem'[q].address # NoAddress => mem'[q].address # mem'[r].address
          <5>1. CASE q = p
            BY <2>3, <2>5, <2>8, <4>1, <5>1
          <5>2. CASE r = p
            BY <2>3, <2>5, <2>8, <4>1, <5>2
          <5>3. CASE q # p /\ r # p
            BY <2>8, <4>2, <5>3
          <5> QED
            BY <5>1, <5>2, <5>3
        <4> QED
          BY <4>3, <4>4
      <3> QED
        BY <2>1, <3>1, <3>2, <3>3, <3>4, Zenon DEF PassDistinct
    <2> QED
      BY <2>1, <2>9, SameServed DEF IInv
  <1>5. CASE orphansDone \/ passDone
    BY <1>5, EndPassDistinct, SameServed DEF IInv, orphansDone, passDone, api
  <1>6. CASE updateSecret
    <2>1. PassDistinct'
      BY <1>6, EndPassDistinct, Zenon DEF updateSecret, PassDistinct
    <2>2. CASE UNCHANGED secret
      BY <2>1, <2>2, SameServed DEF IInv
    <2>3. CASE SecretWrite(desiredState(csecret[gw].key))
      BY <1>6, <2>1, <2>3, RenderedSafe, Zenon DEF updateSecret, PeersDone
    <2> QED
      BY <1>6, <2>2, <2>3 DEF updateSecret
  <1>7. CASE createSecret
    <2>1. PassDistinct'
      BY <1>7, EndPassDistinct DEF createSecret
    <2>2. CASE UNCHANGED secret
      BY <2>1, <2>2, SameServed DEF IInv
    <2>3. CASE SecretWrite(desiredState(lastKey + 1))
      BY <1>7, <2>1, <2>3, RenderedSafe DEF createSecret, PeersDone
    <2> QED
      BY <1>7, <2>2, <2>3, Zenon DEF createSecret
  <1> QED
    BY <1>1, <1>2, <1>3, <1>4, <1>5, <1>6, <1>7 DEF Pass

\* The inductive invariant holds initially, when no Secret lists anyone and no pass runs.
LEMMA InitSafe == Init => IInv
  <1> SUFFICES ASSUME Init PROVE IInv
    OBVIOUS
  <1>1. \A g \in Gateways : \A p \in Peers : secret[g].served[p] = NoEntry
    BY AbsentServes DEF Init
  <1>2. ServedOK
    BY <1>1 DEF ServedOK, ServedDistinct, ServedUsable
  <1>3. PassDistinct
    BY DEF Init, NoPass, PassDistinct
  <1> QED
    BY <1>2, <1>3, InitType DEF IInv

LEMMA StepSafe == IInv /\ [Next]_vars => IInv'
  <1> SUFFICES ASSUME IInv, [Next]_vars PROVE IInv'
    OBVIOUS
  <1>1. TypeOK'
    BY UserType, FailureType, SyncType, PassType, Zenon DEF IInv, Next, vars, api, cache, pass, env, TypeOK
  <1>2. CASE UNCHANGED vars
    BY <1>1, <1>2, SamePass, SameServed DEF IInv, vars, api, pass
  <1> QED
    BY <1>1, <1>2, OtherSafe, PassSafe DEF IInv, Next

\* Whatever users, failures and restarts do meanwhile, no state.json the operator writes gives
\* one key or one address to two peers (dedupePublicKeys, dedupeAddresses, allocatePeers).
THEOREM SecretsDistinct == Spec => []ServedDistinct
  <1>1. IInv => ServedDistinct
    BY DEF IInv, ServedOK
  <1> QED
    BY <1>1, InitSafe, StepSafe, PTL DEF Spec

\* Every peer a state.json lists has a canonical key and an address of the pool written beside
\* it, never the network's or the gateway's own (addressUsable, AllocateIP).
THEOREM SecretsUsable == Spec => []ServedUsable
  <1>1. IInv => ServedUsable
    BY DEF IInv, ServedOK
  <1> QED
    BY <1>1, InitSafe, StepSafe, PTL DEF Spec

\* At every point of a pass the peers it keeps or has admitted have keys and addresses of their
\* own that the allocator will not hand out again (allocatePeers).
THEOREM PassesDistinct == Spec => []PassDistinct
  <1>1. IInv => PassDistinct
    BY DEF IInv
  <1> QED
    BY <1>1, InitSafe, StepSafe, PTL DEF Spec

--------------------------------------------------------------------------------
(* The server's key. A Secret is created only when the cache has none, so a  *)
(* cached Secret and the current one, while both exist, have one key.         *)

KeyInv == TypeOK /\ \A g \in Gateways : csecret[g].live /\ secret[g].live => csecret[g].key = secret[g].key

LEMMA KeyStep ==
    ASSUME KeyInv, Next
    PROVE  \A g \in Gateways :
             /\ secret[g].live /\ secret'[g].live => secret'[g].key = secret[g].key
             /\ csecret'[g].live /\ secret'[g].live => csecret'[g].key = secret'[g].key
  <1> USE DEF KeyInv, TypeOK, SecretObjects
  <1>1. CASE UNCHANGED <<secret, csecret>>
    BY <1>1
  <1>2. CASE SyncSecrets
    BY <1>2 DEF SyncSecrets, api
  <1>3. CASE Restart
    BY <1>3, Zenon DEF Restart, api
  <1>4. ASSUME NEW g \in Gateways, DeleteSecret(g)
        PROVE  UNCHANGED csecret /\ \A h \in Gateways : ~secret'[h].live \/ secret'[h] = secret[h]
    BY <1>4, Zenon DEF DeleteSecret, AbsentSecret
  <1>5. CASE updateSecret
    <2>1. UNCHANGED csecret /\ \A h \in Gateways : h # gw => secret'[h] = secret[h]
      BY <1>5 DEF updateSecret, SecretWrite
    <2>2. secret'[gw] = secret[gw] \/ (csecret[gw].live /\ secret[gw].live /\ secret'[gw].key = csecret[gw].key)
      <3> DEFINE desired == desiredState(csecret[gw].key)
      <3>1. desired.key = csecret[gw].key
        BY DEF desiredState
      <3> HIDE DEF desired
      <3>2. /\ csecret[gw].live
            /\ UNCHANGED secret \/ (secret[gw].live /\ secret' = [secret EXCEPT ![gw] = desired])
        BY <1>5 DEF updateSecret, SecretWrite, desired
      <3>3. gw \in Gateways /\ secret \in [Gateways -> SecretObjects]
        OBVIOUS
      <3> QED
        BY <3>1, <3>2, <3>3
    <2> QED
      BY <2>1, <2>2, Zenon
  <1>6. CASE createSecret
    <2>1. UNCHANGED csecret /\ ~csecret[gw].live /\ \A h \in Gateways : h # gw => secret'[h] = secret[h]
      BY <1>6 DEF createSecret, SecretWrite
    <2>2. secret'[gw] = secret[gw] \/ ~secret[gw].live
      BY <1>6 DEF createSecret
    <2> QED
      BY <2>1, <2>2, Zenon
  <1>7. \/ UNCHANGED <<secret, csecret>> \/ SyncSecrets \/ Restart \/ updateSecret \/ createSecret
        \/ \E g \in Gateways : DeleteSecret(g)
    <2>1. CASE User
      BY <2>1, ZenonT(60) DEF User, CreatePeer, EditPeer, DeletePeer, SetPeer, EditWireguard
    <2>2. CASE Failure
      BY <2>2 DEF Failure, PassFails, Resync, api, cache
    <2>3. CASE SyncPeers \/ SyncWireguards
      BY <2>3, Zenon DEF SyncPeers, SyncWireguards, api
    <2>4. CASE Pass
      BY <2>4, Zenon DEF Pass, markPeersWireguardNotFound, rejectSpec, reconcilePeers, refusePeer, keepPeer,
           servePeer, exhaustPeer, syncPeerIdentity, orphansDone, passDone, api, cache
    <2> QED
      BY <2>1, <2>2, <2>3, <2>4 DEF Next
  <1> QED
    BY <1>1, <1>2, <1>3, <1>4, <1>5, <1>6, <1>7, Zenon

LEMMA KeyInit == Init => KeyInv
  <1>1. Init => csecret = secret
    BY DEF Init
  <1> QED
    BY <1>1, InitType DEF KeyInv

LEMMA KeyInductive == KeyInv /\ [Next]_vars => KeyInv'
  <1> SUFFICES ASSUME KeyInv, [Next]_vars PROVE KeyInv'
    OBVIOUS
  <1>1. TypeOK'
    BY UserType, FailureType, SyncType, PassType, Zenon DEF KeyInv, Next, vars, api, cache, pass, env, TypeOK
  <1>2. CASE UNCHANGED vars
    BY <1>1, <1>2, Zenon DEF KeyInv, vars, api, cache
  <1> QED
    BY <1>1, <1>2, KeyStep, Zenon DEF KeyInv

\* The key of a Secret lives as long as the Secret, although every update of it is made from a
\* cached copy and without a resourceVersion (Reconcile).
THEOREM KeysStable == Spec => ServerKeyStable
  <1>1. KeyInv /\ [Next]_vars
          => [\A g \in Gateways : secret[g].live /\ secret'[g].live => secret'[g].key = secret[g].key]_secret
    BY KeyStep, Zenon DEF vars, api
  <1> QED
    BY <1>1, KeyInit, KeyInductive, PTL DEF Spec, ServerKeyStable

--------------------------------------------------------------------------------
(* Addresses. A copy the pass may still write is the object itself, but for  *)
(* an address the gateway cannot use.                                         *)

CopyOK(p) ==
    \/ mem[p].address = peers[p].address
    \/ mem[p].address = NoAddress /\ ~addressUsable(peers[p].address, pool)

AddressInv ==
    /\ \A p \in Peers \ stalePeers : cpeers[p] = peers[p]
    /\ pc \in {"peers", "identity"} => \A p \in (keep \union admitted) \ outdated : CopyOK(p)
    /\ pc \in {"peers", "identity"} => \A p \in admitted : mem[p].address # NoAddress
    /\ pc \in {"peers", "identity"} => refuse \intersect (keep \union admitted) = {}
    /\ pc = "idle" => admitted = {}

AInv == TypeOK /\ AddressInv

NoSwap ==
    \A p \in Peers :
        LET old == peers[p].address
            new == peers'[p].address
        IN  NoAddress \notin {old, new} /\ old # new => ~addressUsable(old, pool)

\* Steps that write no peer.
LEMMA NoSwapUnchanged == UNCHANGED peers => NoSwap
  BY DEF NoSwap

LEMMA NoSwapOne ==
    ASSUME TypeOK, NEW p \in Peers, NEW obj, peers' = [peers EXCEPT ![p] = obj],
           NoAddress \in {peers[p].address, obj.address} \/ obj.address = peers[p].address
              \/ ~addressUsable(peers[p].address, pool)
    PROVE  NoSwap
  BY DEF TypeOK, NoSwap

\* A user's write outdates the copies and never gives a peer another address.
LEMMA SetPeerAddress ==
    ASSUME AInv, NEW p \in Peers, NEW obj, SetPeer(p, obj),
           NoAddress \in {peers[p].address, obj.address} \/ obj.address = peers[p].address
    PROVE  NoSwap /\ AddressInv'
  <1>1. NoSwap
    BY NoSwapOne, Zenon DEF AInv, SetPeer
  <1>2. \A q \in Peers : q # p => peers'[q] = peers[q]
    BY DEF AInv, TypeOK, SetPeer
  <1>3. stalePeers' = stalePeers \union {p} /\ (pc # "idle" => p \in outdated' /\ outdated \subseteq outdated')
        /\ UNCHANGED <<cpeers, pc, pool, mem, refuse, keep, admitted>>
    BY DEF SetPeer
  <1>4. keep \union admitted \subseteq Peers
    BY Zenon DEF AInv, TypeOK
  <1>5. AddressInv'
    BY <1>2, <1>3, <1>4, Zenon DEF AInv, AddressInv, CopyOK
  <1> QED
    BY <1>1, <1>5

LEMMA EndPassAddress == AddressInv /\ EndPass /\ UNCHANGED <<peers, cpeers, stalePeers>> => AddressInv'
  BY Zenon DEF EndPass, AddressInv

LEMMA SamePassAddress ==
    AddressInv /\ UNCHANGED <<peers, cpeers, stalePeers, pc, pool, mem, outdated, refuse, keep, admitted>>
        => AddressInv'
  BY DEF AddressInv, CopyOK

LEMMA OtherAddress ==
    ASSUME AInv, User \/ Failure \/ SyncPeers \/ SyncWireguards \/ SyncSecrets
    PROVE  NoSwap /\ AddressInv'
  <1>1. ASSUME NEW p \in Peers, NEW g \in Gateways, NEW k \in SpecKeys, CreatePeer(p, g, k)
        PROVE  NoSwap /\ AddressInv'
    <2>1. \A now : NewPeer(now, g, k).address = NoAddress
      BY DEF NewPeer, AbsentPeer
    <2> QED
      BY <1>1, <2>1, SetPeerAddress, Zenon DEF CreatePeer
  <1>2. ASSUME NEW p \in Peers, NEW g \in Gateways, NEW k \in SpecKeys, EditPeer(p, g, k)
        PROVE  NoSwap /\ AddressInv'
    <2>1. \A b : [peers[p] EXCEPT !.gateway = g, !.key = k, !.observed = b].address = peers[p].address
      BY DEF AInv, TypeOK, PeerObjects
    <2> QED
      BY <1>2, <2>1, SetPeerAddress, Zenon DEF EditPeer
  <1>3. ASSUME NEW p \in Peers, DeletePeer(p) PROVE NoSwap /\ AddressInv'
    <2>1. AbsentPeer.address = NoAddress
      BY DEF AbsentPeer
    <2> QED
      BY <1>3, <2>1, SetPeerAddress DEF DeletePeer
  <1>4. CASE \/ \E g \in Gateways, obj \in [live: {TRUE}, pool: Pools, same: BOOLEAN] \union {AbsentWireguard} :
                    EditWireguard(g, obj)
             \/ \E g \in Gateways : DeleteSecret(g)
    BY <1>4, NoSwapUnchanged, SamePassAddress, Zenon DEF AInv, EditWireguard, DeleteSecret, pass
  <1>5. CASE Failure
    <2>1. CASE PassFails
      BY <2>1, NoSwapUnchanged, EndPassAddress DEF AInv, PassFails, api, cache
    <2>2. CASE Restart
      BY <2>2, NoSwapUnchanged, Zenon DEF Restart, EndPass, api, AddressInv
    <2>3. CASE \E g \in Gateways : Resync(g)
      BY <2>3, NoSwapUnchanged, SamePassAddress DEF AInv, Resync, api, cache, pass
    <2> QED
      BY <1>5, <2>1, <2>2, <2>3 DEF Failure
  <1>6. CASE SyncPeers
    BY <1>6, NoSwapUnchanged, Zenon DEF AInv, SyncPeers, api, pass, AddressInv, CopyOK
  <1>7. CASE SyncWireguards \/ SyncSecrets
    BY <1>7, NoSwapUnchanged, SamePassAddress DEF AInv, SyncWireguards, SyncSecrets, api, pass
  <1> QED
    BY <1>1, <1>2, <1>3, <1>4, <1>5, <1>6, <1>7, Zenon DEF User

\* A status write through a current copy, of a peer that the pass will not write again or whose
\* copy it updates, keeps the other copies.
LEMMA StatusUpdateAddress ==
    ASSUME AInv, NEW p \in Peers, NEW obj, StatusUpdate(p, obj) \/ UNCHANGED <<peers, stalePeers>>,
           UNCHANGED cpeers,
           p \notin outdated => NoAddress \in {peers[p].address, obj.address}
              \/ obj.address = peers[p].address \/ ~addressUsable(peers[p].address, pool)
    PROVE  /\ NoSwap
           /\ \A q \in Peers \ stalePeers' : cpeers'[q] = peers'[q]
           /\ \A q \in Peers : q # p => peers'[q] = peers[q]
           /\ p \in outdated => peers'[p] = peers[p]
           /\ peers'[p] = peers[p] \/ peers'[p] = obj
  BY NoSwapUnchanged, NoSwapOne, Zenon DEF AInv, TypeOK, AddressInv, StatusUpdate

LEMMA MarkAddress ==
    ASSUME AInv, NEW p \in Peers, NEW status, markPeerNotReady(p, status), UNCHANGED cpeers
    PROVE  /\ NoSwap
           /\ \A q \in Peers \ stalePeers' : cpeers'[q] = peers'[q]
           /\ \A q \in Peers : q # p => peers'[q] = peers[q]
  <1> DEFINE obj == [mem[p] EXCEPT !.status = status, !.address = NoAddress,
                                   !.identity = NoServer, !.observed = TRUE]
  <1>1. obj.address = NoAddress
    BY DEF AInv, TypeOK, PeerObjects
  <1>2. StatusUpdate(p, obj) \/ UNCHANGED <<peers, stalePeers>>
    BY DEF markPeerNotReady
  <1> HIDE DEF obj
  <1> QED
    BY <1>1, <1>2, StatusUpdateAddress, Zenon

LEMMA PassAddress == ASSUME AInv, Pass PROVE NoSwap /\ AddressInv'
  <1>0. keep \union admitted \subseteq Peers /\ mem \in [Peers -> PeerObjects]
    BY DEF AInv, TypeOK
  <1>1. ASSUME NEW g \in Gateways, markPeersWireguardNotFound(g) \/ rejectSpec(g)
        PROVE  NoSwap /\ AddressInv'
    <2>1. CASE markPeersWireguardNotFound(g)
      BY <2>1, NoSwapUnchanged, Zenon DEF AInv, markPeersWireguardNotFound, Dequeue, api, cache, AddressInv
    <2>2. CASE rejectSpec(g)
      BY <2>2, NoSwapUnchanged, SamePassAddress DEF AInv, rejectSpec, api, cache, pass
    <2> QED
      BY <1>1, <2>1, <2>2
  <1>2. ASSUME NEW g \in Gateways, reconcilePeers(g) PROVE NoSwap /\ AddressInv'
    <2> DEFINE kept == keptPeers(cpeers, csecret[g].served, cwg[g], g)
               listed == listedPeers(cpeers, csecret[g].served, cwg[g], g)
    <2>1. /\ pc' = "peers" /\ pool' = cwg[g].pool /\ mem' = listed /\ outdated' = stalePeers
          /\ keep' = kept /\ admitted' = {} /\ refuse' \intersect kept = {}
          /\ UNCHANGED <<peers, cpeers, stalePeers>>
      BY <1>2, Zenon DEF AInv, AddressInv, reconcilePeers, Dequeue, ListPeers, api, cache
    <2>2. \A p \in Peers : \/ listed[p].address = cpeers[p].address
                           \/ listed[p].address = NoAddress /\ ~addressUsable(cpeers[p].address, cwg[g].pool)
      BY DEF AInv, TypeOK, PeerObjects, listedPeers, clearUnusable
    <2>3. kept \subseteq Peers
      BY Zenon DEF keptPeers, dedupeAddresses, keyHolders, dedupePublicKeys, admitPeers, getWireguardPeers
    <2> HIDE DEF kept, listed
    <2> QED
      BY <2>1, <2>2, <2>3, NoSwapUnchanged, Zenon DEF AInv, AddressInv, CopyOK
  <1>3. ASSUME NEW p \in Peers, refusePeer(p) PROVE NoSwap /\ AddressInv'
    <2>1. /\ UNCHANGED <<pc, pool, mem, keep, admitted, outdated, cpeers>>
          /\ markPeerNotReady(p, verdict[p]) /\ refuse' = refuse \ {p}
      BY <1>3 DEF refusePeer
    <2>2. /\ NoSwap
          /\ \A q \in Peers \ stalePeers' : cpeers'[q] = peers'[q]
          /\ \A q \in Peers : q # p => peers'[q] = peers[q]
      BY <2>1, MarkAddress, Zenon
    <2>3. pc # "orphans" => pc = "peers" /\ p \notin keep \union admitted
      BY <1>3, Zenon DEF AInv, AddressInv, refusePeer
    <2>4. pc \notin {"idle", "identity"}
      BY <1>3 DEF refusePeer
    <2> QED
      BY <1>0, <2>1, <2>2, <2>3, <2>4, Zenon DEF AInv, AddressInv, CopyOK
  <1>4. ASSUME NEW p \in Peers, keepPeer(p) PROVE NoSwap /\ AddressInv'
    BY <1>0, <1>4, NoSwapUnchanged, Zenon DEF AInv, keepPeer, Allocating, api, cache, AddressInv, CopyOK
  <1>5. ASSUME NEW p \in Peers, exhaustPeer(p) PROVE NoSwap /\ AddressInv'
    <2>1. /\ pc = "peers" /\ keep' = keep \ {p}
          /\ UNCHANGED <<pc, pool, mem, refuse, admitted, outdated, cpeers>>
          /\ markPeerNotReady(p, addressPoolExhausted) /\ mem[p].address = NoAddress
      BY <1>5 DEF exhaustPeer, Allocating
    <2>2. /\ NoSwap
          /\ \A q \in Peers \ stalePeers' : cpeers'[q] = peers'[q]
          /\ \A q \in Peers : q # p => peers'[q] = peers[q]
      BY <2>1, MarkAddress, Zenon
    <2> QED
      BY <1>0, <2>1, <2>2, Zenon DEF AInv, AddressInv, CopyOK
  <1>6. ASSUME NEW p \in Peers, servePeer(p) PROVE NoSwap /\ AddressInv'
    <2> DEFINE isNew == mem[p].address = NoAddress
               obj(ip) == [mem[p] EXCEPT !.address = ip, !.status = ready, !.observed = TRUE]
    <2>1. /\ pc = "peers" /\ refuse = {} /\ p \in keep /\ keep' = keep \ {p}
          /\ UNCHANGED <<pc, pool, refuse, outdated, cpeers>>
          /\ admitted' \subseteq admitted \union {p}
      BY <1>6 DEF servePeer, Allocating
    <2>2. PICK ip \in IF isNew THEN AllocateIP(pool, used) ELSE {mem[p].address} :
            StatusUpdate(p, obj(ip)) /\ mem' = [mem EXCEPT ![p] = obj(ip)]
      BY <1>6, Zenon DEF servePeer
    <2>3. obj(ip).address = ip /\ mem'[p] = obj(ip) /\ \A q \in Peers : q # p => mem'[q] = mem[q]
      BY <1>0, <2>2 DEF PeerObjects
    <2>4. ip # NoAddress
      BY <2>2, AllocateFree DEF AInv, TypeOK
    <2>5. p \notin outdated => NoAddress \in {peers[p].address, ip}
              \/ ip = peers[p].address \/ ~addressUsable(peers[p].address, pool)
      BY <2>1, <2>2 DEF AInv, AddressInv, CopyOK
    <2>6. p \notin outdated => peers' = [peers EXCEPT ![p] = obj(ip)]
      BY <2>2 DEF StatusUpdate
    <2>7. StatusUpdate(p, obj(ip))
      BY <2>2
    <2> HIDE DEF obj, isNew
    <2>8. /\ NoSwap
          /\ \A q \in Peers \ stalePeers' : cpeers'[q] = peers'[q]
          /\ \A q \in Peers : q # p => peers'[q] = peers[q]
      BY <2>1, <2>3, <2>5, <2>7, StatusUpdateAddress, Zenon
    <2>9. p \notin outdated => peers'[p] = obj(ip)
      BY <2>6 DEF AInv, TypeOK
    <2> QED
      BY <1>0, <2>1, <2>3, <2>4, <2>8, <2>9, ZenonT(60) DEF AInv, AddressInv, CopyOK
  <1>7. ASSUME NEW p \in Peers, syncPeerIdentity(p) PROVE NoSwap /\ AddressInv'
    <2> DEFINE obj == [mem[p] EXCEPT !.identity = serverKey]
    <2>1. /\ pc = "identity" /\ p \in admitted /\ admitted' = admitted \ {p}
          /\ UNCHANGED <<pc, pool, mem, refuse, keep, outdated, cpeers>>
          /\ StatusUpdate(p, obj) \/ UNCHANGED <<peers, stalePeers>>
      BY <1>7 DEF syncPeerIdentity
    <2>2. obj.address = mem[p].address
      BY <1>0 DEF PeerObjects
    <2> HIDE DEF obj
    <2>3. p \notin outdated => obj.address = peers[p].address
      BY <2>1, <2>2, Zenon DEF AInv, AddressInv, CopyOK
    <2>4. /\ NoSwap
          /\ \A q \in Peers \ stalePeers' : cpeers'[q] = peers'[q]
          /\ \A q \in Peers : q # p => peers'[q] = peers[q]
          /\ p \in outdated => peers'[p] = peers[p]
          /\ peers'[p] = peers[p] \/ peers'[p] = obj
      BY <2>1, <2>3, StatusUpdateAddress, Zenon
    <2>5. p \notin outdated => peers'[p].address = peers[p].address
      BY <2>3, <2>4
    <2> QED
      BY <1>0, <2>1, <2>4, <2>5, ZenonT(60) DEF AInv, AddressInv, CopyOK
  <1>8. CASE orphansDone \/ passDone
    BY <1>8, NoSwapUnchanged, EndPassAddress DEF AInv, orphansDone, passDone, api, cache
  <1>9. CASE updateSecret
    <2>1. CASE EndPass
      BY <1>9, <2>1, NoSwapUnchanged, EndPassAddress, Zenon DEF AInv, updateSecret
    <2>2. CASE pc' = "identity" /\ UNCHANGED <<gw, pool, mem, outdated, verdict, refuse, keep, admitted, used>>
      BY <1>9, <2>2, NoSwapUnchanged, Zenon DEF AInv, updateSecret, PeersDone, AddressInv, CopyOK
    <2> QED
      BY <1>9, <2>1, <2>2 DEF updateSecret
  <1>10. CASE createSecret
    BY <1>10, NoSwapUnchanged, EndPassAddress, Zenon DEF AInv, createSecret
  <1> QED
    BY <1>1, <1>2, <1>3, <1>4, <1>5, <1>6, <1>7, <1>8, <1>9, <1>10 DEF Pass

LEMMA AddressInit == Init => AInv
  <1> SUFFICES ASSUME Init PROVE AddressInv
    BY InitType DEF AInv
  <1> QED
    BY DEF Init, NoPass, AddressInv

LEMMA AddressInductive == AInv /\ [Next]_vars => AInv' /\ [NoSwap]_peers
  <1> SUFFICES ASSUME AInv, [Next]_vars PROVE AInv' /\ [NoSwap]_peers
    OBVIOUS
  <1>1. TypeOK'
    BY UserType, FailureType, SyncType, PassType, Zenon DEF AInv, Next, vars, api, cache, pass, env, TypeOK
  <1>2. CASE UNCHANGED vars
    BY <1>1, <1>2, SamePassAddress DEF AInv, vars, api, cache, pass
  <1>3. CASE Next
    BY <1>1, <1>3, OtherAddress, PassAddress DEF AInv, Next
  <1> QED
    BY <1>2, <1>3

\* A usable address of a peer is released before the peer gets another: a pass that read an old
\* copy of a peer cannot move it to a new address (allocatePeers, the status write's
\* resourceVersion).
THEOREM AddressesKept == Spec => AddressNeverSwapped
  <1>1. [NoSwap]_peers => [\A p \in Peers :
            LET old == peers[p].address
                new == peers'[p].address
            IN  NoAddress \notin {old, new} /\ old # new => ~addressUsable(old, pool)]_peers
    BY DEF NoSwap
  <1> QED
    BY <1>1, AddressInit, AddressInductive, PTL DEF Spec, AddressNeverSwapped

--------------------------------------------------------------------------------
(* Served keys *)

\* A key that a contender is listed under is held by one that is listed under it (beats).
LEMMA ListedHolder ==
    ASSUME NEW objs \in [Peers -> PeerObjects], NEW current, NEW S \in SUBSET Peers,
           NEW p \in S, current[p].key = objs[p].key,
           NEW q \in dedupePublicKeys(objs, current, S), q # p, objs[q].key = objs[p].key
    PROVE  current[q].key = objs[q].key
  BY DEF dedupePublicKeys, beats

\* What the documentation says of a served key holds of every pass that begins with the current
\* Secret of its gateway in the cache: an edit to the key of a served peer displaces nobody
\* (admittedKeys, dedupePublicKeys).
THEOREM FreshServedKeyKept == Spec => [][csecret[gw'] = secret[gw'] => KeepsServedKey]_vars
  <1>1. TypeOK /\ [Next]_vars => [csecret[gw'] = secret[gw'] => KeepsServedKey]_vars
    <2> SUFFICES ASSUME TypeOK, Next, csecret[gw'] = secret[gw'], NEW p \in Peers,
                        pc = "idle", pc' = "peers", verdict'[p].reason = "PublicKeyConflict",
                        secret[gw'].served[p].key = mem'[p].key, NEW q \in verdict'[p].holder
                 PROVE  secret[gw'].served[q].key = mem'[q].key
      BY Zenon DEF KeepsServedKey
    <2>1. PICK g \in Gateways : reconcilePeers(g)
      <3>1. ~User
        BY ZenonT(30) DEF User, CreatePeer, EditPeer, DeletePeer, SetPeer, EditWireguard, DeleteSecret, pass
      <3>2. ~Failure
        BY Zenon DEF Failure, PassFails, Restart, Resync, EndPass, pass
      <3>3. ~SyncPeers /\ ~SyncWireguards /\ ~SyncSecrets
        BY Zenon DEF SyncPeers, SyncWireguards, SyncSecrets, pass
      <3>4. \A h \in Gateways : ~markPeersWireguardNotFound(h) /\ ~rejectSpec(h)
        BY Zenon DEF markPeersWireguardNotFound, rejectSpec, pass
      <3>5. \A r \in Peers : ~refusePeer(r) /\ ~keepPeer(r) /\ ~servePeer(r) /\ ~exhaustPeer(r) /\ ~syncPeerIdentity(r)
        BY DEF refusePeer, keepPeer, servePeer, exhaustPeer, Allocating, syncPeerIdentity
      <3>6. ~orphansDone /\ ~updateSecret /\ ~createSecret /\ ~passDone
        BY Zenon DEF orphansDone, updateSecret, createSecret, passDone, EndPass
      <3> QED
        BY <3>1, <3>2, <3>3, <3>4, <3>5, <3>6, Zenon DEF Next, Pass
    <2> DEFINE current == csecret[g].served
               adm == admitPeers(cpeers, cwg[g], g)
               keyed == keyHolders(cpeers, current, cwg[g], g)
    <2>2. /\ gw' = g /\ secret[g] = csecret[g] /\ mem' = listedPeers(cpeers, current, cwg[g], g)
          /\ verdict' = refusals(cpeers, current, cwg[g], g)
      BY <2>1, Zenon DEF reconcilePeers, ListPeers
    <2>3. adm \in SUBSET Peers /\ keyed = dedupePublicKeys(cpeers, current, adm) /\ keyed \subseteq adm
      BY Zenon DEF keyHolders, dedupePublicKeys, admitPeers, getWireguardPeers
    <2>4. \A r \in Peers : mem'[r].key = cpeers[r].key
      BY <2>2 DEF TypeOK, listedPeers, clearUnusable, PeerObjects
    <2>5. p \in adm \ keyed /\ verdict'[p].holder = {r \in keyed : cpeers[r].key = cpeers[p].key}
      <3>1. \A H : addressConflict(H).reason # "PublicKeyConflict" /\ publicKeyConflict(H).holder = H
        BY Zenon DEF addressConflict, publicKeyConflict
      <3>2. ready.reason # "PublicKeyConflict" /\ admissionProblem(cpeers, cwg[g], g, p).reason # "PublicKeyConflict"
        BY DEF admissionProblem, ready, notReady
      <3> QED
        BY <2>2, <3>1, <3>2 DEF refusals
    <2>6. cpeers \in [Peers -> PeerObjects]
      BY Zenon DEF TypeOK
    <2>7. current[p].key = cpeers[p].key
      BY <2>2, <2>4, Zenon
    <2> HIDE DEF current, adm, keyed
    <2>8. q \in keyed /\ cpeers[q].key = cpeers[p].key /\ q # p
      BY <2>5, Zenon
    <2>9. current[q].key = cpeers[q].key
      <3>1. q \in dedupePublicKeys(cpeers, current, adm) /\ p \in adm /\ adm \in SUBSET Peers
        BY <2>3, <2>5, <2>8, Zenon
      <3> QED
        BY <2>6, <2>7, <2>8, <3>1, ListedHolder, Zenon
    <2> QED
      BY <2>2, <2>3, <2>4, <2>8, <2>9, Zenon DEF current
  <1> QED
    BY <1>1, TypeCorrect, PTL DEF Spec
================================================================================
