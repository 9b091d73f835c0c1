-------------------------- MODULE PeerPromises_proofs --------------------------
(***************************************************************************)
(* What PeerReconciler promises, proved for any number of peers, gateways, *)
(* keys, pools and interferences: that it implements Roster, that every    *)
(* file it writes is one that the agent's own proofs assume, and what is   *)
(* true of the Secrets and the peers once the operator has nothing left to *)
(* do.                                                                     *)
(***************************************************************************)
EXTENDS PeerReconciler_proofs

--------------------------------------------------------------------------------
(* The Roster. One step, one object. *)

\* At most one gateway's Secret changes, into one that exists or from one that did.
OneFile ==
    \E g \in Gateways :
        /\ \A h \in Gateways \ {g} : secret'[h] = secret[h]
        /\ secret'[g].live \/ secret[g].live

OnePeer == \E p \in Peers : \A q \in Peers \ {p} : peers'[q] = peers[q]

LEMMA UserOne ==
    ASSUME TypeOK, User
    PROVE  UNCHANGED <<peers, secret>> \/ (UNCHANGED secret /\ OnePeer) \/ (UNCHANGED peers /\ OneFile)
  <1>1. ASSUME NEW p \in Peers, NEW obj, SetPeer(p, obj) PROVE UNCHANGED secret /\ OnePeer
    BY <1>1 DEF TypeOK, SetPeer, OnePeer
  <1>2. ASSUME NEW g \in Gateways, DeleteSecret(g) PROVE UNCHANGED peers /\ OneFile
    BY <1>2 DEF TypeOK, DeleteSecret, OneFile
  <1>3. ASSUME NEW g \in Gateways, NEW obj, EditWireguard(g, obj) PROVE UNCHANGED <<peers, secret>>
    BY <1>3 DEF EditWireguard
  <1> QED
    BY <1>1, <1>2, <1>3, Zenon DEF User, CreatePeer, EditPeer, DeletePeer

LEMMA StatusUpdateOne ==
    ASSUME TypeOK, NEW p \in Peers, NEW obj, StatusUpdate(p, obj) PROVE OnePeer
  BY DEF TypeOK, StatusUpdate, OnePeer

LEMMA MarkOne ==
    ASSUME TypeOK, NEW p \in Peers, NEW status, markPeerNotReady(p, status) PROVE OnePeer
  BY StatusUpdateOne DEF markPeerNotReady, OnePeer

LEMMA SecretWriteOne ==
    ASSUME TypeOK, NEW key, SecretWrite(desiredState(key)) PROVE OneFile
  <1>1. desiredState(key).live
    BY DEF desiredState
  <1> DEFINE d == desiredState(key)
  <1> HIDE DEF d
  <1>2. d.live /\ secret' = [secret EXCEPT ![gw] = d]
    BY <1>1 DEF SecretWrite, d
  <1> QED
    BY <1>2 DEF TypeOK, OneFile

LEMMA PassOne ==
    ASSUME TypeOK, Pass
    PROVE  UNCHANGED <<peers, secret>> \/ (UNCHANGED secret /\ OnePeer) \/ (UNCHANGED peers /\ OneFile)
  <1>1. ASSUME NEW g \in Gateways, markPeersWireguardNotFound(g) \/ rejectSpec(g) \/ reconcilePeers(g)
        PROVE  UNCHANGED <<peers, secret>>
    BY <1>1 DEF markPeersWireguardNotFound, rejectSpec, reconcilePeers, api
  <1>2. ASSUME NEW p \in Peers, refusePeer(p) \/ exhaustPeer(p) PROVE UNCHANGED secret /\ OnePeer
    BY <1>2, MarkOne DEF refusePeer, exhaustPeer
  <1>3. ASSUME NEW p \in Peers, keepPeer(p) PROVE UNCHANGED <<peers, secret>>
    BY <1>3 DEF keepPeer, api
  <1>4. ASSUME NEW p \in Peers, servePeer(p) PROVE UNCHANGED secret /\ OnePeer
    BY <1>4, StatusUpdateOne DEF servePeer
  <1>5. ASSUME NEW p \in Peers, syncPeerIdentity(p) PROVE UNCHANGED secret /\ OnePeer
    BY <1>5, StatusUpdateOne DEF syncPeerIdentity, OnePeer
  <1>6. CASE orphansDone \/ passDone
    BY <1>6 DEF orphansDone, passDone, api
  <1>7. CASE updateSecret
    BY <1>7, SecretWriteOne DEF updateSecret
  <1>8. CASE createSecret
    BY <1>8, SecretWriteOne DEF createSecret
  <1> QED
    BY <1>1, <1>2, <1>3, <1>4, <1>5, <1>6, <1>7, <1>8 DEF Pass

\* A step writes nothing, one peer, or one Secret.
LEMMA NextOne ==
    ASSUME TypeOK, Next
    PROVE  UNCHANGED <<peers, secret>> \/ (UNCHANGED secret /\ OnePeer) \/ (UNCHANGED peers /\ OneFile)
  <1>1. CASE Failure
    BY <1>1 DEF Failure, PassFails, Restart, Resync, api
  <1>2. CASE SyncPeers \/ SyncWireguards \/ SyncSecrets
    BY <1>2 DEF SyncPeers, SyncWireguards, SyncSecrets, api
  <1> QED
    BY <1>1, <1>2, UserOne, PassOne DEF Next

--------------------------------------------------------------------------------
(* Refinement *)

FilesWellFormed == \A g \in Gateways : Promise!WellFormed(fileOf(secret[g]))

\* A Secret that lists distinct and usable peers is a well-formed file.
LEMMA FileWellFormed == TypeOK /\ ServedOK => FilesWellFormed
  <1> SUFFICES ASSUME TypeOK, ServedOK, NEW g \in Gateways PROVE Promise!WellFormed(fileOf(secret[g]))
    BY DEF FilesWellFormed
  <1>1. fileOf(secret[g]).pool \in Pools
    BY DEF TypeOK, SecretObjects, fileOf
  <1>2. ASSUME NEW d \in fileOf(secret[g]).entries, NEW e \in fileOf(secret[g]).entries,
               d.key = e.key \/ d.address = e.address
        PROVE  d = e
    <2>1. PICK p \in Peers : d = secret[g].served[p] /\ d # NoEntry
      BY DEF fileOf
    <2>2. PICK q \in Peers : e = secret[g].served[q] /\ e # NoEntry
      BY DEF fileOf
    <2> QED
      BY <1>2, <2>1, <2>2 DEF ServedOK, ServedDistinct
  <1>3. ASSUME NEW e \in fileOf(secret[g]).entries
        PROVE  e.key \in PublicKeys /\ addressUsable(e.address, fileOf(secret[g]).pool)
    <2>1. PICK p \in Peers : e = secret[g].served[p] /\ e # NoEntry
      BY DEF fileOf
    <2> QED
      BY <2>1 DEF ServedOK, ServedUsable, fileOf
  <1> QED
    BY <1>1, <1>2, <1>3 DEF Promise!WellFormed

LEMMA RosterInit == Init => Promise!Init
  <1> SUFFICES ASSUME Init PROVE Promise!Init
    OBVIOUS
  <1>1. \A g \in Gateways : ~fileOf(secret[g]).live
    BY DEF Init, AbsentSecret, fileOf
  <1>2. \A p \in Peers : peers[p].address = NoAddress
    <2>1. peers \in [Peers -> {AbsentPeer} \cup {NewPeer(0, g, k) : g \in Gateways, k \in SpecKeys}]
      BY InitialPeersAssumption DEF Init
    <2>2. \A g, k : NewPeer(0, g, k).address = NoAddress /\ AbsentPeer.address = NoAddress
      BY DEF AbsentPeer, NewPeer
    <2> HIDE DEF Init
    <2> QED
      BY <2>1, <2>2
  <1> QED
    BY <1>1, <1>2 DEF Promise!Init, Promise!NoFile

\* A step that writes one Secret writes, deletes or keeps one file.
LEMMA FileStep ==
    ASSUME TypeOK', ServedOK', KeyInv, Next, UNCHANGED peers, OneFile
    PROVE  Promise!Next \/ UNCHANGED Promise!vars
  <1>1. PICK g \in Gateways :
            /\ \A h \in Gateways \ {g} : secret'[h] = secret[h]
            /\ secret'[g].live \/ secret[g].live
    BY DEF OneFile
  <1> DEFINE old == fileOf(secret[g])
             new == fileOf(secret'[g])
  <1>2. Promise!WellFormed(new)
    <2>1. FilesWellFormed'
      BY FileWellFormed, PTL
    <2> QED
      BY <2>1 DEF FilesWellFormed
  <1>3. old.live /\ new.live => new.key = old.key
    BY KeyStep DEF fileOf
  <1>4. old.live \/ new.live
    BY <1>1 DEF fileOf
  <1>5. \A h \in Gateways \ {g} : fileOf(secret'[h]) = fileOf(secret[h])
    BY <1>1
  <1> HIDE DEF old, new
  <1>6. CASE new.live /\ new # old
    <2>1. Promise!Write(g)
      BY <1>2, <1>3, <1>5, <1>6 DEF Promise!Write, old, new
    <2> QED
      BY <2>1 DEF Promise!Next
  <1>7. CASE ~new.live
    <2>1. Promise!Delete(g)
      BY <1>4, <1>5, <1>7 DEF Promise!Delete, Promise!NoFile, old, new
    <2> QED
      BY <2>1 DEF Promise!Next
  <1>8. CASE new = old
    BY <1>5, <1>8 DEF Promise!vars, old, new
  <1> QED
    BY <1>6, <1>7, <1>8

\* A step that writes one peer grants, releases, exchanges or keeps one lease.
LEMMA LeaseStep ==
    ASSUME TypeOK, [NoSwap]_peers, UNCHANGED secret, OnePeer
    PROVE  Promise!Next \/ UNCHANGED Promise!vars
  <1>1. PICK p \in Peers : \A q \in Peers \ {p} : peers'[q] = peers[q]
    BY DEF OnePeer
  <1> DEFINE old == peers[p].address
             new == peers'[p].address
  <1>2. \A q \in Peers \ {p} : peers'[q].address = peers[q].address
    BY <1>1
  <1>3. old = NoAddress \/ new = NoAddress \/ old = new \/ \E c \in Pools : ~addressUsable(old, c)
    BY DEF NoSwap, TypeOK
  <1> HIDE DEF old, new
  <1>4. CASE old = new
    BY <1>2, <1>4 DEF Promise!vars, old, new
  <1>5. CASE old # new
    <2>1. Promise!SetLease(p)
      BY <1>2, <1>5 DEF Promise!SetLease, old, new
    <2>2. Promise!Grant(p) \/ Promise!Release(p) \/ Promise!Exchange(p)
      BY <1>3, <1>5, <2>1 DEF Promise!Grant, Promise!Release, Promise!Exchange, old, new
    <2> QED
      BY <2>2 DEF Promise!Next
  <1> QED
    BY <1>4, <1>5

LEMMA RosterStep == IInv /\ IInv' /\ KeyInv /\ AInv /\ [Next]_vars => [Promise!Next]_(Promise!vars)
  <1> SUFFICES ASSUME IInv, IInv', KeyInv, AInv, [Next]_vars PROVE Promise!Next \/ UNCHANGED Promise!vars
    OBVIOUS
  <1>1. TypeOK /\ TypeOK' /\ ServedOK' /\ [NoSwap]_peers
    BY AddressInductive DEF IInv
  <1>2. CASE UNCHANGED <<peers, secret>>
    BY <1>2 DEF Promise!vars
  <1>3. CASE Next
    BY <1>1, <1>2, <1>3, NextOne, FileStep, LeaseStep
  <1>4. CASE UNCHANGED vars
    BY <1>2, <1>4 DEF vars, api
  <1> QED
    BY <1>3, <1>4

\* The reconciler implements the Roster, from any cached copies and through any interleaving of
\* passes, users and failures: one step writes one whole, well-formed file under its key, or
\* one lease, and a lease is exchanged only if a pool cannot use it (Reconcile, allocatePeers).
THEOREM RosterImplemented == Spec => ImplementsRoster
  <1> QED
    BY RosterInit, RosterStep, InitSafe, StepSafe, KeyInit, KeyInductive, AddressInit, AddressInductive, PTL
       DEF Spec, ImplementsRoster, Promise!Spec

--------------------------------------------------------------------------------
(* The agent's side of the file *)

\* The agent's vocabulary. The operator always writes the CIDR it used, so NoCIDR is any value
\* that is not one.
Device == INSTANCE WireguardDevice WITH
    Addresses <- AllAddresses,
    CIDRs <- Pools, NoCIDR <- CHOOSE c : c \notin Pools, DefaultPeerCIDR4 <- SomePool,
    ServerKeys <- Nat \ {NoServer}, NoServerKey <- NoServer

\* The peers a Secret lists under key k.
listedUnder(object, k) == {p \in Peers : object.served[p] # NoEntry /\ object.served[p].key = k}

\* The Secret as the agent parses it.
parsed(object) ==
    [complete |-> TRUE, key |-> object.key, cidr |-> object.pool,
     address |-> [k \in PublicKeys |->
                     IF listedUnder(object, k) = {} THEN NoAddress
                     ELSE object.served[CHOOSE p \in listedUnder(object, k) : TRUE].address]]

FilesFitAgent ==
    \A g \in Gateways :
        parsed(secret[g]) \in Device!States /\ Device!DistinctAddresses(parsed(secret[g]))

LEMMA FilesFit == TypeOK /\ ServedOK => FilesFitAgent
  <1> SUFFICES ASSUME TypeOK, ServedOK, NEW g \in Gateways
               PROVE  parsed(secret[g]) \in Device!States /\ Device!DistinctAddresses(parsed(secret[g]))
    BY DEF FilesFitAgent
  <1> DEFINE S == secret[g]
             pick(k) == CHOOSE p \in listedUnder(S, k) : TRUE
             address == [k \in PublicKeys |-> IF listedUnder(S, k) = {} THEN NoAddress ELSE S.served[pick(k)].address]
  <1>1. S \in SecretObjects
    BY DEF TypeOK
  <1>2. \A k \in PublicKeys : listedUnder(S, k) # {} =>
            /\ pick(k) \in Peers /\ S.served[pick(k)] # NoEntry
            /\ S.served[pick(k)].key = k /\ S.served[pick(k)].address \in AllAddresses
    <2>1. \A k \in PublicKeys : listedUnder(S, k) # {} => pick(k) \in listedUnder(S, k)
      OBVIOUS
    <2>2. \A p \in Peers : S.served[p] # NoEntry => S.served[p].address \in AllAddresses
      <3>1. \A p \in Peers : S.served[p] # NoEntry => S.served[p].address \in addresses(S.pool)
        BY DEF ServedOK, ServedUsable, addressUsable
      <3>2. S.pool \in Pools
        BY <1>1 DEF SecretObjects
      <3> HIDE DEF S
      <3> QED
        BY <3>1, <3>2 DEF AllAddresses
    <2> HIDE DEF pick, S
    <2> QED
      BY <2>1, <2>2 DEF listedUnder
  <1>3. \A p, q \in Peers : p # q /\ S.served[p] # NoEntry /\ S.served[q] # NoEntry => S.served[p].address # S.served[q].address
    BY DEF ServedOK, ServedDistinct
  <1>4. parsed(S) = [complete |-> TRUE, key |-> S.key, cidr |-> S.pool, address |-> address]
    BY DEF parsed
  <1> HIDE DEF pick, S
  <1>5. address \in [PublicKeys -> AllAddresses \union {NoAddress}]
    BY <1>2
  <1>6. \A j, k \in PublicKeys : j # k /\ address[j] # NoAddress /\ address[k] # NoAddress => address[j] # address[k]
    BY <1>2, <1>3
  <1> HIDE DEF address
  <1>7. parsed(S) \in Device!States
    BY <1>1, <1>4, <1>5 DEF Device!States, SecretObjects
  <1>8. Device!DistinctAddresses(parsed(S))
    BY <1>4, <1>6 DEF Device!DistinctAddresses, Device!listed
  <1> QED
    BY <1>7, <1>8 DEF S

\* The assumption under which the agent's results are proved (Agent!FilesAssumption) is met by
\* every Secret the reconciler writes: it is a state the agent can read and no two of its peers
\* share an address (Reconcile's state.json, IsStateValid and createPeersConfiguration).
THEOREM AgentAssumptionMet == Spec => []FilesFitAgent
  <1>1. IInv => FilesFitAgent
    BY FilesFit DEF IInv
  <1> QED
    BY <1>1, InitSafe, StepSafe, PTL DEF Spec

--------------------------------------------------------------------------------
(* Rest. What a gateway's pass leaves behind is judged from the caches it    *)
(* read: whatever changes them, or is about to, brings the worker back to    *)
(* the gateway, and so does every write of the pass itself. A gateway that   *)
(* nothing brings the worker back to was left as it should be.               *)

Touched(g) ==
    \/ g \in queue \union staleWgs \union staleSecrets
    \/ stalePeers \intersect getWireguardPeers(cpeers, g) # {}

CachesCurrent ==
    /\ \A g \in Gateways \ staleWgs : cwg[g] = wg[g]
    /\ \A p \in Peers \ stalePeers : cpeers[p] = peers[p]
    /\ \A g \in Gateways \ staleSecrets : csecret[g] = secret[g]

\* Only a ready peer holds an address, in the API, the cache and the pass's memory.
Holding(objs) == \A p \in Peers : objs[p].address # NoAddress => objs[p].status = ready

StatusRest(g, p) ==
    /\ ~cwg[g].live => cpeers[p].status = wireguardNotFound
    /\ Serving(cwg[g]) => Truthful(cwg[g], cpeers, g, p)
    /\ ~cwg[g].live \/ Serving(cwg[g]) => cpeers[p].status = ready \/ HoldsNothing(cpeers[p])

AtRest(g) ==
    /\ \A p \in getWireguardPeers(cpeers, g) : StatusRest(g, p)
    /\ Serving(cwg[g]) =>
        /\ ListsReady(cwg[g], csecret[g], cpeers, g)
        /\ \A p \in getWireguardPeers(cpeers, g) : Introduced(csecret[g], cpeers, p)

\* A pass that nothing has touched yet has written nothing, and its copies are the cache's but
\* for the addresses it cleared.
CalmCopy(p) ==
    /\ p \notin outdated
    /\ mem[p].key = cpeers[p].key /\ mem[p].status = cpeers[p].status
    /\ mem[p].identity = cpeers[p].identity /\ mem[p].observed = cpeers[p].observed
    /\ mem[p].address \in {cpeers[p].address, NoAddress}

CalmOrphans ==
    /\ ~cwg[gw].live /\ refuse \subseteq getWireguardPeers(cpeers, gw)
    /\ \A p \in getWireguardPeers(cpeers, gw) :
        /\ mem[p] = cpeers[p] /\ verdict[p] = wireguardNotFound
        /\ p \in refuse \/ peerStatusMatches(mem[p], wireguardNotFound)

\* What refusals says of a peer: a loser of its key names the one holder.
CalmVerdict(p) ==
    \/ verdict[p] = admissionProblem(cpeers, cwg[gw], gw, p)
    \/ verdict[p].reason = "AddressConflict" /\ mem[p].address # NoAddress
    \/ \E q \in getWireguardPeers(cpeers, gw) :
        /\ verdict[p] = publicKeyConflict({q}) /\ cpeers[q].key = cpeers[p].key
        /\ verdict[q] = ready \/ verdict[q].reason = "AddressConflict"

CalmProgress(p) ==
    \/ p \in refuse \union keep \union admitted
    \/ verdict[p] # ready /\ peerStatusMatches(mem[p], verdict[p])
    \/ /\ verdict[p] = ready /\ peerStatusMatches(mem[p], addressPoolExhausted)
       /\ addresses(pool) \subseteq used

CalmPeers ==
    LET G == getWireguardPeers(cpeers, gw)
    IN  /\ Serving(cwg[gw]) /\ pool = cwg[gw].pool
        /\ \A p \in refuse : p \in G /\ verdict[p] # ready
        /\ \A p \in keep \union admitted : p \in G /\ verdict[p] = ready
        /\ \A p \in admitted : mem[p].status = ready /\ mem[p].address # NoAddress
        /\ \A p \in G : CalmVerdict(p) /\ CalmProgress(p)
        /\ \A a \in used : a \in deriveReservedIPs(pool) \/ \E q \in G : verdict[q] = ready /\ mem[q].address = a

CalmIdentity ==
    LET G == getWireguardPeers(cpeers, gw)
    IN  /\ Serving(cwg[gw])
        /\ ListsReady(cwg[gw], csecret[gw], cpeers, gw) /\ serverKey = csecret[gw].key
        /\ admitted \subseteq G
        /\ \A p \in G : StatusRest(gw, p) /\ (p \in admitted \/ Introduced(csecret[gw], cpeers, p))

CalmPass ==
    /\ \A p \in getWireguardPeers(cpeers, gw) : CalmCopy(p)
    /\ pc = "orphans" => CalmOrphans
    /\ pc = "peers" => CalmPeers
    /\ pc = "identity" => CalmIdentity

RestInv ==
    /\ CachesCurrent
    /\ Holding(peers) /\ Holding(cpeers) /\ Holding(mem)
    /\ \A g \in Gateways : Touched(g) \/ (pc # "idle" /\ gw = g) \/ AtRest(g)
    /\ IF pc = "idle" THEN admitted = {} ELSE Touched(gw) \/ CalmPass

QInv == TypeOK /\ RestInv

\* What rest means for a gateway depends on its own objects only.
LEMMA LocalTruthful ==
    ASSUME NEW w, NEW a, NEW b, NEW g,
           getWireguardPeers(b, g) = getWireguardPeers(a, g),
           \A p \in getWireguardPeers(a, g) : b[p] = a[p],
           NEW p \in getWireguardPeers(a, g), Truthful(w, a, g, p)
    PROVE  Truthful(w, b, g, p)
  <1>1. b[p] = a[p]
    OBVIOUS
  <1>2. admissionProblem(b, w, g, p) = admissionProblem(a, w, g, p)
    BY <1>1 DEF admissionProblem
  <1>3. \A S : {q \in getWireguardPeers(b, g) : b[q].status \in S}
                = {q \in getWireguardPeers(a, g) : a[q].status \in S}
    OBVIOUS
  <1> QED
    BY <1>1, <1>2, <1>3 DEF Truthful

LEMMA LocalLists ==
    ASSUME NEW w, NEW state, NEW a, NEW b, NEW g,
           getWireguardPeers(b, g) = getWireguardPeers(a, g),
           \A p \in getWireguardPeers(a, g) : b[p] = a[p],
           ListsReady(w, state, a, g)
    PROVE  ListsReady(w, state, b, g)
  BY Zenon DEF ListsReady

\* The caches show gateway g the same before and after the step.
SameView(g) ==
    /\ cwg'[g] = cwg[g] /\ csecret'[g] = csecret[g]
    /\ getWireguardPeers(cpeers', g) = getWireguardPeers(cpeers, g)
    /\ \A p \in getWireguardPeers(cpeers, g) : cpeers'[p] = cpeers[p]

LEMMA LocalStatus ==
    ASSUME NEW g \in Gateways, SameView(g), NEW p \in getWireguardPeers(cpeers, g), StatusRest(g, p)
    PROVE  StatusRest(g, p)'
  <1>1. cpeers'[p] = cpeers[p] /\ cwg'[g] = cwg[g]
    BY DEF SameView
  <1>2. Truthful(cwg[g], cpeers, g, p) => Truthful(cwg'[g], cpeers', g, p)
    BY <1>1, LocalTruthful DEF SameView
  <1> QED
    BY <1>1, <1>2 DEF StatusRest

\* So a gateway at rest stays there, and a calm pass stays calm.
LEMMA LocalRest == ASSUME NEW g \in Gateways, SameView(g), AtRest(g) PROVE AtRest(g)'
  <1>1. \A p \in getWireguardPeers(cpeers', g) : StatusRest(g, p)'
    BY LocalStatus DEF AtRest, SameView
  <1>2. Serving(cwg[g]) => ListsReady(cwg'[g], csecret'[g], cpeers', g)
    BY LocalLists DEF AtRest, SameView
  <1>3. Serving(cwg[g]) => \A p \in getWireguardPeers(cpeers', g) : Introduced(csecret'[g], cpeers', p)
    BY DEF AtRest, SameView, Introduced
  <1> QED
    BY <1>1, <1>2, <1>3 DEF AtRest, SameView

LEMMA LocalCalm ==
    ASSUME gw \in Gateways, SameView(gw), CalmPass,
           UNCHANGED <<pc, gw, pool, mem, verdict, refuse, keep, admitted, used, serverKey>>,
           outdated' \intersect getWireguardPeers(cpeers, gw) = {}
    PROVE  CalmPass'
  <1> DEFINE G == getWireguardPeers(cpeers, gw)
  <1>1. /\ cwg'[gw] = cwg[gw] /\ csecret'[gw] = csecret[gw]
        /\ getWireguardPeers(cpeers', gw) = G
        /\ \A p \in G : cpeers'[p] = cpeers[p]
    BY DEF SameView
  <1>2. \A p \in G : CalmCopy(p)'
    BY <1>1 DEF CalmPass, CalmCopy
  <1> HIDE DEF G
  <1>3. CalmOrphans => CalmOrphans'
    BY <1>1 DEF CalmOrphans, G
  <1>4. CalmPeers => CalmPeers'
    <2> SUFFICES ASSUME CalmPeers PROVE CalmPeers'
      OBVIOUS
    <2>1. \A p \in G : admissionProblem(cpeers', cwg'[gw], gw, p) = admissionProblem(cpeers, cwg[gw], gw, p)
      BY <1>1 DEF admissionProblem
    <2>2. \A p \in G : CalmVerdict(p)'
      <3> TAKE p \in G
      <3>1. CalmVerdict(p)
        BY DEF CalmPeers, G
      <3> QED
        BY <1>1, <2>1, <3>1, Zenon DEF CalmVerdict, G
    <2>3. \A p \in G : CalmProgress(p)'
      BY DEF CalmPeers, CalmProgress, G
    <2> QED
      BY <1>1, <2>2, <2>3 DEF CalmPeers, G
  <1>5. CalmIdentity => CalmIdentity'
    <2> SUFFICES ASSUME CalmIdentity PROVE CalmIdentity'
      OBVIOUS
    <2>1. \A p \in G : StatusRest(gw, p)'
      <3> TAKE p \in G
      <3>1. StatusRest(gw, p)
        BY DEF CalmIdentity, G
      <3>2. \A h \in Gateways : h = gw => StatusRest(h, p)'
        BY <3>1, LocalStatus DEF G
      <3> QED
        BY <3>2
    <2>2. ListsReady(cwg'[gw], csecret'[gw], cpeers', gw)
      BY <1>1, LocalLists, Zenon DEF CalmIdentity, G
    <2>3. \A p \in G : Introduced(csecret[gw], cpeers, p) => Introduced(csecret'[gw], cpeers', p)
      BY <1>1, Zenon DEF Introduced
    <2> QED
      BY <1>1, <2>1, <2>2, <2>3 DEF CalmIdentity, G
  <1> QED
    BY <1>1, <1>2, <1>3, <1>4, <1>5 DEF CalmPass, G

\* Steps beside the pass: users, watch events, resyncs.
PassKept == UNCHANGED <<pc, gw, pool, mem, verdict, refuse, keep, admitted, used, serverKey>>

\* Nothing will bring the worker back to g, nothing would have before the step, and the step
\* showed it nothing new.
Quiet(g) ==
    /\ ~Touched(g) /\ SameView(g)
    /\ outdated' \intersect getWireguardPeers(cpeers, g) \subseteq outdated

\* A step beside the pass preserves rest if it is quiet for every gateway it leaves untouched.
LEMMA AsideRest ==
    ASSUME QInv, PassKept, \A g \in Gateways : ~Touched(g)' => Quiet(g)
    PROVE  /\ \A g \in Gateways : Touched(g)' \/ (pc' # "idle" /\ gw' = g) \/ AtRest(g)'
           /\ IF pc' = "idle" THEN admitted' = {} ELSE Touched(gw)' \/ CalmPass'
  <1>1. \A g \in Gateways : Touched(g)' \/ (pc' # "idle" /\ gw' = g) \/ AtRest(g)'
    <2> TAKE g \in Gateways
    <2>1. Touched(g)' \/ AtRest(g)' \/ (pc # "idle" /\ gw = g)
      BY LocalRest DEF QInv, RestInv, Quiet
    <2> QED
      BY <2>1 DEF PassKept
  <1>2. ASSUME pc' # "idle", ~Touched(gw)' PROVE CalmPass'
    <2>1. gw \in Gateways /\ gw' = gw /\ pc # "idle"
      BY <1>2 DEF QInv, TypeOK, PassKept
    <2>2. Quiet(gw)
      <3>1. \A g \in Gateways : g = gw => ~Touched(g)'
        BY <1>2, <2>1
      <3> QED
        BY <2>1, <3>1
    <2>3. CalmPass
      BY <2>1, <2>2 DEF QInv, RestInv, Quiet
    <2>4. outdated' \intersect getWireguardPeers(cpeers, gw) = {}
      BY <2>2, <2>3 DEF Quiet, CalmPass, CalmCopy
    <2> QED
      BY <2>1, <2>2, <2>3, <2>4, LocalCalm DEF Quiet, PassKept
  <1>3. pc' = "idle" => admitted' = {}
    BY DEF QInv, RestInv, PassKept
  <1> QED
    BY <1>1, <1>2, <1>3

\* A user's write to a peer: if the cache shows the peer on a gateway, that gateway is touched.
LEMMA SetPeerRest ==
    ASSUME QInv, NEW p \in Peers, NEW obj, SetPeer(p, obj), obj.address # NoAddress => obj.status = ready
    PROVE  RestInv'
  <1>1. /\ peers' = [peers EXCEPT ![p] = obj] /\ stalePeers' = stalePeers \union {p}
        /\ outdated' \subseteq outdated \union {p}
        /\ UNCHANGED <<wg, secret, cwg, cpeers, csecret, staleWgs, staleSecrets, queue, mem>> /\ PassKept
    BY DEF SetPeer, PassKept
  <1>2. CachesCurrent'
    BY <1>1 DEF QInv, TypeOK, RestInv, CachesCurrent
  <1>3. Holding(peers') /\ Holding(cpeers') /\ Holding(mem')
    BY <1>1 DEF QInv, TypeOK, RestInv, Holding
  <1>4. \A g \in Gateways : ~Touched(g)' => Quiet(g)
    BY <1>1 DEF Touched, Quiet, SameView
  <1> QED
    BY <1>1, <1>2, <1>3, <1>4, AsideRest DEF RestInv

\* What users do.
LEMMA UserRest == ASSUME QInv, User PROVE RestInv'
  <1>1. ASSUME NEW p \in Peers, NEW g \in Gateways, NEW k \in SpecKeys, CreatePeer(p, g, k)
        PROVE  RestInv'
    <2>1. \A now : NewPeer(now, g, k).address = NoAddress
      BY DEF NewPeer, AbsentPeer
    <2> QED
      BY <1>1, <2>1, SetPeerRest DEF CreatePeer
  <1>2. ASSUME NEW p \in Peers, NEW g \in Gateways, NEW k \in SpecKeys, EditPeer(p, g, k)
        PROVE  RestInv'
    <2> DEFINE obj == [peers[p] EXCEPT !.gateway = g, !.key = k,
                                       !.observed = peers[p].status.reason \in {"", "Ready"}]
    <2>1. SetPeer(p, obj)
      BY <1>2 DEF EditPeer
    <2>2. obj.address = peers[p].address /\ obj.status = peers[p].status
      BY DEF QInv, TypeOK, PeerObjects
    <2>3. obj.address # NoAddress => obj.status = ready
      BY <2>2 DEF QInv, RestInv, Holding
    <2> HIDE DEF obj
    <2> QED
      BY <2>1, <2>3, SetPeerRest
  <1>3. ASSUME NEW p \in Peers, DeletePeer(p) PROVE RestInv'
    <2>1. AbsentPeer.address = NoAddress
      BY DEF AbsentPeer
    <2> QED
      BY <1>3, <2>1, SetPeerRest DEF DeletePeer
  <1>4. ASSUME NEW g \in Gateways,
               NEW obj \in [live: {TRUE}, pool: Pools, same: BOOLEAN] \union {AbsentWireguard},
               EditWireguard(g, obj)
        PROVE  RestInv'
    <2>1. /\ wg' = [wg EXCEPT ![g] = obj] /\ staleWgs' = staleWgs \union {g}
          /\ UNCHANGED <<peers, secret, cwg, cpeers, csecret, stalePeers, staleSecrets, queue, outdated>>
          /\ PassKept
      BY <1>4 DEF EditWireguard, pass, PassKept
    <2>2. CachesCurrent'
      BY <2>1 DEF QInv, TypeOK, RestInv, CachesCurrent
    <2>3. Holding(peers') /\ Holding(cpeers') /\ Holding(mem')
      BY <2>1 DEF QInv, RestInv, PassKept
    <2>4. \A h \in Gateways : ~Touched(h)' => Quiet(h)
      BY <2>1 DEF Touched, Quiet, SameView
    <2> QED
      BY <2>1, <2>2, <2>3, <2>4, AsideRest DEF RestInv
  <1>5. ASSUME NEW g \in Gateways, DeleteSecret(g) PROVE RestInv'
    <2>1. /\ secret' = [secret EXCEPT ![g] = AbsentSecret] /\ staleSecrets' = staleSecrets \union {g}
          /\ UNCHANGED <<wg, peers, cwg, cpeers, csecret, stalePeers, staleWgs, queue, outdated>>
          /\ PassKept
      BY <1>5 DEF DeleteSecret, pass, PassKept
    <2>2. CachesCurrent'
      BY <2>1 DEF QInv, TypeOK, RestInv, CachesCurrent
    <2>3. Holding(peers') /\ Holding(cpeers') /\ Holding(mem')
      BY <2>1 DEF QInv, RestInv, PassKept
    <2>4. \A h \in Gateways : ~Touched(h)' => Quiet(h)
      BY <2>1 DEF Touched, Quiet, SameView
    <2> QED
      BY <2>1, <2>2, <2>3, <2>4, AsideRest DEF RestInv
  <1> QED
    BY <1>1, <1>2, <1>3, <1>4, <1>5, Zenon DEF User

LEMMA HoldingEmpty == Holding(Nobody)
  BY Zenon DEF Holding, Nobody, AbsentPeer

\* A failed pass is retried; a restart enqueues every gateway that exists or has peers.
LEMMA FailureRest == ASSUME QInv, Failure PROVE RestInv'
  <1>1. CASE PassFails
    <2>1. /\ UNCHANGED <<wg, peers, secret, cwg, cpeers, csecret, staleWgs, stalePeers, staleSecrets>>
          /\ queue' = queue \union {gw} /\ pc' = "idle" /\ mem' = Nobody /\ admitted' = {}
      BY <1>1 DEF PassFails, EndPass, api, cache
    <2>2. CachesCurrent' /\ Holding(peers') /\ Holding(cpeers') /\ Holding(mem')
      BY <2>1, HoldingEmpty DEF QInv, RestInv, CachesCurrent
    <2>3. \A g \in Gateways : Touched(g)' \/ AtRest(g)'
      <3> TAKE g \in Gateways
      <3>1. CASE Touched(g) \/ g = gw
        BY <2>1, <3>1 DEF Touched
      <3>2. CASE ~Touched(g) /\ g # gw
        <4>1. AtRest(g) /\ SameView(g)
          BY <2>1, <3>2 DEF QInv, RestInv, SameView
        <4> QED
          BY <4>1, LocalRest
      <3> QED
        BY <3>1, <3>2
    <2> QED
      BY <2>1, <2>2, <2>3 DEF RestInv
  <1>2. CASE Restart
    <2>1. /\ cwg' = wg /\ cpeers' = peers /\ csecret' = secret
          /\ wg' = wg /\ peers' = peers /\ secret' = secret
          /\ staleWgs' = {} /\ stalePeers' = {} /\ staleSecrets' = {}
          /\ pc' = "idle" /\ mem' = Nobody /\ admitted' = {}
      BY <1>2 DEF Restart, EndPass, api
    <2>2. CachesCurrent' /\ Holding(peers') /\ Holding(cpeers') /\ Holding(mem')
      BY <2>1, HoldingEmpty DEF QInv, RestInv, CachesCurrent
    <2>3. \A g \in Gateways : Touched(g)' \/ AtRest(g)'
      <3> SUFFICES ASSUME NEW g \in Gateways, ~Touched(g)' PROVE AtRest(g)'
        OBVIOUS
      <3>1. g \notin queue'
        BY DEF Touched
      <3>2. ~wg[g].live /\ getWireguardPeers(peers, g) = {}
        BY <1>2, <3>1 DEF Restart, getWireguardPeers
      <3> QED
        BY <2>1, <3>2, Zenon DEF AtRest, Serving
    <2> QED
      BY <2>1, <2>2, <2>3 DEF RestInv
  <1>3. ASSUME NEW g \in Gateways, Resync(g) PROVE RestInv'
    <2>1. /\ queue' = queue \union {g}
          /\ UNCHANGED <<wg, peers, secret, cwg, cpeers, csecret, stalePeers, staleWgs, staleSecrets, outdated>>
          /\ PassKept
      BY <1>3 DEF Resync, api, cache, pass, PassKept
    <2>2. CachesCurrent' /\ Holding(peers') /\ Holding(cpeers') /\ Holding(mem')
      BY <2>1 DEF QInv, RestInv, CachesCurrent, PassKept
    <2>3. \A h \in Gateways : ~Touched(h)' => Quiet(h)
      BY <2>1 DEF Touched, Quiet, SameView
    <2> QED
      BY <2>1, <2>2, <2>3, AsideRest DEF RestInv
  <1> QED
    BY <1>1, <1>2, <1>3 DEF Failure

\* The caches move and enqueue the gateways for which they show something new.
LEMMA SyncRest == ASSUME QInv, SyncPeers \/ SyncWireguards \/ SyncSecrets PROVE RestInv'
  <1>1. PassKept /\ UNCHANGED <<wg, peers, secret, outdated>>
    BY DEF SyncPeers, SyncWireguards, SyncSecrets, api, pass, PassKept
  <1>2. Holding(peers') /\ Holding(cpeers') /\ Holding(mem')
    BY <1>1 DEF SyncPeers, SyncWireguards, SyncSecrets, PassKept, QInv, RestInv
  <1>3. CachesCurrent'
    BY <1>1 DEF SyncPeers, SyncWireguards, SyncSecrets, QInv, RestInv, CachesCurrent
  <1>4. \A g \in Gateways : ~Touched(g)' => Quiet(g)
    <2> SUFFICES ASSUME NEW g \in Gateways, ~Touched(g)' PROVE Quiet(g)
      OBVIOUS
    <2>1. CASE SyncPeers
      <3>1. UNCHANGED <<cwg, csecret, staleWgs, staleSecrets>> /\ cpeers' = peers /\ queue \subseteq queue'
        BY <2>1, Zenon DEF SyncPeers
      <3>2. \A p \in stalePeers : /\ cpeers[p].live => cpeers[p].gateway \in queue'
                                  /\ peers[p].live => peers[p].gateway \in queue'
        BY <2>1, Zenon DEF SyncPeers, QInv, TypeOK
      <3>3. g \notin queue' \union staleWgs \union staleSecrets
        BY <3>1 DEF Touched
      <3>4. \A p \in stalePeers : p \notin getWireguardPeers(cpeers, g) /\ p \notin getWireguardPeers(peers, g)
        BY <3>2, <3>3 DEF getWireguardPeers
      <3>5. \A p \in Peers : p \notin stalePeers => cpeers[p] = peers[p]
        BY DEF QInv, RestInv, CachesCurrent
      <3>6. getWireguardPeers(peers, g) = getWireguardPeers(cpeers, g)
        BY <3>4, <3>5 DEF getWireguardPeers
      <3>7. \A p \in getWireguardPeers(cpeers, g) : peers[p] = cpeers[p]
        BY <3>4, <3>5 DEF getWireguardPeers
      <3> QED
        BY <1>1, <3>1, <3>3, <3>4, <3>6, <3>7 DEF Quiet, Touched, SameView
    <2>2. CASE SyncWireguards
      BY <1>1, <2>2 DEF SyncWireguards, Quiet, Touched, SameView, QInv, RestInv, CachesCurrent
    <2>3. CASE SyncSecrets
      BY <1>1, <2>3, Zenon DEF SyncSecrets, Quiet, Touched, SameView, QInv, RestInv, CachesCurrent
    <2> QED
      BY <2>1, <2>2, <2>3
  <1> QED
    BY <1>1, <1>2, <1>3, <1>4, AsideRest DEF RestInv

\* Steps of a pass. None moves the caches, so they concern no other gateway.
CacheKept == UNCHANGED <<wg, cwg, cpeers, csecret, staleWgs>>

\* The gateways other than the one a pass works on.
LEMMA OthersRest ==
    ASSUME QInv, CacheKept, NEW g \in Gateways, queue \ {g} \subseteq queue',
           stalePeers \subseteq stalePeers', staleSecrets \subseteq staleSecrets',
           pc = "idle" \/ gw = g
    PROVE  \A h \in Gateways : h # g => Touched(h)' \/ AtRest(h)'
  <1> SUFFICES ASSUME NEW h \in Gateways, h # g, ~Touched(h)' PROVE AtRest(h)'
    OBVIOUS
  <1>1. ~Touched(h)
    BY DEF CacheKept, Touched
  <1>2. AtRest(h) /\ SameView(h)
    BY <1>1 DEF QInv, RestInv, CacheKept, SameView
  <1> QED
    BY <1>2, LocalRest

\* A pass begins.
LEMMA StartRest ==
    ASSUME QInv, NEW g \in Gateways, Dequeue(g), UNCHANGED <<api, cache>>
    PROVE  /\ CachesCurrent' /\ Holding(peers') /\ Holding(cpeers')
           /\ \A h \in Gateways : h # g => Touched(h)' \/ AtRest(h)'
           /\ ~Touched(g)' => stalePeers \intersect getWireguardPeers(cpeers, g) = {}
  <1>1. CachesCurrent' /\ Holding(peers') /\ Holding(cpeers')
    BY DEF QInv, RestInv, CachesCurrent, api, cache
  <1>2. \A h \in Gateways : h # g => Touched(h)' \/ AtRest(h)'
    BY OthersRest DEF Dequeue, CacheKept, api, cache
  <1> QED
    BY <1>1, <1>2 DEF Touched, cache

\* The Wireguard is gone.
LEMMA OrphansStart == ASSUME QInv, NEW g \in Gateways, markPeersWireguardNotFound(g) PROVE RestInv'
  <1>1. /\ pc = "idle" /\ pc' = "orphans" /\ gw' = g /\ mem' = cpeers /\ outdated' = stalePeers
        /\ verdict' = [p \in Peers |-> wireguardNotFound] /\ refuse' = getWireguardPeers(cpeers, g)
        /\ ~cwg[g].live /\ Dequeue(g) /\ UNCHANGED <<api, cache>>
    BY DEF markPeersWireguardNotFound, Dequeue, ListPeers
  <1>2. /\ CachesCurrent' /\ Holding(peers') /\ Holding(cpeers')
        /\ \A h \in Gateways : h # g => Touched(h)' \/ AtRest(h)'
        /\ ~Touched(g)' => stalePeers \intersect getWireguardPeers(cpeers, g) = {}
    BY <1>1, StartRest
  <1>3. Holding(mem')
    BY <1>1 DEF QInv, RestInv
  <1>4. ASSUME ~Touched(g)' PROVE CalmPass'
    <2>1. UNCHANGED <<cpeers, cwg>> /\ getWireguardPeers(cpeers, g) \subseteq Peers
      BY <1>1, Zenon DEF cache, getWireguardPeers
    <2>2. \A p \in getWireguardPeers(cpeers, g) : CalmCopy(p)'
      BY <1>1, <1>2, <1>4, <2>1 DEF CalmCopy
    <2>3. CalmOrphans'
      BY <1>1, <2>1 DEF CalmOrphans
    <2> QED
      BY <1>1, <2>1, <2>2, <2>3 DEF CalmPass
  <1>5. ~Touched(gw)' => ~Touched(g)'
    BY <1>1 DEF Touched
  <1> QED
    BY <1>1, <1>2, <1>3, <1>4, <1>5 DEF RestInv

\* A spec that cannot be rendered promises nothing.
LEMMA RejectRest == ASSUME QInv, NEW g \in Gateways, rejectSpec(g) PROVE RestInv'
  <1>1. /\ Dequeue(g) /\ UNCHANGED <<api, cache>> /\ UNCHANGED <<pc, mem, cwg, admitted>> /\ pc = "idle"
        /\ cwg[g].live /\ ~validatePeerCIDR(cwg[g].pool)
    BY DEF rejectSpec, pass, cache, Dequeue
  <1>2. AtRest(g)'
    BY <1>1, Zenon DEF AtRest, StatusRest, Serving
  <1> QED
    BY <1>1, <1>2, StartRest DEF RestInv, QInv

\* A pass whose gateway nothing touches begins calm.
LEMMA ReconcileStart == ASSUME QInv, NEW g \in Gateways, reconcilePeers(g) PROVE RestInv'
  <1> DEFINE current == csecret[g].served
             listed == listedPeers(cpeers, current, cwg[g], g)
             kept == keptPeers(cpeers, current, cwg[g], g)
             keyed == keyHolders(cpeers, current, cwg[g], g)
             G == getWireguardPeers(cpeers, g)
  <1>1. /\ pc = "idle" /\ pc' = "peers" /\ gw' = g /\ mem' = listed /\ outdated' = stalePeers
        /\ pool' = cwg[g].pool /\ verdict' = refusals(cpeers, current, cwg[g], g)
        /\ refuse' = G \ kept /\ keep' = kept /\ used' = GetUsedIPs(cwg[g].pool, listed, kept)
        /\ Serving(cwg[g]) /\ Dequeue(g) /\ UNCHANGED <<api, cache>> /\ UNCHANGED <<cpeers, cwg, admitted>>
    BY Zenon DEF reconcilePeers, Dequeue, ListPeers, Serving, cache
  <1>2. /\ CachesCurrent' /\ Holding(peers') /\ Holding(cpeers')
        /\ \A h \in Gateways : h # g => Touched(h)' \/ AtRest(h)'
        /\ ~Touched(g)' => stalePeers \intersect G = {}
    BY <1>1, StartRest, Zenon
  <1>3. cpeers \in [Peers -> PeerObjects] /\ cwg[g] \in WireguardObjects /\ G \subseteq Peers
    BY DEF QInv, TypeOK, getWireguardPeers
  <1>4. \A p \in Peers : /\ listed[p].key = cpeers[p].key /\ listed[p].status = cpeers[p].status
                         /\ listed[p].identity = cpeers[p].identity /\ listed[p].observed = cpeers[p].observed
                         /\ listed[p].address \in {cpeers[p].address, NoAddress}
    BY <1>3 DEF listedPeers, clearUnusable, PeerObjects
  <1>5. Holding(mem')
    BY <1>1, <1>4, Zenon DEF QInv, RestInv, Holding
  <1>6. kept \subseteq G
    BY Zenon DEF getWireguardPeers, admitPeers, keyHolders, dedupePublicKeys, keptPeers, dedupeAddresses
  <1>7. \A p \in G :
           /\ verdict'[p] = ready <=> p \in kept
           /\ \/ verdict'[p] = admissionProblem(cpeers, cwg[g], g, p)
              \/ verdict'[p].reason = "AddressConflict" /\ listed[p].address # NoAddress
              \/ \E q \in G :
                    /\ verdict'[p] = publicKeyConflict({q}) /\ cpeers[q].key = cpeers[p].key
                    /\ verdict'[q] = ready \/ verdict'[q].reason = "AddressConflict"
    <2>1. listed = listedPeers(cpeers, current, cwg[g], g) /\ kept = keptPeers(cpeers, current, cwg[g], g)
      BY Zenon
    <2> DEFINE v == refusals(cpeers, current, cwg[g], g)
    <2>2. v = refusals(cpeers, current, cwg[g], g) /\ verdict' = v
      BY <1>1, Zenon
    <2> HIDE DEF listed, kept, current, v
    <2>3. \A p \in G :
             /\ v[p] = ready <=> p \in kept
             /\ \/ v[p] = admissionProblem(cpeers, cwg[g], g, p)
                \/ v[p].reason = "AddressConflict" /\ listed[p].address # NoAddress
                \/ \E q \in G :
                      /\ v[p] = publicKeyConflict({q}) /\ cpeers[q].key = cpeers[p].key
                      /\ v[q] = ready \/ v[q].reason = "AddressConflict"
      <3> TAKE p \in G
      <3>1. p \in getWireguardPeers(cpeers, g)
        OBVIOUS
      <3> HIDE DEF G
      <3> DEFINE w == cwg[g]
      <3>2. w \in WireguardObjects /\ listed = listedPeers(cpeers, current, w, g)
            /\ kept = keptPeers(cpeers, current, w, g) /\ v = refusals(cpeers, current, w, g)
        BY <1>3, <2>1, <2>2
      <3> HIDE DEF w
      <3>3. RefusalSound(cpeers, w, g, listed, kept, v, p)
        BY <1>3, <3>1, <3>2, RefusalFacts
      <3> QED
        BY <3>3, Zenon DEF G, w, RefusalSound
    <2> QED
      BY <2>2, <2>3, Zenon
  <1> HIDE DEF listed, kept, current, keyed, G
  <1>8. ASSUME ~Touched(g)' PROVE CalmPass'
    <2>1. \A p \in G : CalmCopy(p)'
      BY <1>1, <1>2, <1>3, <1>4, <1>8, Zenon DEF CalmCopy
    <2>2. \A p \in G : CalmVerdict(p)'
      BY <1>1, <1>7, Zenon DEF CalmVerdict, G
    <2>3. \A p \in G : CalmProgress(p)'
      BY <1>1, Zenon DEF CalmProgress
    <2>4. \A a \in used' : a \in deriveReservedIPs(pool') \/ \E q \in G : verdict'[q] = ready /\ mem'[q].address = a
      BY <1>1, <1>6, <1>7, Zenon DEF GetUsedIPs
    <2>5. /\ \A p \in refuse' : p \in G /\ verdict'[p] # ready
          /\ \A p \in keep' \union admitted' : p \in G /\ verdict'[p] = ready
      <3>1. admitted' = {}
        BY <1>1 DEF QInv, RestInv
      <3> QED
        BY <1>1, <1>6, <1>7, <3>1, Zenon
    <2>6. admitted' = {}
      BY <1>1 DEF QInv, RestInv
    <2>7. CalmPeers'
      BY <1>1, <2>2, <2>3, <2>4, <2>5, <2>6, Zenon DEF CalmPeers, G
    <2> QED
      BY <1>1, <2>1, <2>7 DEF CalmPass, G
  <1>9. ~Touched(gw)' => ~Touched(g)'
    BY <1>1 DEF Touched
  <1> QED
    BY <1>1, <1>2, <1>5, <1>8, <1>9 DEF RestInv

\* A pass's writes to peers.
WritesOnlyPeers ==
    CacheKept /\ UNCHANGED <<secret, staleSecrets, queue, gw, pc, pool, verdict, serverKey, outdated>>

\* A status write of a calm pass is never refused, so it touches the gateway: one that is still
\* calm afterwards made none.
LEMMA WriteRest ==
    ASSUME QInv, pc # "idle", WritesOnlyPeers, NEW p \in Peers, NEW obj, StatusUpdate(p, obj),
           obj.address # NoAddress => obj.status = ready
    PROVE  /\ CachesCurrent' /\ Holding(peers') /\ Holding(cpeers')
           /\ \A g \in Gateways : Touched(g)' \/ (pc' # "idle" /\ gw' = g) \/ AtRest(g)'
           /\ Touched(gw)' \/ CalmPass
           /\ CalmPass /\ p \in getWireguardPeers(cpeers, gw) => Touched(gw)'
  <1>1. /\ UNCHANGED <<wg, secret, cwg, cpeers, csecret, staleWgs, staleSecrets, queue, gw, pc>>
        /\ gw \in Gateways
    BY DEF WritesOnlyPeers, CacheKept, QInv, TypeOK
  <1>2. \/ p \in outdated /\ UNCHANGED <<peers, stalePeers>>
        \/ /\ peers' = [peers EXCEPT ![p] = obj]
           /\ stalePeers' = stalePeers \union {p}
    BY DEF StatusUpdate
  <1>3. CachesCurrent' /\ Holding(peers') /\ Holding(cpeers')
    BY <1>1, <1>2 DEF QInv, TypeOK, RestInv, CachesCurrent, Holding
  <1>4. stalePeers \subseteq stalePeers'
    BY <1>2
  <1>5. \A g \in Gateways : g # gw => Touched(g)' \/ AtRest(g)'
    BY <1>1, <1>4, OthersRest DEF CacheKept
  <1>6. Touched(gw) => Touched(gw)'
    BY <1>1, <1>4 DEF Touched
  <1>7. Touched(gw)' \/ CalmPass
    BY <1>6 DEF QInv, RestInv
  <1>8. CalmPass /\ p \in getWireguardPeers(cpeers, gw) => Touched(gw)'
    BY <1>1, <1>2, Zenon DEF CalmPass, CalmCopy, Touched
  <1> QED
    BY <1>1, <1>3, <1>5, <1>7, <1>8

LEMMA NoWriteRest ==
    ASSUME QInv, pc # "idle", WritesOnlyPeers, UNCHANGED <<peers, stalePeers>>
    PROVE  /\ CachesCurrent' /\ Holding(peers') /\ Holding(cpeers')
           /\ \A g \in Gateways : Touched(g)' \/ (pc' # "idle" /\ gw' = g) \/ AtRest(g)'
           /\ Touched(gw)' \/ CalmPass
  <1>1. /\ UNCHANGED <<wg, secret, cwg, cpeers, csecret, staleWgs, staleSecrets, queue, gw, pc>>
        /\ gw \in Gateways
    BY DEF WritesOnlyPeers, CacheKept, QInv, TypeOK
  <1>2. CachesCurrent' /\ Holding(peers') /\ Holding(cpeers')
    BY <1>1, Zenon DEF QInv, RestInv, CachesCurrent
  <1>3. \A g \in Gateways : g # gw => Touched(g)' \/ AtRest(g)'
    BY <1>1, OthersRest DEF CacheKept
  <1>4. Touched(gw) => Touched(gw)'
    BY <1>1 DEF Touched
  <1> QED
    BY <1>1, <1>2, <1>3, <1>4 DEF QInv, RestInv

\* A refusal is on record already, or is written and so touches the gateway.
LEMMA MarkRest ==
    ASSUME QInv, pc # "idle", WritesOnlyPeers, NEW p \in Peers, NEW status, markPeerNotReady(p, status)
    PROVE  /\ CachesCurrent' /\ Holding(peers') /\ Holding(cpeers')
           /\ \A g \in Gateways : Touched(g)' \/ (pc' # "idle" /\ gw' = g) \/ AtRest(g)'
           /\ Touched(gw)' \/ CalmPass
           /\ CalmPass /\ p \in getWireguardPeers(cpeers, gw)
                => Touched(gw)' \/ peerStatusMatches(mem[p], status)
  <1> DEFINE obj == [mem[p] EXCEPT !.status = status, !.address = NoAddress,
                                   !.identity = NoServer, !.observed = TRUE]
  <1>1. CASE peerStatusMatches(mem[p], status)
    BY <1>1, NoWriteRest DEF markPeerNotReady
  <1>2. CASE ~peerStatusMatches(mem[p], status)
    <2>1. StatusUpdate(p, obj)
      BY <1>2 DEF markPeerNotReady
    <2>2. obj.address = NoAddress
      BY DEF QInv, TypeOK, PeerObjects
    <2> HIDE DEF obj
    <2> QED
      BY <2>1, <2>2, WriteRest
  <1> QED
    BY <1>1, <1>2

\* One lemma per step of the pass.
LEMMA RefuseRest == ASSUME QInv, NEW p \in Peers, refusePeer(p) PROVE RestInv'
  <1>1. /\ pc \in {"peers", "orphans"} /\ p \in refuse /\ refuse' = refuse \ {p} /\ WritesOnlyPeers
        /\ UNCHANGED <<mem, used, keep, admitted>> /\ markPeerNotReady(p, verdict[p])
    BY DEF refusePeer, WritesOnlyPeers, CacheKept, env
  <1>2. /\ CachesCurrent' /\ Holding(peers') /\ Holding(cpeers')
        /\ \A g \in Gateways : Touched(g)' \/ (pc' # "idle" /\ gw' = g) \/ AtRest(g)'
        /\ Touched(gw)' \/ CalmPass
        /\ CalmPass /\ p \in getWireguardPeers(cpeers, gw)
             => Touched(gw)' \/ peerStatusMatches(mem[p], verdict[p])
    BY <1>1, MarkRest
  <1>3. Holding(mem')
    BY <1>1 DEF QInv, RestInv
  <1>4. ASSUME ~Touched(gw)' PROVE CalmPass'
    <2> DEFINE G == getWireguardPeers(cpeers, gw)
    <2>1. CalmPass
      BY <1>2, <1>4
    <2>2. UNCHANGED <<cwg, cpeers, csecret, gw, pc, pool, verdict, used, outdated, mem, keep, admitted>>
      BY <1>1 DEF WritesOnlyPeers, CacheKept
    <2>3. p \in G
      BY <1>1, <2>1, Zenon DEF CalmPass, CalmOrphans, CalmPeers
    <2>4. peerStatusMatches(mem[p], verdict[p])
      BY <1>2, <1>4, <2>1, <2>3, Zenon
    <2>5. \A q \in G : CalmCopy(q)'
      BY <2>1, <2>2 DEF CalmPass, CalmCopy
    <2> HIDE DEF G
    <2>6. CASE pc = "orphans"
      <3>1. CalmOrphans
        BY <2>1, <2>6 DEF CalmPass
      <3>2. CalmOrphans'
        BY <1>1, <2>2, <2>3, <2>4, <3>1 DEF CalmOrphans, G
      <3> QED
        BY <2>2, <2>5, <2>6, <3>2 DEF CalmPass, G
    <2>7. CASE pc = "peers"
      <3>1. CalmPeers
        BY <2>1, <2>7 DEF CalmPass
      <3>2. \A q \in G : CalmVerdict(q)'
        BY <2>2, <3>1, Zenon DEF CalmPeers, CalmVerdict, G
      <3>3. \A q \in G : CalmProgress(q)'
        BY <1>1, <2>2, <2>4, <3>1, Zenon DEF CalmPeers, CalmProgress, G
      <3>4. CalmPeers'
        BY <1>1, <2>2, <3>1, <3>2, <3>3, Zenon DEF CalmPeers, G
      <3> QED
        BY <2>2, <2>5, <2>7, <3>4 DEF CalmPass, G
    <2> QED
      BY <1>1, <2>6, <2>7
  <1> QED
    BY <1>1, <1>2, <1>3, <1>4, Zenon DEF RestInv, WritesOnlyPeers

LEMMA KeepRest == ASSUME QInv, NEW p \in Peers, keepPeer(p) PROVE RestInv'
  <1>1. /\ pc = "peers" /\ p \in keep /\ keep' = keep \ {p} /\ admitted' = admitted \union {p}
        /\ mem[p].address # NoAddress /\ mem[p].status = ready /\ WritesOnlyPeers
        /\ UNCHANGED <<mem, used, refuse, peers, stalePeers>>
    BY DEF keepPeer, Allocating, WritesOnlyPeers, CacheKept, env, api, cache
  <1>2. /\ CachesCurrent' /\ Holding(peers') /\ Holding(cpeers')
        /\ \A g \in Gateways : Touched(g)' \/ (pc' # "idle" /\ gw' = g) \/ AtRest(g)'
        /\ Touched(gw)' \/ CalmPass
    BY <1>1, NoWriteRest
  <1>3. Holding(mem')
    BY <1>1 DEF QInv, RestInv
  <1>4. ASSUME ~Touched(gw)' PROVE CalmPass'
    <2> DEFINE G == getWireguardPeers(cpeers, gw)
    <2>1. CalmPass
      BY <1>2, <1>4
    <2>2. UNCHANGED <<cwg, cpeers, csecret, gw, pc, pool, verdict, used, outdated, mem, refuse>>
      BY <1>1 DEF WritesOnlyPeers, CacheKept
    <2>5. \A q \in G : CalmCopy(q)'
      BY <2>1, <2>2 DEF CalmPass, CalmCopy
    <2> HIDE DEF G
    <2>6. CalmPeers
      BY <1>1, <2>1 DEF CalmPass
    <2>7. \A q \in G : CalmVerdict(q)'
      BY <2>2, <2>6, Zenon DEF CalmPeers, CalmVerdict, G
    <2>8. \A q \in G : CalmProgress(q)'
      BY <1>1, <2>2, <2>6, Zenon DEF CalmPeers, CalmProgress, G
    <2>9. CalmPeers'
      BY <1>1, <2>2, <2>6, <2>7, <2>8, Zenon DEF CalmPeers, G
    <2> QED
      BY <1>1, <2>2, <2>5, <2>9 DEF CalmPass, G
  <1> QED
    BY <1>1, <1>2, <1>3, <1>4 DEF RestInv, WritesOnlyPeers

LEMMA ExhaustRest == ASSUME QInv, NEW p \in Peers, exhaustPeer(p) PROVE RestInv'
  <1>1. /\ pc = "peers" /\ p \in keep /\ keep' = keep \ {p} /\ AllocateIP(pool, used) = {}
        /\ markPeerNotReady(p, addressPoolExhausted) /\ WritesOnlyPeers
        /\ UNCHANGED <<mem, used, refuse, admitted>>
    BY DEF exhaustPeer, Allocating, WritesOnlyPeers, CacheKept, env
  <1>2. /\ CachesCurrent' /\ Holding(peers') /\ Holding(cpeers')
        /\ \A g \in Gateways : Touched(g)' \/ (pc' # "idle" /\ gw' = g) \/ AtRest(g)'
        /\ Touched(gw)' \/ CalmPass
        /\ CalmPass /\ p \in getWireguardPeers(cpeers, gw)
             => Touched(gw)' \/ peerStatusMatches(mem[p], addressPoolExhausted)
    BY <1>1, MarkRest
  <1>3. Holding(mem')
    BY <1>1 DEF QInv, RestInv
  <1>4. ASSUME ~Touched(gw)' PROVE CalmPass'
    <2> DEFINE G == getWireguardPeers(cpeers, gw)
    <2>1. CalmPass
      BY <1>2, <1>4
    <2>2. UNCHANGED <<cwg, cpeers, csecret, gw, pc, pool, verdict, used, outdated, mem, refuse, admitted>>
      BY <1>1 DEF WritesOnlyPeers, CacheKept
    <2>3. CalmPeers
      BY <1>1, <2>1 DEF CalmPass
    <2>4. p \in G /\ verdict[p] = ready
      BY <1>1, <2>3, Zenon DEF CalmPeers
    <2>5. \A q \in G : CalmCopy(q)'
      BY <2>1, <2>2 DEF CalmPass, CalmCopy
    <2>6. peerStatusMatches(mem[p], addressPoolExhausted)
      BY <1>2, <1>4, <2>1, <2>4, Zenon
    <2> HIDE DEF G
    <2>7. addresses(pool) \subseteq used
      BY <1>1, AllocateFull DEF QInv, TypeOK
    <2>8. \A q \in G : CalmVerdict(q)'
      BY <2>2, <2>3, Zenon DEF CalmPeers, CalmVerdict, G
    <2>9. \A q \in G : CalmProgress(q)'
      BY <1>1, <2>2, <2>3, <2>4, <2>6, <2>7, Zenon DEF CalmPeers, CalmProgress, G
    <2>10. CalmPeers'
      BY <1>1, <2>2, <2>3, <2>8, <2>9, Zenon DEF CalmPeers, G
    <2> QED
      BY <1>1, <2>2, <2>5, <2>10 DEF CalmPass, G
  <1> QED
    BY <1>1, <1>2, <1>3, <1>4 DEF RestInv, WritesOnlyPeers

LEMMA ServeRest == ASSUME QInv, NEW p \in Peers, servePeer(p) PROVE RestInv'
  <1> DEFINE isNew == mem[p].address = NoAddress
             obj(ip) == [mem[p] EXCEPT !.address = ip, !.status = ready, !.observed = TRUE]
  <1>1. /\ pc = "peers" /\ p \in keep /\ WritesOnlyPeers
    BY DEF servePeer, Allocating, WritesOnlyPeers, CacheKept, env
  <1>2. PICK ip \in IF isNew THEN AllocateIP(pool, used) ELSE {mem[p].address} :
            StatusUpdate(p, obj(ip)) /\ mem' = [mem EXCEPT ![p] = obj(ip)]
    BY Zenon DEF servePeer
  <1>3. obj(ip).status = ready
    BY DEF QInv, TypeOK, PeerObjects
  <1>4. Holding(mem')
    BY <1>2, <1>3 DEF QInv, TypeOK, RestInv, Holding
  <1> HIDE DEF obj
  <1>5. /\ CachesCurrent' /\ Holding(peers') /\ Holding(cpeers')
        /\ \A g \in Gateways : Touched(g)' \/ (pc' # "idle" /\ gw' = g) \/ AtRest(g)'
        /\ Touched(gw)' \/ CalmPass
        /\ CalmPass /\ p \in getWireguardPeers(cpeers, gw) => Touched(gw)'
    BY <1>1, <1>2, <1>3, WriteRest
  <1>6. CalmPass => p \in getWireguardPeers(cpeers, gw)
    BY <1>1, Zenon DEF CalmPass, CalmPeers
  <1> QED
    BY <1>1, <1>4, <1>5, <1>6 DEF RestInv, WritesOnlyPeers

LEMMA IdentityRest == ASSUME QInv, NEW p \in Peers, syncPeerIdentity(p) PROVE RestInv'
  <1> DEFINE obj == [mem[p] EXCEPT !.identity = serverKey]
  <1>1. /\ pc = "identity" /\ p \in admitted /\ admitted' = admitted \ {p} /\ WritesOnlyPeers
        /\ UNCHANGED <<mem, refuse, keep, used>>
    BY DEF syncPeerIdentity, WritesOnlyPeers, CacheKept, env
  <1>2. obj.address = mem[p].address /\ obj.status = mem[p].status
    BY DEF QInv, TypeOK, PeerObjects
  <1>3. obj.address # NoAddress => obj.status = ready
    BY <1>2 DEF QInv, RestInv, Holding
  <1>4. Holding(mem')
    BY <1>1 DEF QInv, RestInv
  <1>5. \/ mem[p].identity = serverKey /\ UNCHANGED <<peers, stalePeers>>
        \/ StatusUpdate(p, obj)
    BY DEF syncPeerIdentity
  <1> HIDE DEF obj
  <1>6. /\ CachesCurrent' /\ Holding(peers') /\ Holding(cpeers')
        /\ \A g \in Gateways : Touched(g)' \/ (pc' # "idle" /\ gw' = g) \/ AtRest(g)'
        /\ Touched(gw)' \/ CalmPass
        /\ CalmPass /\ p \in getWireguardPeers(cpeers, gw) => Touched(gw)' \/ mem[p].identity = serverKey
    BY <1>1, <1>3, <1>5, WriteRest, NoWriteRest
  <1>7. ASSUME ~Touched(gw)' PROVE CalmPass'
    <2> DEFINE G == getWireguardPeers(cpeers, gw)
    <2>1. CalmPass /\ CalmIdentity
      BY <1>1, <1>6, <1>7 DEF CalmPass
    <2>2. UNCHANGED <<cwg, cpeers, csecret, gw, pc, serverKey, outdated, mem>>
      BY <1>1 DEF WritesOnlyPeers, CacheKept
    <2>3. p \in G
      BY <1>1, <2>1, Zenon DEF CalmIdentity
    <2>4. mem[p].identity = serverKey
      BY <1>6, <1>7, <2>1, <2>3
    <2>5. cpeers[p].identity = csecret[gw].key
      BY <2>1, <2>3, <2>4, Zenon DEF CalmPass, CalmCopy, CalmIdentity
    <2>6. \A q \in G : CalmCopy(q)'
      BY <2>1, <2>2, Zenon DEF CalmPass, CalmCopy
    <2>7. \A q \in G : StatusRest(gw, q)'
      BY <2>1, <2>2, Zenon DEF CalmIdentity, StatusRest
    <2>8. \A q \in G : q \in admitted' \/ Introduced(csecret[gw], cpeers, q)
      BY <1>1, <2>1, <2>5, Zenon DEF CalmIdentity, Introduced
    <2> HIDE DEF G
    <2>9. CalmIdentity'
      BY <1>1, <2>1, <2>2, <2>7, <2>8, Zenon DEF CalmIdentity, G
    <2> QED
      BY <1>1, <2>2, <2>6, <2>9 DEF CalmPass, G
  <1> QED
    BY <1>1, <1>4, <1>6, <1>7 DEF RestInv, WritesOnlyPeers

\* A pass ends, with its gateway touched or at rest.
LEMMA EndRest ==
    ASSUME QInv, pc # "idle", EndPass, CacheKept, UNCHANGED <<peers, stalePeers>>,
           queue \subseteq queue', staleSecrets \subseteq staleSecrets',
           \A g \in Gateways \ staleSecrets' : secret'[g] = secret[g],
           \A g \in Gateways : g = gw => Touched(g)' \/ AtRest(g)
    PROVE  RestInv'
  <1>1. gw \in Gateways /\ pc' = "idle" /\ mem' = Nobody /\ admitted' = {}
    BY DEF EndPass, QInv, TypeOK
  <1>2. CachesCurrent' /\ Holding(peers') /\ Holding(cpeers') /\ Holding(mem')
    BY <1>1, HoldingEmpty DEF QInv, RestInv, CachesCurrent, CacheKept
  <1>3. \A h \in Gateways : h # gw => Touched(h)' \/ AtRest(h)'
    BY <1>1, OthersRest, Zenon
  <1>4. \A h \in Gateways : AtRest(h) => AtRest(h)'
    BY LocalRest, Zenon DEF SameView, CacheKept
  <1>5. \A h \in Gateways : Touched(h)' \/ AtRest(h)'
    BY <1>3, <1>4
  <1> QED
    BY <1>1, <1>2, <1>5, Zenon DEF RestInv

LEMMA OrphansEnd == ASSUME QInv, orphansDone PROVE RestInv'
  <1>1. /\ pc = "orphans" /\ refuse = {} /\ EndPass /\ CacheKept
        /\ UNCHANGED <<peers, secret, stalePeers, staleSecrets, queue>>
    BY DEF orphansDone, CacheKept, api, cache
  <1>2. \A g \in Gateways : Touched(g) => Touched(g)'
    BY <1>1 DEF Touched, CacheKept
  <1>3. CalmPass => AtRest(gw)
    BY <1>1, Zenon DEF CalmPass, CalmOrphans, AtRest, StatusRest, Serving, peerStatusMatches, HoldsNothing
  <1>4. \A g \in Gateways : g = gw => Touched(g)' \/ AtRest(g)
    BY <1>1, <1>2, <1>3 DEF QInv, RestInv
  <1> QED
    BY <1>1, <1>4, EndRest

LEMMA PassEnd == ASSUME QInv, passDone PROVE RestInv'
  <1>1. /\ pc = "identity" /\ admitted = {} /\ EndPass /\ CacheKept
        /\ UNCHANGED <<peers, secret, stalePeers, staleSecrets, queue>>
    BY DEF passDone, CacheKept, api, cache
  <1>2. \A g \in Gateways : Touched(g) => Touched(g)'
    BY <1>1 DEF Touched, CacheKept
  <1>3. CalmPass => AtRest(gw)
    BY <1>1, Zenon DEF CalmPass, CalmIdentity, AtRest
  <1>4. \A g \in Gateways : g = gw => Touched(g)' \/ AtRest(g)
    BY <1>1, <1>2, <1>3 DEF QInv, RestInv
  <1> QED
    BY <1>1, <1>4, EndRest

LEMMA CreateRest == ASSUME QInv, createSecret PROVE RestInv'
  <1>1. /\ pc = "peers" /\ EndPass /\ CacheKept /\ gw \in Gateways
        /\ UNCHANGED <<peers, stalePeers>>
        /\ \/ queue' = queue \union {gw} /\ UNCHANGED <<secret, staleSecrets>>
           \/ /\ queue' = queue /\ staleSecrets' = staleSecrets \union {gw}
              /\ \E d : secret' = [secret EXCEPT ![gw] = d]
    BY DEF createSecret, PeersDone, CacheKept, SecretWrite, QInv, TypeOK
  <1>2. \A g \in Gateways \ staleSecrets' : secret'[g] = secret[g]
    BY <1>1 DEF QInv, TypeOK
  <1>3. \A g \in Gateways : g = gw => Touched(g)'
    BY <1>1 DEF Touched
  <1> QED
    BY <1>1, <1>2, <1>3, EndRest

\* The statuses are told apart by their reasons.
LEMMA StatusesDiffer ==
    /\ ready.reason = "Ready" /\ addressPoolExhausted.reason = "AddressPoolExhausted"
    /\ \A H : publicKeyConflict(H) = [reason |-> "PublicKeyConflict", holder |-> H]
    /\ \A H : publicKeyConflict(H).reason = "PublicKeyConflict"
    /\ \A objs, w, g, p : admissionProblem(objs, w, g, p).reason
            \in {"NamespaceNotAllowed", "PublicKeyMissing", "InvalidPublicKey", "Ready"}
  <1>1. \A objs, w, g, p : admissionProblem(objs, w, g, p)
            \in {notReady("NamespaceNotAllowed"), notReady("PublicKeyMissing"), notReady("InvalidPublicKey"), ready}
    BY DEF admissionProblem
  <1>2. \A r : notReady(r).reason = r
    BY DEF notReady
  <1>3. ready.reason = "Ready" /\ addressPoolExhausted.reason = "AddressPoolExhausted"
    BY <1>2 DEF ready, addressPoolExhausted
  <1>4. \A H : publicKeyConflict(H) = [reason |-> "PublicKeyConflict", holder |-> H]
    BY Zenon DEF publicKeyConflict
  <1>5. \A H : publicKeyConflict(H).reason = "PublicKeyConflict"
    BY DEF publicKeyConflict
  <1>6. \A objs, w, g, p : admissionProblem(objs, w, g, p).reason
            \in {"NamespaceNotAllowed", "PublicKeyMissing", "InvalidPublicKey", "Ready"}
    BY <1>1, <1>2, <1>3
  <1> QED
    BY <1>3, <1>4, <1>5, <1>6, Zenon

\* A pass that is calm once every peer is dealt with found every peer as it wants it.
LEMMA PeersCalmDone ==
    ASSUME QInv, pc = "peers", CalmPass, refuse = {}, keep = {}
    PROVE  \A p \in getWireguardPeers(cpeers, gw) :
             /\ p \in admitted <=> cpeers[p].status = ready
             /\ StatusRest(gw, p)
  <1> DEFINE G == getWireguardPeers(cpeers, gw)
             Done(p) == p \notin admitted /\ verdict[p] # ready /\ peerStatusMatches(mem[p], verdict[p])
             Full(p) == /\ p \notin admitted /\ verdict[p] = ready
                        /\ peerStatusMatches(mem[p], addressPoolExhausted) /\ addresses(pool) \subseteq used
             Here(p) == p \in admitted /\ verdict[p] = ready /\ mem[p].status = ready /\ mem[p].address # NoAddress
  <1>1. CalmPeers /\ G \subseteq Peers
    BY DEF CalmPass, getWireguardPeers
  <1>2. \A p \in G : CalmCopy(p) /\ CalmVerdict(p) /\ CalmProgress(p)
    BY <1>1, Zenon DEF CalmPass, CalmPeers
  <1>3. \A p \in G : Done(p) \/ Full(p) \/ Here(p)
    BY <1>1, <1>2, StatusesDiffer, Zenon DEF CalmPeers, CalmProgress, peerStatusMatches
  <1>4. \A p \in G : mem[p].status = cpeers[p].status /\ mem[p].identity = cpeers[p].identity
            /\ mem[p].observed = cpeers[p].observed /\ mem[p].address \in {cpeers[p].address, NoAddress}
            /\ mem[p].key = cpeers[p].key
    BY <1>2, Zenon DEF CalmCopy
  <1>5. \A p \in G : Here(p) => cpeers[p].status = ready /\ cpeers[p].address = mem[p].address
    BY <1>4, Zenon
  <1>6. \A p \in G : cpeers[p].status # ready => cpeers[p].address = NoAddress
    BY <1>1 DEF QInv, RestInv, Holding
  <1>7. \A p \in G : Full(p) => cpeers[p].status = addressPoolExhausted /\ HoldsNothing(cpeers[p])
    BY <1>4, <1>6, StatusesDiffer, ZenonT(30) DEF peerStatusMatches, HoldsNothing
  <1>8. \A p \in G : Done(p) => cpeers[p].status = verdict[p] /\ HoldsNothing(cpeers[p]) /\ mem[p].address = NoAddress
    BY <1>4, <1>6, Zenon DEF peerStatusMatches, HoldsNothing
  <1>9. ready # addressPoolExhausted
    BY StatusesDiffer
  <1>10. Serving(cwg[gw]) /\ pool = cwg[gw].pool
         /\ \A a \in used : a \in deriveReservedIPs(pool) \/ \E q \in G : verdict[q] = ready /\ mem[q].address = a
    BY <1>1, Zenon DEF CalmPeers
  <1> HIDE DEF G
  <1>11. \A p \in G : p \in admitted <=> cpeers[p].status = ready
    BY <1>3, <1>5, <1>7, <1>8, <1>9, Zenon
  <1>12. \A p \in G : cpeers[p].status = ready \/ HoldsNothing(cpeers[p])
    BY <1>3, <1>5, <1>7, <1>8, Zenon
  <1>13. ASSUME NEW p \in G PROVE Truthful(cwg[gw], cpeers, gw, p)
    <2> DEFINE status == cpeers[p].status
    <2>1. ASSUME Full(p)
          PROVE  /\ status.reason = "AddressPoolExhausted"
                 /\ \A a \in addresses(pool) : addressUsable(a, pool)
                        => \E q \in G : cpeers[q].status = ready /\ cpeers[q].address = a
      <3>1. status.reason = "AddressPoolExhausted"
        BY <1>7, <2>1, StatusesDiffer
      <3> SUFFICES ASSUME NEW a \in addresses(pool), addressUsable(a, pool)
                   PROVE  \E q \in G : cpeers[q].status = ready /\ cpeers[q].address = a
        BY <3>1
      <3>2. a # NoAddress
        BY PoolsAssumption DEF QInv, TypeOK, addresses, NoAddress
      <3>3. PICK q \in G : verdict[q] = ready /\ mem[q].address = a
        BY <1>10, <2>1, Zenon DEF addressUsable
      <3>4. Here(q)
        BY <1>3, <3>2, <3>3, Zenon DEF peerStatusMatches
      <3> QED
        BY <1>5, <3>3, <3>4
    <2>2. ASSUME Here(p) PROVE status = ready /\ admissionProblem(cpeers, cwg[gw], gw, p) = ready
      <3>1. status = ready /\ verdict[p] = ready
        BY <1>5, <2>2
      <3>2. CalmVerdict(p)
        BY <1>2 DEF G
      <3>3. ready.reason = "Ready" /\ \A H : publicKeyConflict(H).reason = "PublicKeyConflict"
        BY StatusesDiffer
      <3> QED
        BY <3>1, <3>2, <3>3, Zenon DEF CalmVerdict
    <2>3. ASSUME Done(p)
          PROVE  \/ status = admissionProblem(cpeers, cwg[gw], gw, p)
                 \/ \E q \in G : /\ status = publicKeyConflict({q}) /\ cpeers[q].key = cpeers[p].key
                                 /\ cpeers[q].status \in {ready, addressPoolExhausted}
      <3>1. CalmVerdict(p)
        BY <1>2 DEF G
      <3>2. status = verdict[p] /\ mem[p].address = NoAddress
        BY <1>8, <2>3, Zenon
      <3>3. CASE status # admissionProblem(cpeers, cwg[gw], gw, p)
        <4>1. PICK q \in G : /\ verdict[p] = publicKeyConflict({q}) /\ cpeers[q].key = cpeers[p].key
                             /\ verdict[q] = ready \/ verdict[q].reason = "AddressConflict"
          BY <3>1, <3>2, <3>3, Zenon DEF CalmVerdict, G
        <4>2. CASE verdict[q] = ready
          BY <1>3, <1>5, <1>7, <3>2, <4>1, <4>2, Zenon
        <4>3. CASE verdict[q].reason = "AddressConflict" /\ verdict[q] # ready
          <5>1. Done(q)
            BY <1>3, <4>3
          <5>2. CalmVerdict(q) /\ mem[q].address = NoAddress
            BY <1>2, <1>8, <5>1 DEF G
          <5>3. /\ admissionProblem(cpeers, cwg[gw], gw, q).reason # "AddressConflict"
                /\ \A H : publicKeyConflict(H).reason = "PublicKeyConflict"
            BY StatusesDiffer
          <5>4. FALSE
            BY <4>3, <5>2, <5>3, Zenon DEF CalmVerdict
          <5> QED
            BY <5>4
        <4> QED
          BY <4>1, <4>2, <4>3, Zenon
      <3> QED
        BY <3>3, Zenon
    <2> DEFINE having(S) == {q \in G : cpeers[q].status \in S}
    <2>4. \/ /\ status.reason = "PublicKeyConflict"
             /\ \E q \in having({ready, addressPoolExhausted}) :
                    status.holder = {q} /\ cpeers[q].key = cpeers[p].key
          \/ /\ status.reason = "AddressPoolExhausted"
             /\ \A a \in addresses(pool) :
                    addressUsable(a, pool) => \E q \in having({ready}) : cpeers[q].address = a
          \/ /\ status = admissionProblem(cpeers, cwg[gw], gw, p)
             /\ status.reason \notin {"PublicKeyConflict", "AddressPoolExhausted"}
      <3>1. CASE Full(p)
        BY <2>1, <3>1, Zenon
      <3>2. CASE Here(p)
        BY <2>2, <3>2, StatusesDiffer, Zenon
      <3>3. CASE Done(p) /\ status = admissionProblem(cpeers, cwg[gw], gw, p)
        <4>1. admissionProblem(cpeers, cwg[gw], gw, p).reason \notin {"PublicKeyConflict", "AddressPoolExhausted"}
          BY StatusesDiffer
        <4> HIDE DEF status, having
        <4> QED
          BY <3>3, <4>1, Zenon
      <3>4. ASSUME NEW q \in G, status = publicKeyConflict({q}), cpeers[q].key = cpeers[p].key,
                   cpeers[q].status \in {ready, addressPoolExhausted}
            PROVE  /\ status.reason = "PublicKeyConflict"
                   /\ \E r \in having({ready, addressPoolExhausted}) :
                        status.holder = {r} /\ cpeers[r].key = cpeers[p].key
        <4>1. status = [reason |-> "PublicKeyConflict", holder |-> {q}]
          BY <3>4, StatusesDiffer
        <4>2. status.reason = "PublicKeyConflict" /\ status.holder = {q}
          BY <4>1
        <4>3. q \in having({ready, addressPoolExhausted})
          BY <3>4
        <4> HIDE DEF status, having
        <4> QED
          BY <3>4, <4>2, <4>3, Zenon
      <3> QED
        BY <1>3, <2>3, <3>1, <3>2, <3>3, <3>4, Zenon
    <2>5. having({ready}) = {q \in getWireguardPeers(cpeers, gw) : cpeers[q].status \in {ready}}
          /\ having({ready, addressPoolExhausted})
                = {q \in getWireguardPeers(cpeers, gw) : cpeers[q].status \in {ready, addressPoolExhausted}}
      BY DEF G
    <2> HIDE DEF having
    <2> QED
      BY <1>10, <2>4, <2>5, Zenon DEF Truthful
  <1> QED
    BY <1>10, <1>11, <1>12, <1>13, Zenon DEF StatusRest, Serving, G

\* The Secret is overwritten, which touches the gateway, or already lists the admitted peers.
LEMMA UpdateRest == ASSUME QInv, updateSecret PROVE RestInv'
  <1> DEFINE cached == csecret[gw]
             desired == desiredState(cached.key)
  <1>1. /\ PeersDone /\ cached.live /\ CacheKept /\ UNCHANGED <<peers, stalePeers>> /\ gw \in Gateways
    BY DEF updateSecret, CacheKept, QInv, TypeOK
  <1>2. CASE EndPass /\ queue' = queue \union {gw} /\ UNCHANGED <<secret, staleSecrets>>
    <2>1. \A g \in Gateways : g = gw => Touched(g)'
      BY <1>2 DEF Touched
    <2> QED
      BY <1>1, <1>2, <2>1, EndRest, Zenon DEF PeersDone
  <1>3. CASE /\ IF desired # cached THEN SecretWrite(desired) ELSE UNCHANGED <<secret, staleSecrets>>
             /\ pc' = "identity" /\ serverKey' = cached.key
             /\ UNCHANGED <<queue, gw, pool, mem, outdated, verdict, refuse, keep, admitted, used>>
    <2>1. CachesCurrent' /\ Holding(peers') /\ Holding(cpeers') /\ Holding(mem')
      BY <1>1, <1>3, Zenon DEF QInv, TypeOK, RestInv, CachesCurrent, CacheKept, SecretWrite
    <2>2. \A g \in Gateways : g # gw => Touched(g)' \/ AtRest(g)'
      BY <1>1, <1>3, OthersRest DEF SecretWrite
    <2>3. ASSUME ~Touched(gw)' PROVE CalmPass'
      <3>1. desired = cached /\ staleSecrets' = staleSecrets
        BY <1>3, <2>3 DEF Touched, SecretWrite
      <3>2. ~Touched(gw)
        BY <1>1, <1>3, <2>3, <3>1 DEF Touched, CacheKept
      <3>3. CalmPass /\ CalmPeers /\ pc = "peers" /\ refuse = {} /\ keep = {}
        BY <1>1, <3>2 DEF QInv, RestInv, CalmPass, PeersDone
      <3> DEFINE G == getWireguardPeers(cpeers, gw)
      <3>4. \A p \in G : (p \in admitted <=> cpeers[p].status = ready) /\ StatusRest(gw, p)
        BY <3>3, PeersCalmDone
      <3>5. UNCHANGED <<cwg, cpeers, csecret, gw, outdated, mem, admitted>>
        BY <1>1, <1>3 DEF CacheKept
      <3>6. \A p \in G : CalmCopy(p)'
        BY <3>3, <3>5, Zenon DEF CalmPass, CalmCopy
      <3>7. /\ Serving(cwg[gw]) /\ pool = cwg[gw].pool
            /\ \A p \in admitted : p \in G /\ mem[p].address # NoAddress
        BY <3>3, Zenon DEF CalmPeers
      <3>8. \A p \in admitted : mem[p].key = cpeers[p].key /\ mem[p].address = cpeers[p].address
        BY <3>3, <3>7, Zenon DEF CalmPass, CalmCopy
      <3>9. \A p \in Peers : p \in admitted <=> p \in G /\ cpeers[p].status = ready
        BY <3>4, <3>7
      <3> HIDE DEF G
      <3>10. ListsReady(cwg[gw], csecret[gw], cpeers, gw)
        <4>1. /\ desired.live /\ desired.pool = pool
              /\ \A p \in Peers : desired.served[p] = IF p \in admitted
                    THEN [key |-> mem[p].key, address |-> mem[p].address] ELSE NoEntry
          BY DEF desiredState
        <4> HIDE DEF desired
        <4>2. \A p \in Peers : desired.served[p] = IF p \in G /\ cpeers[p].status = ready
                    THEN [key |-> cpeers[p].key, address |-> cpeers[p].address] ELSE NoEntry
          BY <3>8, <3>9, <4>1, Zenon
        <4> QED
          BY <3>1, <3>7, <4>1, <4>2, Zenon DEF ListsReady, G
      <3>11. \A p \in G : StatusRest(gw, p)'
        BY <3>4, <3>5 DEF StatusRest
      <3>12. CalmIdentity'
        BY <1>3, <3>4, <3>5, <3>7, <3>9, <3>10, <3>11, Zenon DEF CalmIdentity, Introduced, G
      <3> QED
        BY <1>3, <3>5, <3>6, <3>12 DEF CalmPass, G
    <2> QED
      BY <1>1, <1>3, <2>1, <2>2, <2>3 DEF RestInv
  <1> QED
    BY <1>2, <1>3, Zenon DEF updateSecret

\* Every step of a pass.
LEMMA PassRest == ASSUME QInv, Pass PROVE RestInv'
  BY OrphansStart, RejectRest, ReconcileStart, RefuseRest, KeepRest, ServeRest, ExhaustRest,
     IdentityRest, OrphansEnd, PassEnd, UpdateRest, CreateRest DEF Pass

\* Initially every gateway is queued.
LEMMA RestInit == Init => QInv
  <1> SUFFICES ASSUME Init PROVE QInv
    OBVIOUS
  <1>1. TypeOK
    BY InitType
  <1>2. /\ cwg = wg /\ cpeers = peers /\ csecret = secret /\ queue = Gateways
        /\ pc = "idle" /\ admitted = {} /\ mem = Nobody
    BY DEF Init, NoPass
  <1>3. \A p \in Peers : peers[p].address = NoAddress
    <2> DEFINE Start == {AbsentPeer} \union {NewPeer(0, g, k) : g \in Gateways, k \in SpecKeys}
    <2>1. \A obj \in Start : obj.address = NoAddress
      <3>1. AbsentPeer.address = NoAddress
        BY DEF AbsentPeer
      <3>2. \A g \in Gateways, k \in SpecKeys : NewPeer(0, g, k).address = NoAddress
        BY <3>1, AbsentTypes DEF NewPeer, PeerObjects
      <3> QED
        BY <3>1, <3>2
    <2>2. peers \in [Peers -> Start]
      BY InitialPeersAssumption DEF Init
    <2> HIDE DEF Start
    <2> QED
      BY <2>1, <2>2
  <1>4. Holding(peers) /\ Holding(cpeers) /\ Holding(mem)
    BY <1>2, <1>3, HoldingEmpty DEF Holding
  <1>5. CachesCurrent
    BY <1>2, Zenon DEF CachesCurrent
  <1>6. \A g \in Gateways : Touched(g)
    BY <1>2 DEF Touched
  <1> QED
    BY <1>1, <1>2, <1>4, <1>5, <1>6 DEF QInv, RestInv

LEMMA RestInductive == QInv /\ [Next]_vars => QInv'
  <1> SUFFICES ASSUME QInv, [Next]_vars PROVE QInv'
    OBVIOUS
  <1>1. TypeOK'
    BY UserType, FailureType, SyncType, PassType, Zenon DEF QInv, Next, vars, api, cache, pass, env, TypeOK
  <1>2. CASE UNCHANGED vars
    <2>1. PassKept /\ UNCHANGED <<wg, peers, secret, cwg, cpeers, csecret, staleWgs, stalePeers,
                                  staleSecrets, queue, outdated>>
      BY <1>2 DEF vars, api, cache, pass, PassKept
    <2>2. \A g \in Gateways : ~Touched(g)' => Quiet(g)
      BY <2>1, Zenon DEF Touched, Quiet, SameView
    <2>3. CachesCurrent' /\ Holding(peers') /\ Holding(cpeers') /\ Holding(mem')
      BY <2>1 DEF QInv, RestInv, CachesCurrent, PassKept
    <2> QED
      BY <1>1, <2>1, <2>2, <2>3, AsideRest DEF QInv, RestInv
  <1> QED
    BY <1>1, <1>2, UserRest, FailureRest, SyncRest, PassRest DEF QInv, Next

\* When the operator rests, the caches are current and no gateway is touched.
LEMMA QuiescentRest ==
    ASSUME QInv, Quiescent
    PROVE  cwg = wg /\ cpeers = peers /\ csecret = secret /\ \A g \in Gateways : AtRest(g)
  <1>1. cwg = wg /\ cpeers = peers /\ csecret = secret
    BY DEF Quiescent, QInv, TypeOK, RestInv, CachesCurrent
  <1>2. \A g \in Gateways : ~Touched(g)
    BY DEF Quiescent, Touched
  <1> QED
    BY <1>1, <1>2 DEF Quiescent, QInv, RestInv

\* Whenever nothing is running, queued or on its way, every gateway that can be served has a Secret
\* that lists exactly its ready peers with their current keys and addresses, and they carry its
\* identity, whatever writes were skipped, refused or lost on the way (Reconcile).
THEOREM RestServed == Spec => []QuiescentServed
  <1>1. QInv => QuiescentServed
    BY QuiescentRest, Zenon DEF QuiescentServed, AtRest
  <1> QED
    BY <1>1, RestInit, RestInductive, PTL DEF Spec

\* Whenever nothing is running, queued or on its way, every recorded refusal is true of the objects
\* as they are, and a refused peer holds no address and no identity (admitPeers, releaseLosers,
\* allocatePeers, markPeersWireguardNotFound).
THEOREM RestTruthful == Spec => []QuiescentVerdicts
  <1>1. QInv => QuiescentVerdicts
    BY QuiescentRest, Zenon DEF QuiescentVerdicts, AtRest, StatusRest
  <1> QED
    BY <1>1, RestInit, RestInductive, PTL DEF Spec
================================================================================
