--------------------------- MODULE SidecarPeer_proofs ---------------------------
(***************************************************************************)
(* Proofs about SidecarPeer, for any pods, statuses, lag of the caches and *)
(* number of interferences: type correctness, and what a sidecar may       *)
(* delete.                                                                 *)
(***************************************************************************)
EXTENDS SidecarPeer, TLAPS

--------------------------------------------------------------------------------
(* Types *)

LEMMA NoPeerType == SomeUID \in UIDs /\ NoPeer \in PeerObjects
  BY PodsAssumption DEF SomeUID, NoPeer, PeerObjects

PendingType == pending \in [Pods -> Seq(PeerObjects)] /\ \A p \in Pods : Len(pending[p]) <= MaxLag

LEMMA WriteType ==
    ASSUME TypeOK, NEW obj \in PeerObjects, Write(obj)
    PROVE  peer' \in PeerObjects /\ PendingType'
  BY DEF TypeOK, Write, PendingType

LEMMA WriteNewType ==
    ASSUME TypeOK, NEW obj \in PeerObjects, WriteNew(obj)
    PROVE  peer' \in PeerObjects /\ PendingType'
  <1> DEFINE u == CHOOSE u \in FreeUIDs : TRUE
             new == [obj EXCEPT !.uid = u]
  <1>1. u \in UIDs /\ Write(new)
    BY DEF WriteNew, FreeUIDs
  <1> HIDE DEF u
  <1>2. new \in PeerObjects
    BY <1>1 DEF PeerObjects
  <1> HIDE DEF new
  <1> QED
    BY <1>1, <1>2, WriteType

LEMMA InterfereType == ASSUME TypeOK, NEW kind, Interfere(kind) PROVE changes' \in 0 .. MaxChanges
  BY BoundsAssumption DEF TypeOK, Interfere

LEMMA InitType == Init => TypeOK
  <1> SUFFICES ASSUME Init PROVE TypeOK
    OBVIOUS
  <1>1. PendingType
    BY BoundsAssumption DEF Init, PendingType
  <1> QED
    BY <1>1, NoPeerType, PodsAssumption, BoundsAssumption DEF Init, TypeOK, PendingType

LEMMA EnvironmentType == ASSUME TypeOK, Environment PROVE TypeOK'
  <1>1. ASSUME NEW status \in Tunnels \union {"waiting", "invalid"}, PublishStatus(status) PROVE TypeOK'
    <2>1. [peer EXCEPT !.status = status] \in PeerObjects
      BY DEF TypeOK, PeerObjects
    <2>2. peer' \in PeerObjects /\ PendingType'
      BY <1>1, <2>1, WriteType DEF PublishStatus, PendingType
    <2>3. changes' \in 0 .. MaxChanges
      BY <1>1, InterfereType DEF PublishStatus, TypeOK
    <2> QED
      BY <1>1, <2>2, <2>3 DEF PublishStatus, TypeOK, PendingType, process
  <1>2. CASE UserEdits
    <2>1. /\ [NoPeer EXCEPT !.live = TRUE] \in PeerObjects
          /\ [peer EXCEPT !.ref = "other"] \in PeerObjects /\ [peer EXCEPT !.ref = "restored"] \in PeerObjects
      BY NoPeerType DEF TypeOK, PeerObjects
    <2>2. peer' \in PeerObjects /\ PendingType'
      BY <1>2, <2>1, NoPeerType, WriteType, WriteNewType DEF UserEdits, PendingType
    <2> QED
      BY <1>2, <2>2, InterfereType DEF UserEdits, TypeOK, PendingType, process
  <1>3. CASE CollectGarbage
    BY <1>3, NoPeerType, WriteType DEF CollectGarbage, TypeOK, PendingType, process
  <1>4. ASSUME NEW p \in Pods, NEW q \in Pods, NEW force, ReplacePod(p, q, force) PROVE TypeOK'
    BY <1>4, InterfereType DEF ReplacePod, TypeOK, process
  <1>5. ASSUME NEW p \in Pods, StopSidecar(p) PROVE TypeOK'
    <2>1. PendingType'
      BY <1>5, BoundsAssumption DEF StopSidecar, TypeOK, PendingType
    <2> QED
      BY <1>5, <2>1 DEF StopSidecar, TypeOK, PendingType, process
  <1>6. ASSUME NEW p \in Pods, RestartContainer(p) PROVE TypeOK'
    <2>1. PendingType'
      BY <1>6, BoundsAssumption DEF RestartContainer, TypeOK, PendingType
    <2> QED
      BY <1>6, <2>1, NoPeerType, InterfereType DEF RestartContainer, TypeOK, PendingType
  <1>7. ASSUME NEW p \in Pods, WriteFails(p) PROVE TypeOK'
    BY <1>7, NoPeerType, InterfereType DEF WriteFails, Goto, TypeOK
  <1> QED
    BY <1>1, <1>2, <1>3, <1>4, <1>5, <1>6, <1>7 DEF Environment

\* A sidecar that has started has its key; one that is writing it has an empty file.
KeysWritten ==
    \A p \in Pods :
        /\ pc[p] \in {"idle", "delete", "create"} => keyfile[p] \in Keys
        /\ pc[p] = "key" => keyfile[p] = TornKey

LEMMA SidecarType == ASSUME TypeOK, KeysWritten, NEW p \in Pods, Sidecar(p) \/ SyncCache(p) PROVE TypeOK'
  <1>1. CASE SyncCache(p)
    <2>1. Head(pending[p]) \in PeerObjects /\ Tail(pending[p]) \in Seq(PeerObjects) /\ Len(Tail(pending[p])) <= MaxLag
      BY <1>1, BoundsAssumption DEF SyncCache, TypeOK
    <2>2. PendingType' /\ cache' \in [Pods -> PeerObjects]
      BY <1>1, <2>1 DEF SyncCache, TypeOK, PendingType
    <2> QED
      BY <1>1, <2>2 DEF SyncCache, TypeOK, PendingType, process
  <1>2. CASE LoadOrCreateKey(p)
    BY <1>2 DEF LoadOrCreateKey, startWatch, Goto, TypeOK
  <1>3. CASE WriteKey(p)
    BY <1>3 DEF WriteKey, startWatch, Goto, TypeOK, Keys
  <1>4. CASE step(p)
    <2>1. desiredTunnel(cache[p]) \subseteq Tunnels /\ cache[p].uid \in UIDs
      BY DEF desiredTunnel, TypeOK, PeerObjects
    <2> QED
      BY <1>4, <2>1 DEF step, Goto, TypeOK
  <1>5. CASE DeletePeer(p)
    <2>1. peer' \in PeerObjects /\ PendingType'
      BY <1>5, NoPeerType, WriteType DEF DeletePeer, TypeOK, PendingType
    <2> QED
      BY <1>5, <2>1, NoPeerType DEF DeletePeer, Goto, TypeOK, PendingType
  <1>6. CASE CreatePeer(p)
    <2>1. desiredPeer(p) \in PeerObjects
      BY <1>6, NoPeerType DEF CreatePeer, desiredPeer, PeerObjects, TypeOK, KeysWritten
    <2>2. peer' \in PeerObjects /\ PendingType'
      BY <1>6, <2>1, WriteNewType DEF CreatePeer, TypeOK, PendingType
    <2> QED
      BY <1>6, <2>2 DEF CreatePeer, Goto, TypeOK, PendingType
  <1> QED
    BY <1>1, <1>2, <1>3, <1>4, <1>5, <1>6 DEF Sidecar

\* A step leaves the pod's key file and place alone, but the sidecar's own.
LEMMA StepKeys == ASSUME TypeOK, KeysWritten, Next PROVE KeysWritten'
  <1> USE DEF KeysWritten, TypeOK
  <1>1. CASE UNCHANGED <<pc, keyfile>>
    BY <1>1
  <1>2. ASSUME NEW p \in Pods, Sidecar(p) PROVE KeysWritten'
    <2>1. CASE LoadOrCreateKey(p)
      BY <2>1 DEF LoadOrCreateKey, startWatch, Goto
    <2>2. CASE WriteKey(p)
      BY <2>2 DEF WriteKey, startWatch, Goto, Keys
    <2>3. CASE step(p)
      BY <2>3 DEF step, Goto
    <2>4. CASE DeletePeer(p)
      BY <2>4 DEF DeletePeer, Goto
    <2>5. CASE CreatePeer(p)
      BY <2>5 DEF CreatePeer, Goto
    <2> QED
      BY <1>2, <2>1, <2>2, <2>3, <2>4, <2>5 DEF Sidecar
  <1>3. ASSUME NEW p \in Pods, RestartContainer(p) \/ WriteFails(p) PROVE KeysWritten'
    BY <1>3 DEF RestartContainer, WriteFails, Goto
  <1>4. ASSUME NEW p \in Pods, SyncCache(p) \/ StopSidecar(p) PROVE UNCHANGED <<pc, keyfile>>
    BY <1>4 DEF SyncCache, StopSidecar, process
  <1>5. ASSUME NEW status, PublishStatus(status) PROVE UNCHANGED <<pc, keyfile>>
    BY <1>5 DEF PublishStatus, process
  <1>6. ASSUME NEW p, NEW q, NEW force, ReplacePod(p, q, force) PROVE UNCHANGED <<pc, keyfile>>
    BY <1>6 DEF ReplacePod, process
  <1>7. CASE UserEdits \/ CollectGarbage
    BY <1>1, <1>7 DEF UserEdits, CollectGarbage, process
  <1> QED
    BY <1>1, <1>2, <1>3, <1>4, <1>5, <1>6, <1>7 DEF Next, Environment

TypeInv == TypeOK /\ KeysWritten

LEMMA InitInv == Init => TypeInv
  BY InitType DEF Init, TypeInv, KeysWritten

LEMMA StepInv == TypeInv /\ [Next]_vars => TypeInv'
  <1> SUFFICES ASSUME TypeInv, [Next]_vars PROVE TypeInv'
    OBVIOUS
  <1>1. CASE Next
    BY <1>1, EnvironmentType, SidecarType, StepKeys DEF TypeInv, Next
  <1>2. CASE UNCHANGED vars
    BY <1>2 DEF TypeInv, TypeOK, KeysWritten, vars, process
  <1> QED
    BY <1>1, <1>2

\* Every state has the types of the model: only Tunnels that parsed are applied (desiredTunnel),
\* and only written keys are registered (LoadOrCreateKey).
THEOREM TypeCorrect == Spec => []TypeOK
  <1>1. TypeInv => TypeOK
    BY DEF TypeInv
  <1> QED
    BY <1>1, InitInv, StepInv, PTL DEF Spec

--------------------------------------------------------------------------------
(* Deletions. Of two versions with one UID, the owner is the same, and the    *)
(* reference to the Wireguard of the older was edited only if that of the     *)
(* newer was; and a peer that a Pod controls has that pod's key.              *)

VersionOK(v) ==
    v.live =>
        /\ v.owner # NoPod => keyfile[v.owner] \in Keys /\ v.key = keyfile[v.owner]
        /\ peer.live /\ v.uid = peer.uid => v.owner = peer.owner /\ (peer.ref = "own" => v.ref = "own")

\* What a delete may meet.
DeleteOK(p) ==
    pc[p] = "delete" /\ peer.live /\ peer.uid = existing[p] =>
        peer.owner # NoPod /\ ~(peer.owner = p /\ peer.ref = "own")

DeleteInv == (\A v \in Versions : VersionOK(v)) /\ \A p \in Pods : DeleteOK(p)

LEMMA WriteVersions ==
    ASSUME TypeOK, NEW obj, Write(obj), UNCHANGED cache
    PROVE  Versions' \subseteq Versions \union {obj}
  <1> SUFFICES ASSUME NEW v \in Versions' PROVE v \in Versions \union {obj}
    OBVIOUS
  <1>1. CASE v = peer'
    BY <1>1 DEF Write
  <1>2. CASE \E p \in Pods : v = cache[p]
    BY <1>2 DEF Versions
  <1>3. ASSUME NEW p \in Pods, NEW i \in DOMAIN pending'[p], v = pending'[p][i] PROVE v \in Versions \union {obj}
    <2>1. pending[p] \in Seq(PeerObjects)
      BY DEF TypeOK
    <2>2. CASE pending'[p] = pending[p]
      BY <1>3, <2>2 DEF Versions
    <2>3. CASE pending'[p] = Append(pending[p], obj)
      <3>1. v = obj \/ (i \in DOMAIN pending[p] /\ v = pending[p][i])
        BY <1>3, <2>1, <2>3
      <3> QED
        BY <3>1 DEF Versions
    <2> QED
      BY <2>2, <2>3 DEF Write
  <1> QED
    BY <1>1, <1>2, <1>3 DEF Versions

\* A new version of the peer with its UID and owner, edited or not, or none.
LEMMA RewriteSafe ==
    ASSUME TypeOK, DeleteInv, NEW obj, Write(obj), UNCHANGED <<cache, keyfile>>,
           \A p \in Pods : pc'[p] = "delete" => pc[p] = "delete" /\ existing'[p] = existing[p],
           obj.live =>
              /\ peer.live /\ obj.uid = peer.uid /\ obj.owner = peer.owner /\ obj.key = peer.key
              /\ obj.ref = "own" => peer.ref = "own"
    PROVE  DeleteInv'
  <1>1. peer' = obj /\ peer \in Versions
    BY DEF Write, Versions
  <1>2. VersionOK(obj)'
    BY <1>1 DEF VersionOK, DeleteInv
  <1>3. \A v \in Versions : VersionOK(v)'
    BY <1>1 DEF VersionOK, DeleteInv
  <1>4. Versions' \subseteq Versions \union {obj}
    BY WriteVersions
  <1>5. \A p \in Pods : DeleteOK(p)'
    BY <1>1 DEF DeleteInv, DeleteOK
  <1> QED
    BY <1>2, <1>3, <1>4, <1>5 DEF DeleteInv

\* A new peer, under a UID that nothing refers to.
LEMMA CreateSafe ==
    ASSUME TypeOK, DeleteInv, NEW obj \in PeerObjects, WriteNew(obj), UNCHANGED <<cache, keyfile, existing>>,
           obj.owner # NoPod => keyfile[obj.owner] \in Keys /\ obj.key = keyfile[obj.owner]
    PROVE  DeleteInv'
  <1>1. PICK u \in FreeUIDs : Write([obj EXCEPT !.uid = u])
    BY DEF WriteNew
  <1>2. PICK new : Write(new) /\ new.uid = u /\ new.owner = obj.owner /\ new.key = obj.key
    BY <1>1 DEF PeerObjects
  <1>3. peer' = new
    BY <1>2 DEF Write
  <1>4. VersionOK(new)'
    BY <1>2, <1>3 DEF VersionOK
  <1>5. \A v \in Versions : v.uid # u
    BY <1>1 DEF FreeUIDs
  <1>6. \A v \in Versions : VersionOK(v)'
    BY <1>2, <1>3, <1>5 DEF VersionOK, DeleteInv
  <1>7. Versions' \subseteq Versions \union {new}
    BY <1>2, WriteVersions
  <1>8. \A p \in Pods : DeleteOK(p)'
    BY <1>1, <1>2, <1>3 DEF FreeUIDs, DeleteOK
  <1> QED
    BY <1>4, <1>6, <1>7, <1>8 DEF DeleteInv

\* Fewer versions, and no new delete.
LEMMA FewerSafe ==
    ASSUME DeleteInv, UNCHANGED <<peer, keyfile>>, Versions' \subseteq Versions \union {NoPeer},
           \A p \in Pods : pc'[p] = "delete" => pc[p] = "delete" /\ existing'[p] = existing[p]
    PROVE  DeleteInv'
  <1>1. VersionOK(NoPeer)'
    BY DEF VersionOK, NoPeer
  <1> QED
    BY <1>1 DEF DeleteInv, VersionOK, DeleteOK

LEMMA EnvironmentSafe == ASSUME TypeInv, DeleteInv, Environment PROVE DeleteInv'
  <1> USE DEF TypeInv
  <1>1. ASSUME NEW status, PublishStatus(status) PROVE DeleteInv'
    <2> DEFINE new == [peer EXCEPT !.status = status]
    <2>1. new.live = peer.live /\ new.uid = peer.uid /\ new.owner = peer.owner /\ new.key = peer.key /\ new.ref = peer.ref
      BY DEF TypeOK, PeerObjects
    <2>2. Write(new) /\ peer.live /\ UNCHANGED <<cache, keyfile, pc, existing>>
      BY <1>1 DEF PublishStatus, process
    <2> HIDE DEF new
    <2> QED
      BY <2>1, <2>2, RewriteSafe
  <1>2. CASE UserEdits
    <2>1. UNCHANGED <<cache, keyfile, pc, existing>>
      BY <1>2 DEF UserEdits, process
    <2>2. CASE Write(NoPeer)
      BY <2>1, <2>2, RewriteSafe DEF NoPeer
    <2>3. CASE WriteNew([NoPeer EXCEPT !.live = TRUE])
      <3> DEFINE new == [NoPeer EXCEPT !.live = TRUE]
      <3>1. new \in PeerObjects /\ new.owner = NoPod
        BY NoPeerType DEF NoPeer, PeerObjects
      <3> HIDE DEF new
      <3>2. WriteNew(new)
        BY <2>3 DEF new
      <3> QED
        BY <2>1, <3>1, <3>2, CreateSafe
    <2>4. ASSUME NEW ref \in {"other", "restored"}, peer.live, Write([peer EXCEPT !.ref = ref]) PROVE DeleteInv'
      <3> DEFINE new == [peer EXCEPT !.ref = ref]
      <3>1. new.uid = peer.uid /\ new.owner = peer.owner /\ new.key = peer.key /\ new.ref # "own"
        BY DEF TypeOK, PeerObjects
      <3>2. Write(new)
        BY <2>4
      <3> HIDE DEF new
      <3> QED
        BY <2>1, <2>4, <3>1, <3>2, RewriteSafe
    <2> QED
      BY <1>2, <2>2, <2>3, <2>4 DEF UserEdits
  <1>3. CASE CollectGarbage
    <2>1. Write(NoPeer) /\ UNCHANGED <<cache, keyfile, pc, existing>>
      BY <1>3 DEF CollectGarbage, process
    <2> QED
      BY <2>1, RewriteSafe DEF NoPeer
  <1>4. ASSUME NEW p, NEW q, NEW force, ReplacePod(p, q, force) PROVE DeleteInv'
    BY <1>4, FewerSafe DEF ReplacePod, process, Versions
  <1>5. ASSUME NEW p \in Pods, StopSidecar(p) \/ RestartContainer(p) PROVE DeleteInv'
    <2>1. /\ UNCHANGED <<peer, keyfile>>
          /\ \A q \in Pods : pending'[q] = pending[q] \/ pending'[q] = <<>>
          /\ \A q \in Pods : cache'[q] = cache[q] \/ cache'[q] = NoPeer
          /\ \A q \in Pods : pc'[q] = "delete" => pc[q] = "delete" /\ existing'[q] = existing[q]
      BY <1>5 DEF StopSidecar, RestartContainer, process, TypeOK
    <2>2. DOMAIN <<>> = {}
      OBVIOUS
    <2>3. Versions' \subseteq Versions \union {NoPeer}
      BY <2>1, <2>2 DEF Versions
    <2> QED
      BY <2>1, <2>3, FewerSafe
  <1>6. ASSUME NEW p \in Pods, WriteFails(p) PROVE DeleteInv'
    <2>1. Versions' = Versions
      BY <1>6 DEF WriteFails, Versions
    <2> QED
      BY <1>6, <2>1, FewerSafe DEF WriteFails, Goto, TypeOK
  <1> QED
    BY <1>1, <1>2, <1>3, <1>4, <1>5, <1>6 DEF Environment

LEMMA SidecarSafe == ASSUME TypeInv, DeleteInv, NEW p \in Pods, Sidecar(p) \/ SyncCache(p) PROVE DeleteInv'
  <1> USE DEF TypeInv
  <1>1. CASE SyncCache(p)
    <2>1. pending[p] \in Seq(PeerObjects) /\ pending[p] # <<>>
      BY <1>1 DEF SyncCache, TypeOK
    <2>2. /\ Head(pending[p]) = pending[p][1] /\ 1 \in DOMAIN pending[p]
          /\ \A i \in DOMAIN Tail(pending[p]) : i + 1 \in DOMAIN pending[p] /\ Tail(pending[p])[i] = pending[p][i + 1]
      BY <2>1
    <2>3. /\ UNCHANGED peer
          /\ \A q \in Pods : cache'[q] = cache[q] \/ (q = p /\ cache'[q] = Head(pending[p]))
          /\ \A q \in Pods : pending'[q] = pending[q] \/ (q = p /\ pending'[q] = Tail(pending[p]))
      BY <1>1 DEF SyncCache, TypeOK
    <2>4. ASSUME NEW q \in Pods PROVE cache'[q] \in Versions
      BY <2>2, <2>3 DEF Versions
    <2>5. ASSUME NEW q \in Pods, NEW i \in DOMAIN pending'[q] PROVE pending'[q][i] \in Versions
      <3>1. PICK j \in DOMAIN pending[q] : pending'[q][i] = pending[q][j]
        <4>1. CASE pending'[q] = pending[q]
          BY <2>5, <4>1
        <4>2. CASE q = p /\ pending'[q] = Tail(pending[p])
          BY <2>2, <2>5, <4>2
        <4> QED
          BY <2>3, <4>1, <4>2
      <3> QED
        BY <3>1 DEF Versions
    <2>6. Versions' \subseteq Versions
      BY <2>3, <2>4, <2>5 DEF Versions
    <2> QED
      BY <1>1, <2>6, FewerSafe DEF SyncCache, process
  <1>2. CASE LoadOrCreateKey(p) \/ WriteKey(p)
    <2>1. /\ UNCHANGED <<peer, pending, existing>>
          /\ \A q \in Pods : cache'[q] = cache[q] \/ cache'[q] = peer
          /\ \A q \in Pods : pc'[q] = "delete" => pc[q] = "delete"
          /\ \A q \in Pods : keyfile[q] \in Keys => keyfile'[q] = keyfile[q]
      BY <1>2 DEF LoadOrCreateKey, WriteKey, startWatch, Goto, TypeOK, KeysWritten, Keys, NoKey, TornKey
    <2>2. Versions' \subseteq Versions
      BY <2>1 DEF Versions
    <2>3. \A v \in Versions : v \in PeerObjects
      BY DEF Versions, TypeOK
    <2>4. \A v \in Versions : VersionOK(v)'
      BY <2>1, <2>3 DEF DeleteInv, VersionOK, PeerObjects
    <2> QED
      BY <2>1, <2>2, <2>4 DEF DeleteInv, DeleteOK
  <1>3. CASE step(p)
    <2>1. UNCHANGED <<peer, cache, pending, keyfile>> /\ Versions' = Versions
      BY <1>3 DEF step, Versions
    <2>2. \A v \in Versions : VersionOK(v)'
      BY <2>1 DEF DeleteInv, VersionOK
    <2>3. \A q \in Pods \ {p} : DeleteOK(q)'
      BY <1>3 DEF step, Goto, DeleteInv, DeleteOK, TypeOK
    <2>4. DeleteOK(p)'
      <3>1. SUFFICES ASSUME pc'[p] = "delete", peer.live, peer.uid = existing'[p]
                     PROVE  peer.owner # NoPod /\ ~(peer.owner = p /\ peer.ref = "own")
        BY <2>1 DEF DeleteOK
      <3>2. decidePeer(p, cache[p]) = "replace" /\ existing'[p] = cache[p].uid
        BY <1>3, <3>1 DEF step, Goto, TypeOK
      <3>3. cache[p].live /\ cache[p].owner # NoPod /\ ~(cache[p].owner = p /\ cache[p].key = keyfile[p] /\ cache[p].ref # "other")
        BY <3>2 DEF decidePeer, TypeOK, PeerObjects
      <3>4. VersionOK(cache[p])
        BY DEF DeleteInv, Versions
      <3> QED
        BY <3>1, <3>2, <3>3, <3>4 DEF VersionOK
    <2> QED
      BY <2>1, <2>2, <2>3, <2>4 DEF DeleteInv
  <1>4. CASE DeletePeer(p)
    <2>1. /\ UNCHANGED <<cache, keyfile>>
          /\ \A q \in Pods : pc'[q] = "delete" => pc[q] = "delete" /\ existing'[q] = existing[q]
      BY <1>4 DEF DeletePeer, Goto, TypeOK
    <2>2. CASE Write(NoPeer)
      BY <2>1, <2>2, RewriteSafe DEF NoPeer
    <2>3. CASE UNCHANGED <<peer, pending>>
      BY <2>1, <2>3, FewerSafe DEF Versions
    <2> QED
      BY <1>4, <2>2, <2>3 DEF DeletePeer
  <1>5. CASE CreatePeer(p)
    <2>1. /\ UNCHANGED <<cache, keyfile, existing>> /\ keyfile[p] \in Keys
          /\ \A q \in Pods : pc'[q] = "delete" => pc[q] = "delete"
      BY <1>5 DEF CreatePeer, Goto, TypeOK, KeysWritten
    <2>2. CASE WriteNew(desiredPeer(p))
      <3> DEFINE new == desiredPeer(p)
      <3>1. new \in PeerObjects /\ new.owner = p /\ new.key = keyfile[p]
        BY <2>1, NoPeerType DEF desiredPeer, PeerObjects
      <3>2. WriteNew(new)
        BY <2>2
      <3> HIDE DEF new
      <3> QED
        BY <2>1, <3>1, <3>2, CreateSafe
    <2>3. CASE UNCHANGED <<peer, pending>>
      BY <2>1, <2>3, FewerSafe DEF Versions
    <2> QED
      BY <1>5, <2>2, <2>3 DEF CreatePeer
  <1> QED
    BY <1>1, <1>2, <1>3, <1>4, <1>5 DEF Sidecar

\* However far behind a sidecar's cache is, and however pods of the name come and go, it deletes
\* no peer that a user wrote nor its own registration (ensurePeer's UID precondition, decidePeer).
THEOREM DeletesStale == Spec => OnlyStaleDeleted
  <1>1. Init => DeleteInv
    BY DEF Init, DeleteInv, Versions, VersionOK, DeleteOK, NoPeer
  <1>2. TypeInv /\ DeleteInv /\ [Next]_vars => DeleteInv'
    <2> SUFFICES ASSUME TypeInv, DeleteInv, [Next]_vars PROVE DeleteInv'
      OBVIOUS
    <2>1. CASE Next
      BY <2>1, EnvironmentSafe, SidecarSafe DEF Next
    <2>2. CASE UNCHANGED vars
      BY <2>2, FewerSafe DEF vars, process, Versions
    <2> QED
      BY <2>1, <2>2
  <1>3. DeleteInv =>
            [\A p \in Pods : DeletePeer(p) /\ peer.live /\ ~peer'.live =>
                peer.owner # NoPod /\ ~(peer.owner = p /\ peer.ref = "own")]_vars
    BY DEF DeleteInv, DeleteOK, DeletePeer
  <1> QED
    BY <1>1, <1>2, <1>3, InitInv, StepInv, PTL DEF Spec, OnlyStaleDeleted
================================================================================
