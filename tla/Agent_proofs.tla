------------------------------ MODULE Agent_proofs ------------------------------
(***************************************************************************)
(* Proofs about Agent, for any keys, addresses, peerCIDRs, files and       *)
(* interferences: the type invariant, that an exclusive Sync is exact, and *)
(* that Err is honest about the routing.                                   *)
(***************************************************************************)
EXTENDS Agent, TLAPS

--------------------------------------------------------------------------------
(* The device *)

LEMMA SomeFileType == SomeFile \in Files
  BY FilesAssumption DEF SomeFile

\* Every configuration computed has its type.
LEMMA ConfigurationType ==
    ASSUME NEW d \in Devices, NEW s \in States
    PROVE  createPeersConfiguration(d, s) \in SUBSET PeerConfigs
  <1>1. removals(d, s) \in SUBSET PeerConfigs
    BY DEF removals, Devices, PeerConfigs
  <1>2. \A k \in PublicKeys : desiredAllowed(s, k) \in SUBSET Addresses
    BY DEF desiredAllowed, States
  <1> QED
    BY <1>1, <1>2 DEF createPeersConfiguration, listed, PeerConfigs

\* Configuring a peer keeps the device's type and its key.
LEMMA ApplyType ==
    ASSUME NEW d \in Devices, NEW c \in PeerConfigs
    PROVE  applyPeer(d, c) \in Devices
  <1>1. c.op \in {"remove", "update", "add"} /\ c.pub \in PublicKeys /\ c.ips \in SUBSET Addresses
    BY DEF PeerConfigs
  <1>2. \A ips \in SUBSET Addresses : assign(d, c.pub, ips) \in [PublicKeys -> SUBSET Addresses]
    BY DEF assign, Devices
  <1>3. d.ips \in [PublicKeys -> SUBSET Addresses] /\ d.members \in SUBSET PublicKeys
    BY DEF Devices
  <1>4. CASE c.op = "remove"
    <2>1. applyPeer(d, c) = [d EXCEPT !.members = d.members \ {c.pub}, !.ips = [d.ips EXCEPT ![c.pub] = {}]]
      BY <1>4 DEF applyPeer
    <2> QED
      BY <1>1, <1>3, <2>1, ZenonT(40) DEF Devices
  <1>5. CASE c.op = "update"
    <2>1. applyPeer(d, c) = d \/ applyPeer(d, c) = [d EXCEPT !.ips = assign(d, c.pub, c.ips)]
      BY <1>5 DEF applyPeer
    <2> QED
      BY <1>1, <1>2, <2>1 DEF Devices
  <1>6. CASE c.op = "add"
    <2> DEFINE M == d.members \union {c.pub}
               I == assign(d, c.pub, d.ips[c.pub] \union c.ips)
    <2>1. applyPeer(d, c) = [d EXCEPT !.members = M, !.ips = I]
      BY <1>6 DEF applyPeer
    <2>2. d.ips[c.pub] \union c.ips \in SUBSET Addresses
      BY <1>1, <1>3
    <2>3. M \in SUBSET PublicKeys /\ I \in [PublicKeys -> SUBSET Addresses]
      BY <1>1, <1>2, <1>3, <2>2
    <2> HIDE DEF M, I
    <2> QED
      BY <2>1, <2>3 DEF Devices
  <1> QED
    BY <1>1, <1>4, <1>5, <1>6

\* What a configuration still to be sent leaves open: a peer it does not mention is as the state
\* describes it, and one it mentions becomes so.
Pending(d, s, C) ==
    /\ \A c \in C :
        /\ c.op = "remove" => c.pub \notin listed(s)
        /\ c.op = "update" => c.pub \in listed(s) /\ c.pub \in d.members
        /\ c.op = "add" => c.pub \in listed(s) /\ c.pub \notin d.members /\ d.ips[c.pub] = {}
        /\ c.op # "remove" => c.ips = desiredAllowed(s, c.pub)
    /\ \A b, c \in C : b.pub = c.pub => b = c
    /\ \A k \in PublicKeys : (\A c \in C : c.pub # k) =>
        (k \in d.members <=> k \in listed(s)) /\ d.ips[k] = desiredAllowed(s, k)
    /\ \A k \in PublicKeys \ d.members : d.ips[k] = {}

Members(d) == \A k \in PublicKeys \ d.members : d.ips[k] = {}

LEMMA ApplyMembers ==
    ASSUME NEW d \in Devices, NEW c \in PeerConfigs, Members(d)
    PROVE  Members(applyPeer(d, c))
  <1>1. c.op \in {"remove", "update", "add"} /\ c.pub \in PublicKeys
    BY DEF PeerConfigs
  <1>2. d.ips \in [PublicKeys -> SUBSET Addresses] /\ d.members \in SUBSET PublicKeys
    BY DEF Devices
  <1>3. CASE c.op = "remove"
    <2>1. /\ applyPeer(d, c).members = d.members \ {c.pub}
          /\ applyPeer(d, c).ips = [d.ips EXCEPT ![c.pub] = {}]
      BY <1>3 DEF applyPeer, Devices
    <2> QED
      BY <1>1, <1>2, <2>1 DEF Members
  <1>4. CASE c.op = "update" /\ c.pub \in d.members
    <2>1. applyPeer(d, c).members = d.members /\ applyPeer(d, c).ips = assign(d, c.pub, c.ips)
      BY <1>4 DEF applyPeer, Devices
    <2> QED
      BY <1>1, <1>2, <1>4, <2>1 DEF Members, assign
  <1>5. CASE c.op = "update" /\ c.pub \notin d.members
    BY <1>5 DEF applyPeer
  <1>6. CASE c.op = "add"
    <2>1. /\ applyPeer(d, c).members = d.members \union {c.pub}
          /\ applyPeer(d, c).ips = assign(d, c.pub, d.ips[c.pub] \union c.ips)
      BY <1>6 DEF applyPeer, Devices
    <2> QED
      BY <1>1, <1>2, <2>1 DEF Members, assign
  <1> QED
    BY <1>1, <1>3, <1>4, <1>5, <1>6

\* A freshly computed configuration is pending.
LEMMA ConfigurationPending ==
    ASSUME NEW d \in Devices, NEW s \in States, Members(d)
    PROVE  Pending(d, s, createPeersConfiguration(d, s))
  <1> DEFINE C == createPeersConfiguration(d, s)
             differ == {j \in listed(s) : j \notin d.members \/ d.ips[j] # desiredAllowed(s, j)}
  <1>1. \A c \in C : \/ c.pub \in d.members \ listed(s) /\ c.op = "remove" /\ c.ips = d.ips[c.pub]
                     \/ /\ c.pub \in differ /\ c.op = (IF c.pub \in d.members THEN "update" ELSE "add")
                        /\ c.ips = desiredAllowed(s, c.pub)
    BY DEF createPeersConfiguration, removals
  <1>2. \A k \in d.members \ listed(s) : \E c \in C : c.pub = k
    <2> SUFFICES ASSUME NEW k \in d.members \ listed(s) PROVE \E c \in C : c.pub = k
      OBVIOUS
    <2>1. [pub |-> k, op |-> "remove", ips |-> d.ips[k]] \in C
      BY DEF createPeersConfiguration, removals
    <2> QED
      BY <2>1
  <1>3. \A k \in differ : \E c \in C : c.pub = k
    <2> SUFFICES ASSUME NEW k \in differ PROVE \E c \in C : c.pub = k
      OBVIOUS
    <2>1. [pub |-> k, op |-> IF k \in d.members THEN "update" ELSE "add", ips |-> desiredAllowed(s, k)] \in C
      BY DEF createPeersConfiguration
    <2> QED
      BY <2>1
  <1>4. listed(s) \subseteq PublicKeys /\ d.members \subseteq PublicKeys
    BY DEF listed, Devices
  <1>5. C \in SUBSET PeerConfigs
    BY ConfigurationType
  <1>6. \A b, c \in C : b.pub = c.pub => b = c
    <2> SUFFICES ASSUME NEW b \in C, NEW c \in C, b.pub = c.pub PROVE b = c
      OBVIOUS
    <2>1. b.op = c.op /\ b.ips = c.ips
      BY <1>1
    <2> QED
      BY <1>5, <2>1 DEF PeerConfigs
  <1>7. \A k \in PublicKeys : k \notin listed(s) => desiredAllowed(s, k) = {}
    BY DEF listed, desiredAllowed
  <1>8. \A k \in PublicKeys : (\A c \in C : c.pub # k) =>
            (k \in d.members <=> k \in listed(s)) /\ d.ips[k] = desiredAllowed(s, k)
    BY <1>2, <1>3, <1>4, <1>7 DEF Members
  <1> HIDE DEF C
  <1>9. \A c \in C :
        /\ c.op = "remove" => c.pub \notin listed(s)
        /\ c.op = "update" => c.pub \in listed(s) /\ c.pub \in d.members
        /\ c.op = "add" => c.pub \in listed(s) /\ c.pub \notin d.members /\ d.ips[c.pub] = {}
        /\ c.op # "remove" => c.ips = desiredAllowed(s, c.pub)
    BY <1>1, <1>4 DEF Members
  <1> QED
    BY <1>6, <1>8, <1>9 DEF Pending, Members, C

\* Sending any one of its parts keeps the rest pending: the addresses of a state are distinct, so
\* no peer that is as described loses its own.
LEMMA ApplyPending ==
    ASSUME NEW d \in Devices, NEW s \in States, DistinctAddresses(s),
           NEW C \in SUBSET PeerConfigs, Pending(d, s, C), NEW c \in C
    PROVE  Pending(applyPeer(d, c), s, C \ {c})
  <1> DEFINE e == applyPeer(d, c)
  <1>1. c.op \in {"remove", "update", "add"} /\ c.pub \in PublicKeys
    BY DEF PeerConfigs
  <1>2. d.ips \in [PublicKeys -> SUBSET Addresses] /\ d.members \in SUBSET PublicKeys
    BY DEF Devices
  <1>3. \A k \in PublicKeys : k \notin listed(s) => desiredAllowed(s, k) = {}
    BY DEF listed, desiredAllowed
  <1>4. \A j, k \in PublicKeys : j # k => desiredAllowed(s, j) \ desiredAllowed(s, k) = desiredAllowed(s, j)
    BY DEF desiredAllowed, DistinctAddresses, listed
  <1>5. \A b \in C : b # c => b.pub # c.pub
    BY DEF Pending
  \* The peer configured is as the state describes it, and no other has changed but for losing
  \* an address that is not its own.
  <1>6. /\ c.pub \in e.members <=> c.pub \in listed(s)
        /\ e.ips[c.pub] = desiredAllowed(s, c.pub)
        /\ \A k \in PublicKeys : k # c.pub =>
            /\ k \in e.members <=> k \in d.members
            /\ e.ips[k] = d.ips[k] \/ e.ips[k] = d.ips[k] \ desiredAllowed(s, c.pub)
    <2>1. CASE c.op = "remove"
      <3>1. e.members = d.members \ {c.pub} /\ e.ips = [d.ips EXCEPT ![c.pub] = {}]
        BY <2>1 DEF applyPeer, Devices
      <3>2. c.pub \notin listed(s)
        BY <2>1 DEF Pending
      <3> HIDE DEF e
      <3> QED
        BY <1>1, <1>2, <1>3, <3>1, <3>2
    <2>2. CASE c.op = "update"
      <3>1. c.pub \in d.members /\ c.pub \in listed(s) /\ c.ips = desiredAllowed(s, c.pub)
        BY <2>2 DEF Pending
      <3>2. e.members = d.members /\ e.ips = assign(d, c.pub, c.ips)
        BY <2>2, <3>1 DEF applyPeer, Devices
      <3> HIDE DEF e
      <3> QED
        BY <1>1, <1>2, <3>1, <3>2 DEF assign
    <2>3. CASE c.op = "add"
      <3>1. d.ips[c.pub] = {} /\ c.pub \in listed(s) /\ c.ips = desiredAllowed(s, c.pub)
        BY <2>3 DEF Pending
      <3>2. e.members = d.members \union {c.pub} /\ e.ips = assign(d, c.pub, d.ips[c.pub] \union c.ips)
        BY <2>3 DEF applyPeer, Devices
      <3> HIDE DEF e
      <3> QED
        BY <1>1, <1>2, <3>1, <3>2 DEF assign
    <2> QED
      BY <1>1, <2>1, <2>2, <2>3
  <1> HIDE DEF e
  <1>7. \A k \in PublicKeys : (\A b \in C \ {c} : b.pub # k) =>
            (k \in e.members <=> k \in listed(s)) /\ e.ips[k] = desiredAllowed(s, k)
    <2> SUFFICES ASSUME NEW k \in PublicKeys, \A b \in C \ {c} : b.pub # k
                 PROVE  (k \in e.members <=> k \in listed(s)) /\ e.ips[k] = desiredAllowed(s, k)
      OBVIOUS
    <2>1. CASE k = c.pub
      BY <1>6, <2>1
    <2>2. CASE k # c.pub
      <3>1. (k \in d.members <=> k \in listed(s)) /\ d.ips[k] = desiredAllowed(s, k)
        <4>1. \A b \in C : b.pub # k
          BY <2>2
        <4> QED
          BY <4>1 DEF Pending
      <3>2. desiredAllowed(s, k) \ desiredAllowed(s, c.pub) = desiredAllowed(s, k)
        BY <1>1, <1>4, <2>2
      <3>3. /\ k \in e.members <=> k \in d.members
            /\ e.ips[k] = d.ips[k] \/ e.ips[k] = d.ips[k] \ desiredAllowed(s, c.pub)
        BY <1>6, <2>2
      <3> QED
        BY <3>1, <3>2, <3>3
    <2> QED
      BY <2>1, <2>2
  <1>8. \A k \in PublicKeys \ e.members : e.ips[k] = {}
    <2> SUFFICES ASSUME NEW k \in PublicKeys, k \notin e.members PROVE e.ips[k] = {}
      OBVIOUS
    <2>1. CASE k = c.pub
      BY <1>3, <1>6, <2>1
    <2>2. CASE k # c.pub
      BY <1>6, <2>2 DEF Pending
    <2> QED
      BY <2>1, <2>2
  <1>9. \A b \in C \ {c} :
        /\ b.op = "remove" => b.pub \notin listed(s)
        /\ b.op = "update" => b.pub \in listed(s) /\ b.pub \in e.members
        /\ b.op = "add" => b.pub \in listed(s) /\ b.pub \notin e.members /\ e.ips[b.pub] = {}
        /\ b.op # "remove" => b.ips = desiredAllowed(s, b.pub)
    <2> SUFFICES ASSUME NEW b \in C, b # c
                 PROVE  /\ b.op = "remove" => b.pub \notin listed(s)
                        /\ b.op = "update" => b.pub \in listed(s) /\ b.pub \in e.members
                        /\ b.op = "add" => b.pub \in listed(s) /\ b.pub \notin e.members /\ e.ips[b.pub] = {}
                        /\ b.op # "remove" => b.ips = desiredAllowed(s, b.pub)
      OBVIOUS
    <2>1. b.pub \in PublicKeys /\ b.pub # c.pub
      BY <1>5 DEF PeerConfigs
    <2> QED
      BY <1>6, <1>8, <2>1 DEF Pending
  <1> QED
    BY <1>7, <1>8, <1>9 DEF Pending, e

\* Nothing pending: the device is as the state describes it.
LEMMA PendingDone ==
    ASSUME NEW d \in Devices, NEW s \in States, Pending(d, s, {})
    PROVE  describes(s, d)
  BY DEF Pending, describes, Devices, listed

\* A Sync sends nothing to a device that is as the state describes it, so that probes leave the
\* sessions of a gateway in peace; and it has something to send to any other
\* (createPeersConfiguration).
THEOREM NothingToSend ==
    ASSUME NEW d \in Devices, NEW s \in States, Members(d)
    PROVE  createPeersConfiguration(d, s) = {} <=> describes(s, d)
  <1>1. createPeersConfiguration(d, s) = {} => describes(s, d)
    BY ConfigurationPending, PendingDone
  <1>2. ASSUME describes(s, d) PROVE createPeersConfiguration(d, s) = {}
    <2>1. d.members = listed(s) /\ \A k \in listed(s) : d.ips[k] = desiredAllowed(s, k)
      BY <1>2 DEF describes, listed
    <2> QED
      BY <2>1 DEF createPeersConfiguration, removals
  <1> QED
    BY <1>1, <1>2

\* Peer k is on the device, or off it, as the state describes it.
PeerAsDescribed(s, d, k) == (k \in d.members <=> k \in listed(s)) /\ d.ips[k] = desiredAllowed(s, k)

\* The kernel takes an allowed IP from a peer only for the peer that is to have it, and every
\* configuration that is pending is of a peer to be as described.
LEMMA ApplyKeeps ==
    ASSUME NEW d \in Devices, NEW s \in States, DistinctAddresses(s),
           NEW C \in SUBSET PeerConfigs, Pending(d, s, C), NEW c \in C,
           NEW k \in PublicKeys, PeerAsDescribed(s, d, k)
    PROVE  PeerAsDescribed(s, applyPeer(d, c), k)
  <1> DEFINE e == applyPeer(d, c)
  <1>1. c.op \in {"remove", "update", "add"} /\ c.pub \in PublicKeys
    BY DEF PeerConfigs
  <1>2. d.ips \in [PublicKeys -> SUBSET Addresses] /\ d.members \in SUBSET PublicKeys
    BY DEF Devices
  <1>3. k \notin listed(s) => desiredAllowed(s, k) = {}
    BY DEF listed, desiredAllowed
  <1>4. k # c.pub => desiredAllowed(s, k) \ desiredAllowed(s, c.pub) = desiredAllowed(s, k)
    BY <1>1 DEF desiredAllowed, DistinctAddresses, listed
  <1>5. CASE c.op = "remove"
    <2>1. e.members = d.members \ {c.pub} /\ e.ips = [d.ips EXCEPT ![c.pub] = {}]
      BY <1>5 DEF applyPeer, Devices
    <2>2. c.pub \notin listed(s)
      BY <1>5 DEF Pending
    <2> HIDE DEF e
    <2>3. PeerAsDescribed(s, e, k)
      BY <1>1, <1>2, <1>3, <2>1, <2>2 DEF PeerAsDescribed
    <2> QED
      BY <2>3 DEF e
  <1>6. CASE c.op = "update"
    <2>1. c.pub \in d.members /\ c.pub \in listed(s) /\ c.ips = desiredAllowed(s, c.pub)
      BY <1>6 DEF Pending
    <2>2. e.members = d.members /\ e.ips = assign(d, c.pub, c.ips)
      BY <1>6, <2>1 DEF applyPeer, Devices
    <2> HIDE DEF e
    <2>3. PeerAsDescribed(s, e, k)
      BY <1>1, <1>2, <1>4, <2>1, <2>2 DEF PeerAsDescribed, assign
    <2> QED
      BY <2>3 DEF e
  <1>7. CASE c.op = "add"
    <2>1. d.ips[c.pub] = {} /\ c.pub \in listed(s) /\ c.ips = desiredAllowed(s, c.pub) /\ c.pub \notin d.members
      BY <1>7 DEF Pending
    <2>2. e.members = d.members \union {c.pub} /\ e.ips = assign(d, c.pub, d.ips[c.pub] \union c.ips)
      BY <1>7 DEF applyPeer, Devices
    <2>3. k # c.pub
      BY <2>1 DEF PeerAsDescribed
    <2> HIDE DEF e
    <2>4. PeerAsDescribed(s, e, k)
      BY <1>1, <1>2, <1>4, <2>1, <2>2, <2>3 DEF PeerAsDescribed, assign
    <2> QED
      BY <2>4 DEF e
  <1> QED
    BY <1>1, <1>5, <1>6, <1>7

--------------------------------------------------------------------------------
(* Type correctness *)

LEMMA ReturnType ==
    ASSUME TypeOK, NEW t \in Threads, Return(t)
    PROVE  /\ pc' \in [Threads -> Places]
           /\ state' \in [Threads -> Files]
           /\ have' \in [Threads -> SUBSET CIDRs] /\ todo' \in [Threads -> SUBSET PeerConfigs]
  BY SomeFileType DEF TypeOK, Return, Goto, Places

LEMMA StateType == ASSUME TypeOK, NEW t \in Threads PROVE state[t] \in States /\ PeerCIDR(state[t]) \in CIDRs
  BY FilesAssumption, CIDRAssumption DEF TypeOK, States, PeerCIDR

LEMMA InitType == Init => TypeOK
  <1> SUFFICES ASSUME Init PROVE TypeOK
    OBVIOUS
  <1>1. device \in Devices
    BY DEF Init, NewDevice, Devices
  <1>2. link \in Links /\ route \in Routes
    BY DEF Init, Links, Routes
  <1>3. pc \in [Threads -> Places]
    BY DEF Init, Places
  <1>4. state \in [Threads -> Files] /\ have \in [Threads -> SUBSET CIDRs] /\ todo \in [Threads -> SUBSET PeerConfigs]
    BY SomeFileType DEF Init
  <1>5. changes \in 0 .. MaxChanges
    BY MaxChangesAssumption DEF Init
  <1> QED
    BY <1>1, <1>2, <1>3, <1>4, <1>5 DEF Init, TypeOK

LEMMA EnvironmentType == ASSUME TypeOK, Environment PROVE TypeOK'
  <1> USE DEF TypeOK, Interfere, thread, ensured, watch
  <1>1. ASSUME NEW s \in Files, WriteFile(s) PROVE TypeOK'
    BY <1>1, MaxChangesAssumption DEF WriteFile
  <1>2. CASE RestartGluetun
    <2>1. route' \in Routes
      BY <1>2 DEF RestartGluetun, Routes
    <2> QED
      BY <1>2, <2>1, MaxChangesAssumption DEF RestartGluetun
  <1>3. CASE RestartAgent
    <2>1. pc' \in [Threads -> Places]
      BY <1>3 DEF RestartAgent, Places
    <2>2. state' \in [Threads -> Files] /\ have' \in [Threads -> SUBSET CIDRs] /\ todo' \in [Threads -> SUBSET PeerConfigs]
      BY <1>3, SomeFileType DEF RestartAgent
    <2>3. changes' \in 0 .. MaxChanges
      BY <1>3, MaxChangesAssumption DEF RestartAgent
    <2> QED
      BY <1>3, <2>1, <2>2, <2>3 DEF RestartAgent
  <1>4. ASSUME NEW t \in Threads, SyncFails(t) PROVE TypeOK'
    BY <1>4, ReturnType, MaxChangesAssumption DEF SyncFails, SyncError
  <1>5. ASSUME NEW t \in Threads, EnsureFails(t) PROVE TypeOK'
    <2>1. CASE pc[t] \in {"routing", "rules"} /\ Goto(t, "iptables") /\ failed' = TRUE
                /\ UNCHANGED <<state, have, todo, route, lock, err, last>>
      BY <1>5, <2>1, MaxChangesAssumption DEF EnsureFails, Goto, Places, EnsurePcs
    <2>2. CASE pc[t] = "iptables" /\ Return(t)
                /\ (\E drop \in {route.drop, TRUE} : route' = [route EXCEPT !.drop = drop])
                /\ err' = TRUE /\ last' = {PeerCIDR(state[t])} /\ lock' = {} /\ failed' = FALSE
      <3>1. route' \in Routes
        BY <2>2 DEF Routes
      <3>2. changes' \in 0 .. MaxChanges
        BY <1>5, MaxChangesAssumption DEF EnsureFails
      <3>3. last' \in SUBSET CIDRs
        BY <2>2, StateType
      <3> QED
        BY <1>5, <2>2, <3>1, <3>2, <3>3, ReturnType DEF EnsureFails
    <2> QED
      BY <1>5, <2>1, <2>2 DEF EnsureFails
  <1> QED
    BY <1>1, <1>2, <1>3, <1>4, <1>5 DEF Environment

LEMMA ReadingType == ASSUME TypeOK, StartUp \/ AddWatch \/ OnEvent \/ Probe \/ Tick \/ health PROVE TypeOK'
  <1> USE DEF TypeOK, Interfere, ensured, watch
  <1>1. CASE StartUp
    <2>1. pc' \in [Threads -> Places] /\ state' \in [Threads -> Files] /\ hash' \in SUBSET Files
      BY <1>1 DEF StartUp, Goto, Reads, Places, SyncPcs
    <2>2. changes' \in 0 .. MaxChanges
      BY <1>1, MaxChangesAssumption DEF StartUp
    <2> QED
      BY <1>1, <2>1, <2>2 DEF StartUp
  <1>2. CASE AddWatch
    BY <1>2 DEF AddWatch, Goto, Places
  <1>3. CASE OnEvent
    <2>1. pc' \in [Threads -> Places] /\ state' \in [Threads -> Files] /\ hash' \in SUBSET Files
      BY <1>3 DEF OnEvent, Goto, Reads, Places, SyncPcs
    <2>2. changes' \in 0 .. MaxChanges
      BY <1>3, MaxChangesAssumption DEF OnEvent
    <2> QED
      BY <1>3, <2>1, <2>2 DEF OnEvent
  <1>4. CASE Probe
    <2>1. pc' \in [Threads -> Places] /\ state' \in [Threads -> Files] /\ ready' \in BOOLEAN
      BY <1>4 DEF Probe, Goto, Reads, Places, SyncPcs
    <2>2. changes' \in 0 .. MaxChanges
      BY <1>4, MaxChangesAssumption DEF Probe
    <2> QED
      BY <1>4, <2>1, <2>2 DEF Probe
  <1>5. CASE Tick
    BY <1>5 DEF Tick, Goto, Reads, Places
  <1>6. CASE health
    <2>1. ready' \in BOOLEAN
      BY <1>6 DEF health
    <2> QED
      BY <1>6, <2>1, ReturnType DEF health, Threads
  <1> QED
    BY <1>1, <1>2, <1>3, <1>4, <1>5, <1>6

\* The steps of a Sync and of an Ensure.
SyncStep(t) ==
    SyncLink(t) \/ SyncAddress(t) \/ CreateWireguardConfiguration(t) \/ ConfigurePeer(t) \/ SyncDone(t)

EnsureStep(t) == Ensure(t) \/ ensureRouting(t) \/ ensureRule(t) \/ ensureIptables(t)

LEMMA SyncType == ASSUME TypeOK, NEW t \in Threads, SyncStep(t) PROVE TypeOK'
  <1> USE DEF TypeOK, ensured, watch, Goto, Places, SyncPcs
  <1>1. CASE SyncLink(t)
    <2>1. link' \in Links /\ link.addresses \in SUBSET CIDRs
      BY <1>1 DEF SyncLink, Links
    <2> QED
      BY <1>1, <2>1 DEF SyncLink
  <1>2. CASE SyncAddress(t)
    <2> DEFINE want == PeerCIDR(state[t])
               remove == have[t] \ {want}
               added == (link.addresses \ remove) \union ({want} \ have[t])
               routed == IF link.route = {} THEN {want} ELSE link.route
    <2>0. link \in Links /\ want \in CIDRs
      BY StateType
    <2>2. added \in SUBSET CIDRs /\ routed \in SUBSET CIDRs /\ link.addresses \ remove \in SUBSET CIDRs
      BY <2>0 DEF Links
    <2>3. \/ link' = [link EXCEPT !.addresses = added, !.route = routed]
          \/ link' = [link EXCEPT !.addresses = link.addresses \ remove]
      BY <1>2 DEF SyncAddress
    <2>1. link' \in Links
      <3> HIDE DEF want, remove, added, routed
      <3> QED
        BY <2>0, <2>2, <2>3 DEF Links
    <2> QED
      BY <1>2, <2>1, ReturnType DEF SyncAddress, SyncError
  <1>3. CASE CreateWireguardConfiguration(t)
    <2>1. device' \in Devices
      BY <1>3, StateType DEF CreateWireguardConfiguration, Devices, States
    <2>2. createPeersConfiguration(device, state[t]) \in SUBSET PeerConfigs
      BY StateType, ConfigurationType
    <2> QED
      BY <1>3, <2>1, <2>2 DEF CreateWireguardConfiguration
  <1>4. CASE ConfigurePeer(t)
    <2>1. device' \in Devices
      BY <1>4, ApplyType DEF ConfigurePeer
    <2> QED
      BY <1>4, <2>1 DEF ConfigurePeer
  <1>5. CASE SyncDone(t)
    BY <1>5 DEF SyncDone
  <1> QED
    BY <1>1, <1>2, <1>3, <1>4, <1>5 DEF SyncStep

LEMMA EnsureType == ASSUME TypeOK, NEW t \in Threads, EnsureStep(t) PROVE TypeOK'
  <1> USE DEF TypeOK, watch, Goto, Places, EnsurePcs
  <1>1. CASE Ensure(t)
    BY <1>1 DEF Ensure
  <1>2. CASE ensureRouting(t)
    <2>1. route' \in Routes /\ route.rules \in SUBSET CIDRs
      BY <1>2, StateType DEF ensureRouting, Routes
    <2> QED
      BY <1>2, <2>1 DEF ensureRouting
  <1>3. CASE ensureRule(t)
    <2> DEFINE want == PeerCIDR(state[t])
               remove == have[t] \ {want}
               ruled == (route.rules \ remove) \union ({want} \ have[t])
    <2>0. route \in Routes /\ want \in CIDRs
      BY StateType
    <2>2. ruled \in SUBSET CIDRs /\ route.rules \ remove \in SUBSET CIDRs
      BY <2>0 DEF Routes
    <2>3. \/ route' = [route EXCEPT !.rules = ruled, !.blackhole = TRUE]
          \/ route' = [route EXCEPT !.rules = route.rules \ remove]
      BY <1>3 DEF ensureRule
    <2>1. route' \in Routes
      <3> HIDE DEF want, remove, ruled
      <3> QED
        BY <2>0, <2>2, <2>3 DEF Routes
    <2> QED
      BY <1>3, <2>1 DEF ensureRule
  <1>4. CASE ensureIptables(t)
    <2> DEFINE tables == route.iptables \union {PeerCIDR(state[t])}
    <2>0. route \in Routes /\ tables \in SUBSET CIDRs
      BY StateType DEF Routes
    <2>3. route' = [route EXCEPT !.drop = TRUE, !.iptables = tables]
      BY <1>4 DEF ensureIptables
    <2>1. route' \in Routes
      <3> HIDE DEF tables
      <3> QED
        BY <2>0, <2>3 DEF Routes
    <2> QED
      BY <1>4, <2>1, StateType, ReturnType DEF ensureIptables
  <1> QED
    BY <1>1, <1>2, <1>3, <1>4 DEF EnsureStep

\* Next, by what the steps do rather than by who takes them.
LEMMA NextSteps ==
    Next => \/ Environment \/ StartUp \/ AddWatch \/ OnEvent \/ Probe \/ Tick \/ health
            \/ \E t \in Threads : SyncStep(t) \/ EnsureStep(t)
  BY DEF Next, Watcher, Health, Reassert, SyncStep, EnsureStep, Threads

LEMMA StepType == TypeOK /\ [Next]_vars => TypeOK'
  <1> SUFFICES ASSUME TypeOK, [Next]_vars PROVE TypeOK'
    OBVIOUS
  <1>1. CASE UNCHANGED vars
    BY <1>1 DEF vars, thread, ensured, watch, TypeOK
  <1> QED
    BY <1>1, NextSteps, EnvironmentType, ReadingType, SyncType, EnsureType

\* Every variable keeps its type.
THEOREM TypeCorrect == Spec => []TypeOK
  BY InitType, StepType, PTL DEF Spec

--------------------------------------------------------------------------------
(* An exclusive Sync is exact *)

\* An exclusive Sync is alone in sending peers, and what it has not sent is pending; a thread
\* syncs valid states only, whose addresses are distinct.
SyncInv ==
    /\ TypeOK
    /\ Members(device)
    /\ \A t \in Threads : pc[t] \in SyncPcs => DistinctAddresses(state[t])
    /\ \A t \in exclusive :
        /\ pc[t] = "peers" /\ \A u \in Threads \ {t} : pc[u] # "peers"
        /\ Pending(device, state[t], todo[t])

\* A step of a thread that is not, or no longer, exclusive and leaves the device alone.
LEMMA SyncFrame ==
    ASSUME SyncInv, TypeOK', device' = device, NEW t \in Threads,
           exclusive' = exclusive \ {t},
           \A u \in Threads \ {t} : pc'[u] = pc[u] /\ state'[u] = state[u] /\ todo'[u] = todo[u],
           pc'[t] # "peers", pc'[t] \in SyncPcs => DistinctAddresses(state'[t])
    PROVE  SyncInv'
  <1>1. \A u \in Threads : pc'[u] \in SyncPcs => DistinctAddresses(state'[u])
    BY DEF SyncInv
  <1>2. ASSUME NEW u \in exclusive'
        PROVE  /\ pc'[u] = "peers" /\ \A v \in Threads \ {u} : pc'[v] # "peers"
               /\ Pending(device', state'[u], todo'[u])
    <2>1. u \in exclusive /\ u \in Threads /\ u # t
      BY <1>2 DEF SyncInv, TypeOK
    <2> QED
      BY <2>1 DEF SyncInv
  <1> QED
    BY <1>1, <1>2 DEF SyncInv, Members, DistinctAddresses, listed, Pending, desiredAllowed

LEMMA InitSync == Init => SyncInv
  <1> SUFFICES ASSUME Init PROVE SyncInv
    OBVIOUS
  <1>1. Members(device)
    BY DEF Init, Members, NewDevice
  <1>2. \A t \in Threads : pc[t] \notin SyncPcs
    BY DEF Init, SyncPcs
  <1> QED
    BY <1>1, <1>2, InitType DEF SyncInv, Init

LEMMA EnvironmentSync == ASSUME SyncInv, TypeOK', Environment PROVE SyncInv'
  <1>1. ASSUME NEW s \in Files, WriteFile(s) PROVE SyncInv'
    BY <1>1 DEF WriteFile, thread, SyncInv
  <1>2. CASE RestartGluetun
    BY <1>2 DEF RestartGluetun, thread, SyncInv
  <1>3. CASE RestartAgent
    <2>1. \A t \in Threads : pc'[t] \notin SyncPcs
      BY <1>3 DEF RestartAgent, SyncPcs
    <2> QED
      BY <1>3, <2>1 DEF RestartAgent, SyncInv
  <1>4. ASSUME NEW t \in Threads, SyncFails(t) PROVE SyncInv'
    <2>1. pc'[t] \notin SyncPcs
      BY <1>4 DEF SyncFails, SyncError, Return, Goto, SyncPcs, SyncInv, TypeOK
    <2>2. \A u \in Threads \ {t} : pc'[u] = pc[u] /\ state'[u] = state[u] /\ todo'[u] = todo[u]
      BY <1>4 DEF SyncFails, SyncError, Return, Goto, SyncInv, TypeOK
    <2> QED
      BY <1>4, <2>1, <2>2, SyncFrame DEF SyncFails, SyncPcs
  <1>5. ASSUME NEW t \in Threads, EnsureFails(t) PROVE SyncInv'
    <2>1. pc'[t] \notin SyncPcs /\ pc[t] # "peers"
      BY <1>5 DEF EnsureFails, Return, Goto, SyncPcs, SyncInv, TypeOK
    <2>2. \A u \in Threads \ {t} : pc'[u] = pc[u] /\ state'[u] = state[u] /\ todo'[u] = todo[u]
      BY <1>5 DEF EnsureFails, Return, Goto, SyncInv, TypeOK
    <2>3. exclusive' = exclusive \ {t}
      BY <1>5, <2>1 DEF EnsureFails, SyncInv
    <2> QED
      BY <1>5, <2>1, <2>2, <2>3, SyncFrame DEF EnsureFails, SyncPcs
  <1> QED
    BY <1>1, <1>2, <1>3, <1>4, <1>5 DEF Environment

\* A thread starts to sync only a valid state.
LEMMA ReadingSync ==
    ASSUME SyncInv, TypeOK', StartUp \/ AddWatch \/ OnEvent \/ Probe \/ Tick \/ health
    PROVE  SyncInv'
  <1> USE DEF Goto, Reads
  <1>0. TypeOK /\ \A s \in Files : IsStateValid(s) => DistinctAddresses(s)
    BY FilesAssumption DEF SyncInv
  <1>1. ASSUME NEW t \in Threads,
               pc[t] # "peers", exclusive' = exclusive, device' = device, pc'[t] # "peers",
               \A u \in Threads \ {t} : pc'[u] = pc[u] /\ state'[u] = state[u] /\ todo'[u] = todo[u],
               pc'[t] \in SyncPcs => DistinctAddresses(state'[t])
        PROVE  SyncInv'
    <2>1. exclusive' = exclusive \ {t}
      BY <1>1 DEF SyncInv
    <2> QED
      BY <1>1, <2>1, SyncFrame
  <1>2. CASE StartUp
    BY <1>0, <1>1, <1>2 DEF StartUp, TypeOK, Threads, SyncPcs
  <1>3. CASE AddWatch
    BY <1>0, <1>1, <1>3 DEF AddWatch, TypeOK, Threads, SyncPcs
  <1>4. CASE OnEvent
    BY <1>0, <1>1, <1>4 DEF OnEvent, TypeOK, Threads, SyncPcs
  <1>5. CASE Probe
    BY <1>0, <1>1, <1>5 DEF Probe, TypeOK, Threads, SyncPcs
  <1>6. CASE Tick
    BY <1>0, <1>1, <1>6 DEF Tick, TypeOK, Threads, SyncPcs
  <1>7. CASE health
    BY <1>0, <1>1, <1>7 DEF health, Return, TypeOK, Threads, SyncPcs
  <1> QED
    BY <1>2, <1>3, <1>4, <1>5, <1>6, <1>7

LEMMA SyncSync == ASSUME SyncInv, TypeOK', NEW t \in Threads, SyncStep(t) PROVE SyncInv'
  <1>0. TypeOK /\ device \in Devices /\ state[t] \in States
    BY StateType DEF SyncInv, TypeOK
  <1>1. CASE SyncLink(t)
    <2>1. exclusive' = exclusive \ {t}
      BY <1>1 DEF SyncLink, SyncInv
    <2>2. /\ \A u \in Threads \ {t} : pc'[u] = pc[u] /\ state'[u] = state[u] /\ todo'[u] = todo[u]
          /\ pc'[t] # "peers" /\ state'[t] = state[t] /\ pc[t] \in SyncPcs
      BY <1>0, <1>1 DEF SyncLink, Goto, TypeOK, SyncPcs
    <2>3. DistinctAddresses(state'[t])
      BY <2>2 DEF SyncInv
    <2> QED
      BY <1>1, <2>1, <2>2, <2>3, SyncFrame DEF SyncLink
  <1>2. CASE SyncAddress(t)
    <2>1. exclusive' = exclusive \ {t}
      BY <1>2 DEF SyncAddress, SyncInv
    <2>2. /\ \A u \in Threads \ {t} : pc'[u] = pc[u] /\ state'[u] = state[u] /\ todo'[u] = todo[u]
          /\ pc'[t] # "peers" /\ (pc'[t] \in SyncPcs => state'[t] = state[t]) /\ pc[t] \in SyncPcs
      BY <1>0, <1>2 DEF SyncAddress, SyncError, Return, Goto, TypeOK, SyncPcs
    <2>3. pc'[t] \in SyncPcs => DistinctAddresses(state'[t])
      BY <2>2 DEF SyncInv
    <2> QED
      BY <1>2, <2>1, <2>2, <2>3, SyncFrame DEF SyncAddress
  <1>3. CASE CreateWireguardConfiguration(t)
    <2>1. Members(device) /\ \A u \in Threads : pc[u] \in SyncPcs => DistinctAddresses(state[u])
      BY DEF SyncInv
    <2>2. device'.members = device.members /\ device'.ips = device.ips
      BY <1>0, <1>3 DEF CreateWireguardConfiguration, Devices
    <2>3. Members(device')
      BY <2>1, <2>2 DEF Members
    <2>4. \A u \in Threads : pc'[u] \in SyncPcs => DistinctAddresses(state'[u])
      BY <1>0, <1>3, <2>1 DEF CreateWireguardConfiguration, Goto, TypeOK, SyncPcs
    <2>5. Pending(device', state'[t], todo'[t])
      <3>1. Pending(device, state[t], createPeersConfiguration(device, state[t]))
        BY <1>0, <2>1, ConfigurationPending
      <3>2. state'[t] = state[t] /\ todo'[t] = createPeersConfiguration(device, state[t])
        BY <1>0, <1>3 DEF CreateWireguardConfiguration, TypeOK
      <3> QED
        BY <2>2, <3>1, <3>2, ZenonT(60) DEF Pending
    <2>6. pc'[t] = "peers"
      BY <1>0, <1>3 DEF CreateWireguardConfiguration, Goto, TypeOK
    <2>7. ASSUME NEW u \in exclusive' PROVE u = t /\ \A v \in Threads \ {u} : pc'[v] # "peers"
      BY <1>0, <1>3, <2>7 DEF CreateWireguardConfiguration, Goto, TypeOK
    <2>8. \A u \in exclusive' : /\ pc'[u] = "peers" /\ \A v \in Threads \ {u} : pc'[v] # "peers"
                                /\ Pending(device', state'[u], todo'[u])
      BY <2>5, <2>6, <2>7
    <2> QED
      BY <2>3, <2>4, <2>8 DEF SyncInv, Members, DistinctAddresses, listed, Pending, desiredAllowed
  <1>4. CASE ConfigurePeer(t)
    <2>1. PICK c \in todo[t] : device' = applyPeer(device, c) /\ todo' = [todo EXCEPT ![t] = @ \ {c}]
      BY <1>4 DEF ConfigurePeer
    <2>2. c \in PeerConfigs /\ todo[t] \in SUBSET PeerConfigs
      BY <1>0, <2>1 DEF TypeOK
    <2>3. Members(device')
      BY <1>0, <2>1, <2>2, ApplyMembers DEF SyncInv
    <2>4. UNCHANGED <<pc, state, exclusive>> /\ pc[t] = "peers"
      BY <1>4 DEF ConfigurePeer
    <2>5. DistinctAddresses(state[t])
      BY <2>4 DEF SyncInv, SyncPcs
    <2>6. \A u \in exclusive' : u = t /\ Pending(device', state'[u], todo'[u])
      <3> SUFFICES ASSUME NEW u \in exclusive PROVE u = t /\ Pending(device', state[u], todo'[u])
        BY <2>4
      <3>1. u = t
        BY <2>4 DEF SyncInv
      <3>2. Pending(device, state[t], todo[t])
        BY <3>1 DEF SyncInv
      <3>3. Pending(applyPeer(device, c), state[t], todo[t] \ {c})
        BY <1>0, <2>2, <2>5, <3>2, ApplyPending
      <3>4. todo'[t] = todo[t] \ {c}
        BY <1>0, <2>1 DEF TypeOK
      <3> QED
        BY <2>1, <3>1, <3>3, <3>4
    <2>7. \A u \in exclusive' : /\ pc'[u] = "peers" /\ \A v \in Threads \ {u} : pc'[v] # "peers"
                                /\ Pending(device', state'[u], todo'[u])
      BY <2>4, <2>6 DEF SyncInv
    <2>8. \A u \in Threads : pc'[u] \in SyncPcs => DistinctAddresses(state'[u])
      BY <2>4 DEF SyncInv
    <2> QED
      BY <2>3, <2>7, <2>8 DEF SyncInv, Members, DistinctAddresses, listed, Pending, desiredAllowed
  <1>5. CASE SyncDone(t)
    <2>1. /\ \A u \in Threads \ {t} : pc'[u] = pc[u] /\ state'[u] = state[u] /\ todo'[u] = todo[u]
          /\ pc'[t] \notin SyncPcs
      BY <1>0, <1>5 DEF SyncDone, Goto, TypeOK, SyncPcs
    <2> QED
      BY <1>5, <2>1, SyncFrame DEF SyncDone, SyncPcs
  <1> QED
    BY <1>1, <1>2, <1>3, <1>4, <1>5 DEF SyncStep

LEMMA EnsureSync == ASSUME SyncInv, TypeOK', NEW t \in Threads, EnsureStep(t) PROVE SyncInv'
  <1>1. /\ exclusive' = exclusive /\ device' = device /\ pc[t] # "peers" /\ pc'[t] \notin SyncPcs
        /\ \A u \in Threads \ {t} : pc'[u] = pc[u] /\ state'[u] = state[u] /\ todo'[u] = todo[u]
    BY DEF EnsureStep, Ensure, ensureRouting, ensureRule, ensureIptables, Return, Goto, SyncInv, TypeOK, SyncPcs
  <1>2. exclusive' = exclusive \ {t}
    BY <1>1 DEF SyncInv
  <1> QED
    BY <1>1, <1>2, SyncFrame DEF SyncPcs

LEMMA SyncInductive == SyncInv /\ [Next]_vars => SyncInv'
  <1> SUFFICES ASSUME SyncInv, [Next]_vars PROVE SyncInv'
    OBVIOUS
  <1>1. TypeOK'
    BY StepType DEF SyncInv
  <1>2. CASE UNCHANGED vars
    BY <1>1, <1>2 DEF vars, thread, SyncInv
  <1> QED
    BY <1>1, <1>2, NextSteps, EnvironmentSync, ReadingSync, SyncSync, EnsureSync

\* SyncExact: an exclusive Sync that has sent its configuration has left the device exactly as
\* its state describes it (createPeersConfiguration, syncWireguard).
THEOREM ExclusiveSyncExact == Spec => []SyncExact
  <1>1. SyncInv => SyncExact
    <2> SUFFICES ASSUME SyncInv, NEW t \in exclusive, todo[t] = {} PROVE describes(state[t], device)
      BY DEF SyncExact
    <2>1. t \in Threads /\ TypeOK /\ device \in Devices /\ Pending(device, state[t], {})
      BY DEF SyncInv, TypeOK
    <2> QED
      BY <2>1, StateType, PendingDone
  <1> QED
    BY <1>1, InitSync, SyncInductive, PTL DEF Spec

\* While a Sync is exclusive, the peers that are as its state describes them stay so.
KeepsDescribed ==
    \A t \in exclusive : \A k \in PublicKeys :
        PeerAsDescribed(state[t], device, k) => PeerAsDescribed(state[t], device', k)

\* A Sync that no other overlaps does not disturb the peers that are already as its state
\* describes them, not even on the way: none is removed, misses its address for a while or is
\* given another's (createPeersConfiguration and the kernel's moving of allowed IPs).
THEOREM OtherPeersUndisturbed == Spec => [][KeepsDescribed]_vars
  <1>1. SyncInv /\ [Next]_vars => [KeepsDescribed]_vars
    <2> SUFFICES ASSUME SyncInv, Next, NEW t \in exclusive, NEW k \in PublicKeys,
                        PeerAsDescribed(state[t], device, k)
                 PROVE  PeerAsDescribed(state[t], device', k)
      BY Zenon DEF KeepsDescribed
    <2>1. /\ t \in Threads /\ state[t] \in States /\ device \in Devices /\ todo[t] \in SUBSET PeerConfigs
          /\ pc[t] = "peers" /\ \A u \in Threads \ {t} : pc[u] # "peers"
          /\ Pending(device, state[t], todo[t]) /\ DistinctAddresses(state[t])
      BY StateType DEF SyncInv, TypeOK, SyncPcs
    <2>2. CASE device' = device
      BY <2>2
    <2>3. ASSUME NEW u \in Threads, CreateWireguardConfiguration(u)
          PROVE  PeerAsDescribed(state[t], device', k)
      <3>1. device'.members = device.members /\ device'.ips = device.ips
        BY <2>1, <2>3 DEF CreateWireguardConfiguration, Devices
      <3> QED
        BY <3>1 DEF PeerAsDescribed
    <2>4. ASSUME NEW u \in Threads, ConfigurePeer(u)
          PROVE  PeerAsDescribed(state[t], device', k)
      <3>1. u = t
        BY <2>1, <2>4 DEF ConfigurePeer
      <3>2. PICK c \in todo[t] : device' = applyPeer(device, c)
        BY <2>4, <3>1 DEF ConfigurePeer
      <3> QED
        BY <2>1, <3>2, ApplyKeeps
    <2>5. CASE Environment
      BY <2>2, <2>5 DEF Environment, WriteFile, RestartGluetun, RestartAgent, SyncFails, EnsureFails
    <2>6. CASE StartUp \/ AddWatch \/ OnEvent \/ Probe \/ Tick \/ health
      BY <2>2, <2>6 DEF StartUp, AddWatch, OnEvent, Probe, Tick, health
    <2>7. ASSUME NEW u \in Threads, SyncStep(u) PROVE PeerAsDescribed(state[t], device', k)
      BY <2>2, <2>3, <2>4, <2>7 DEF SyncStep, SyncLink, SyncAddress, SyncDone
    <2>8. ASSUME NEW u \in Threads, EnsureStep(u) PROVE PeerAsDescribed(state[t], device', k)
      BY <2>2, <2>8 DEF EnsureStep, Ensure, ensureRouting, ensureRule, ensureIptables
    <2> QED
      BY <2>5, <2>6, <2>7, <2>8, NextSteps
  <1> QED
    BY <1>1, InitSync, SyncInductive, PTL DEF Spec

--------------------------------------------------------------------------------
(* Err is honest *)

\* The routing for a peerCIDR stands.
Routed(r, cidr) == r.rules = {cidr} /\ cidr \in r.table /\ r.blackhole

\* The thread in Ensure holds the mutex; its list of rules is fresh until it uses it, and a pass
\* that has not failed has the routing in place before it turns to iptables.
EnsureInv ==
    /\ TypeOK
    /\ \A t \in Threads : pc[t] \in EnsurePcs => lock = {t}
    /\ \A t \in Threads : pc[t] = "rules" => have[t] = route.rules /\ PeerCIDR(state[t]) \in route.table
    /\ \A t \in Threads : pc[t] = "iptables" /\ ~failed => Routed(route, PeerCIDR(state[t]))
    /\ lock = {} /\ ~err => \E cidr \in CIDRs : last = {cidr} /\ Routed(route, cidr)

\* A step of a thread outside Ensure.
LEMMA EnsureFrame ==
    ASSUME EnsureInv, TypeOK', UNCHANGED <<lock, failed, err, last>>,
           route'.rules = route.rules, route'.table = route.table, route'.blackhole = route.blackhole,
           \A t \in Threads : \/ pc'[t] = pc[t] /\ have'[t] = have[t] /\ state'[t] = state[t]
                              \/ pc'[t] \notin EnsurePcs
    PROVE  EnsureInv'
  <1> USE DEF EnsureInv, EnsurePcs
  <1>1. \A t \in Threads : pc'[t] \in EnsurePcs => lock' = {t}
    OBVIOUS
  <1>2. \A t \in Threads : pc'[t] = "rules" => have'[t] = route'.rules /\ PeerCIDR(state'[t]) \in route'.table
    OBVIOUS
  <1>3. \A t \in Threads : pc'[t] = "iptables" /\ ~failed' => Routed(route', PeerCIDR(state'[t]))
    BY DEF Routed
  <1>4. lock' = {} /\ ~err' => \E cidr \in CIDRs : last' = {cidr} /\ Routed(route', cidr)
    BY DEF Routed
  <1> QED
    BY <1>1, <1>2, <1>3, <1>4 DEF PeerCIDR, Routed

LEMMA InitEnsure == Init => EnsureInv
  <1> SUFFICES ASSUME Init PROVE EnsureInv
    OBVIOUS
  <1>1. \A t \in Threads : pc[t] \notin EnsurePcs
    BY DEF Init, EnsurePcs
  <1> QED
    BY <1>1, InitType DEF EnsureInv, Init, EnsurePcs

LEMMA OutsideEnsure ==
    ASSUME EnsureInv, TypeOK', StartUp \/ AddWatch \/ OnEvent \/ Probe \/ Tick \/ health
                                \/ (\E t \in Threads : SyncStep(t) \/ SyncFails(t))
                                \/ \E s \in Files : WriteFile(s)
    PROVE  EnsureInv'
  <1>1. UNCHANGED <<route, lock, failed, err, last>>
    BY DEF StartUp, AddWatch, OnEvent, Probe, Tick, health, WriteFile, ensured, SyncFails,
           SyncStep, SyncLink, SyncAddress, CreateWireguardConfiguration, ConfigurePeer, SyncDone
  <1>2. \A t \in Threads : \/ pc'[t] = pc[t] /\ have'[t] = have[t] /\ state'[t] = state[t]
                           \/ pc'[t] \notin EnsurePcs
    <2> USE DEF EnsureInv, TypeOK, Goto, Reads, EnsurePcs
    <2>1. CASE StartUp \/ AddWatch \/ OnEvent \/ Probe \/ Tick
      BY <2>1, ZenonT(60) DEF StartUp, AddWatch, OnEvent, Probe, Tick
    <2>2. CASE health
      BY <2>2 DEF health, Return
    <2>3. ASSUME NEW u \in Threads, SyncLink(u) \/ CreateWireguardConfiguration(u) \/ ConfigurePeer(u) \/ SyncDone(u)
          PROVE  \A t \in Threads : \/ pc'[t] = pc[t] /\ have'[t] = have[t] /\ state'[t] = state[t]
                                    \/ pc'[t] \notin EnsurePcs
      BY <2>3 DEF SyncLink, CreateWireguardConfiguration, ConfigurePeer, SyncDone
    <2>4. ASSUME NEW u \in Threads, SyncAddress(u) \/ SyncFails(u)
          PROVE  \A t \in Threads : \/ pc'[t] = pc[t] /\ have'[t] = have[t] /\ state'[t] = state[t]
                                    \/ pc'[t] \notin EnsurePcs
      BY <2>4 DEF SyncAddress, SyncFails, SyncError, Return
    <2>5. ASSUME NEW s \in Files, WriteFile(s) PROVE UNCHANGED <<pc, have, state>>
      BY <2>5 DEF WriteFile, thread
    <2> QED
      BY <2>1, <2>2, <2>3, <2>4, <2>5 DEF SyncStep
  <1> QED
    BY <1>1, <1>2, EnsureFrame

\* The thread that leaves Ensure leaves the mutex free.
LEMMA LeaveEnsure ==
    ASSUME EnsureInv, TypeOK', NEW t \in Threads, pc[t] = "iptables", Return(t), lock' = {},
           last' = {PeerCIDR(state[t])},
           ~err' => Routed(route', PeerCIDR(state[t]))
    PROVE  EnsureInv'
  <1>1. \A u \in Threads : pc'[u] \notin EnsurePcs
    <2> SUFFICES ASSUME NEW u \in Threads PROVE pc'[u] \notin EnsurePcs
      OBVIOUS
    <2>1. CASE u = t
      BY <2>1 DEF EnsureInv, TypeOK, Return, Goto, EnsurePcs
    <2>2. CASE u # t
      BY <2>2, ZenonT(60) DEF EnsureInv, TypeOK, Return, Goto, EnsurePcs
    <2> QED
      BY <2>1, <2>2
  <1>2. ~err' => \E cidr \in CIDRs : last' = {cidr} /\ Routed(route', cidr)
    BY StateType DEF EnsureInv
  <1> QED
    BY <1>1, <1>2 DEF EnsureInv, EnsurePcs, Routed

LEMMA EnsureEnsure == ASSUME EnsureInv, TypeOK', NEW t \in Threads, EnsureStep(t) PROVE EnsureInv'
  <1> DEFINE want == PeerCIDR(state[t])
  <1>0. TypeOK /\ route \in Routes /\ want \in CIDRs
    BY StateType DEF EnsureInv, TypeOK
  <1>1. CASE Ensure(t)
    <2>1. \A u \in Threads : pc'[u] \in EnsurePcs => u = t /\ pc'[u] = "routing"
      BY <1>0, <1>1 DEF Ensure, Goto, TypeOK, EnsureInv, EnsurePcs
    <2> QED
      BY <1>1, <2>1 DEF Ensure, EnsureInv, EnsurePcs
  <1>2. CASE ensureRouting(t)
    <2>1. lock = {t} /\ lock' = lock /\ state' = state
      BY <1>2 DEF ensureRouting, EnsureInv, EnsurePcs
    <2>2. \A u \in Threads \ {t} : pc'[u] \notin EnsurePcs
      BY <1>0, <1>2, <2>1 DEF ensureRouting, Goto, TypeOK, EnsureInv
    <2>3. CASE link.live
      <3>1. pc'[t] = "rules" /\ have'[t] = route.rules
        BY <1>0, <1>2, <2>3 DEF ensureRouting, Goto, TypeOK
      <3>2. route'.rules = route.rules /\ want \in route'.table
        BY <1>0, <1>2, <2>3 DEF ensureRouting, Routes
      <3> QED
        BY <2>1, <2>2, <3>1, <3>2 DEF EnsureInv, EnsurePcs, PeerCIDR
    <2>4. CASE ~link.live
      <3>1. pc'[t] = "iptables" /\ failed'
        BY <1>0, <1>2, <2>4 DEF ensureRouting, Goto, TypeOK
      <3> QED
        BY <2>1, <2>2, <3>1 DEF EnsureInv, EnsurePcs
    <2> QED
      BY <2>3, <2>4
  <1>3. CASE ensureRule(t)
    <2>1. /\ lock = {t} /\ lock' = lock /\ state' = state /\ pc'[t] = "iptables"
          /\ have[t] = route.rules /\ want \in route.table
      BY <1>0, <1>3 DEF ensureRule, Goto, TypeOK, EnsureInv, EnsurePcs
    <2>2. \A u \in Threads \ {t} : pc'[u] \notin EnsurePcs
      BY <1>0, <1>3, <2>1 DEF ensureRule, Goto, TypeOK, EnsureInv
    <2>3. ~failed' => Routed(route', want)
      <3> DEFINE ruled == (route.rules \ (have[t] \ {want})) \union ({want} \ have[t])
      <3>1. ruled = {want}
        BY <2>1
      <3>2. ~failed' => route' = [route EXCEPT !.rules = ruled, !.blackhole = TRUE]
        BY <1>3 DEF ensureRule
      <3> HIDE DEF ruled, want
      <3> QED
        BY <1>0, <2>1, <3>1, <3>2 DEF Routed, Routes
    <2>4. PeerCIDR(state'[t]) = want
      BY <2>1
    <2> HIDE DEF want
    <2> QED
      BY <2>1, <2>2, <2>3, <2>4 DEF EnsureInv, EnsurePcs, Routed, PeerCIDR
  <1>4. CASE ensureIptables(t)
    <2>1. route'.rules = route.rules /\ route'.table = route.table /\ route'.blackhole = route.blackhole
      BY <1>0, <1>4 DEF ensureIptables, Routes
    <2>2. ~err' => Routed(route', want)
      BY <1>4, <2>1 DEF ensureIptables, EnsureInv, Routed
    <2> QED
      BY <1>4, <2>2, LeaveEnsure DEF ensureIptables
  <1> QED
    BY <1>1, <1>2, <1>3, <1>4 DEF EnsureStep

LEMMA RestartsEnsure ==
    ASSUME EnsureInv, TypeOK', RestartGluetun \/ RestartAgent \/ \E t \in Threads : EnsureFails(t)
    PROVE  EnsureInv'
  <1>0. TypeOK /\ route \in Routes
    BY DEF EnsureInv, TypeOK
  <1>1. CASE RestartGluetun
    <2>1. route'.rules = route.rules /\ route'.table = route.table /\ route'.blackhole = route.blackhole
      BY <1>0, <1>1 DEF RestartGluetun, Routes
    <2> QED
      BY <1>1, <2>1, EnsureFrame DEF RestartGluetun, thread
  <1>2. CASE RestartAgent
    <2>1. \A t \in Threads : pc'[t] \notin EnsurePcs
      BY <1>2 DEF RestartAgent, EnsurePcs
    <2> QED
      BY <1>2, <2>1 DEF RestartAgent, EnsureInv, EnsurePcs
  <1>3. ASSUME NEW t \in Threads, EnsureFails(t) PROVE EnsureInv'
    <2>1. CASE pc[t] = "iptables"
      BY <1>3, <2>1, LeaveEnsure DEF EnsureFails
    <2>2. CASE pc[t] # "iptables"
      <3>1. /\ pc[t] \in EnsurePcs /\ pc' = [pc EXCEPT ![t] = "iptables"] /\ failed' = TRUE
            /\ UNCHANGED <<state, have, route, lock, err, last>>
        BY <1>3, <2>2 DEF EnsureFails, Goto, EnsurePcs
      <3>2. lock = {t} /\ \A u \in Threads \ {t} : pc'[u] = pc[u] /\ pc'[u] \notin EnsurePcs
        BY <1>0, <3>1 DEF EnsureInv, TypeOK
      <3>3. pc'[t] = "iptables"
        BY <1>0, <3>1 DEF TypeOK
      <3> QED
        BY <3>1, <3>2, <3>3 DEF EnsureInv, EnsurePcs
    <2> QED
      BY <2>1, <2>2
  <1> QED
    BY <1>1, <1>2, <1>3

\* ErrHonest: whenever no Ensure runs and Err is nil, the routing for the last peerCIDR stands
\* (Ensure, ensureRouting, ensureRule). The mutex is what makes it inductive: the list of rules
\* a pass works from stays fresh until it is used.
THEOREM ErrIsHonest == Spec => []ErrHonest
  <1>1. EnsureInv /\ [Next]_vars => EnsureInv'
    <2> SUFFICES ASSUME EnsureInv, [Next]_vars PROVE EnsureInv'
      OBVIOUS
    <2>1. TypeOK'
      BY StepType DEF EnsureInv
    <2>2. CASE UNCHANGED vars
      BY <2>1, <2>2 DEF vars, thread, ensured, EnsureInv
    <2> QED
      BY <2>1, <2>2, NextSteps, OutsideEnsure, EnsureEnsure, RestartsEnsure DEF Environment
  <1>2. EnsureInv => ErrHonest
    BY DEF EnsureInv, ErrHonest, Routed
  <1> QED
    BY <1>1, <1>2, InitEnsure, PTL DEF Spec
================================================================================
