--------------------------------- MODULE Agent ---------------------------------
(***************************************************************************)
(* The agent of a gateway pod (cmd/agent/main.go, internal/agent,          *)
(* internal/wireguard, internal/datapath): three threads that read the     *)
(* state.json the kubelet mounts from the Secret and make the WireGuard    *)
(* device and the routing of the pod match it.                             *)
(*                                                                         *)
(*   watcher   the callback of OnStateChange, once at start-up and then    *)
(*             for every event of the mounted directory                    *)
(*   health    the handler of the kubelet's readiness probe, which syncs   *)
(*             the device before it answers                                *)
(*   reassert  the ticker that repeats Ensure                              *)
(*                                                                         *)
(* Nothing serialises the Syncs; a mutex serialises the Ensures. The       *)
(* device, the routes and the rules belong to the pod and survive the      *)
(* agent. Each netlink call that reads, and each that depends on a read,   *)
(* is a step of its own.                                                   *)
(***************************************************************************)
EXTENDS WireguardDevice

CONSTANTS
    Files,              \* the contents the state.json takes
    Interferences,      \* the kinds of interference an instance considers
    MaxChanges          \* bound: how often they happen

ASSUME FilesAssumption ==
    /\ Files \subseteq States /\ Files # {}
    /\ \A s \in Files : IsStateValid(s) => DistinctAddresses(s)

ASSUME MaxChangesAssumption == MaxChanges \in Nat

Threads == {"watcher", "health", "reassert"}

VARIABLES
    file,               \* the mounted state.json
    watching, event,    \* the directory is watched; an event is waiting
    hash,               \* the content the watcher saw last, in a set; {} before the first
    pc, state,          \* each thread's place, and the state it read
    have, todo,         \* what it listed, and the peer configurations it has left to send
    exclusive,          \* history: the thread whose configuration no other overlaps, in a set
    link, device,       \* wg0: its addresses and main-table route, and its peers
    route,              \* the routing and forwarding that Ensure asserts
    lock, failed,       \* holder of the Ensure mutex, in a set; its routing pass failed
    err, last,          \* the result Err returns, and, as history, the peerCIDR it is about
    tunnel, ready,      \* gluetun is healthy; the last answer to a probe
    changes

thread  == <<pc, state, have, todo, exclusive>>
ensured == <<route, lock, failed, err, last>>
watch   == <<watching, event, hash>>
vars    == <<file, watch, thread, link, device, ensured, tunnel, ready, changes>>

--------------------------------------------------------------------------------
(* State *)

Links == [live: BOOLEAN, addresses: SUBSET CIDRs, route: SUBSET CIDRs]

\* The pref-90 rules and the routes of the peer table, by peerCIDR; the pref-102 rule with its
\* blackhole; the iptables rules, by peerCIDR, and the FORWARD policy DROP.
Routes ==
    [rules: SUBSET CIDRs, table: SUBSET CIDRs, blackhole: BOOLEAN, iptables: SUBSET CIDRs, drop: BOOLEAN]

SomeFile == CHOOSE s \in Files : TRUE

SyncPcs == {"link", "address", "device", "peers"}

EnsurePcs == {"routing", "rules", "iptables"}

Places == {"start", "add", "idle", "check", "ensure"} \union SyncPcs \union EnsurePcs

\* The type invariant.
TypeOK ==
    /\ file \in Files /\ watching \in BOOLEAN /\ event \in BOOLEAN
    /\ hash \in SUBSET Files
    /\ pc \in [Threads -> Places]
    /\ state \in [Threads -> Files]
    /\ have \in [Threads -> SUBSET CIDRs] /\ todo \in [Threads -> SUBSET PeerConfigs]
    /\ exclusive \in SUBSET Threads
    /\ link \in Links /\ device \in Devices /\ route \in Routes
    /\ lock \in SUBSET Threads /\ failed \in BOOLEAN /\ err \in BOOLEAN /\ last \in SUBSET CIDRs
    /\ tunnel \in BOOLEAN /\ ready \in BOOLEAN
    /\ changes \in 0 .. MaxChanges

Init ==
    /\ file \in Files /\ watching = FALSE /\ event = FALSE /\ hash = {}
    /\ pc = [t \in Threads |-> IF t = "watcher" THEN "start" ELSE "idle"]
    /\ state = [t \in Threads |-> SomeFile]
    /\ have = [t \in Threads |-> {}] /\ todo = [t \in Threads |-> {}]
    /\ exclusive = {}
    /\ link = [live |-> FALSE, addresses |-> {}, route |-> {}] /\ device = NewDevice
    /\ route = [rules |-> {}, table |-> {}, blackhole |-> FALSE, iptables |-> {}, drop |-> FALSE]
    /\ lock = {} /\ failed = FALSE /\ err = TRUE /\ last = {}
    /\ tunnel = TRUE /\ ready = FALSE /\ changes = 0

Goto(t, place) == pc' = [pc EXCEPT ![t] = place]

\* A thread is done, and its locals are gone. The first callback returns into OnStateChange.
Return(t) ==
    /\ Goto(t, IF t = "watcher" /\ ~watching THEN "add" ELSE "idle")
    /\ state' = [state EXCEPT ![t] = SomeFile]
    /\ have' = [have EXCEPT ![t] = {}] /\ todo' = [todo EXCEPT ![t] = {}]

Reads(t) == state' = [state EXCEPT ![t] = file]

--------------------------------------------------------------------------------
(* The environment *)

Interfere(kind) == kind \in Interferences /\ changes < MaxChanges /\ changes' = changes + 1

\* The kubelet swaps the mounted files; only a watch that exists already sees it.
WriteFile(s) ==
    /\ Interfere("write") /\ s # file
    /\ file' = s /\ event' = (event \/ watching)
    /\ UNCHANGED <<watching, hash, thread, link, device, ensured, tunnel, ready>>

\* A gluetun restart flushes the iptables rules, and the tunnel goes down or comes up.
RestartGluetun ==
    /\ Interfere("gluetun")
    /\ route' = [route EXCEPT !.iptables = {}, !.drop = FALSE]
    /\ tunnel' = ~tunnel
    /\ UNCHANGED <<file, watch, thread, link, device, lock, failed, err, last, ready>>

\* The agent exits (watcher.Add failed, or it was killed) and its container is restarted.
RestartAgent ==
    /\ Interfere("restart")
    /\ watching' = FALSE /\ event' = FALSE /\ hash' = {}
    /\ pc' = [t \in Threads |-> IF t = "watcher" THEN "start" ELSE "idle"]
    /\ state' = [t \in Threads |-> SomeFile]
    /\ have' = [t \in Threads |-> {}] /\ todo' = [t \in Threads |-> {}] /\ exclusive' = {}
    /\ lock' = {} /\ failed' = FALSE /\ err' = TRUE /\ last' = {} /\ ready' = FALSE
    /\ UNCHANGED <<file, link, device, route, tunnel>>

--------------------------------------------------------------------------------
(* Reading the state *)

\* OnStateChange up to its callback. An unreadable file leaves no hash; an invalid one does.
StartUp ==
    /\ pc["watcher"] = "start"
    /\ \/ /\ Interfere("failure") /\ Goto("watcher", "add") /\ UNCHANGED <<state, hash>>
       \/ /\ hash' = {file} /\ UNCHANGED changes
          /\ IF IsStateValid(file) THEN Goto("watcher", "link") /\ Reads("watcher")
             ELSE Goto("watcher", "add") /\ UNCHANGED state
    /\ UNCHANGED <<file, watching, event, have, todo, exclusive, link, device, ensured, tunnel, ready>>

\* watcher.Add; main then starts the ticker and the health server.
AddWatch ==
    /\ pc["watcher"] = "add" /\ Goto("watcher", "idle")
    /\ watching' = TRUE
    /\ UNCHANGED <<file, event, hash, state, have, todo, exclusive, link, device, ensured, tunnel, ready,
                   changes>>

\* One event: the file is read and, if it is readable, new and valid, handed to the callback.
OnEvent ==
    /\ event /\ pc["watcher"] = "idle" /\ event' = FALSE
    /\ \/ Interfere("failure") /\ UNCHANGED <<state, hash, pc>>
       \/ /\ hash' = {file} /\ UNCHANGED changes
          /\ IF hash # {file} /\ IsStateValid(file) THEN Goto("watcher", "link") /\ Reads("watcher")
             ELSE UNCHANGED <<pc, state>>
    /\ UNCHANGED <<file, watching, have, todo, exclusive, link, device, ensured, tunnel, ready>>

\* Mutant: the probe answers without syncing.
ProbeOnly ==
    /\ watching /\ pc["health"] = "idle"
    /\ IF IsStateValid(file) THEN Goto("health", "check") /\ Reads("health") /\ UNCHANGED ready
       ELSE ready' = FALSE /\ UNCHANGED <<pc, state>>
    /\ UNCHANGED <<file, watch, have, todo, exclusive, link, device, ensured, tunnel, changes>>

\* A probe reads and validates the file, or fails.
Probe ==
    /\ watching /\ pc["health"] = "idle"
    /\ \/ Interfere("failure") /\ ready' = FALSE /\ UNCHANGED <<state, pc>>
       \/ /\ UNCHANGED changes
          /\ IF IsStateValid(file) THEN Goto("health", "link") /\ Reads("health") /\ UNCHANGED ready
             ELSE ready' = FALSE /\ UNCHANGED <<pc, state>>
    /\ UNCHANGED <<file, watch, have, todo, exclusive, link, device, ensured, tunnel>>

\* A tick of reassert: the state is read, not validated.
Tick ==
    /\ watching /\ pc["reassert"] = "idle"
    /\ Reads("reassert") /\ Goto("reassert", "ensure")
    /\ UNCHANGED <<file, watch, have, todo, exclusive, link, device, ensured, tunnel, ready, changes>>

--------------------------------------------------------------------------------
(* Sync, by the watcher or a probe *)

\* A Sync that fails ends the callback, or the probe with 503.
SyncError(t) == Return(t) /\ ready' = (ready /\ t # "health")

\* SyncLink creates wg0 if need be, and SyncAddress lists its addresses.
SyncLink(t) ==
    /\ pc[t] = "link" /\ Goto(t, "address")
    /\ link' = [link EXCEPT !.live = TRUE]
    /\ have' = [have EXCEPT ![t] = link.addresses]
    /\ UNCHANGED <<file, watch, state, todo, exclusive, device, ensured, tunnel, ready, changes>>

\* addressChanges against the list: the other addresses go and the wanted one is added, which
\* fails if another Sync was there first. syncRoute then adds a route unless there is any.
SyncAddress(t) ==
    LET want   == PeerCIDR(state[t])
        remove == have[t] \ {want}
        add    == {want} \ have[t]
    IN  /\ pc[t] = "address"
        /\ IF remove \subseteq link.addresses /\ add \intersect link.addresses = {}
           THEN /\ link' = [link EXCEPT !.addresses = (@ \ remove) \union add,
                                        !.route = IF @ = {} THEN {want} ELSE @]
                /\ Goto(t, "device")
                /\ UNCHANGED <<state, have, todo, ready>>
           ELSE /\ link' = [link EXCEPT !.addresses = @ \ remove]
                /\ SyncError(t)
        /\ UNCHANGED <<file, watch, exclusive, device, ensured, tunnel, changes>>

\* The peers of the device are read and compared, and the configuration is sent: first the
\* private key, then the peers.
CreateWireguardConfiguration(t) ==
    /\ pc[t] = "device" /\ Goto(t, "peers")
    /\ todo' = [todo EXCEPT ![t] = createPeersConfiguration(device, state[t])]
    /\ device' = [device EXCEPT !.key = state[t].key]
    /\ exclusive' = IF \E u \in Threads : pc[u] = "peers" THEN {} ELSE {t}
    /\ UNCHANGED <<file, watch, state, have, link, ensured, tunnel, ready, changes>>

\* One peer of it, in the order of a map. wgctrl sends a large configuration in parts, so
\* another Sync may come in between.
ConfigurePeer(t) ==
    /\ pc[t] = "peers"
    /\ \E c \in todo[t] :
        /\ device' = applyPeer(device, c)
        /\ todo' = [todo EXCEPT ![t] = @ \ {c}]
    /\ UNCHANGED <<file, watch, pc, state, have, exclusive, link, ensured, tunnel, ready, changes>>

SyncDone(t) ==
    /\ pc[t] = "peers" /\ todo[t] = {}
    /\ Goto(t, IF t = "health" THEN "check" ELSE "ensure")
    /\ exclusive' = exclusive \ {t}
    /\ UNCHANGED <<file, watch, state, have, todo, link, device, ensured, tunnel, ready, changes>>

\* Any netlink call of a Sync fails.
SyncFails(t) ==
    /\ Interfere("failure") /\ pc[t] \in SyncPcs
    /\ SyncError(t)
    /\ exclusive' = exclusive \ {t}
    /\ UNCHANGED <<file, watch, link, device, ensured, tunnel>>

--------------------------------------------------------------------------------
(* Ensure, by the watcher after its Sync or by a tick *)

\* Mutant: Ensure takes no mutex.
EnsureUnlocked(t) ==
    /\ pc[t] = "ensure" /\ Goto(t, "routing")
    /\ lock' = {t} /\ failed' = FALSE
    /\ UNCHANGED <<file, watch, state, have, todo, exclusive, link, device, route, err, last, tunnel, ready,
                   changes>>

Ensure(t) ==
    /\ pc[t] = "ensure" /\ lock = {} /\ Goto(t, "routing")
    /\ lock' = {t} /\ failed' = FALSE
    /\ UNCHANGED <<file, watch, state, have, todo, exclusive, link, device, route, err, last, tunnel, ready,
                   changes>>

\* The routes are replaced and the pref-90 rules listed. Without wg0 the routing pass fails.
ensureRouting(t) ==
    /\ pc[t] = "routing"
    /\ IF link.live
       THEN /\ route' = [route EXCEPT !.table = @ \union {PeerCIDR(state[t])}]
            /\ have' = [have EXCEPT ![t] = route.rules]
            /\ Goto(t, "rules") /\ UNCHANGED failed
       ELSE failed' = TRUE /\ Goto(t, "iptables") /\ UNCHANGED <<route, have>>
    /\ UNCHANGED <<file, watch, state, todo, exclusive, link, device, lock, err, last, tunnel, ready, changes>>

\* Against the list, the other rules are deleted and the wanted one is added; then the pref-102
\* rule is. Deleting what is gone, or adding what is there, fails.
ensureRule(t) ==
    LET want   == PeerCIDR(state[t])
        remove == have[t] \ {want}
        add    == {want} \ have[t]
    IN  /\ pc[t] = "rules" /\ Goto(t, "iptables")
        /\ IF remove \subseteq route.rules /\ add \intersect route.rules = {}
           THEN /\ route' = [route EXCEPT !.rules = (@ \ remove) \union add, !.blackhole = TRUE]
                /\ UNCHANGED failed
           ELSE /\ route' = [route EXCEPT !.rules = @ \ remove]
                /\ failed' = TRUE
        /\ UNCHANGED <<file, watch, state, have, todo, exclusive, link, device, lock, err, last, tunnel, ready,
                       changes>>

\* Mutant: an error once recorded stays.
ensureIptablesStickyErr(t) ==
    /\ pc[t] = "iptables"
    /\ route' = [route EXCEPT !.drop = TRUE, !.iptables = @ \union {PeerCIDR(state[t])}]
    /\ err' = (failed \/ err) /\ last' = {PeerCIDR(state[t])} /\ lock' = {} /\ failed' = FALSE
    /\ Return(t)
    /\ UNCHANGED <<file, watch, exclusive, link, device, tunnel, ready, changes>>

\* The iptables pass runs whether or not the routing pass failed; the result is recorded and
\* the mutex released.
ensureIptables(t) ==
    /\ pc[t] = "iptables"
    /\ route' = [route EXCEPT !.drop = TRUE, !.iptables = @ \union {PeerCIDR(state[t])}]
    /\ err' = failed /\ last' = {PeerCIDR(state[t])} /\ lock' = {} /\ failed' = FALSE
    /\ Return(t)
    /\ UNCHANGED <<file, watch, exclusive, link, device, tunnel, ready, changes>>

\* A netlink call of the routing pass fails, or an iptables call.
EnsureFails(t) ==
    /\ Interfere("failure")
    /\ \/ /\ pc[t] \in {"routing", "rules"} /\ Goto(t, "iptables") /\ failed' = TRUE
          /\ UNCHANGED <<state, have, todo, route, lock, err, last>>
       \/ /\ pc[t] = "iptables" /\ Return(t)
          /\ \E drop \in {route.drop, TRUE} : route' = [route EXCEPT !.drop = drop]
          /\ err' = TRUE /\ last' = {PeerCIDR(state[t])} /\ lock' = {} /\ failed' = FALSE
    /\ UNCHANGED <<file, watch, exclusive, link, device, tunnel, ready>>

\* The rest of a probe: Err, CheckPeerPath and GluetunHealthy. The last two ask the kernel and
\* gluetun, and are taken to say whether the tunnel is up.
health ==
    /\ pc["health"] = "check" /\ Return("health")
    /\ ready' = (~err /\ tunnel)
    /\ UNCHANGED <<file, watch, exclusive, link, device, ensured, tunnel, changes>>

--------------------------------------------------------------------------------
(* Specification *)

Watcher ==
    \/ StartUp \/ AddWatch \/ OnEvent
    \/ LET t == "watcher" IN
            \/ SyncLink(t) \/ SyncAddress(t) \/ CreateWireguardConfiguration(t) \/ ConfigurePeer(t) \/ SyncDone(t)
            \/ Ensure(t) \/ ensureRouting(t) \/ ensureRule(t) \/ ensureIptables(t)

Health ==
    \/ Probe \/ health
    \/ LET t == "health" IN
            SyncLink(t) \/ SyncAddress(t) \/ CreateWireguardConfiguration(t) \/ ConfigurePeer(t) \/ SyncDone(t)

Reassert ==
    \/ Tick
    \/ LET t == "reassert" IN Ensure(t) \/ ensureRouting(t) \/ ensureRule(t) \/ ensureIptables(t)

Environment ==
    \/ \E s \in Files : WriteFile(s)
    \/ RestartGluetun \/ RestartAgent
    \/ \E t \in Threads : SyncFails(t) \/ EnsureFails(t)

Next == Watcher \/ Health \/ Reassert \/ Environment

Spec == Init /\ [][Next]_vars

\* The threads run, the kubelet keeps probing and the ticker keeps ticking.
FairSpec == Spec /\ WF_vars(Watcher) /\ WF_vars(Health) /\ WF_vars(Reassert)

--------------------------------------------------------------------------------
(* Properties *)

\* A Sync that no other overlaps leaves the device exactly as the state describes it, whatever
\* was on it before and in whatever order the peers are sent, although allowed IPs move between
\* peers on the way (createPeersConfiguration, syncWireguard).
SyncExact ==
    \A t \in exclusive : pc[t] = "peers" /\ todo[t] = {} => describes(state[t], device)

\* While no Ensure runs and the last one reported no error, its peerCIDR has the only pref-90
\* rule, a route in the peer table, and the blackhole behind it (Ensure, ensureRule).
ErrHonest ==
    lock = {} /\ ~err => route.rules = last /\ last \subseteq route.table /\ route.blackhole

\* The pod matches a valid state.json.
Matches ==
    LET cidr == PeerCIDR(file)
    IN  /\ device.key = file.key /\ describes(file, device)
        /\ link.live /\ link.addresses = {cidr}
        /\ route.rules = {cidr} /\ cidr \in route.table /\ route.blackhole
        /\ cidr \in route.iptables /\ route.drop

\* Once the file stops changing and failures stop, the pod comes to match a valid file for good:
\* a change missed before the watch, a Sync that failed after its hash was stored, a late Sync or
\* Ensure of an old state and flushed rules are all made good (OnStateChange, /health, reassert).
Converges == <>[](IsStateValid(file) => Matches)

\* ... and if the tunnel is up for good then, so is the answer to the probes (/health).
BecomesReady == <>[](IsStateValid(file) /\ tunnel) => <>[]ready
================================================================================
