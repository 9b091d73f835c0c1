----------------------------- MODULE SidecarRoutes -----------------------------
(***************************************************************************)
(* How a client sidecar applies a Tunnel to its pod: wg0, its one peer,    *)
(* then the main routing table (internal/sidecar: apply.go, tunnel.go,     *)
(* routes.go, routes_linux.go). The table is all that the sidecar          *)
(* remembers: after a restart it reads the CNI gateway from the routes it  *)
(* installed. Each netlink request is a step of its own; the sidecar may   *)
(* be restarted, a request may fail and wg0 may vanish between any two.    *)
(***************************************************************************)
EXTENDS Integers, FiniteSets

CONSTANTS
    LocalCIDRs,     \* entries of localCIDRs
    Prefixes,       \* destinations of the CNI's routes, a default route apart
    Servers,        \* server public keys, each with its endpoint
    Gateway,        \* the CNI's gateway
    Tunnels,        \* the Tunnels that the status asks for
    Tables,         \* the main tables that the CNI leaves in the pod
    Interferences,  \* the kinds of interference an instance considers
    MaxChanges      \* bound: how often they happen

VARIABLES
    tunnel,         \* the Tunnel that the status asks for
    pc, applying,   \* the pass's place and the Tunnel it applies
    gw, local,      \* its plan: the gateway, in a set; the local routes it has yet to replace
    stale,          \* ... and the stale routes it has yet to delete
    wg0, device,    \* wg0 exists; the server of its one peer, in a set
    session,        \* the peer has a live session
    table, ipv6,    \* the IPv4 main table; there is an IPv6 default route
    undisturbed,    \* history: nothing interfered since the pass began
    changes

plan   == <<gw, local, stale>>
kernel == <<wg0, device, session, table, ipv6>>
vars   == <<tunnel, pc, applying, plan, kernel, undisturbed, changes>>

--------------------------------------------------------------------------------
(* Routes *)

NoGateway == "none"

Default == "default"

\* own: protocol routeProtocol.
Routes ==
    [dst: LocalCIDRs \union Prefixes \union {Default}, gw: {Gateway, NoGateway}, link: {"eth0", "wg0"},
     priority: Nat, own: BOOLEAN]

isDefault(r) == r.dst = Default

ASSUME TunnelsAssumption ==
    Tunnels # {} /\ Tunnels \subseteq [server: Servers, local: (SUBSET LocalCIDRs) \ {{}}]

\* The CNI leaves a default route via the gateway, and no route of the sidecar's.
ASSUME TablesAssumption ==
    /\ Gateway # NoGateway /\ Default \notin LocalCIDRs \union Prefixes
    /\ \A T \in Tables :
        /\ T \subseteq {r \in Routes : ~r.own /\ r.link = "eth0"}
        /\ \E r \in T : isDefault(r) /\ r.gw = Gateway

ASSUME MaxChangesAssumption == MaxChanges \in Nat

\* Mutant: only a default route tells the gateway.
planGatewayFromDefault(have) ==
    {r \in have : isDefault(r) /\ r.link # "wg0" /\ r.gw # NoGateway}

\* Mutant: a default route without a gateway counts.
planGatewayAny(have) ==
    LET defaults == {r \in have : isDefault(r) /\ r.link # "wg0"}
    IN  IF defaults # {} THEN defaults ELSE {r \in have : r.own /\ r.gw # NoGateway}

\* The routes that tell the gateway: a default route off wg0, or else one of the sidecar's own.
\* The code takes the first of them that the kernel lists.
planGateway(have) ==
    LET defaults == {r \in have : isDefault(r) /\ r.link # "wg0" /\ r.gw # NoGateway}
    IN  IF defaults # {} THEN defaults ELSE {r \in have : r.own /\ r.gw # NoGateway}

\* Mutant: the routes of entries that left localCIDRs stay.
planStaleDefaults(have, localCIDRs) == {r \in have : isDefault(r) /\ r.link # "wg0"}

\* Mutant: the CNI's routes count as stale.
planStaleAll(have, localCIDRs) ==
    {r \in have : IF isDefault(r) THEN r.link # "wg0" ELSE r.dst \notin localCIDRs}

planStale(have, localCIDRs) ==
    {r \in have : IF isDefault(r) THEN r.link # "wg0" ELSE r.own /\ r.dst \notin localCIDRs}

localRoute(p, g) == [dst |-> p, gw |-> g, link |-> "eth0", priority |-> 0, own |-> TRUE]

tunnelRoute == [dst |-> Default, gw |-> NoGateway, link |-> "wg0", priority |-> 0, own |-> TRUE]

\* The kernel replaces the route with the destination and the priority of the new one.
RouteReplace(have, r) ==
    {s \in have : s.dst # r.dst \/ s.priority # r.priority} \union {r}

--------------------------------------------------------------------------------
(* State *)

\* The type invariant.
TypeOK ==
    /\ tunnel \in Tunnels /\ applying \in Tunnels
    /\ pc \in {"idle", "device", "list", "local", "stale", "done"}
    /\ gw \in SUBSET {Gateway} /\ local \in SUBSET LocalCIDRs /\ stale \in SUBSET Routes
    /\ wg0 \in BOOLEAN /\ device \in SUBSET Servers /\ session \in BOOLEAN
    /\ table \in SUBSET Routes /\ ipv6 \in BOOLEAN
    /\ undisturbed \in BOOLEAN /\ changes \in 0 .. MaxChanges

SomeTunnel == CHOOSE t \in Tunnels : TRUE

NoPlan == gw = {} /\ local = {} /\ stale = {}

Init ==
    /\ tunnel \in Tunnels /\ applying = SomeTunnel
    /\ pc = "idle" /\ NoPlan
    /\ wg0 = FALSE /\ device = {} /\ session = FALSE
    /\ table \in Tables /\ ipv6 \in BOOLEAN
    /\ undisturbed = TRUE /\ changes = 0

--------------------------------------------------------------------------------
(* The environment *)

Interfere(kind) ==
    /\ kind \in Interferences /\ changes < MaxChanges /\ changes' = changes + 1
    /\ undisturbed' = FALSE

\* The operator publishes another status.
Publish(t) ==
    /\ Interfere("status") /\ t # tunnel
    /\ tunnel' = t
    /\ UNCHANGED <<pc, applying, plan, kernel>>

\* wg0 goes, with its routes: its userspace process is gone, or someone deleted it.
LoseDevice ==
    /\ Interfere("vanish") /\ wg0
    /\ wg0' = FALSE /\ device' = {} /\ session' = FALSE
    /\ table' = {r \in table : r.link # "wg0"}
    /\ UNCHANGED <<tunnel, pc, applying, plan, ipv6>>

\* The CNI, or a router advertisement, sets a default route via its gateway again.
AddDefault ==
    /\ Interfere("default")
    /\ \/ /\ \E T \in Tables : \E r \in T :
                isDefault(r) /\ r.gw = Gateway /\ table' = RouteReplace(table, r)
          /\ UNCHANGED ipv6
       \/ ipv6' = TRUE /\ UNCHANGED table
    /\ UNCHANGED <<tunnel, pc, applying, plan, wg0, device, session>>

Handshake ==
    /\ device # {} /\ ~session /\ session' = TRUE
    /\ UNCHANGED <<tunnel, pc, applying, plan, wg0, device, table, ipv6, undisturbed, changes>>

EndPass == pc' = "idle" /\ gw' = {} /\ local' = {} /\ stale' = {} /\ applying' = SomeTunnel

\* A request fails, or the sidecar is restarted.
PassFails ==
    /\ Interfere("failure") /\ pc # "idle"
    /\ EndPass
    /\ UNCHANGED <<tunnel, kernel>>

--------------------------------------------------------------------------------
(* Apply *)

\* SyncLink and SyncAddress.
SyncLink ==
    /\ pc = "idle" /\ pc' = "device"
    /\ applying' = tunnel /\ wg0' = TRUE /\ undisturbed' = TRUE
    /\ UNCHANGED <<tunnel, plan, device, session, table, ipv6, changes>>

\* Mutant: the device is never taken to match.
deviceMatchesNever(t) == FALSE

\* Mutant: any peer will do.
deviceMatchesAny(t) == device # {}

deviceMatches(t) == device = {t.server}

\* deviceConfig, and ConfigureDevice unless the device matches: replacing the peer ends its
\* session. Without wg0 the device cannot be read.
ConfigureDevice ==
    /\ pc = "device"
    /\ IF wg0
       THEN /\ pc' = "list" /\ UNCHANGED <<applying, plan>>
            /\ device' = IF deviceMatches(applying) THEN device ELSE {applying.server}
            /\ session' = (session /\ deviceMatches(applying))
       ELSE EndPass /\ UNCHANGED <<device, session>>
    /\ UNCHANGED <<tunnel, wg0, table, ipv6, undisturbed, changes>>

\* ensureRoutes lists the table and planRoutes plans from it.
planRoutes ==
    /\ pc = "list"
    /\ IF ~wg0 \/ planGateway(table) = {} THEN EndPass
       ELSE /\ \E r \in planGateway(table) : gw' = {r.gw}
            /\ local' = applying.local /\ stale' = planStale(table, applying.local)
            /\ pc' = "local" /\ UNCHANGED applying
    /\ UNCHANGED <<tunnel, kernel, undisturbed, changes>>

replaceLocal ==
    /\ pc = "local" /\ local # {}
    /\ \E p \in local, g \in gw :
        local' = local \ {p} /\ table' = RouteReplace(table, localRoute(p, g))
    /\ UNCHANGED <<tunnel, pc, applying, gw, stale, wg0, device, session, ipv6, undisturbed, changes>>

\* Mutant: the default route moves to wg0 before the local routes are there.
replaceDefaultFirst ==
    /\ pc = "local"
    /\ IF wg0 THEN table' = RouteReplace(table, tunnelRoute) /\ pc' = "stale" /\ UNCHANGED <<applying, plan>>
       ELSE EndPass /\ UNCHANGED table
    /\ UNCHANGED <<tunnel, wg0, device, session, ipv6, undisturbed, changes>>

replaceDefault ==
    /\ pc = "local" /\ local = {}
    /\ IF wg0 THEN table' = RouteReplace(table, tunnelRoute) /\ pc' = "stale" /\ UNCHANGED <<applying, plan>>
       ELSE EndPass /\ UNCHANGED table
    /\ UNCHANGED <<tunnel, wg0, device, session, ipv6, undisturbed, changes>>

\* A route that is gone already is no error.
deleteStale ==
    /\ pc = "stale" /\ stale # {}
    /\ \E r \in stale : stale' = stale \ {r} /\ table' = table \ {r}
    /\ UNCHANGED <<tunnel, pc, applying, gw, local, wg0, device, session, ipv6, undisturbed, changes>>

deleteIPv6Defaults ==
    /\ pc = "stale" /\ stale = {} /\ pc' = "done"
    /\ ipv6' = FALSE
    /\ UNCHANGED <<tunnel, applying, plan, wg0, device, session, table, undisturbed, changes>>

\* The loop waits for a change or the ticker.
PassDone ==
    /\ pc = "done" /\ EndPass
    /\ UNCHANGED <<tunnel, kernel, undisturbed, changes>>

\* The startup probe: a live session with the one peer, and the kernel's route out is wg0.
Check ==
    /\ device # {} /\ session
    /\ \E r \in table :
        /\ isDefault(r) /\ r.link = "wg0"
        /\ \A s \in table : isDefault(s) => r.priority <= s.priority

--------------------------------------------------------------------------------
(* Specification *)

Pass ==
    \/ SyncLink \/ ConfigureDevice \/ planRoutes \/ replaceLocal \/ replaceDefault \/ deleteStale
    \/ deleteIPv6Defaults \/ PassDone

Next == Pass \/ Handshake \/ LoseDevice \/ AddDefault \/ PassFails \/ \E t \in Tunnels : Publish(t)

Spec == Init /\ [][Next]_vars

\* The ticker keeps the passes coming.
FairSpec == Spec /\ WF_vars(Pass)

--------------------------------------------------------------------------------
(* Properties *)

\* At every moment, the table tells the CNI's gateway: wherever a pass is cut short, the next one
\* can plan, and plans with the right gateway (planRoutes, the order of ensureRoutes).
GatewayKnown == {r.gw : r \in planGateway(table)} = {Gateway}

\* The main table that a Tunnel asks for, leaving the CNI's other routes alone.
Exact(t) ==
    /\ wg0 /\ device = {t.server} /\ ~ipv6
    /\ {r \in table : isDefault(r)} = {tunnelRoute}
    /\ {r \in table : r.own} = {localRoute(p, Gateway) : p \in t.local} \union {tunnelRoute}

\* A pass that nothing disturbed leaves exactly the routes its Tunnel asks for, whatever earlier
\* passes, finished or not, have left (planRoutes, ensureRoutes).
PassExact == pc = "done" /\ undisturbed => Exact(applying)

\* A route to a local CIDR or one of the CNI's that the pass should leave alone is never lost:
\* what goes is a default route, a route on wg0, one of the sidecar's own that is not asked for,
\* or the CNI's for the very prefix of a local CIDR (planRoutes, deleteStale).
OthersKept ==
    [][\A r \in table \ table' :
        isDefault(r) \/ r.link = "wg0" \/ (IF r.own THEN r.dst \notin applying.local ELSE r.dst \in applying.local)]_vars

\* Whenever the startup probe passes, all the local CIDRs of some published status go via the CNI's
\* gateway: while one status replaces another, and wherever a pass is cut short, the pod never runs
\* with half a set of local routes (the order of ensureRoutes; Check).
LocalRouted == Check => \E t \in Tunnels : \A p \in t.local : localRoute(p, Gateway) \in table

\* A live session ends only when the device is given another server or goes (deviceConfig).
SessionKept == [][session /\ ~session' => device' # device]_vars

\* Once nothing interferes any more, the pod comes to route as its Tunnel asks, for good.
Converges == <>[]Exact(tunnel)
================================================================================
