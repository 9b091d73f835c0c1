-------------------------- MODULE SidecarRoutes_proofs --------------------------
(***************************************************************************)
(* Proofs about SidecarRoutes, for any Tunnels, tables of the CNI and      *)
(* number of interferences: the gateway is never forgotten, a pass leaves  *)
(* exactly what it should, and the routes and the session that others rely *)
(* on are kept.                                                            *)
(***************************************************************************)
EXTENDS SidecarRoutes, TLAPS

--------------------------------------------------------------------------------
(* Routes *)

LEMMA RouteTypes ==
    /\ tunnelRoute \in Routes /\ isDefault(tunnelRoute) /\ tunnelRoute.own /\ tunnelRoute.link = "wg0"
    /\ \A p \in LocalCIDRs :
        /\ localRoute(p, Gateway) \in Routes /\ ~isDefault(localRoute(p, Gateway))
        /\ localRoute(p, Gateway).own /\ localRoute(p, Gateway).dst = p
        /\ localRoute(p, Gateway).gw = Gateway /\ localRoute(p, Gateway).link = "eth0"
  BY TablesAssumption DEF tunnelRoute, localRoute, Routes, isDefault, Default, NoGateway

LEMMA TunnelTypes ==
    /\ SomeTunnel \in Tunnels
    /\ \A t \in Tunnels : t.server \in Servers /\ t.local \subseteq LocalCIDRs /\ t.local # {}
  BY TunnelsAssumption DEF SomeTunnel

\* What a replaced route leaves.
LEMMA Replaced ==
    ASSUME NEW T, NEW r
    PROVE  /\ r \in RouteReplace(T, r)
           /\ RouteReplace(T, r) \subseteq T \union {r}
           /\ \A s \in T : s \in RouteReplace(T, r) \/ (s.dst = r.dst /\ s.priority = r.priority)
  BY DEF RouteReplace

--------------------------------------------------------------------------------
(* Types *)

LEMMA InitType == Init => TypeOK
  <1> SUFFICES ASSUME Init PROVE TypeOK
    OBVIOUS
  <1>1. tunnel \in Tunnels /\ applying \in Tunnels
    BY TunnelTypes DEF Init
  <1>2. table \in SUBSET Routes
    BY TablesAssumption DEF Init
  <1>3. changes \in 0 .. MaxChanges
    BY MaxChangesAssumption DEF Init
  <1> QED
    BY <1>1, <1>2, <1>3 DEF Init, NoPlan, TypeOK

LEMMA InterfereType == ASSUME TypeOK, NEW kind, Interfere(kind) PROVE changes' \in 0 .. MaxChanges /\ undisturbed' \in BOOLEAN
  <1>1. changes' \in 0 .. MaxChanges
    BY MaxChangesAssumption DEF TypeOK, Interfere
  <1> QED
    BY <1>1 DEF Interfere

LEMMA EndPassType ==
    EndPass => pc' = "idle" /\ applying' \in Tunnels /\ gw' \in SUBSET {Gateway} /\ local' \in SUBSET LocalCIDRs /\ stale' \in SUBSET Routes
  BY TunnelTypes DEF EndPass

LEMMA GatewayType == ASSUME TypeOK, NEW r \in planGateway(table) PROVE r \in table /\ r.gw = Gateway
  BY DEF TypeOK, planGateway, Routes

LEMMA StepType == TypeOK /\ [Next]_vars => TypeOK'
  <1> SUFFICES ASSUME TypeOK, [Next]_vars PROVE TypeOK'
    OBVIOUS
  <1>1. ASSUME NEW t \in Tunnels, Publish(t) PROVE TypeOK'
    BY <1>1, InterfereType DEF Publish, TypeOK, plan, kernel
  <1>2. CASE LoseDevice
    BY <1>2, InterfereType DEF LoseDevice, TypeOK, plan
  <1>3. CASE AddDefault
    <2>1. table' \in SUBSET Routes
      <3>1. ASSUME NEW T \in Tables, NEW r \in T, table' = RouteReplace(table, r) PROVE table' \in SUBSET Routes
        BY <3>1, TablesAssumption, Replaced DEF TypeOK
      <3> QED
        BY <1>3, <3>1 DEF AddDefault, TypeOK
    <2> QED
      BY <1>3, <2>1, InterfereType DEF AddDefault, TypeOK, plan
  <1>4. CASE Handshake
    BY <1>4 DEF Handshake, TypeOK, plan
  <1>5. CASE PassFails
    BY <1>5, InterfereType, EndPassType DEF PassFails, TypeOK, kernel
  <1>6. CASE SyncLink
    BY <1>6 DEF SyncLink, TypeOK, plan
  <1>7. CASE ConfigureDevice
    <2>1. session' \in BOOLEAN
      BY <1>7 DEF ConfigureDevice, TypeOK, deviceMatches
    <2>2. device' \in SUBSET Servers
      <3>1. applying.server \in Servers
        BY TunnelTypes DEF TypeOK
      <3>2. device' = device \/ device' = {applying.server}
        BY <1>7 DEF ConfigureDevice
      <3> QED
        BY <3>1, <3>2 DEF TypeOK
    <2> QED
      BY <1>7, <2>1, <2>2, EndPassType DEF ConfigureDevice, TypeOK, plan
  <1>8. CASE planRoutes
    <2>1. planStale(table, applying.local) \subseteq Routes
      BY DEF planStale, TypeOK
    <2> QED
      BY <1>8, <2>1, EndPassType, TunnelTypes, GatewayType DEF planRoutes, TypeOK, kernel
  <1>9. CASE replaceLocal
    <2>1. PICK p \in local, g \in gw : local' = local \ {p} /\ table' = RouteReplace(table, localRoute(p, g))
      BY <1>9 DEF replaceLocal
    <2>2. p \in LocalCIDRs /\ g = Gateway
      BY DEF TypeOK
    <2>3. table' \in SUBSET Routes
      BY <2>1, <2>2, RouteTypes, Replaced DEF TypeOK
    <2> QED
      BY <1>9, <2>1, <2>3 DEF replaceLocal, TypeOK
  <1>10. CASE replaceDefault
    BY <1>10, EndPassType, RouteTypes, Replaced DEF replaceDefault, TypeOK, plan
  <1>11. CASE deleteStale
    BY <1>11 DEF deleteStale, TypeOK
  <1>12. CASE deleteIPv6Defaults
    BY <1>12 DEF deleteIPv6Defaults, TypeOK, plan
  <1>13. CASE PassDone
    BY <1>13, EndPassType DEF PassDone, TypeOK, kernel
  <1>14. CASE UNCHANGED vars
    BY <1>14 DEF vars, TypeOK, plan, kernel
  <1> QED
    BY <1>1, <1>2, <1>3, <1>4, <1>5, <1>6, <1>7, <1>8, <1>9, <1>10, <1>11, <1>12, <1>13, <1>14 DEF Next, Pass

\* Every state has the types of the model: a plan never holds a foreign gateway (planRoutes).
THEOREM TypeCorrect == Spec => []TypeOK
  BY InitType, StepType, PTL DEF Spec

--------------------------------------------------------------------------------
(* The table. Routes of the sidecar's own are the ones it makes; while it     *)
(* replaces and deletes, the local routes it has set stay.                     *)

Stale(r, t) == IF isDefault(r) THEN r.link # "wg0" ELSE r.own /\ r.dst \notin t.local

Routed(t) == \A p \in t.local : localRoute(p, Gateway) \in table

TableOK ==
    \A r \in table :
        /\ r.own => r = tunnelRoute \/ \E p \in LocalCIDRs : r = localRoute(p, Gateway)
        /\ ~r.own => r.link = "eth0"

Known == \E r \in table : r.gw = Gateway /\ (r.own \/ (isDefault(r) /\ r.link = "eth0"))

PlanOK ==
    /\ pc = "local" => gw = {Gateway} /\ local \subseteq applying.local
    /\ pc = "local" => \A p \in applying.local \ local : localRoute(p, Gateway) \in table
    /\ pc \in {"stale", "done"} => Routed(applying)
    /\ pc \in {"local", "stale"} => \A r \in stale : Stale(r, applying)

RouteInv ==
    /\ TypeOK /\ TableOK /\ Known /\ PlanOK
    /\ tunnelRoute \in table => \E t \in Tunnels : Routed(t)

\* Routes that do not move: everything but the sidecar's own default and what is not local.
LEMMA SameTable == RouteInv /\ TypeOK' /\ UNCHANGED <<pc, applying, gw, local, stale, table>> => RouteInv'
  BY DEF RouteInv, TableOK, Known, PlanOK, Routed, Stale

LEMMA EndedTable == RouteInv /\ TypeOK' /\ pc' \in {"idle", "device", "list"} /\ UNCHANGED table => RouteInv'
  BY DEF RouteInv, TableOK, Known, PlanOK, Routed

LEMMA EnvironmentRoutes ==
    ASSUME RouteInv, TypeOK', Handshake \/ LoseDevice \/ AddDefault \/ PassFails \/ \E t \in Tunnels : Publish(t)
    PROVE  RouteInv'
  <1>1. CASE Handshake \/ \E t \in Tunnels : Publish(t)
    BY <1>1, SameTable DEF Handshake, Publish, plan, kernel
  <1>2. CASE PassFails
    BY <1>2, EndedTable DEF PassFails, EndPass, kernel
  <1>3. CASE LoseDevice
    <2>1. UNCHANGED <<pc, applying, gw, local, stale>> /\ table' = {r \in table : r.link # "wg0"}
      BY <1>3 DEF LoseDevice, plan
    <2>2. TableOK' /\ tunnelRoute \notin table'
      BY <2>1, RouteTypes DEF RouteInv, TableOK
    <2>3. \A p \in LocalCIDRs : localRoute(p, Gateway) \in table => localRoute(p, Gateway) \in table'
      BY <2>1, RouteTypes
    <2>4. applying.local \subseteq LocalCIDRs
      BY TunnelTypes DEF RouteInv, TypeOK
    <2>5. PlanOK'
      BY <2>1, <2>3, <2>4 DEF RouteInv, PlanOK, Routed, Stale
    <2>6. Known'
      <3>1. PICK r \in table : r.gw = Gateway /\ (r.own \/ (isDefault(r) /\ r.link = "eth0"))
        BY DEF RouteInv, Known
      <3>2. r.link # "wg0"
        BY <3>1, RouteTypes, TablesAssumption DEF RouteInv, TableOK, tunnelRoute
      <3> QED
        BY <2>1, <3>1, <3>2 DEF Known
    <2> QED
      BY <2>2, <2>5, <2>6 DEF RouteInv
  <1>4. CASE AddDefault
    <2>1. UNCHANGED <<pc, applying, gw, local, stale>>
      BY <1>4 DEF AddDefault, plan
    <2>2. CASE UNCHANGED table
      BY <2>1, <2>2, SameTable
    <2>3. ASSUME NEW T \in Tables, NEW d \in T, isDefault(d), d.gw = Gateway, table' = RouteReplace(table, d)
          PROVE  RouteInv'
      <3>1. ~d.own /\ d.link = "eth0" /\ d.dst = Default
        BY <2>3, TablesAssumption DEF isDefault
      <3>2. d \in table' /\ table' \subseteq table \union {d}
        BY <2>3, Replaced
      <3>3. \A p \in LocalCIDRs : localRoute(p, Gateway) \in table => localRoute(p, Gateway) \in table'
        <4>1. \A p \in LocalCIDRs : localRoute(p, Gateway).dst # Default
          BY RouteTypes DEF isDefault
        <4> QED
          BY <2>3, <3>1, <4>1, Replaced
      <3>4. TableOK' /\ Known'
        BY <2>3, <3>1, <3>2 DEF RouteInv, TableOK, Known
      <3>5. applying.local \subseteq LocalCIDRs /\ \A t \in Tunnels : t.local \subseteq LocalCIDRs
        BY TunnelTypes DEF RouteInv, TypeOK
      <3>6. PlanOK'
        BY <2>1, <3>3, <3>5 DEF RouteInv, PlanOK, Routed, Stale
      <3>7. tunnelRoute # d
        BY <3>1, RouteTypes
      <3>8. tunnelRoute \in table' => \E t \in Tunnels : Routed(t)'
        BY <3>2, <3>3, <3>5, <3>7 DEF RouteInv, Routed
      <3> QED
        BY <3>4, <3>6, <3>8 DEF RouteInv, Routed
    <2> QED
      BY <1>4, <2>2, <2>3 DEF AddDefault
  <1> QED
    BY <1>1, <1>2, <1>3, <1>4

LEMMA ReplaceLocalRoutes ==
    ASSUME RouteInv, TypeOK', replaceLocal
    PROVE  RouteInv' /\ \E p \in local : local' = local \ {p} /\ table' = RouteReplace(table, localRoute(p, Gateway))
  <1>1. PICK p \in local : local' = local \ {p} /\ table' = RouteReplace(table, localRoute(p, Gateway))
    BY DEF replaceLocal, RouteInv, PlanOK
  <1>2. UNCHANGED <<pc, applying, gw, stale>> /\ pc = "local" /\ p \in LocalCIDRs /\ p \in applying.local
    BY DEF replaceLocal, RouteInv, TypeOK, PlanOK
  <1> DEFINE d == localRoute(p, Gateway)
  <1>3. d.own /\ d.gw = Gateway /\ ~isDefault(d) /\ d.dst = p
    BY <1>2, RouteTypes
  <1>4. d \in table' /\ table' \subseteq table \union {d}
    BY <1>1, Replaced
  <1>5. \A q \in LocalCIDRs : localRoute(q, Gateway) \in table => localRoute(q, Gateway) \in table'
    BY <1>1, <1>3, <1>4, RouteTypes, Replaced
  <1>6. TableOK' /\ Known'
    BY <1>2, <1>3, <1>4 DEF RouteInv, TableOK, Known
  <1>7. applying.local \subseteq LocalCIDRs /\ \A t \in Tunnels : t.local \subseteq LocalCIDRs
    BY TunnelTypes DEF RouteInv, TypeOK
  <1>8. PlanOK'
    BY <1>1, <1>2, <1>4, <1>5, <1>7 DEF RouteInv, PlanOK, Stale
  <1>9. tunnelRoute # d
    BY <1>3, RouteTypes
  <1>10. tunnelRoute \in table' => \E t \in Tunnels : Routed(t)'
    BY <1>4, <1>5, <1>7, <1>9 DEF RouteInv, Routed
  <1> QED
    BY <1>1, <1>6, <1>8, <1>10 DEF RouteInv, Routed

LEMMA ReplaceDefaultRoutes == ASSUME RouteInv, TypeOK', replaceDefault PROVE RouteInv'
  <1>1. CASE ~wg0
    BY <1>1, EndedTable DEF replaceDefault, EndPass
  <1>2. CASE wg0
    <2>1. /\ pc = "local" /\ pc' = "stale" /\ local = {} /\ UNCHANGED <<applying, gw, local, stale>>
          /\ table' = RouteReplace(table, tunnelRoute)
      BY <1>2 DEF replaceDefault, plan
    <2>2. tunnelRoute \in table' /\ table' \subseteq table \union {tunnelRoute}
      BY <2>1, Replaced
    <2>3. \A q \in LocalCIDRs : localRoute(q, Gateway) \in table => localRoute(q, Gateway) \in table'
      <3>1. \A q \in LocalCIDRs : localRoute(q, Gateway).dst # tunnelRoute.dst
        BY RouteTypes DEF isDefault
      <3> QED
        BY <2>1, <3>1, Replaced
    <2>4. applying.local \subseteq LocalCIDRs /\ applying.local # {} /\ applying \in Tunnels
      BY TunnelTypes DEF RouteInv, TypeOK
    <2>5. \A p \in applying.local : localRoute(p, Gateway) \in table'
      BY <2>1, <2>3, <2>4 DEF RouteInv, PlanOK
    <2>6. TableOK'
      BY <2>2, RouteTypes DEF RouteInv, TableOK
    <2>7. Known'
      BY <2>4, <2>5, RouteTypes DEF Known
    <2>8. PlanOK'
      BY <2>1, <2>5 DEF RouteInv, PlanOK, Routed, Stale
    <2> QED
      BY <2>1, <2>4, <2>5, <2>6, <2>7, <2>8 DEF RouteInv, Routed
  <1> QED
    BY <1>1, <1>2

LEMMA DeleteStaleRoutes == ASSUME RouteInv, TypeOK', deleteStale PROVE RouteInv'
  <1>1. PICK d \in stale : stale' = stale \ {d} /\ table' = table \ {d}
    BY DEF deleteStale
  <1>2. pc = "stale" /\ UNCHANGED <<pc, applying, gw, local>> /\ Stale(d, applying)
    BY DEF deleteStale, RouteInv, PlanOK
  <1>3. applying.local \subseteq LocalCIDRs /\ applying.local # {} /\ applying \in Tunnels
    BY TunnelTypes DEF RouteInv, TypeOK
  <1>4. \A p \in applying.local : localRoute(p, Gateway) \in table'
    BY <1>1, <1>2, <1>3, RouteTypes DEF Stale, RouteInv, PlanOK, Routed
  <1>5. TableOK'
    BY <1>1 DEF RouteInv, TableOK
  <1>6. Known'
    BY <1>3, <1>4, RouteTypes DEF Known
  <1>7. PlanOK'
    BY <1>1, <1>2, <1>4 DEF RouteInv, PlanOK, Routed, Stale
  <1> QED
    BY <1>2, <1>3, <1>4, <1>5, <1>6, <1>7 DEF RouteInv, Routed

LEMMA PassRoutes == ASSUME RouteInv, TypeOK', Pass PROVE RouteInv'
  <1>1. CASE SyncLink
    BY <1>1, EndedTable DEF SyncLink
  <1>2. CASE ConfigureDevice
    BY <1>2, EndedTable DEF ConfigureDevice, EndPass
  <1>3. CASE planRoutes
    <2>1. UNCHANGED table
      BY <1>3 DEF planRoutes, kernel
    <2>2. CASE EndPass
      BY <2>1, <2>2, EndedTable DEF EndPass
    <2>3. CASE ~EndPass
      <3>1. /\ \E r \in planGateway(table) : gw' = {r.gw}
            /\ local' = applying.local /\ stale' = planStale(table, applying.local) /\ pc' = "local" /\ applying' = applying
        BY <1>3, <2>3 DEF planRoutes
      <3>2. gw' = {Gateway}
        BY <3>1, GatewayType DEF RouteInv
      <3>3. PlanOK'
        BY <3>1, <3>2 DEF PlanOK, planStale, Stale
      <3> QED
        BY <2>1, <3>3 DEF RouteInv, TableOK, Known, Routed
    <2> QED
      BY <2>2, <2>3
  <1>4. CASE deleteIPv6Defaults
    BY <1>4 DEF deleteIPv6Defaults, plan, RouteInv, TableOK, Known, PlanOK, Routed
  <1>5. CASE PassDone
    BY <1>5, EndedTable DEF PassDone, EndPass, kernel
  <1> QED
    BY <1>1, <1>2, <1>3, <1>4, <1>5, ReplaceLocalRoutes, ReplaceDefaultRoutes, DeleteStaleRoutes DEF Pass

LEMMA InitRoutes == Init => RouteInv
  <1> SUFFICES ASSUME Init PROVE RouteInv
    OBVIOUS
  <1>1. PICK r \in table : isDefault(r) /\ r.gw = Gateway
    BY TablesAssumption DEF Init
  <1>2. \A s \in table : ~s.own /\ s.link = "eth0"
    BY TablesAssumption DEF Init
  <1>3. TableOK /\ Known /\ tunnelRoute \notin table
    BY <1>1, <1>2, RouteTypes DEF TableOK, Known
  <1>4. PlanOK
    BY DEF Init, PlanOK
  <1> QED
    BY <1>3, <1>4, InitType DEF RouteInv

LEMMA StepRoutes == RouteInv /\ [Next]_vars => RouteInv'
  <1> SUFFICES ASSUME RouteInv, [Next]_vars PROVE RouteInv'
    OBVIOUS
  <1>1. TypeOK'
    BY StepType DEF RouteInv
  <1>2. CASE UNCHANGED vars
    BY <1>1, <1>2, SameTable DEF vars, plan, kernel
  <1> QED
    BY <1>1, <1>2, EnvironmentRoutes, PassRoutes DEF Next

\* Wherever passes are cut short and however often wg0 vanishes, the table tells the CNI's gateway:
\* the sidecar can always plan again (planRoutes, the order of ensureRoutes).
THEOREM GatewayRemembered == Spec => []GatewayKnown
  <1>1. RouteInv => GatewayKnown
    <2> SUFFICES ASSUME RouteInv PROVE GatewayKnown
      OBVIOUS
    <2>1. \A r \in planGateway(table) : r.gw = Gateway
      BY GatewayType DEF RouteInv
    <2>2. planGateway(table) # {}
      BY TablesAssumption DEF RouteInv, Known, planGateway
    <2> QED
      BY <2>1, <2>2 DEF GatewayKnown
  <1> QED
    BY <1>1, InitRoutes, StepRoutes, PTL DEF Spec

\* While the startup probe passes, the local CIDRs of one whole published status are routed to the
\* CNI's gateway (the order of ensureRoutes).
THEOREM LocalsRouted == Spec => []LocalRouted
  <1>1. RouteInv => LocalRouted
    <2> SUFFICES ASSUME RouteInv, Check PROVE \E t \in Tunnels : Routed(t)
      BY DEF LocalRouted, Routed
    <2>1. PICK r \in table : r.link = "wg0"
      BY DEF Check
    <2>2. r = tunnelRoute
      BY <2>1, RouteTypes DEF RouteInv, TableOK
    <2> QED
      BY <2>1, <2>2 DEF RouteInv
  <1> QED
    BY <1>1, InitRoutes, StepRoutes, PTL DEF Spec

\* Only default routes, the device's, and those of the sidecar that its Tunnel does not ask for are
\* ever lost, but for the CNI's own route to a local CIDR (planRoutes, deleteStale).
THEOREM RoutesKept == Spec => OthersKept
  <1> DEFINE Lost(r) == isDefault(r) \/ r.link = "wg0" \/ (IF r.own THEN r.dst \notin applying.local ELSE r.dst \in applying.local)
  <1>1. RouteInv /\ [Next]_vars => [\A r \in table \ table' : Lost(r)]_vars
    <2> SUFFICES ASSUME RouteInv, Next, TypeOK', NEW r \in table \ table' PROVE Lost(r)
      BY StepType DEF RouteInv
    <2>1. CASE LoseDevice
      BY <2>1 DEF LoseDevice
    <2>2. CASE AddDefault
      <3>1. PICK d : isDefault(d) /\ table' = RouteReplace(table, d)
        BY <2>2 DEF AddDefault
      <3> QED
        BY <3>1, Replaced DEF isDefault
    <2>3. CASE replaceLocal
      <3>1. PICK p \in local : table' = RouteReplace(table, localRoute(p, Gateway))
        BY <2>3, ReplaceLocalRoutes
      <3>2. p \in LocalCIDRs /\ p \in applying.local
        BY <2>3 DEF replaceLocal, RouteInv, TypeOK, PlanOK
      <3>3. r.dst = p /\ r # localRoute(p, Gateway)
        BY <3>1, <3>2, Replaced, RouteTypes
      <3>4. r.own => isDefault(r)
        BY <3>3, RouteTypes DEF RouteInv, TableOK
      <3> QED
        BY <3>2, <3>3, <3>4
    <2>4. CASE replaceDefault
      <3>1. table' = RouteReplace(table, tunnelRoute)
        BY <2>4 DEF replaceDefault
      <3> QED
        BY <3>1, Replaced, RouteTypes DEF isDefault
    <2>5. CASE deleteStale
      BY <2>5 DEF deleteStale, RouteInv, PlanOK, Stale
    <2>6. CASE Handshake \/ PassFails \/ \E t \in Tunnels : Publish(t)
      BY <2>6 DEF Handshake, PassFails, Publish, kernel
    <2>7. CASE SyncLink \/ ConfigureDevice \/ planRoutes \/ deleteIPv6Defaults \/ PassDone
      BY <2>7 DEF SyncLink, ConfigureDevice, planRoutes, deleteIPv6Defaults, PassDone, kernel
    <2> QED
      BY <2>1, <2>2, <2>3, <2>4, <2>5, <2>6, <2>7 DEF Next, Pass
  <1> QED
    BY <1>1, InitRoutes, StepRoutes, PTL DEF Spec, OthersKept

--------------------------------------------------------------------------------
(* A whole pass. While nothing disturbs it, the device is its Tunnel's and    *)
(* its plan still holds every stale route.                                     *)

ExactInv ==
    /\ undisturbed /\ pc = "device" => wg0
    /\ undisturbed /\ pc \in {"list", "local", "stale", "done"} => wg0 /\ device = {applying.server}
    /\ undisturbed /\ pc \in {"local", "stale"} => \A r \in table : Stale(r, applying) => r \in stale
    /\ undisturbed /\ pc = "stale" => tunnelRoute \in table
    /\ PassExact

\* With no stale route left, the table is the one asked for.
LEMMA CleanExact ==
    ASSUME RouteInv, Routed(applying), tunnelRoute \in table, \A r \in table : ~Stale(r, applying)
    PROVE  /\ {r \in table : isDefault(r)} = {tunnelRoute}
           /\ {r \in table : r.own} = {localRoute(p, Gateway) : p \in applying.local} \union {tunnelRoute}
  <1>1. applying.local \subseteq LocalCIDRs
    BY TunnelTypes DEF RouteInv, TypeOK
  <1>2. ASSUME NEW r \in table, isDefault(r) PROVE r = tunnelRoute
    <2>1. r.link = "wg0"
      BY <1>2 DEF Stale
    <2> QED
      BY <2>1, RouteTypes DEF RouteInv, TableOK
  <1>3. ASSUME NEW r \in table, r.own PROVE r = tunnelRoute \/ \E p \in applying.local : r = localRoute(p, Gateway)
    <2>1. CASE isDefault(r)
      BY <1>2, <2>1
    <2>2. CASE ~isDefault(r)
      <3>1. r.dst \in applying.local
        BY <1>3, <2>2 DEF Stale
      <3>2. PICK p \in LocalCIDRs : r = localRoute(p, Gateway)
        BY <1>3, <2>2, RouteTypes DEF RouteInv, TableOK
      <3> QED
        BY <3>1, <3>2, RouteTypes
    <2> QED
      BY <2>1, <2>2
  <1>4. \A p \in applying.local : localRoute(p, Gateway) \in table /\ localRoute(p, Gateway).own
    BY <1>1, RouteTypes DEF Routed
  <1> QED
    BY <1>2, <1>3, <1>4, RouteTypes

LEMMA DisturbedExact == ~undisturbed' => ExactInv'
  BY DEF ExactInv, PassExact

LEMMA StepExact == RouteInv /\ ExactInv /\ [Next]_vars => ExactInv'
  <1> SUFFICES ASSUME RouteInv, ExactInv, [Next]_vars PROVE ExactInv'
    OBVIOUS
  <1>1. CASE LoseDevice \/ AddDefault \/ PassFails \/ \E t \in Tunnels : Publish(t)
    BY <1>1, DisturbedExact DEF LoseDevice, AddDefault, PassFails, Publish, Interfere
  <1>2. CASE UNCHANGED <<pc, applying, stale, wg0, device, table, ipv6, undisturbed>>
    BY <1>2 DEF ExactInv, PassExact, Exact, Stale
  <1>3. CASE Handshake \/ UNCHANGED vars
    BY <1>2, <1>3 DEF Handshake, plan, vars, kernel
  <1>4. CASE SyncLink
    BY <1>4 DEF SyncLink, ExactInv, PassExact
  <1>5. CASE ConfigureDevice
    <2>1. CASE wg0
      BY <1>5, <2>1 DEF ConfigureDevice, ExactInv, PassExact, deviceMatches
    <2>2. CASE ~wg0
      BY <1>5, <2>2 DEF ConfigureDevice, EndPass, ExactInv, PassExact
    <2> QED
      BY <2>1, <2>2
  <1>6. CASE planRoutes
    <2>1. CASE pc' = "idle"
      BY <2>1 DEF ExactInv, PassExact
    <2>2. CASE pc' # "idle"
      <3>1. /\ pc = "list" /\ pc' = "local" /\ stale' = planStale(table, applying.local)
            /\ UNCHANGED <<applying, wg0, device, table, undisturbed>>
        BY <1>6, <2>2 DEF planRoutes, EndPass, kernel
      <3> QED
        BY <3>1 DEF ExactInv, PassExact, planStale, Stale
    <2> QED
      BY <2>1, <2>2
  <1>7. CASE replaceLocal
    <2>1. PICK p \in local : local' = local \ {p} /\ table' = RouteReplace(table, localRoute(p, Gateway))
      BY <1>7 DEF replaceLocal, RouteInv, PlanOK
    <2>2. pc = "local" /\ UNCHANGED <<pc, applying, stale, wg0, device, undisturbed>> /\ p \in LocalCIDRs /\ p \in applying.local
      BY <1>7 DEF replaceLocal, RouteInv, TypeOK, PlanOK
    <2>3. ~Stale(localRoute(p, Gateway), applying)
      BY <2>2, RouteTypes DEF Stale
    <2>4. table' \subseteq table \union {localRoute(p, Gateway)}
      BY <2>1, Replaced
    <2> QED
      BY <2>2, <2>3, <2>4 DEF ExactInv, PassExact, Stale
  <1>8. CASE replaceDefault
    <2>1. CASE ~wg0
      BY <1>8, <2>1 DEF replaceDefault, EndPass, ExactInv, PassExact
    <2>2. CASE wg0
      <3>1. /\ pc = "local" /\ pc' = "stale" /\ UNCHANGED <<applying, stale, wg0, device, undisturbed>>
            /\ table' = RouteReplace(table, tunnelRoute)
        BY <1>8, <2>2 DEF replaceDefault, plan
      <3>2. tunnelRoute \in table' /\ table' \subseteq table \union {tunnelRoute} /\ ~Stale(tunnelRoute, applying)
        BY <3>1, Replaced, RouteTypes DEF Stale
      <3> QED
        BY <3>1, <3>2 DEF ExactInv, PassExact, Stale
    <2> QED
      BY <2>1, <2>2
  <1>9. CASE deleteStale
    <2>1. PICK d \in stale : stale' = stale \ {d} /\ table' = table \ {d}
      BY <1>9 DEF deleteStale
    <2>2. pc = "stale" /\ UNCHANGED <<pc, applying, wg0, device, undisturbed>> /\ Stale(d, applying)
      BY <1>9 DEF deleteStale, RouteInv, PlanOK
    <2>3. d # tunnelRoute
      BY <2>2, RouteTypes DEF Stale
    <2> QED
      BY <2>1, <2>2, <2>3 DEF ExactInv, PassExact, Stale
  <1>10. CASE deleteIPv6Defaults
    <2>1. pc = "stale" /\ stale = {} /\ pc' = "done" /\ ~ipv6' /\ UNCHANGED <<applying, wg0, device, table, undisturbed>>
      BY <1>10 DEF deleteIPv6Defaults
    <2>2. undisturbed => Exact(applying)'
      <3> SUFFICES ASSUME undisturbed PROVE Exact(applying)'
        OBVIOUS
      <3>1. Routed(applying) /\ tunnelRoute \in table /\ \A r \in table : ~Stale(r, applying)
        BY <2>1 DEF RouteInv, PlanOK, ExactInv
      <3>2. wg0 /\ device = {applying.server}
        BY <2>1 DEF ExactInv
      <3> QED
        BY <2>1, <3>1, <3>2, CleanExact DEF Exact
    <2> QED
      BY <2>1, <2>2 DEF ExactInv, PassExact
  <1>11. CASE PassDone
    BY <1>11 DEF PassDone, EndPass, ExactInv, PassExact
  <1> QED
    BY <1>1, <1>3, <1>4, <1>5, <1>6, <1>7, <1>8, <1>9, <1>10, <1>11 DEF Next, Pass

\* A pass that nothing disturbs leaves exactly the routes and the peer of its Tunnel, whatever state
\* earlier passes, restarts and losses of the device have left (ensureRoutes, deviceConfig).
THEOREM PassesExact == Spec => []PassExact
  <1>1. Init => ExactInv
    BY DEF Init, ExactInv, PassExact
  <1>2. ExactInv => PassExact
    BY DEF ExactInv
  <1> QED
    BY <1>1, <1>2, StepExact, InitRoutes, StepRoutes, PTL DEF Spec

--------------------------------------------------------------------------------
(* The session *)

LEMMA StepSession ==
    ASSUME session => device # {}, Next
    PROVE  (session' => device' # {}) /\ (session /\ ~session' => device' # device)
  <1>1. CASE ConfigureDevice
    BY <1>1 DEF ConfigureDevice, deviceMatches
  <1>2. CASE LoseDevice \/ Handshake
    BY <1>2 DEF LoseDevice, Handshake
  <1>3. CASE UNCHANGED <<session, device>>
    BY <1>3
  <1>4. CASE AddDefault \/ PassFails \/ \E t \in Tunnels : Publish(t)
    BY <1>3, <1>4 DEF AddDefault, PassFails, Publish, kernel
  <1>5. CASE SyncLink \/ planRoutes \/ replaceLocal \/ replaceDefault \/ deleteStale \/ deleteIPv6Defaults \/ PassDone
    BY <1>3, <1>5 DEF SyncLink, planRoutes, replaceLocal, replaceDefault, deleteStale, deleteIPv6Defaults, PassDone, kernel
  <1> QED
    BY <1>1, <1>2, <1>4, <1>5 DEF Next, Pass

\* No pass interrupts a session but to give the device another server (deviceConfig).
THEOREM SessionsKept == Spec => SessionKept
  <1> DEFINE Inv == session => device # {}
  <1>1. Init => Inv
    BY DEF Init
  <1>2. Inv /\ [Next]_vars => Inv' /\ [session /\ ~session' => device' # device]_vars
    BY StepSession DEF vars, kernel
  <1> HIDE DEF Inv
  <1> QED
    BY <1>1, <1>2, PTL DEF Spec, SessionKept
================================================================================
