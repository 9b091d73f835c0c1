---------------------------- MODULE MCSidecarRoutes ----------------------------
(***************************************************************************)
(* Small instances of SidecarRoutes.                                       *)
(***************************************************************************)
EXTENDS SidecarRoutes

CONSTANTS l1, l2, f1, s1, s2, g1

Cni(dst, gateway, priority) ==
    [dst |-> dst, gw |-> gateway, link |-> "eth0", priority |-> priority, own |-> FALSE]

\* A default route of the priority that the sidecar uses, or of another, beside the route of the
\* pod's subnet; a second default route without a gateway; the CNI's own route for a local CIDR.
AllTables ==
    {{Cni(f1, NoGateway, 0), Cni(Default, g1, 0)},
     {Cni(f1, NoGateway, 0), Cni(Default, g1, 1)},
     {Cni(f1, NoGateway, 0), Cni(Default, g1, 0), Cni(Default, NoGateway, 1)},
     {Cni(f1, NoGateway, 0), Cni(Default, g1, 1), Cni(l1, NoGateway, 0)}}

AllTunnels ==
    {[server |-> s1, local |-> {l1, l2}], [server |-> s1, local |-> {l1}], [server |-> s2, local |-> {l2}]}
================================================================================
