---------------------------- MODULE MCGatewayStatus ----------------------------
(***************************************************************************)
(* A small instance of GatewayStatus: addresses are below 40, the probe's  *)
(* address is 30, and the cluster's Services have 1 or 20.                 *)
(***************************************************************************)
EXTENDS GatewayStatus

CIDR(form, bits, addresses) == [form |-> form, bits |-> bits, addresses |-> addresses]

Pool == CIDR("canonical", 30, 8..11)
Local == CIDR("canonical", 31, 0..1)
Wide == CIDR("canonical", 29, 8..15)
OtherLocal == CIDR("canonical", 31, 20..21)

Plain(pool, local) == [peerCIDR |-> pool, localCIDRs |-> local, env |-> {}, envFrom |-> {}]

\* A spec that references a Secret under a prefix.
Credentialed ==
    [Plain(Pool, {Local, OtherLocal}) EXCEPT !.envFrom = {[secret |-> "creds", prefix |-> <<"VPN">>]}]

\* The second spec leaves out a range that Services may be in; the pool of the third overlaps
\* one of its ranges.
TheContent == [credentialed |-> Credentialed, narrow |-> Plain(Pool, {Local}), wide |-> Plain(Pool, {Local, Wide})]

TheReserved == {<<"VPN", "TYPE">>}
TheKeys == {{}, {<<"TYPE">>}}
================================================================================
