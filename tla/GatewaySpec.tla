------------------------------ MODULE GatewaySpec ------------------------------
(***************************************************************************)
(* What the Wireguard controller decides about the gateway itself from     *)
(* what it has read: whether a spec can be rendered, whether the Service   *)
(* got an address that clients can reach, and whether the Deployment has   *)
(* rolled out (internal/controller/gateway.go and specProblem).            *)
(*                                                                         *)
(* An address is a number. A prefix is the set of IPv4 addresses it covers *)
(* with what ParsePrefix says of its text. A variable's name is a sequence *)
(* of parts, so that a Secret's key under a prefix is a concatenation.     *)
(***************************************************************************)
EXTENDS Integers, Sequences, FiniteSets

CONSTANTS
    ProbeAddress,   \* resources.PeerProbeAddress
    Reserved,       \* the names of the gluetun variables that the operator renders
    Secrets,        \* the Secrets that spec.gluetun.envFrom may reference
    Specs,          \* the specs a Wireguard may have, by name
    Content         \* what each of them says; its peerCIDR is the effective one

Forms == {"canonical", "hostBits", "ipv6", "garbage"}

\* The zero Prefix of a text that does not parse, and an IPv6 one, hold no IPv4 address; one of
\* at most 30 bits holds four or more.
ASSUME SpecsAssumption ==
    /\ ProbeAddress \in Int
    /\ \A s \in Specs : \A p \in {Content[s].peerCIDR} \union Content[s].localCIDRs :
        /\ p.form \in Forms
        /\ p.form \in {"ipv6", "garbage"} => p.addresses = {}
        /\ p.form = "canonical" /\ p.bits <= 30 => Cardinality(p.addresses) >= 4

--------------------------------------------------------------------------------
(* Prefixes *)

canonicalIPv4(prefix) == prefix.form = "canonical"

\* A canonical IPv4 prefix of length 30 or shorter.
validatePeerCIDR(prefix) == canonicalIPv4(prefix) /\ prefix.bits <= 30

validateLocalCIDRs(cidrs) == \A c \in cidrs : canonicalIPv4(c)

Contains(prefix, address) == address \in prefix.addresses

Overlaps(p, q) == p.addresses \intersect q.addresses # {}

\* Mutant: only an entry equal to the pool counts.
peerCIDROverlapEqual(peerCIDR, localCIDRs) == peerCIDR \in localCIDRs

peerCIDROverlap(peerCIDR, localCIDRs) == \E c \in localCIDRs : Overlaps(peerCIDR, c)

probeAddressInPeerCIDR(peerCIDR) == Contains(peerCIDR, ProbeAddress)

probeAddressInLocalCIDRs(localCIDRs) == \E c \in localCIDRs : Contains(c, ProbeAddress)

clusterIPOutside(clusterIP, localCIDRs) == \A c \in localCIDRs : ~Contains(c, clusterIP)

--------------------------------------------------------------------------------
(* Environment *)

isReservedGluetunEnv(name) == name \in Reserved

reservedInEnv(env) == \E name \in env : isReservedGluetunEnv(name)

reservedInKeys(prefix, keys) == \E k \in keys : isReservedGluetunEnv(prefix \o k)

--------------------------------------------------------------------------------
(* The spec *)

InvalidReasons ==
    {"InvalidPeerCIDR", "ProbeAddressInPeerCIDR", "InvalidLocalCIDRs", "PeerCIDROverlapsLocalCIDRs",
     "ProbeAddressInLocalCIDRs", "ReservedGluetunEnv"}

\* The Degraded reason for a spec that cannot be rendered, or "". A Secret that does not exist
\* has no keys.
specProblem(spec, secrets) ==
    IF ~validatePeerCIDR(spec.peerCIDR) THEN "InvalidPeerCIDR"
    ELSE IF probeAddressInPeerCIDR(spec.peerCIDR) THEN "ProbeAddressInPeerCIDR"
    ELSE IF ~validateLocalCIDRs(spec.localCIDRs) THEN "InvalidLocalCIDRs"
    ELSE IF peerCIDROverlap(spec.peerCIDR, spec.localCIDRs) THEN "PeerCIDROverlapsLocalCIDRs"
    ELSE IF probeAddressInLocalCIDRs(spec.localCIDRs) THEN "ProbeAddressInLocalCIDRs"
    ELSE IF \/ reservedInEnv(spec.env)
            \/ \E src \in spec.envFrom : reservedInKeys(src.prefix, secrets[src.secret])
         THEN "ReservedGluetunEnv"
    ELSE ""
================================================================================
