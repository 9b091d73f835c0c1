--------------------------------- MODULE Roster ---------------------------------
(***************************************************************************)
(* What the operator promises to a gateway's agent and to the clients,     *)
(* whatever passes, caches and failures there are: an abstract             *)
(* specification that PeerReconciler implements.                           *)
(*                                                                         *)
(* A gateway's file, the state.json of its Secret, is written whole. While *)
(* it exists its server key stays, and it always gives every public key at *)
(* most one address, no address to two of them, and only addresses that    *)
(* its pool can give a peer. A client's lease, the address in the status   *)
(* of its WireguardPeer, is granted and released; it is exchanged for      *)
(* another only if some pool the gateway has been given cannot use it.     *)
(* One step writes one file or one lease.                                  *)
(***************************************************************************)
CONSTANTS
    Gateways, Peers, PublicKeys, Pools,
    NoAddress,      \* no lease
    Usable(_, _)    \* Usable(a, pool): a peer can be given address a of the pool

VARIABLES
    file,           \* the gateways' files: live, key, pool, and entries, each with a key and an address
    lease           \* the peers' leases

vars == <<file, lease>>

NoFile(f) == ~f.live

\* A file the agent can apply in any order and get one device.
WellFormed(f) ==
    /\ f.pool \in Pools
    /\ \A d, e \in f.entries : d.key = e.key \/ d.address = e.address => d = e
    /\ \A e \in f.entries : e.key \in PublicKeys /\ Usable(e.address, f.pool)

Init == (\A g \in Gateways : NoFile(file[g])) /\ lease = [p \in Peers |-> NoAddress]

\* A file is created, or rewritten under its key.
Write(g) ==
    /\ file'[g] # file[g] /\ file'[g].live /\ WellFormed(file'[g])
    /\ file[g].live => file'[g].key = file[g].key
    /\ \A h \in Gateways \ {g} : file'[h] = file[h]
    /\ UNCHANGED lease

Delete(g) ==
    /\ file[g].live /\ NoFile(file'[g])
    /\ \A h \in Gateways \ {g} : file'[h] = file[h]
    /\ UNCHANGED lease

SetLease(p) ==
    /\ lease'[p] # lease[p]
    /\ \A q \in Peers \ {p} : lease'[q] = lease[q]
    /\ UNCHANGED file

Grant(p) == lease[p] = NoAddress /\ SetLease(p)

Release(p) == lease'[p] = NoAddress /\ SetLease(p)

Exchange(p) == SetLease(p) /\ \E pool \in Pools : ~Usable(lease[p], pool)

Next ==
    \/ \E g \in Gateways : Write(g) \/ Delete(g)
    \/ \E p \in Peers : Grant(p) \/ Release(p) \/ Exchange(p)

Spec == Init /\ [][Next]_vars
================================================================================
