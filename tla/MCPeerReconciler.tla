---------------------------- MODULE MCPeerReconciler ----------------------------
(***************************************************************************)
(* Small instances of PeerReconciler.                                      *)
(***************************************************************************)
EXTENDS PeerReconciler, TLC

\* A /30: two addresses for peers, the last of them the broadcast address.
Slash30 == [base |-> 8, size |-> 4]

\* Its neighbour, so that an address of one is never usable in the other.
OtherSlash30 == [base |-> 12, size |-> 4]

\* A /31, which validatePeerCIDR rejects.
Slash31 == [base |-> 8, size |-> 2]

OnePool == {Slash30}
PoolEdits == {Slash30, OtherSlash30, Slash31}

OneNeighbourhood == [g \in Gateways |-> {1}]

\* Every peer present, on one gateway.
WithKeys(keys) == [p \in Peers |-> NewPeer(0, SomeGateway, keys[p])]

DistinctKeys == {f \in [Peers -> PublicKeys] : \A p, q \in Peers : p < q => f[p] # f[q]}

\* The peers have keys of their own.
KeyedPeers == {WithKeys(f) : f \in DistinctKeys}

\* The same for one choice of the keys, or all peers have one key.
ContendingPeers ==
    LET f == CHOOSE f \in DistinctKeys : TRUE
        k == CHOOSE k \in PublicKeys : TRUE
    IN  {WithKeys(f), WithKeys([p \in Peers |-> k])}

KeySymmetry == Permutations(PublicKeys)
================================================================================
