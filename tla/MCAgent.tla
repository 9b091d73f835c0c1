--------------------------------- MODULE MCAgent --------------------------------
(***************************************************************************)
(* Small instances of Agent.                                               *)
(***************************************************************************)
EXTENDS Agent, TLC

CONSTANTS k1, k2, a1, a2, c1, c2, s1

State(cidr, first, second) ==
    [complete |-> TRUE, key |-> s1, cidr |-> cidr,
     address |-> [k \in PublicKeys |-> IF k = k1 THEN first ELSE second]]

\* Two peers under the default peerCIDR; their addresses swapped; one of them gone, under
\* another peerCIDR.
Both    == State(NoCIDR, a1, a2)
Swapped == State(c1, a2, a1)
Moved   == State(c2, a2, NoAddress)

\* A state that IsStateValid rejects.
Partial == [Both EXCEPT !.complete = FALSE, !.cidr = c2]

AllFiles == {Both, Swapped, Moved, Partial}
================================================================================
