------------------------------ MODULE MCWorldState ------------------------------
(* Small instances of WorldState for TLC.                                       *)
EXTENDS WorldState, TLC

CONSTANTS n1, n2, n3

MCNode == {n1, n2, n3}
MCTx == {[id |-> 1, from |-> n1], [id |-> 2, from |-> n2]}
MCStake == n1 :> 2 @@ n2 :> 1 @@ n3 :> 0
MCMempools == [n \in MCNode |-> n]
MCSybilMempools == n1 :> n1 @@ n2 :> n1 @@ n3 :> n3
MCPositiveStake == [n \in MCNode |-> 1]
=================================================================================
