------------------------------ MODULE MCChainSync ------------------------------
(* Two nodes that are neighbours; n2 has a scheduled outage.  The channels are    *)
(* either small, with n1 unstable, or have room for everything a slot brings,     *)
(* with n1 stable.                                                                *)
EXTENDS ChainSync

VARIABLE roomy

Roomy == INSTANCE ChainSync WITH node_capacity <- 8, MaxLag <- 1, Unstable <- {}

MCPair == {"n1", "n2"}
MCPairNeighbors == [n \in MCPair |-> MCPair \ {n}]

all == <<slot, canonical, blockchain, sync_in_progress, epoch, offline_until_epoch,
         scheduled_online_last_slot, inbox, world_inbox, tasks, roomy>>

MCInit == Init /\ roomy \in BOOLEAN

MCNext ==
  \/ roomy /\ Roomy!Next /\ UNCHANGED roomy
  \/ ~roomy /\ Next /\ UNCHANGED roomy

\* The fairness of ChainSync, needed where the channels have room.
MCSpec ==
  /\ MCInit /\ [][MCNext]_all
  /\ WF_all(roomy /\ Roomy!WorldReceivesRequest /\ UNCHANGED roomy)
  /\ \A n \in Node : /\ WF_all(roomy /\ Roomy!Deliver(n) /\ UNCHANGED roomy)
                     /\ WF_all(roomy /\ Roomy!Handle(n) /\ UNCHANGED roomy)

--------------------------------------------------------------------------------
\* The state of ChainSync has its type; channels keep to their capacity.
SyncTypeOK == IF roomy THEN Roomy!TypeOK ELSE TypeOK

\* A node that falls behind catches up or goes offline.
NodeCatchesUp == roomy => Roomy!CatchUp
================================================================================
