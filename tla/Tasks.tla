---------------------------------- MODULE Tasks -----------------------------------
(* The tasks and threads of one process: the mining round of MinotaurConsensus     *)
(* (Minotaur), the lock and the channels between the timer task and the nodes      *)
(* (Channels), and what SharedState has.  Each of them has its own variables.      *)
EXTENDS Minotaur, SharedState

CONSTANTS Validator, node_capacity, world_capacity, MaxLoad, MaxBacklog

VARIABLES timer, unsent, receiver, inbox, node, world_inbox, load

Channels == INSTANCE Channels

ASSUME TasksAssumption == MinotaurAssumption /\ Channels!ChannelsAssumption

---------------------------------------------------------------------------------
\* The state of the outage window, the channels and either mining object has its type;
\* channels keep to their capacity (mpsc::channel).
TasksTypeOK == TypeOK /\ Pow!TypeOK /\ Outage!TypeOK /\ Channels!TypeOK

\* next_slot gets all its control messages sent and releases the lock.
SlotAnnounced == Channels!SlotAnnounced
=================================================================================
