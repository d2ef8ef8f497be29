------------------------------- MODULE PathGossip -------------------------------
(* The two programs in which path evidence is gossiped: the nodes of the simulator *)
(* (PathEvidence) and the execution clients of the devnet (TxMetadata).  They run  *)
(* on the same network and share nothing.                                          *)
EXTENDS PathEvidence

CONSTANTS
  identified, sender_hops, receiver_hops, Epoch, Links, Entry, Moving

VARIABLES
  relay_epoch, pool, submitted, ensuring, metadata, connected, known, queued, messages

Clients == INSTANCE TxMetadata WITH epoch <- relay_epoch

ASSUME PathGossipAssumption == PathAssumption /\ Clients!TxMetadataAssumption

---------------------------------------------------------------------------------
\* The state of the simulator's network and of the clients' stores has its type.
EvidenceTypeOK == TypeOK /\ Clients!TypeOK

\* The paths that the stores of the clients keep form a forest (RecordInbound).
RelayForest == Clients!RelayForest

\* No store replaces the metadata that it has (EnsureLocalHash, RecordInbound).
MetadataKept == Clients!MetadataKept

\* A path record starts at a client that the transaction was submitted to.
StartsAtOriginator == Clients!StartsAtOriginator
=================================================================================
