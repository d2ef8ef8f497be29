---------------------------------- MODULE Path ----------------------------------
(* Path evidence of src/blockchain/path.rs, as operators on records.            *)
(*                                                                              *)
(* A transaction is a record with its originator in field from.                 *)
(* A TransactionPaths record is [tx, epoch, nodes, pending]: the transaction,   *)
(* the epoch fixed when the record was created, node_sequence() (originator     *)
(* first) and whether the last hop still lacks its receiver signature.  The     *)
(* chain id is one constant of the program and is left out.  BLS signatures are *)
(* abstracted to what they bind: an aggregate signature is the triple           *)
(* <<tx, epoch, nodes>> both endpoints of every hop signed, NoSignature is the  *)
(* empty string.                                                                *)
EXTENDS Naturals, Sequences, Functions

NoSignature == <<>>

new_with_epoch(tx, epoch) ==
  [tx |-> tx, epoch |-> epoch, nodes |-> <<tx.from>>, pending |-> FALSE]

current_tail(p) == p.nodes[Len(p.nodes)]

\* Mutant: a visited node may be appended again.
can_append_revisiting(p, to, sender) == ~p.pending /\ current_tail(p) = sender

\* append_outgoing_hop refuses a record with a pending hop, a sender that is not
\* the tail, and a receiver the path already visited.
can_append_outgoing_hop(p, to, sender) ==
  /\ ~p.pending
  /\ current_tail(p) = sender
  /\ to \notin Range(p.nodes)

append_outgoing_hop(p, to) ==
  [p EXCEPT !.nodes = Append(@, to), !.pending = TRUE]

\* The edge statement of the last hop: the prefix chain value hashes every node
\* up to the sender, so the statement determines the whole node sequence.
edge_statement(p) == p.nodes

\* What the receiver of a pending hop commits to.  RECEIPT_COMMITMENT_CACHE is the
\* set of the receipts signed so far; its key is all but the statement.
receipt(p) ==
  [tx |-> p.tx, epoch |-> p.epoch, receiver |-> current_tail(p),
   statement |-> edge_statement(p)]

\* Mutant: a second receipt is never in conflict.
receipt_conflict_unseen(cache, r) == FALSE

receipt_conflict(cache, r) ==
  \E c \in cache : /\ <<c.tx, c.epoch, c.receiver>> = <<r.tx, r.epoch, r.receiver>>
                  /\ c.statement # r.statement

\* complete_pending_hop when the receipt is not in conflict.  The sender signature
\* of a record made by append_outgoing_hop always verifies.
complete_pending_hop(p) == [p EXCEPT !.pending = FALSE]

\* A block-level record [epoch, signature, paths]; the proposer is left out of
\* paths.  A record with a pending hop aggregates to an empty signature.
from_transaction_paths(p) ==
  [epoch     |-> p.epoch,
   signature |-> IF Len(p.nodes) = 1 \/ p.pending THEN NoSignature
                 ELSE <<p.tx, p.epoch, p.nodes>>,
   paths     |-> SubSeq(p.nodes, 1, Len(p.nodes) - 1)]

full_path(rec, miner) ==
  IF rec.paths # <<>> /\ rec.paths[Len(rec.paths)] = miner
  THEN rec.paths
  ELSE Append(rec.paths, miner)

\* Hops of the full path, as full_path(..).len().saturating_sub(1).
path_length(rec, miner) == Len(full_path(rec, miner)) - 1

\* Mutant: the record epoch is not compared with the block epoch.
verify_in_any_epoch(rec, tx, miner, epoch) ==
  \/ tx.from = miner /\ rec.paths = <<>>
  \/ /\ rec.paths # <<>>
     /\ rec.signature # NoSignature
     /\ IsInjective(full_path(rec, miner))
     /\ rec.signature = <<tx, rec.epoch, full_path(rec, miner)>>

\* The early returns of verify_at_epoch_with_cache in order.  The verification
\* cache is keyed by every field the verdict depends on, so it never changes it.
verify_at_epoch(rec, tx, miner, epoch) ==
  /\ rec.epoch = epoch
  /\ \/ tx.from = miner /\ rec.paths = <<>>
     \/ /\ rec.paths # <<>>
        /\ rec.signature # NoSignature
        /\ full_path(rec, miner)[1] = tx.from
        /\ IsInjective(full_path(rec, miner))
        /\ \/ path_length(rec, miner) = 0
           \/ rec.signature = <<tx, rec.epoch, full_path(rec, miner)>>
=================================================================================
