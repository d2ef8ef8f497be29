------------------------------ MODULE PathEvidence ------------------------------
(* Gossip of transactions with path evidence between the nodes of               *)
(* src/network/node.rs, receipt commitments of src/blockchain/path.rs, and the  *)
(* aggregation of mempool entries into canonical blocks.                        *)
(*                                                                              *)
(* A node handles one message at a time; every forward is a task of its own, so *)
(* messages arrive in any order.  A message is lost when try_send finds the     *)
(* channel full or when the node is offline.  Which neighbours a node forwards  *)
(* to depends on its relay profile, its type and the outage flag: all of them,  *)
(* or any of them.  A Sybil node signs hops through its own identities before   *)
(* it forwards.  The chain of a node is the number of canonical blocks it has   *)
(* (ChainSync has the details).  The conflict counter is a metric and left out. *)
EXTENDS Path, FiniteSets, MessageBag

CONSTANTS
  Node,               \* the nodes of the network
  Tx,                 \* transactions, records with field from \in Node
  neighbors,          \* the set of neighbours of each node
  sybil_nodes,        \* the identities of each node, <<>> unless it is a Sybil
  relays_all,         \* the nodes that forward to every neighbour (Active)
  max_tx_per_block,
  max_mempool_size,
  MaxEpoch,           \* bound: the last epoch
  MaxBlocks,          \* bound: how many blocks are produced
  MaxLost             \* bound: how many messages may be lost

VARIABLES
  current_epoch,              \* of the world state
  epoch,                      \* of each node
  transaction_paths_cache,    \* the mempool of each node
  flying,                     \* the bag of SendTransactionPaths messages in flight
  RECEIPT_COMMITMENT_CACHE,
  generated,                  \* transactions for which GenerateTransactionPaths ran
  blocks,                     \* canonical blocks that have transactions
  height,                     \* the number of canonical blocks each node has
  lost

mempools == <<transaction_paths_cache, RECEIPT_COMMITMENT_CACHE>>
chain == <<blocks, height>>
clock == <<current_epoch, epoch>>
vars == <<clock, mempools, flying, generated, chain, lost>>

Sybils(n) == {sybil_nodes[n][i] : i \in DOMAIN sybil_nodes[n]}
Identity == Node \cup UNION {Sybils(n) : n \in Node}

\* Every wallet is a fresh key pair: an identity has one operator, and none is a node.
PathAssumption ==
  /\ neighbors \in [Node -> SUBSET Node]
  /\ sybil_nodes \in [Node -> Seq(Identity)]
  /\ \A n \in Node : Sybils(n) \cap Node = {}
  /\ \A m, n \in Node : m # n => Sybils(m) \cap Sybils(n) = {}
  /\ \A tx \in Tx : tx.from \in Node
  /\ max_tx_per_block \in Nat \ {0} /\ max_mempool_size \in Nat
  /\ MaxEpoch \in Nat /\ MaxBlocks \in Nat /\ MaxLost \in Nat

\* The node that acts for an identity and whose mempool it proposes from.
Owner(id) == IF id \in Node THEN id ELSE CHOOSE n \in Node : id \in Sybils(n)

\* The transaction index of a chain with the first h blocks.
TransactionIndex(h) == UNION {DOMAIN blocks[i].paths : i \in 1..h}
Included(n) == TransactionIndex(height[n])
Canonical == TransactionIndex(Len(blocks))
Holds(n, tx) == \E p \in transaction_paths_cache[n] : p.tx = tx

---------------------------------------------------------------------------------
Init ==
  /\ current_epoch = 0
  /\ epoch = [n \in Node |-> 0]
  /\ transaction_paths_cache = [n \in Node |-> {}]
  /\ flying = EmptyBag
  /\ RECEIPT_COMMITMENT_CACHE = {}
  /\ generated = {}
  /\ blocks = <<>>
  /\ height = [n \in Node |-> 0]
  /\ lost = 0

\* The messages of one fan-out; append_outgoing_hop skips visited receivers.
Forwards(p, wallet, n, receivers) ==
  SetToBag({[paths |-> append_outgoing_hop(p, m), from |-> n, to |-> m] :
              m \in {m \in receivers : can_append_outgoing_hop(p, m, wallet)}})

\* One step of the Sybil loop: hop from the current wallet to identity id.  When
\* the receipt is in conflict the hop stays pending and stops all later hops.
PadWith(s, id) ==
  IF ~can_append_outgoing_hop(s.paths, id, s.wallet) THEN s
  ELSE LET q == append_outgoing_hop(s.paths, id) IN
    IF receipt_conflict(s.cache, receipt(q)) THEN [s EXCEPT !.paths = q]
    ELSE [paths  |-> complete_pending_hop(q),
          wallet |-> id,
          cache  |-> s.cache \cup {receipt(q)}]

Pad(p, n, cache) ==
  LET padded[i \in 0..Len(sybil_nodes[n])] ==
        IF i = 0 THEN [paths |-> p, wallet |-> n, cache |-> cache]
        ELSE PadWith(padded[i - 1], sybil_nodes[n][i])
  IN padded[Len(sybil_nodes[n])]

\* Store p in the mempool of n, then send it to the given neighbours.
StoreAndForward(n, p, cache, receivers, inflight) ==
  LET s == Pad(p, n, cache) IN
    /\ transaction_paths_cache' = [transaction_paths_cache EXCEPT ![n] = @ \cup {p}]
    /\ RECEIPT_COMMITMENT_CACHE' = s.cache
    /\ flying' = inflight (+) Forwards(s.paths, s.wallet, n, receivers)

\* GenerateTransactionPaths: the path has the epoch of the node's own clock.  A
\* full mempool drops the transaction.
GenerateTransactionPaths(n, tx) ==
  /\ tx \notin generated /\ tx.from = n
  /\ generated' = generated \cup {tx}
  /\ \/ /\ Cardinality(transaction_paths_cache[n]) < max_mempool_size
        /\ StoreAndForward(n, new_with_epoch(tx, epoch[n]), RECEIPT_COMMITMENT_CACHE,
                           neighbors[n], flying)
     \/ /\ Cardinality(transaction_paths_cache[n]) >= max_mempool_size
        /\ UNCHANGED <<mempools, flying>>
  /\ UNCHANGED <<clock, chain, lost>>

\* SendTransactionPaths, dropped by a full channel or an offline node.
Lose(m) ==
  /\ lost < MaxLost
  /\ lost' = lost + 1
  /\ flying' = flying (-) SetToBag({m})
  /\ UNCHANGED <<clock, mempools, generated, chain>>

\* SendTransactionPaths for a transaction that the node has in its chain or its
\* mempool, or has signed another receipt for.
Ignore(m) ==
  /\ \/ m.paths.tx \in Included(m.to)
     \/ Holds(m.to, m.paths.tx)
     \/ receipt_conflict(RECEIPT_COMMITMENT_CACHE, receipt(m.paths))
  /\ flying' = flying (-) SetToBag({m})
  /\ UNCHANGED <<clock, mempools, generated, chain, lost>>

\* SendTransactionPaths: complete the hop, store the path and forward it.
Accept(m) ==
  /\ m.paths.tx \notin Included(m.to)
  /\ ~Holds(m.to, m.paths.tx)
  /\ ~receipt_conflict(RECEIPT_COMMITMENT_CACHE, receipt(m.paths))
  /\ \E receivers \in SUBSET (neighbors[m.to] \ {m.from}) :
       /\ (m.to \in relays_all \/ sybil_nodes[m.to] # <<>>)
            => receivers = neighbors[m.to] \ {m.from}
       /\ StoreAndForward(m.to, complete_pending_hop(m.paths),
                          RECEIPT_COMMITMENT_CACHE \cup {receipt(m.paths)},
                          receivers, flying (-) SetToBag({m}))
  /\ UNCHANGED <<clock, generated, chain, lost>>

\* Mutant: a block takes everything the mempool holds.
PackedAll(id) == {{p \in transaction_paths_cache[Owner(id)] : p.tx \notin Canonical}}

\* The mempool entries build_canonical_block takes: those with the highest fee
\* that the canonical chain does not have, max_tx_per_block of them if possible.
Packed(id) ==
  LET valid == {p \in transaction_paths_cache[Owner(id)] : p.tx \notin Canonical}
  IN {s \in SUBSET valid :
        Cardinality(s) = IF Cardinality(valid) < max_tx_per_block
                         THEN Cardinality(valid) ELSE max_tx_per_block}

\* next_slot elects id, which makes a block.  A block without transactions does
\* not matter here.
ProduceBlock(id) ==
  /\ Len(blocks) < MaxBlocks
  /\ \E packed \in Packed(id) \ {{}} :
       /\ blocks' = Append(blocks,
            [miner |-> id,
             epoch |-> current_epoch,
             paths |-> [tx \in {p.tx : p \in packed} |->
                          from_transaction_paths(CHOOSE p \in packed : p.tx = tx)]])
       /\ transaction_paths_cache' =
            [transaction_paths_cache EXCEPT ![Owner(id)] = @ \ packed]
  /\ UNCHANGED <<clock, flying, RECEIPT_COMMITMENT_CACHE, generated, height, lost>>

\* The chain of n gets canonical blocks, by SendBlock or by a sync response; what
\* they include leaves the mempool.
ReceiveBlocks(n) ==
  /\ \E h \in (height[n] + 1)..Len(blocks) :
       /\ height' = [height EXCEPT ![n] = h]
       /\ transaction_paths_cache' = [transaction_paths_cache EXCEPT
            ![n] = {p \in @ : p.tx \notin TransactionIndex(h)}]
  /\ UNCHANGED <<clock, flying, RECEIPT_COMMITMENT_CACHE, generated, blocks, lost>>

NextEpoch ==
  /\ current_epoch < MaxEpoch
  /\ current_epoch' = current_epoch + 1
  /\ UNCHANGED <<epoch, mempools, flying, generated, chain, lost>>

\* UpdateSlot reaches a node after a while; none is skipped.
UpdateSlot(n) ==
  /\ epoch[n] < current_epoch
  /\ epoch' = [epoch EXCEPT ![n] = @ + 1]
  /\ UNCHANGED <<current_epoch, mempools, flying, generated, chain, lost>>

Next ==
  \/ \E n \in Node, tx \in Tx : GenerateTransactionPaths(n, tx)
  \/ \E m \in BagToSet(flying) : Lose(m) \/ Ignore(m) \/ Accept(m)
  \/ \E id \in Identity : ProduceBlock(id)
  \/ \E n \in Node : ReceiveBlocks(n) \/ UpdateSlot(n)
  \/ NextEpoch

Spec == Init /\ [][Next]_vars

---------------------------------------------------------------------------------
Signed(p) == IF p.pending THEN SubSeq(p.nodes, 1, Len(p.nodes) - 1) ELSE p.nodes

\* Every path record of the system, its pending hop cut off.
SignedPaths ==
  {[tx |-> p.tx, epoch |-> p.epoch, nodes |-> Signed(p)] :
     p \in (UNION {transaction_paths_cache[n] : n \in Node})
             \cup {m.paths : m \in BagToSet(flying)}}

\* Shapes, and the limit on the transactions of a block.
TypeOK ==
  /\ current_epoch \in 0..MaxEpoch
  /\ epoch \in [Node -> 0..current_epoch]
  /\ \A n \in Node : \A p \in transaction_paths_cache[n] :
       p.tx \in generated /\ p.epoch \in 0..current_epoch /\ p.nodes \in Seq(Identity)
  /\ \A m \in BagToSet(flying) : m.paths.pending /\ m.to \in neighbors[m.from]
  /\ height \in [Node -> 0..Len(blocks)]
  /\ \A i \in DOMAIN blocks : Cardinality(DOMAIN blocks[i].paths) \in 1..max_tx_per_block
  /\ lost \in 0..MaxLost

\* append_outgoing_hop, complete_pending_hop and the mempool: an entry is a
\* complete path without repetition from the originator to the holder, each hop
\* goes to a neighbour or stays with one operator, and there is one entry per
\* transaction, whatever was lost, reordered, packed or padded before.
MempoolPaths ==
  \A n \in Node : \A p \in transaction_paths_cache[n] :
    /\ ~p.pending
    /\ p.nodes[1] = p.tx.from /\ current_tail(p) = n /\ IsInjective(p.nodes)
    /\ \A i \in 1..(Len(p.nodes) - 1) :
         LET a == p.nodes[i]  b == p.nodes[i + 1] IN
           Owner(a) = Owner(b) \/ b \in neighbors[Owner(a)]
    /\ \A q \in transaction_paths_cache[n] : q.tx = p.tx => q = p

\* RECEIPT_COMMITMENT_CACHE: a receiver signs one path per transaction and epoch,
\* so two records of a transaction that share a relay share everything before
\* it, also after the first one was packed and the transaction arrived again.
PathsFormATree ==
  \A p, q \in SignedPaths : <<p.tx, p.epoch>> = <<q.tx, q.epoch>> =>
    \A i \in 2..Len(p.nodes), j \in 2..Len(q.nodes) :
      p.nodes[i] = q.nodes[j] => SubSeq(p.nodes, 1, i) = SubSeq(q.nodes, 1, j)

\* from_transaction_paths and verify_at_epoch: the record of a canonical block is
\* eligible evidence exactly when the path was created in the epoch of the block
\* and the proposer is the holder of the mempool, not one of its identities.
EligibleEvidence ==
  \A i \in DOMAIN blocks : \A tx \in DOMAIN blocks[i].paths :
    LET b == blocks[i]  rec == b.paths[tx] IN
      verify_at_epoch(rec, tx, b.miner, b.epoch)
        <=> rec.epoch = b.epoch /\ b.miner \in Node
=================================================================================
