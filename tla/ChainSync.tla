-------------------------------- MODULE ChainSync --------------------------------
(* How the canonical chain reaches the local chains: the block broadcast of     *)
(* next_slot and the block-sync answers of src/network/world_state.rs, and the  *)
(* handlers of SendBlock, RequestBlockSync, ResponseBlockSync and UpdateSlot of *)
(* src/network/node.rs.                                                         *)
(*                                                                              *)
(* Every channel is a bounded FIFO queue.  try_send drops the message when the  *)
(* queue is full; a spawned task waits for room, so the messages that nodes     *)
(* send each other overtake each other until they are queued.  Only the world   *)
(* state produces blocks in the running program: the canonical chain is         *)
(* Block(0), Block(1), ... and each block carries a transaction of its own.     *)
(* Mempools are the subject of PathEvidence.                                    *)
EXTENDS Blockchain, Functions, FiniteSetsExt, MessageBag

CONSTANTS
  Node,
  neighbors,               \* the set of neighbours of each node
  Unstable,                \* the nodes of type Unstable
  outage_nodes,            \* the nodes of the scheduled outage
  outage_start_epoch,
  outage_duration_epochs,  \* 0: the outage never ends
  slot_per_epoch,
  node_capacity,           \* of a node's channel
  world_capacity,          \* of the world state's channel
  MaxSlot,                 \* bound: the number of slots
  MaxLag                   \* bound: slot changes that may wait in a node's channel

ASSUME SyncAssumption ==
  /\ neighbors \in [Node -> SUBSET Node]
  /\ Unstable \subseteq Node /\ outage_nodes \subseteq Node
  /\ slot_per_epoch \in Nat \ {0} /\ outage_start_epoch \in Nat \ {0}
  /\ {node_capacity, world_capacity, MaxLag} \subseteq Nat \ {0}
  /\ MaxSlot \in Nat

VARIABLES
  slot,                        \* slots passed since the start, of the world state
  canonical,                   \* the chain of the world state
  blockchain,                  \* the chain of each node
  sync_in_progress,
  epoch,                       \* the epoch each node has heard of
  offline_until_epoch,         \* NoEpoch: the node has not taken itself offline
  scheduled_online_last_slot,
  inbox,                       \* the channel of each node
  world_inbox,                 \* sync requests in the world state's channel
  tasks                        \* spawned sends, a bag of <<receiver, message>>

world == <<slot, canonical>>
availability == <<epoch, offline_until_epoch, scheduled_online_last_slot>>
network == <<inbox, world_inbox, tasks>>
vars == <<world, blockchain, sync_in_progress, availability, network>>

NoEpoch == -1
world_state == "world_state"   \* the sender of the world state's messages

ASSUME SenderAssumption == world_state \notin Node

Block(i) == [index |-> i, epoch |-> 0, slot |-> i, hash |-> i,
             parent_hash |-> i - 1, txs |-> {i}]

EpochOf(s) == s \div slot_per_epoch

scheduled_outage_active(e) ==
  /\ outage_nodes # {} /\ e >= outage_start_epoch
  /\ outage_duration_epochs = 0 \/ e < outage_start_epoch + outage_duration_epochs

\* The flag of node_availability: the world state stores it when the slot
\* changes, the node loads it for every message.
scheduled_online(n) ==
  ~(scheduled_outage_active(EpochOf(slot)) /\ n \in outage_nodes)

is_online(n) == offline_until_epoch[n] = NoEpoch
Online(n) == is_online(n) /\ scheduled_online(n)

SendBlock(b, from) == [type |-> "SendBlock", block |-> b, from |-> from]
RequestBlockSync(index, from) ==
  [type |-> "RequestBlockSync", last_block_index |-> index, from |-> from]
ResponseBlockSync(blocks, from) ==
  [type |-> "ResponseBlockSync", blocks |-> blocks, from |-> from]
UpdateSlot(e) == [type |-> "UpdateSlot", current_epoch |-> e]

try_send(queue, capacity, m) ==
  IF Len(queue) < capacity THEN Append(queue, m) ELSE queue

\* One spawned send of m to every node of S.
SpawnAll(S, m) == SetToBag({<<n, m>> : n \in S})

---------------------------------------------------------------------------------
Init ==
  /\ slot = 0
  /\ canonical = new(Block(0))
  /\ blockchain = [n \in Node |-> new(Block(0))]
  /\ sync_in_progress = [n \in Node |-> FALSE]
  /\ epoch = [n \in Node |-> 0]
  /\ offline_until_epoch = [n \in Node |-> NoEpoch]
  /\ scheduled_online_last_slot = [n \in Node |-> TRUE]
  /\ inbox = [n \in Node |-> <<>>]
  /\ world_inbox = <<>>
  /\ tasks = EmptyBag

Lag(n) == Cardinality({i \in DOMAIN inbox[n] : inbox[n][i].type = "UpdateSlot"})

\* next_slot: the new slot is announced with awaited sends, so the world state
\* waits for room in every channel; a block, if there is one, is then offered to
\* every node with try_send in the name of its miner.
NextSlot ==
  /\ slot < MaxSlot
  /\ \A n \in Node : Len(inbox[n]) < node_capacity /\ Lag(n) < MaxLag
  /\ slot' = slot + 1
  /\ LET announced(n) == Append(inbox[n], UpdateSlot(EpochOf(slot + 1)))
         block == Block(get_last_index(canonical) + 1)
     IN \/ /\ inbox' = [n \in Node |-> announced(n)]
           /\ UNCHANGED canonical
        \/ \E miner \in {m \in Node : scheduled_online(m)'} :
             /\ canonical' = add_block(canonical, block)
             /\ inbox' = [n \in Node |->
                  try_send(announced(n), node_capacity, SendBlock(block, miner))]
  /\ UNCHANGED <<blockchain, sync_in_progress, availability, world_inbox, tasks>>

\* Mutant: the answer is sent by a spawned task, like those of the nodes.
WorldSpawnsAnswer ==
  /\ world_inbox # <<>>
  /\ world_inbox' = Tail(world_inbox)
  /\ tasks' = tasks (+) SpawnAll({Head(world_inbox).from},
                                 ResponseBlockSync(canonical.blocks, world_state))
  /\ UNCHANGED <<world, blockchain, sync_in_progress, availability, inbox>>

\* The world state answers a sync request with all blocks it has in memory,
\* whatever index was asked for.
WorldReceivesRequest ==
  /\ world_inbox # <<>>
  /\ world_inbox' = Tail(world_inbox)
  /\ LET to == Head(world_inbox).from
     IN inbox' = [inbox EXCEPT ![to] = try_send(@, node_capacity,
                    ResponseBlockSync(canonical.blocks, world_state))]
  /\ UNCHANGED <<world, blockchain, sync_in_progress, availability, tasks>>

\* A spawned send finds room in the channel of its receiver.
Deliver(n) ==
  /\ Len(inbox[n]) < node_capacity
  /\ \E t \in BagToSet(tasks) :
       /\ t[1] = n
       /\ inbox' = [inbox EXCEPT ![n] = Append(@, t[2])]
       /\ tasks' = tasks (-) SetToBag({t})
  /\ UNCHANGED <<world, blockchain, sync_in_progress, availability, world_inbox>>

\* Node n takes message m of the given type from its channel.
Receives(n, m, type) ==
  /\ inbox[n] # <<>>
  /\ m = Head(inbox[n]) /\ m.type = type
  /\ inbox' = [inbox EXCEPT ![n] = Tail(@)]

\* While the node is offline every message but UpdateSlot is dropped.
Skip(n) ==
  /\ inbox[n] # <<>> /\ Head(inbox[n]).type # "UpdateSlot"
  /\ ~Online(n)
  /\ inbox' = [inbox EXCEPT ![n] = Tail(@)]
  /\ UNCHANGED <<world, blockchain, sync_in_progress, availability, world_inbox, tasks>>

\* A block that extends the local chain is added and forwarded to the neighbours
\* it did not come from.  A block whose parent is missing starts a sync with the
\* world state, unless one is under way.  Any other block is ignored.
ReceiveBlock(n) ==
  /\ Online(n)
  /\ \E m \in Range(inbox[n]) :
       /\ Receives(n, m, "SendBlock")
       /\ LET error == add_block_error(blockchain[n], m.block) IN
          \/ /\ error = "Ok"
             /\ blockchain' = [blockchain EXCEPT ![n] = add_block(@, m.block)]
             /\ tasks' = tasks (+) SpawnAll(neighbors[n] \ {m.from}, SendBlock(m.block, n))
             /\ UNCHANGED <<sync_in_progress, world_inbox>>
          \/ /\ error = "ParentHashMismatch" /\ ~sync_in_progress[n]
             /\ sync_in_progress' = [sync_in_progress EXCEPT ![n] = TRUE]
             /\ world_inbox' = try_send(world_inbox, world_capacity,
                                 RequestBlockSync(get_last_index(blockchain[n]), n))
             /\ UNCHANGED <<blockchain, tasks>>
          \/ /\ error # "Ok" /\ (error = "ParentHashMismatch" => sync_in_progress[n])
             /\ UNCHANGED <<blockchain, sync_in_progress, world_inbox, tasks>>
  /\ UNCHANGED <<world, availability>>

\* The blocks a node sends to a neighbour that asks from an index on: all blocks
\* in memory if that index has been pruned.
SyncBlocks(bc, requested_index) ==
  LET oldest_index == Head(bc.blocks).index
  IN IF requested_index >= oldest_index
     THEN SubSeq(bc.blocks, requested_index - oldest_index + 1, Len(bc.blocks))
     ELSE bc.blocks

\* A node that is syncing itself ignores the request.
ReceiveRequest(n) ==
  /\ Online(n)
  /\ \E m \in Range(inbox[n]) :
       /\ Receives(n, m, "RequestBlockSync")
       /\ LET sync_blocks == SyncBlocks(blockchain[n], m.last_block_index) IN
          tasks' = IF sync_in_progress[n] \/ sync_blocks = <<>> \/ m.from \notin neighbors[n]
                   THEN tasks
                   ELSE tasks (+) SpawnAll({m.from}, ResponseBlockSync(sync_blocks, n))
  /\ UNCHANGED <<world, blockchain, sync_in_progress, availability, world_inbox>>

\* The chain made of a snapshot: nothing of the old chain or its index is kept.
replace_local_chain_with_snapshot(sync_blocks) ==
  [blocks            |-> sync_blocks,
   transaction_index |-> UNION {b.txs : b \in Range(sync_blocks)}]

\* add_block for each block in turn; after an error no later block is added,
\* which add_block would not accept either.
AddAll(bc, sync_blocks) ==
  LET next(acc, b) == IF add_block_error(acc, b) = "Ok" THEN add_block(acc, b) ELSE acc
      chain[i \in 0..Len(sync_blocks)] ==
        IF i = 0 THEN bc ELSE next(chain[i - 1], sync_blocks[i])
  IN chain[Len(sync_blocks)]

\* The chain cut before the block with the given index, whose transactions and
\* those of its successors leave the transaction index.
Truncate(bc, index) ==
  LET gone == {b \in Range(bc.blocks) : b.index >= index}
  IN [blocks            |-> SelectSeq(bc.blocks, LAMBDA b : b.index < index),
      transaction_index |-> bc.transaction_index \ UNION {b.txs : b \in gone}]

\* Mutant: only a gap makes the node take blocks of a response.
ResyncOnlyAcrossGap(bc, sync_blocks) ==
  IF get_last_index(bc) + 1 < Head(sync_blocks).index
  THEN replace_local_chain_with_snapshot(sync_blocks) ELSE bc

\* The local chain after a neighbour's response that is ahead of it: a snapshot if
\* the response starts beyond the next index, otherwise the blocks from the first
\* one that contradicts or extends the local chain.
Resync(bc, sync_blocks) ==
  LET current_index == get_last_index(bc)
      local(b)   == {l \in Range(bc.blocks) : l.index = b.index}
      diverges(b) == \E l \in local(b) : l.hash # b.hash
      extends(b)  == local(b) = {} /\ b.index > current_index
      starts == {i \in DOMAIN sync_blocks : diverges(sync_blocks[i]) \/ extends(sync_blocks[i])}
      start_idx == Min(starts)
      base == IF diverges(sync_blocks[start_idx])
              THEN Truncate(bc, sync_blocks[start_idx].index) ELSE bc
  IN IF current_index + 1 < Head(sync_blocks).index
     THEN replace_local_chain_with_snapshot(sync_blocks)
     ELSE IF starts = {} THEN bc
     ELSE AddAll(base, SubSeq(sync_blocks, start_idx, Len(sync_blocks)))

\* A snapshot of the world state is taken as it is.  A neighbour's response is
\* skipped, and the sync stays in progress, unless it is ahead of the local chain.
ReceiveResponse(n) ==
  /\ Online(n)
  /\ \E m \in Range(inbox[n]) :
       /\ Receives(n, m, "ResponseBlockSync")
       /\ \/ /\ m.from = world_state
             /\ blockchain' = [blockchain EXCEPT ![n] =
                                 replace_local_chain_with_snapshot(m.blocks)]
             /\ sync_in_progress' = [sync_in_progress EXCEPT ![n] = FALSE]
          \/ /\ m.from # world_state
             /\ get_last_index(blockchain[n]) < m.blocks[Len(m.blocks)].index
             /\ blockchain' = [blockchain EXCEPT ![n] = Resync(@, m.blocks)]
             /\ sync_in_progress' = [sync_in_progress EXCEPT ![n] = FALSE]
          \/ /\ m.from # world_state
             /\ get_last_index(blockchain[n]) >= m.blocks[Len(m.blocks)].index
             /\ UNCHANGED <<blockchain, sync_in_progress>>
  /\ UNCHANGED <<world, availability, world_inbox, tasks>>

\* The recovery request carries the number of blocks in memory less one, which
\* is the last index only until the chain is pruned.
RecoveryRequest(n) ==
  SpawnAll(neighbors[n], RequestBlockSync(Len(blockchain[n].blocks) - 1, n))

\* A node asks all neighbours for blocks when its scheduled outage or its own
\* offline epoch ends.  At an epoch change an unstable node may go offline for
\* one epoch; it never does so before its previous absence ends.
ReceiveUpdateSlot(n) ==
  /\ \E m \in Range(inbox[n]) :
       /\ Receives(n, m, "UpdateSlot")
       /\ epoch' = [epoch EXCEPT ![n] = m.current_epoch]
       /\ scheduled_online_last_slot' =
            [scheduled_online_last_slot EXCEPT ![n] = scheduled_online(n)]
       /\ LET recovers == scheduled_online(n) /\ ~scheduled_online_last_slot[n]
              returns  == n \in Unstable /\ ~is_online(n)
                            /\ m.current_epoch >= offline_until_epoch[n]
              requests(b) == IF b THEN RecoveryRequest(n) ELSE EmptyBag
          IN /\ tasks' = tasks (+) requests(recovers) (+) requests(returns)
             /\ \/ offline_until_epoch' = [offline_until_epoch EXCEPT ![n] =
                                             IF returns THEN NoEpoch ELSE @]
                \/ /\ n \in Unstable /\ (is_online(n) \/ returns)
                   /\ m.current_epoch # epoch[n]
                   /\ offline_until_epoch' =
                        [offline_until_epoch EXCEPT ![n] = m.current_epoch + 1]
  /\ UNCHANGED <<world, blockchain, sync_in_progress, world_inbox>>

Handle(n) ==
  \/ Skip(n)
  \/ ReceiveBlock(n)
  \/ ReceiveRequest(n)
  \/ ReceiveResponse(n)
  \/ ReceiveUpdateSlot(n)

Next ==
  \/ NextSlot
  \/ WorldReceivesRequest
  \/ \E n \in Node : Deliver(n) \/ Handle(n)

Spec == Init /\ [][Next]_vars

\* The tokio runtime keeps polling the loop of every node and of the world state,
\* and every spawned send.
Fairness ==
  /\ WF_vars(WorldReceivesRequest)
  /\ \A n \in Node : WF_vars(Deliver(n)) /\ WF_vars(Handle(n))

FairSpec == Spec /\ Fairness
---------------------------------------------------------------------------------
Tip(n) == get_last_index(blockchain[n])
Window(lo, hi) == [i \in 1..(hi - lo + 1) |-> Block(lo + i - 1)]

\* Chains are well formed and no longer than memory allows; channels keep to their
\* capacity; only an unstable node takes itself offline, until the next epoch.
TypeOK ==
  /\ slot \in 0..MaxSlot
  /\ \A bc \in {canonical} \cup {blockchain[n] : n \in Node} :
       Len(bc.blocks) \in 1..max_blocks_in_memory /\ bc.transaction_index \subseteq Nat
  /\ sync_in_progress \in [Node -> BOOLEAN]
  /\ \A n \in Node : offline_until_epoch[n] \in
       {NoEpoch} \cup (IF n \in Unstable THEN {epoch[n] + 1} ELSE {})
  /\ \A n \in Node : Len(inbox[n]) <= node_capacity
  /\ Len(world_inbox) <= world_capacity
  /\ IsABag(tasks)

\* However broadcasts, forwards, answers of neighbours and snapshots interleave,
\* a node's chain is a gap-free piece of the canonical chain that is not ahead of
\* it, and its transaction index holds the transactions of its blocks and only
\* transactions that are canonical up to its tip.  The fork branch of
\* ResponseBlockSync is therefore never taken.
LocalChainsCanonical ==
  \A n \in Node :
    LET bc == blockchain[n] IN
    /\ Tip(n) <= get_last_index(canonical)
    /\ bc.blocks = Window(Head(bc.blocks).index, Tip(n))
    /\ UNION {b.txs : b \in Range(bc.blocks)} \subseteq bc.transaction_index
    /\ bc.transaction_index \subseteq 0..Tip(n)

\* No step moves the tip of a local chain back, although a snapshot of the world
\* state is applied without comparing it to the local chain: queues are FIFO, so
\* whatever the node added before was canonical when the snapshot was taken.
TipsNeverRetreat == [][\A n \in Node : Tip(n)' >= Tip(n)]_vars

\* A node that is behind the canonical chain reaches its tip or goes offline: the
\* blocks it missed arrive through a neighbour or a snapshot.
CatchUp ==
  \A n \in Node :
    Tip(n) < get_last_index(canonical) ~>
      (Tip(n) = get_last_index(canonical) \/ ~Online(n))

\* add_block keeps "the complete set of packed transactions" in the transaction
\* index, "for deduplication over the whole chain": so a node whose tip is i knows
\* the transactions of all blocks up to i.  Not so after a snapshot.
DedupIndexComplete ==
  \A n \in Node : blockchain[n].transaction_index = 0..Tip(n)
=================================================================================
