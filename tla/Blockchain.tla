------------------------------- MODULE Blockchain -------------------------------
(* The chain held by every node and by the world state                          *)
(* (src/blockchain/mod.rs), as operators on a record                            *)
(* [blocks, transaction_index].  A block is a record with at least              *)
(* [index, epoch, slot, hash, parent_hash, txs]; hash is injective in the       *)
(* block, txs is the set of transaction hashes of its body.                     *)
EXTENDS Naturals, Sequences, FiniteSets

CONSTANT max_blocks_in_memory   \* Blockchain::max_blocks_in_memory

ASSUME MaxBlocksAssumption == max_blocks_in_memory \in Nat \ {0}

new(genesis) == [blocks |-> <<genesis>>, transaction_index |-> genesis.txs]

exist_transaction(bc, tx) == tx \in bc.transaction_index

get_last_block(bc) == bc.blocks[Len(bc.blocks)]

get_last_hash(bc) == get_last_block(bc).hash

get_last_index(bc) == get_last_block(bc).index

\* The blocks at the end of the chain that share the epoch of its LAST block.
get_last_epoch_block(bc) ==
  {bc.blocks[i] : i \in {j \in DOMAIN bc.blocks :
      \A k \in j..Len(bc.blocks) : bc.blocks[k].epoch = get_last_block(bc).epoch}}

\* Mutant: a block need not follow the last one.
add_block_error_unlinked(bc, b) ==
  IF get_last_block(bc).index + 1 > b.index THEN "IndexTooSmall" ELSE "Ok"

\* The checks of add_block, in the order in which it makes them.  A block built
\* by Block::new and shared by reference always verifies.
add_block_error(bc, b) ==
  IF bc.blocks = <<>> THEN "Ok"
  ELSE LET last == get_last_block(bc) IN
    IF last.index + 1 > b.index THEN "IndexTooSmall"
    ELSE IF last.hash = b.hash THEN "DuplicateBlocksReceived"
    ELSE IF last.hash # b.parent_hash THEN "ParentHashMismatch"
    ELSE IF last.index + 1 # b.index THEN "IndexMismatch"
    ELSE IF last.epoch > b.epoch THEN "EpochError"
    ELSE IF last.epoch = b.epoch /\ last.slot > b.slot THEN "SlotError"
    ELSE IF b.txs \cap bc.transaction_index # {} THEN "TransactionExists"
    ELSE "Ok"

\* Mutant: one block too many stays in memory.
PruneLate(blocks) ==
  IF Len(blocks) > max_blocks_in_memory + 1 THEN Tail(blocks) ELSE blocks

\* Mutant: a block is dropped as soon as the memory is full.
PruneEarly(blocks) ==
  IF Len(blocks) >= max_blocks_in_memory THEN Tail(blocks) ELSE blocks

\* Pruning drops the oldest block from memory; transaction_index keeps growing.
Prune(blocks) ==
  IF Len(blocks) > max_blocks_in_memory THEN Tail(blocks) ELSE blocks

\* Mutant: the transaction index forgets what pruning drops.
add_block_pruning_index(bc, b) ==
  LET kept == Prune(Append(bc.blocks, b))
  IN [blocks            |-> kept,
      transaction_index |-> UNION {kept[i].txs : i \in DOMAIN kept}]

\* The chain after an add_block that returns Ok.  The branch for an empty chain
\* pushes without pruning, which Prune leaves alone as well.
add_block(bc, b) ==
  [blocks            |-> Prune(Append(bc.blocks, b)),
   transaction_index |-> bc.transaction_index \cup b.txs]
=================================================================================
