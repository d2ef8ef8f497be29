# TLA+ specifications of TopoStake

These modules specify the two programs of this repository. One is the Rust
simulator in `src/`: its coordinator, its nodes, and the TopoStake, PoW and
Minotaur consensus objects. The other is what TopoStake adds to the Ethereum
clients in `ethereum-topostake/`: path metadata of transactions, the evidence and
score runtime, proposer weights and fee settlement. TLC checks the modules on
small instances. TLAPS proves the main properties for every value of the
constants. Paths of the simulator are relative to the crate's `src/` directory,
those of the clients to `ethereum-topostake/`.

## The simulator

One process simulates a network. Its tasks share memory behind locks and talk
over bounded `tokio` channels.

| part | state | operations |
|---|---|---|
| World state, `network/world_state.rs` | slot clock, validators, canonical chain, consensus object, account balances, availability flags, duty counters | timer task: `next_slot`, `next_epoch`; receiver task: registration, balance updates, sync requests |
| Node, `network/node.rs` | local chain, mempool, balance, epoch and slot it heard of, sync flag, two kinds of being offline | one handler per message; each forward is a spawned task |
| TopoStake, `consensus/topostake.rs` | score history, queue of score roots, active root, frozen weights, queue of reward batches | `on_epoch_end`, `select_proposer`, `distribute_rewards` |
| Chain, `blockchain/mod.rs` | blocks in memory, transaction index | `add_block` with pruning, getters |
| Path evidence, `blockchain/path.rs` | signed hops, receipt commitments | append, complete, aggregate, verify |
| PoW, `consensus/pow.rs` | difficulty; per selection: threads, mutex, stop flag | `select_proposer`, `on_epoch_end` |
| Minotaur, `consensus/minotaur.rs` | `pow_blocks` by index, block index; per slot: a background round of threads, its stop flag | `next_slot`, `select_proposer` |
| Transaction generator, `network/mod.rs` | `fee_spent` | `emit_one_transaction` |
| Padding evaluation, `security_eval.rs` | none | `evaluate_padding_grid` |

In a slot the timer task takes the world state's write lock and moves the clock.
It announces the slot to all nodes, asks the validators for RANDAO seeds and
elects a proposer. It builds a block from the proposer's mempool, applies it,
settles matured rewards and offers the block to the nodes. At an epoch boundary
it first ends the epoch in the consensus object and samples the metrics. Nodes
gossip transactions with path evidence and blocks meanwhile.

What is hard here, and hard to test:

- the delays of the score pipeline and of reward settlement, combined with empty
  epochs, missed duties and late registrations;
- pruned chains, which must still recognise every packed transaction;
- blocks, snapshots and neighbours' answers that overtake each other;
- atomic flags and counters that are read and written by several tasks;
- balances that are exchanged as absolute values;
- awaited sends under a lock;
- `try_lock` between mining threads and the polling thread;
- mining rounds that are joined under the lock and stored by block index.

`PROJECT.json` lists the hazards of both programs with their lines and the
properties that cover them.

## The Ethereum devnet

Every host runs a modified go-ethereum (execution client) and a modified
Lighthouse (consensus client).

| part | state | operations |
|---|---|---|
| Path metadata, `eth/topostake/metadata.go` of geth | signed path of each transaction, relay epoch | origin signature after an RPC or before a broadcast, outgoing edge, countersigning and storing |
| Evidence runtime, `chain_spec.rs` of Lighthouse | accepted hashes, credits and scores by epoch, scores in use by proposer epoch | recording at the end of `per_block_processing`, settlement with the finalized epoch, activation at the first lookup |
| Amounts, `chain_spec.rs` and `beacon_state.rs` | contributions, credits, scores as scaled integers | `record_topostake_path`, `topostake_settle_scores_through_epoch`, `compute_topostake_proposer_index` |
| Fee settlement, both clients | submitted epochs; queue of payloads, executed markers; escrow and payouts in the chain's state | submission by RPC with retries, `prepareWork` and `generateWork`, execution of blocks |

A transaction collects signatures on its way through the pools. A block carries
the paths of its transactions as evidence. Every consensus client turns evidence
into fee credits and scores when its block is processed, and settles them a few
epochs after finality. Scores then raise proposer weights. Settled credits go to
the execution clients, which commit them in a block header and pay them from the
escrow that collects the priority fees.

What is hard here: the runtime and the store are process-wide memory that sees
blocks of every branch, some of them twice; a submission whose answer is lost is
repeated; the root of a settlement is fixed before its records are looked up; and
a transaction can leave a pool before its metadata are stored.

## The modules

| module | models | checked by |
|---|---|---|
| `Path` | operators of `path.rs` | through its users |
| `Blockchain` | operators of `blockchain/mod.rs` | through its users |
| `TopoStakeConsensus` | the consensus object as a record, its methods as operators | through `WorldState` |
| `WorldState` | the coordinator: composes the three above | `MCWorldState`, two configurations |
| `PathEvidence` | gossip of transactions, receipts, packing | `MCPathEvidence` |
| `MessageBag` | the bag of spawned sends | through its users |
| `ChainSync` | local chains against the canonical chain | `MCChainSync`, two configurations |
| `OutageWindow` | flags, counters and samples of the scheduled outage | `MCTasks` |
| `Channels` | who waits for whom | `MCTasks` |
| `Mining` | the chunks of validators for mining threads | through its users |
| `Pow` | PoW: mining threads and the poll | `MCTasks` |
| `Minotaur` | Minotaur: mining rounds from slot to slot | `MCTasks` |
| `Accounts` | the two copies of each balance and the fee ledger | `MCAccounts` (one configuration), `MCAmounts` |
| `Sums` | sums of the values of a function, powers | through its users |
| `RewardCurve` | the path budget, its shares and padding | `MCAmounts` |
| `FixedPoint` | clients: credits, scores and proposer weights in integers | `MCAmounts` |
| `TxMetadata` | clients: the path of a transaction in the stores | `MCPathEvidence`, two configurations |
| `EvidenceRuntime` | clients: evidence, credits and scores over all branches | `MCEvidenceRuntime`, two configurations |
| `Settlement` | clients: submission, queueing, building, paying | `MCSettlement` |
| `SharedState` | composes `Pow` and `OutageWindow`: what threads and tasks share through mutexes and atomics | `MCTasks` |
| `Tasks` | composes `Minotaur`, `Channels` and `SharedState` | `MCTasks` |
| `PathGossip` | composes `PathEvidence` and `TxMetadata` | `MCPathEvidence`, two configurations |
| `Payout` | what `Settlement` promises: an abstract ledger | refinement, in `MCSettlement` |
| `*_proofs` | the theorems | TLAPS |

Components that share nothing but are checked alike share an MC module. Its
initial state chooses the one that runs, and the others stay as they are. Three
composition modules declare the variables of such components and name their
properties, so that the runs and the theorems are about the same definitions.

Names follow the code. A definition whose comment starts with "Mutant" is a
plausible mistake in the definition that follows it. Replacing the latter by the
former makes TLC report a violation of the property named in `PROJECT.json`.
The mutants are not part of the specifications.

### WorldState, TopoStakeConsensus, Blockchain, Path

`next_slot` and the registration handler hold the world state's write lock from
beginning to end, so each is one action. `NextSlot` and `NextEpoch` are the two
branches of `next_slot`; `Shutdown` is the end of the process after `max_epochs`.
`Propose` is their common rest: no proposer, a duty missed in the outage, or a
block. The variable `ledger` is history: the transactions of all blocks, also of
those pruned from memory. `settled` is the sequence of reward batches that were
credited.

Data is abstracted as follows.

- A score is the set of evidence that contributes to it: which block, of which
  epoch, credited under which score epoch. The moving average keeps a positive
  share of each earlier contribution, so a real score is positive only if the
  set is not empty.
- A proposer weight is the stake and the score it was computed from.
- A reward batch is the set of addresses it pays and the block that settles it.
- The draw of the election is a choice among the validators the walk over the
  weights can return. A draw of exactly 0 returns the first validator even when
  its weight is 0; the model includes it.
- A block hash is the block's number; a signature is valid exactly if the named
  wallet made it.
- The proposer's mempool is an input: any simple paths from an originator to the
  owner of the mempool. `PathEvidence` shows that mempools hold nothing else.

### PathEvidence

Messages in flight form a bag, because every forward is a task of its own. A
message may be lost (full channel or offline node), ignored or accepted. Which
neighbours a node forwards to is free, unless it is an always-forwarding node.
A Sybil operator signs hops through its own identities before it forwards, and
such an identity proposes from its operator's mempool.

### ChainSync

A channel is a bounded FIFO queue. Sends by `try_send` are dropped when it is
full; spawned sends wait in a bag and arrive in any order. Nodes may be absent in
a scheduled outage or, if unstable, by their own choice. The only block producer
of the running program is the world state, so blocks are numbered and every block
has a transaction of its own.

### OutageWindow

The grain is finer here. Each store of the flags, each sample, each load of a
flag and each count of a forward is an action of its own. `outage_relay_attempts`
is the sum that `experiments/sustained_outage_report.py` forms.

### Accounts and Channels

`Accounts` follows the balance in the node, the balance in the world state, and
the absolute values in the channels between them. `Channels` drops the contents
and keeps the waiting: the timer that awaits room in a node's channel under the
lock, the receiver that takes a message and then awaits the lock, and nodes that
await room in the world state's channel.

### Pow

One batch of hashes is one step that finds a hash or not, within what the
difficulty allows. Taking and releasing the mutex are separate steps, because a
failed `try_lock` has consequences. `found` and `polled` are history: who found a
hash, and who of them met the poll at the mutex.

### Minotaur

`BeginSlot` is `next_slot` up to its `join`, and `StartRound` the rest. Between
them the threads of the round before end, each with `Publish`. `select_proposer`
is the election with the block that follows or not. A `PowBlock` is counted by
index and address: its score is positive whatever its difficulty, so it decides
only who can be elected. `worked` and `collected` are history. Elections with no
weight at all would end the timer task; stakes are positive in the program, and
`MinotaurAssumption` asks for one positive stake.

### RewardCurve

The arithmetic of `path_budget_for_depth` and `alpha_for_depth` with exact
fractions. Powers are integers over a common denominator. Floating-point error is
outside the model; the code's tolerance stands for it.

### TxMetadata

One transaction in the stores of several execution clients; a store treats every
hash by itself. `EnsureLocalHash` is two steps, because it signs without the lock.
It is called by the RPC and by the broadcast loop, which the pool notifies first.
An announcement takes the metadata of the moment of sending. A peer that heard an
announcement may ask for the transaction at any time, and the reply carries
metadata too. Messages may be delayed, overtake each other or never arrive.
Signatures are valid, because all clients run this code.

### EvidenceRuntime

One step per block that reaches the end of `per_block_processing`. In the order of
the code it looks up the scores of the block's epoch, records the evidence, and
with the finalized epoch of the block's own state settles credits, submits them
and settles scores. A block may be imported, or fail afterwards, or never be
published; `Replay` processes a stored one again; `Duties` is a lookup without a
block. `Admissible` is what is left of fork choice: a block must be later than the
finalized checkpoint of the head and descend from it. A score is the set of
transactions whose evidence is in it. `FixedPoint` has the amounts.

### FixedPoint

The integer arithmetic itself, with saturation, with a scale of 100 instead of
10^9 and a ceiling of 10^6 instead of 2^64 - 1, so that TLC can multiply in 32
bits. Paths are recorded, an epoch is settled, and the loop that draws a proposer
takes one candidate at a time with any random value. `outdone` is history: the
pairs of validators of which one never contributed less than the other.

### Settlement and Payout

A root is a hash of its payload, so a root is the payload. The consensus client
sends one payload to one client per step; request and answer may each be lost. A
block is built in two steps, `Prepare` and `Seal`, between which the store may
change. `Process` is the execution of a block of any branch. The state of the
chain after every block is in `ledger`, which is also the variable of `Payout`: a
tree of accounts, each made from its parent by adding fees and paying at most one
epoch that was not paid before, out of an escrow that suffices. `PaysOnce` says
that `Settlement` implements it; the refinement mapping is the identity on
`ledger`.

## The runs

Run one with `tlc -workers 2 -config X.cfg M`. All pass unless marked.

| run | configuration | what it shows |
|---|---|---|
| world_state | `MCWorldState.cfg` | score roots activate on time, the weights use old evidence only, rewards settle once, no transaction is packed twice, duties are counted once and fail only in the outage, blocks stay in memory until they are scored |
| score_replay | `MCScoreReplay.cfg` | **violated**: after an epoch without a block the previous blocks are scored again |
| path_evidence | `MCPathEvidence.cfg` | simulator: mempool entries are simple paths to the holder, receipts form a tree, and when a record is eligible evidence. Clients: stored paths form a forest, and no store replaces its metadata |
| path_origin | `MCPathOrigin.cfg` | **violated**: a peer that connects at the wrong moment signs itself as the origin |
| chain_sync | `MCChainSync.cfg` | local chains are gap-free pieces of the canonical chain and never move back; with room in the channels a node that fell behind catches up |
| dedup_index | `MCDedupIndex.cfg` | **violated**: a snapshot forgets pruned transactions |
| tasks | `MCTasks.cfg` | at most one forward per node leaks into the samples of the outage. Every slot is announced while its messages fit into the world state's channel. PoW: a recorded winner is returned, only the poll wastes a hash, every selection returns. Minotaur: all work is stored once, elections find a mined index and a frozen basis, every round ends. No deadlock |
| amounts | `MCAmounts.cfg` | balances stay within what was paid and earned; the fee ledger covers the payments; padding a path never pays. Clients: no wei is lost, more relaying never scores less, a proposer is found in one round |
| lost_payment | `MCLostPayment.cfg` | **violated**: a payment and a reward cross and one is lost |
| settlement | `MCSettlement.cfg` | no chain pays an epoch twice, every built block can be imported, an acknowledged epoch stays queued, and the ledger of `Payout` is implemented |
| evidence_runtime | `MCEvidenceRuntime.cfg` | a transaction is credited once, scores act after their delay, settled epochs are closed, a submitted settlement is complete |
| canonical_scores | `MCCanonicalScores.cfg` | **violated**: evidence of a block outside the finalized chain is scored |

The violated properties state what a comment or a document of the repository
says. `findings` in `PROJECT.json` quotes it next to the line that disagrees.

Three passing properties are the strongest that hold where a comment suggests
more.

- `LedgerCoversPayments`: the comment at `network/mod.rs:895` says the originator
  pays what the ledger charges. The ledger also charges requests that a node
  refuses, or skips while it is offline, so only an inequality holds.
- `FinderWinsUnlessPolled`: the comment at `consensus/pow.rs:147` says the first
  finder wins. A finder whose `try_lock` meets the poll ends with nothing.
- `SlotAnnounced`: the comment at `network/world_state.rs:530` asks for reliable
  control messages. They are reliable while the messages of one slot fit into the
  world state's channel. With a channel one place smaller than in `MCTasks.cfg`,
  timer, node and receiver wait for each other. The program's channel has 4096
  places; the run shows which load a slot may carry, not that experiments reach it.

### Bounds

- **World state.** Three nodes (one without stake, one a Sybil identity of another), two
  transactions, three epochs of two slots. Activation delay, settlement depth and block
  memory are 2, so roots and batches wait, mature and leave in the explored time, and blocks are pruned.
  The outage covers the middle epoch, so it begins and ends. `MaxTxAge` is 1: a
  record is from this epoch or an older one, and nothing distinguishes older ones.
- **Path evidence.** A triangle is the smallest network with two paths between two
  nodes. One operator has a Sybil identity. One loss, one block and one epoch
  change suffice for a transaction to arrive again after it was packed. Mempools
  of one entry overflow.
- **Chain sync.** Two nodes, an outage and an unstable node; chains keep two
  blocks, so three slots prune. Channels of three messages overflow. The initial
  state may instead choose channels that never fill, for the liveness: a full
  channel loses an answer, and only an answer clears `sync_in_progress`.
- **Outage window.** Two nodes with different degrees, an outage of two epochs,
  with epochs before and after. The theorem covers all others.
- **Accounts.** Two nodes, each with money for one transaction and asked for two.
- **Channels.** Two nodes, one of them a validator. A world state channel of six
  is the smallest that takes the backlog, the load and the seeds of a slot; with
  five TLC reports the deadlock.
- **Pow.** Lists of zero to three validators on two threads. Difficulty 0 finds
  always, 1 may find, and 2 never does.
- **Minotaur.** One block after the genesis block, two rounds or more per index,
  validators that register late, one without stake. The same properties also hold
  with two blocks (8,015,509 states, half an hour).
- **Reward curve.** Depths 1 to 4 (4 is the frozen one), each up to the longest
  path whose fractions TLC can compare in 32 bits.
- **Fixed point.** Four validators, two of them with the same stake, paths with no,
  one and two relays, fees that do and do not divide, costs below and above the
  reference, two paths in each of two epochs.
- **Transaction metadata.** Three clients that connect in any order, one that cannot
  identify a peer, metadata that fit for three hops, a head that changes its epoch
  back and forth.
- **Evidence runtime.** Three blocks over five epochs: a fork, a finalized epoch two
  epochs back, and a block after it. Bodies mix fresh, stale, future and invalid
  records of two transactions, one without a relay.
- **Settlement.** Two execution clients with queues of one and a tree of two blocks
  that one client at a time builds. Either one consensus client submits two epochs,
  so a queue drops the first, or two consensus clients submit one epoch with
  different totals. Two finalized epochs, so a repeated submission differs from the
  first. The theorems cover all other numbers.

Runs without a deadlock check are those in which the bounded system stops: the
process exits, all transactions are generated, or the last slot has passed.

### Fairness

`chain_sync` assumes weak fairness of every handler and every spawned send where
the channels have room, and `tasks`, for the channels, of every task that can go
on. The `tokio` runtime polls each ready task again, which justifies both. No
fairness is assumed of new slots, of new transactions or of loss. For the mining
threads `tasks` assumes that time passes and that the operating system schedules
every thread. Without a timeout (the mutant `NeverTimeOut`)
`SelectReturns` fails; without the stop flag (`BeginSlotUnstopped`) `RoundEnds` does.

## The proofs

Check them with `tlapm M.tla`. They assume only the named assumptions on the
constants, which TLC evaluates in the runs.

- **`WorldState_proofs`** starts with lemmas about the consensus object. Each
  method keeps `ConsensusInv`: the shape of the record, the queue of score roots
  without gaps, and how old the evidence in each score is. The queue lemmas say
  that exactly the due batches leave the front. The module
  then proves all properties of `world_state`, and besides them
  that the state keeps its type (`TypeOK`), that the chain is linked with at most one
  block per slot (`ChainLinked`), that outage validators propose nothing
  (`OfflineNeverProposes`) and that weights change only with the epoch
  (`FrozenWithinEpoch`). The inductive
  invariant `Inv` adds to the properties what makes them inductive. The evidence
  delay needs the age of *every* stored score, not only of the frozen ones,
  because evidence passes from the history through the queue to the active root.
  Settlement needs the content of the queue, not only its length. Single inclusion
  needs that the transaction index contains every transaction ever packed, pruned
  blocks included. Linking needs that no block is from a later epoch. That no block is
  pruned in its own epoch needs that blocks lie at least their distance in slots
  apart (`SlotsApart`): a memory of an epoch's slots then reaches back an epoch.
- **`SharedState_proofs`** proves, for any degree and any outage, that at most one
  forward per node is sampled in
  the outage. That is not inductive, because a
  checked forward is counted later and a counted one sampled later. `Drain` bounds
  the sum of what was sampled, what was counted since and what has been checked.
  It also proves `SelectedIsWinner` and `FinderWinsUnlessPolled` for any
  validators, number of threads and difficulty. The invariant of the mining threads
  says who holds the mutex, that a
  thread that mines is at a validator of its chunk, and where each hash is: lost to the
  poll, about to be recorded, or beaten by a winner. At the end all threads are done,
  so the last `try_lock` succeeds.
- **`Tasks_proofs`** proves the safety properties of `Minotaur`, for any validators,
  threads, rounds and blocks, and that no channel exceeds its capacity. `WorkCounted`
  needs what a round in progress has: its threads mine disjoint chunks, so a
  validator's hash is found and published by one thread, and the chunks of all
  threads cover the list. `BasisFrozen` needs that a round that is collected mined for
  the index of the last block, and not for the one before it that the election uses.
- **`PathGossip_proofs`** proves all safety properties of `path_evidence` for any
  topology, Sybil identities and transactions, and any order, loss and repetition of messages.
  The receipts are the core: `Inv` says that every signed path, in a message, a
  mempool or a block, is a path whose every prefix its last wallet committed to,
  and that a wallet commits to one path per transaction and epoch. Padding by Sybil
  identities is a loop over a list; its invariant is proved by induction over the
  list. For the clients `Inv` says that every path on its way is one
  that some store has, with or without one more edge.
- **`ChainSync_proofs`** proves that local chains are pieces of the canonical chain and
  never move back, for any network, outages, channels and memory limit. `Inv` says of
  every block and snapshot in a channel or a task that it is a piece of the canonical
  chain, and of the snapshots that the world state sends, in the order of a channel,
  that they end no earlier than the local chain; a response is added block by block
  in a loop, by induction over the response.
- **`Amounts_proofs`** proves all properties of `amounts`. For `Accounts`, `Inv` puts every
  balance in a channel into the same range, and lemmas show that ranges only widen
  and that queue operations keep it. `LedgerCoversPayments` counts requests in a
  channel; lemmas say by how much appending and removing a message changes the count.

  `RewardCurve` and `FixedPoint` add up over relays and validators, so lemmas about
  `Sum` come first: it is additive, monotone, and the same when its terms are grouped.
  Recursive functions are handled as iterations that are unique.
  `PaddingNeverPays` then holds because padding leaves a relay's numerator as it was,
  times `2 d + 1`, or moves it on by a position, times `d`. The padded relay gets
  both, so a coalition's numerator grows at most by `3 d + 1`, which is what
  `lambda_for_depth` takes away.
  `FeesConserved` needs that no credit is cut off at 64 bits and that relays never get
  more than the relay budget: the budget of a path is at most the scale, and the shares
  are rounded down from fractions of it. `CreditInv` bounds the fees recorded so
  far. The theorem has the hypothesis `FeesFit`, that the fees of an epoch fit into 64
  bits (18 ether in wei). Beyond it the code's saturating additions cut amounts off, and
  nothing is claimed.
  `MoreRelayedScoresNoLess` follows the score through each operation: `x / (1 + x)`
  rounded, each of the 24 terms, their sum, the saturation and the moving average keep
  the order.
  `ProposerInOneRound` needs that the candidates of the greatest weight are untried
  as long as nobody is elected (`ElectionInv`): the comparison accepts them for every
  random value.
- **`Settlement_proofs`** proves `TypeOK`, `PaidOnce`, `BuiltBlocksImport` and the
  refinement of `Payout` for any number of clients, epochs and branches and for any capacity.
  The reason a chain pays once is spread over the state: whoever executed a block
  has marked the epochs its chain paid, a builder has executed the parent, and the
  root it commits was not marked. `IInv` states this for every stored, committed and
  executed payload, and that every state in `ledger` is the one its block leads to.
  `AckInv` proves `AcknowledgedStaysPending` on top of it: it follows the loop over
  the clients and says that those asked so far keep the epoch if all have answered.
- **`EvidenceRuntime_proofs`** proves all properties of `evidence_runtime`, its
  `TypeOK`, and that epochs settle in order (`SettledInOrder`). The
  closing of settled epochs needs the tree: every block's finalized epoch is at
  most that of fork choice, and a new block is not older than that, so with a depth
  of at least one it cannot reach a settled epoch. `EvidenceAssumption` asks for
  that depth, which the code does not enforce.

The assumptions on the constants say what the program guarantees. Node lists have no
repetitions, because validators are the keys of a registry. A wallet is a fresh key
pair, so an identity has one operator and is not a node (`PathAssumption`). The
sender name of the world state is not that of a node (`SenderAssumption`). The parameters of
the score are unsigned integers; scale, target depth, reference cost and effective
balances are positive, and the proposer's fee ratio is at most the scale
(`FixedPointAssumption`). Bounds are natural numbers.

Induction is over natural numbers only, through the least counterexample: the order of
the naturals is well-founded, a theorem without an operator parameter. It suffices for the
loops over lists, which are recursive functions of the index, and, by cardinality, for
sums over finite sets.

Only model-checked: the liveness properties (`NodeCatchesUp`, `SlotAnnounced`,
`SelectReturns`, `RoundEnds`), which are beyond the prover, and `SyncTypeOK`, which is
`TypeOK` of `ChainSync` for the channels the run chose (`SyncTypes` proves it for any).
No module declares a RECURSIVE operator.

## Not modelled

- PoS consensus, RANDAO seed mixing and stake updates by message.
- Amounts of fees, scores and rewards inside `WorldState`; floating-point error.
- BLS signatures, hashes and encodings: signatures are taken to be unforgeable.
- Topology and stake generation, which the models take as constants.
- CSV metrics, the command line, the benchmark binary, plots and runners.
- Handlers of messages that nothing in the running program sends: `GenerateBlock`
  of a node, and `SendBlock`, `ResponseBlockSync` and `UpdateValidatorStake` of the
  world state.
- Restarts of a client. Runtime, store and executed markers are in memory and nothing
  restores them, so there is no recovery to model. A restarted execution
  client has no epoch marked as executed, and a restarted consensus client has no scores and no submitted epochs.
- That a submitted epoch is eventually paid. It need not be: an epoch paid on a branch
  that loses stays marked, and one that exceeds the escrow holds up those behind it.
- Configurations that the code accepts and the assumptions exclude: no slots per epoch,
  where `slot_per_epoch - 1` underflows, and an evidence finality depth of zero.
- Of the execution clients: `InjectPathEvidence`, which prepares experiments, the
  registries read from the environment, and block evidence, a pure function of the
  store. Of the consensus clients: evidence in graffiti and score fixtures.
- go-ethereum and Lighthouse themselves. They are almost all of the lines of this
  repository, and TopoStake changes few of them. The modules cover the TopoStake
  code and what it meets of its surroundings, which is a small share of all lines.

## Left to do

1. An abstract prefix specification that `ChainSync` implements.
2. That a transaction reaches every node when all nodes forward and nothing is
   lost.
