--------------------------------- MODULE Minotaur ---------------------------------
(* MinotaurConsensus (src/consensus/minotaur.rs): at the begin of a slot next_slot *)
(* stops the mining round of the slot before, waits for its threads, stores what   *)
(* they found under the block index they mined for, and starts a new round.        *)
(* select_proposer combines stake with what was found for the index before.  The   *)
(* caller, WorldState::next_slot, holds the world state's lock all the time.       *)
(* A PowBlock is counted by address and index: its score 2^d is always positive.   *)
EXTENDS Mining

CONSTANTS
  Lists,         \* the sequences of validators a slot may start from
  stake,
  MaxIndex,      \* bound: of the index of the last block
  MaxRounds      \* bound: rounds a validator mines for one index

Miner == UNION {Range(vs) : vs \in Lists}

\* Stakes come from exponentials: a slot with validators has stake to draw from.
MinotaurAssumption ==
  /\ max_threads \in Nat /\ MaxIndex \in Nat /\ MaxRounds \in Nat
  /\ \A vs \in Lists : vs \in Seq(Range(vs)) /\ IsInjective(vs)
  /\ stake \in [Miner -> Nat]
  /\ \A vs \in Lists \ {<<>>} : \E v \in Range(vs) : stake[v] > 0

VARIABLES
  last_index,    \* index of the last block of the chain
  slot,          \* where the world state stands: "idle", "join" or "elect"
  candidates,    \* the validators of the slot
  proposer,      \* the validator selected last
  block_index,
  pow_blocks,    \* by index and address, the number of stored PowBlocks
  round,         \* the background task: its index and validators
  stop_flag,
  thread,        \* where each thread of the round stands
  state,         \* the validator of its chunk a thread is at
  best,          \* validators of the round with a best_pow_block
  results,       \* by address, the PowBlocks the threads have handed in
  worked,        \* by index and address, the rounds with a hash computed
  collected      \* the indexes of the rounds collected

consensus == <<block_index, pow_blocks>>
threads == <<thread, state, best, results>>
history == <<worked, collected>>
vars == <<last_index, slot, candidates, proposer, consensus, round, stop_flag,
          threads, history>>

None == "none"
NOValidatorError == "NOValidatorError"
NoRound == [index |-> -1, miners |-> <<>>]
NoBlocks == [v \in Miner |-> 0]

Init ==
  /\ last_index = 0 /\ block_index = 0
  /\ slot = "idle" /\ candidates = <<>> /\ proposer = None
  /\ pow_blocks = [i \in 0..MaxIndex |-> NoBlocks]
  /\ round = NoRound /\ stop_flag = FALSE
  /\ thread = <<>> /\ state = <<>> /\ best = {} /\ results = NoBlocks
  /\ worked = [i \in 0..MaxIndex |-> NoBlocks] /\ collected = {}

\* Mutant: the round is not told to stop.
BeginSlotUnstopped(vs) ==
  /\ slot = "idle" /\ Range(candidates) \subseteq Range(vs)
  /\ \A v \in Range(vs) : worked[last_index][v] < MaxRounds
  /\ candidates' = vs /\ slot' = "join"
  /\ UNCHANGED <<last_index, proposer, consensus, round, stop_flag, threads, history>>

\* WorldState::next_slot calls next_slot, which stops the round before.  Validators
\* register and never leave.
BeginSlot(vs) ==
  /\ slot = "idle" /\ Range(candidates) \subseteq Range(vs)
  /\ \A v \in Range(vs) : worked[last_index][v] < MaxRounds
  /\ candidates' = vs /\ slot' = "join"
  /\ stop_flag' = (round # NoRound)
  /\ UNCHANGED <<last_index, proposer, consensus, round, threads, history>>

---------------------------------------------------------------------------------
\* A thread looks at the stop flag before each batch.
CheckFlag(t) ==
  /\ thread[t] = "check"
  /\ \/ /\ stop_flag
        /\ thread' = [thread EXCEPT ![t] = "publish"]
        /\ UNCHANGED state
     \/ /\ ~stop_flag /\ state[t] <= Len(Chunk(round.miners, t))
        /\ thread' = [thread EXCEPT ![t] = "batch"]
        /\ UNCHANGED state
     \/ /\ ~stop_flag /\ state[t] > Len(Chunk(round.miners, t))
        /\ state' = [state EXCEPT ![t] = 1]
        /\ UNCHANGED thread
  /\ UNCHANGED <<last_index, slot, candidates, proposer, consensus, round, stop_flag,
                 best, results, history>>

\* A batch is never empty, so its validator has a best block afterwards.
Batch(t) ==
  /\ thread[t] = "batch"
  /\ LET v == Chunk(round.miners, t)[state[t]] IN
       /\ best' = best \cup {v}
       /\ worked' = IF v \in best THEN worked ELSE [worked EXCEPT ![round.index][v] = @ + 1]
  /\ state' = [state EXCEPT ![t] = @ + 1]
  /\ thread' = [thread EXCEPT ![t] = "check"]
  /\ UNCHANGED <<last_index, slot, candidates, proposer, consensus, round, stop_flag,
                 results, collected>>

\* The best blocks of the thread's chunk, by address.
BestOf(t) ==
  [v \in Miner |-> IF v \in best \cap Range(Chunk(round.miners, t)) THEN 1 ELSE 0]

\* Mutant: a thread replaces the entry of the index.
PublishReplacing(t) ==
  /\ thread[t] = "publish"
  /\ results' = BestOf(t)
  /\ thread' = [thread EXCEPT ![t] = "done"]
  /\ UNCHANGED <<last_index, slot, candidates, proposer, consensus, round, stop_flag,
                 state, best, history>>

\* The thread pushes its best blocks into the shared map under its mutex.
Publish(t) ==
  /\ thread[t] = "publish"
  /\ results' = [v \in Miner |-> results[v] + BestOf(t)[v]]
  /\ thread' = [thread EXCEPT ![t] = "done"]
  /\ UNCHANGED <<last_index, slot, candidates, proposer, consensus, round, stop_flag,
                 state, best, history>>

---------------------------------------------------------------------------------
\* The collected blocks join those stored for their index.
add_pow_block ==
  [pow_blocks EXCEPT ![round.index] = [v \in Miner |-> @[v] + results[v]]]

\* Mutant: the index of the block to come.
NextIndex == last_index + 1

\* The block index that WorldState::next_slot passes on.
get_last_index == last_index

\* Mutant: the threads go on mining for the index before.
MineIndexBefore == Max({get_last_index - 1, 0})

\* The index a new round mines for.
MineIndex == get_last_index

\* Without max_threads nothing is mined.
RoundThreads(vs) == IF max_threads = 0 THEN {} ELSE Threads(vs)

\* All threads of the round before have ended: its blocks are stored, and a round
\* for the index of the last block starts.
StartRound ==
  /\ slot = "join"
  /\ \A t \in DOMAIN thread : thread[t] = "done"
  /\ pow_blocks' = IF round = NoRound THEN pow_blocks ELSE add_pow_block
  /\ collected' = IF round = NoRound THEN collected ELSE collected \cup {round.index}
  /\ block_index' = get_last_index
  /\ round' = [index |-> MineIndex, miners |-> candidates]
  /\ stop_flag' = FALSE
  /\ thread' = [t \in RoundThreads(candidates) |-> "check"]
  /\ state' = [t \in RoundThreads(candidates) |-> 1]
  /\ best' = {} /\ results' = NoBlocks
  /\ slot' = "elect"
  /\ UNCHANGED <<last_index, candidates, proposer, worked>>

\* The validators a draw can end at: those with stake or with a PowBlock for the
\* index before, and the first one when the subtractions of the walk round up.
Electable ==
  {v \in Range(candidates) : stake[v] > 0 \/ pow_blocks[block_index - 1][v] > 0}
    \cup {candidates[1]}

\* select_proposer; then a block is added, or the slot stays without one.
select_proposer ==
  /\ slot = "elect"
  /\ \/ /\ candidates = <<>>
        /\ proposer' = NOValidatorError
        /\ UNCHANGED last_index
     \/ /\ candidates # <<>> /\ block_index = 0
        /\ proposer' = candidates[1]
        /\ last_index' \in {last_index, last_index + 1} \cap 0..MaxIndex
     \/ /\ candidates # <<>> /\ block_index > 0
        /\ proposer' \in Electable
        /\ last_index' \in {last_index, last_index + 1} \cap 0..MaxIndex
  /\ slot' = "idle"
  /\ UNCHANGED <<candidates, consensus, round, stop_flag, threads, history>>

Mine(t) == CheckFlag(t) \/ Batch(t) \/ Publish(t)

Next ==
  \/ \E vs \in Lists : BeginSlot(vs)
  \/ \E t \in DOMAIN thread : Mine(t)
  \/ StartRound \/ select_proposer

Spec == Init /\ [][Next]_vars

\* The operating system schedules every thread, and next_slot goes on after join.
Fairness ==
  /\ WF_vars(StartRound)
  /\ \A t \in 1..max_threads : WF_vars(t \in DOMAIN thread /\ Mine(t))

FairSpec == Spec /\ Fairness

---------------------------------------------------------------------------------
TypeOK ==
  LET Count == [0..MaxIndex -> [Miner -> 0..(MaxRounds + 1)]] IN
  /\ last_index \in 0..MaxIndex /\ block_index \in 0..MaxIndex
  /\ slot \in {"idle", "join", "elect"}
  /\ candidates \in Lists \cup {<<>>}
  /\ proposer \in Miner \cup {None, NOValidatorError}
  /\ pow_blocks \in Count /\ worked \in Count
  /\ round = NoRound \/ round \in [index : 0..MaxIndex, miners : Lists]
  /\ stop_flag \in BOOLEAN
  /\ \A t \in DOMAIN thread :
       /\ thread[t] \in {"check", "batch", "publish", "done"}
       /\ state[t] \in 1..(Len(Chunk(round.miners, t)) + 1)
  /\ best \subseteq Miner /\ results \in [Miner -> 0..1]
  /\ collected \subseteq 0..MaxIndex

\* All computation counts and accumulates (the comment of MinotaurConsensus): each
\* round in which a validator computed a hash ends up as one PowBlock of its
\* index, none is lost between the threads and none is stored twice, also when
\* slots without a block mine for an index again.
WorkCounted ==
  \A i \in 0..MaxIndex, v \in Miner :
    worked[i][v] = pow_blocks[i][v]
                     + (IF round # NoRound /\ round.index = i /\ v \in best THEN 1 ELSE 0)

\* An election after the first block finds a mined index: next_slot is passed the
\* index of the last block, so a round for the index before has been collected
\* however many slots stayed without a block.
ElectsOnMinedIndex ==
  slot = "elect" /\ block_index > 0 => block_index - 1 \in collected

\* As long as no block is added, every slot elects on the same PowBlocks: no round
\* still mines for the index they belong to.
BasisFrozen ==
  [][block_index > 0 /\ block_index' = block_index =>
       pow_blocks'[block_index - 1] = pow_blocks[block_index - 1]]_vars

\* next_slot, which waits for the threads under the world state's lock, goes on.
RoundEnds == slot = "join" ~> slot = "elect"
=================================================================================
