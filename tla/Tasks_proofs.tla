------------------------------- MODULE Tasks_proofs -------------------------------
(* MinotaurConsensus and the channels, for any lists of validators and any number  *)
(* of threads.                                                                     *)
EXTENDS Tasks, SharedState_proofs

\* Where the round stands: its threads are those of its validators, and a thread that
\* mines is at a validator of its chunk.
RoundOK ==
  /\ candidates \in Lists \cup {<<>>}
  /\ slot \in {"idle", "join", "elect"}
  /\ slot # "idle" => candidates \in Lists
  /\ proposer \in Miner \cup {None, NOValidatorError}
  /\ round = NoRound \/ round \in [index : 0..MaxIndex, miners : Lists]
  /\ stop_flag \in BOOLEAN
  /\ DOMAIN thread = IF round = NoRound THEN {} ELSE RoundThreads(round.miners)
  /\ DOMAIN state = DOMAIN thread
  /\ \A t \in DOMAIN thread :
       /\ thread[t] \in {"check", "batch", "publish", "done"}
       /\ state[t] \in 1..(Len(Chunk(round.miners, t)) + 1)
       /\ thread[t] = "batch" => state[t] <= Len(Chunk(round.miners, t))

\* What the threads have handed in: the best blocks of the threads that have ended.
ResultsOK ==
  /\ best \subseteq Range(round.miners)
  /\ \A v \in best : \E t \in DOMAIN thread : v \in Range(Chunk(round.miners, t))
  /\ results \in [Miner -> 0..1]
  /\ \A v \in Miner :
       results[v] = 1 <=> /\ v \in best
                          /\ \E t \in DOMAIN thread : /\ thread[t] = "done"
                                                      /\ v \in Range(Chunk(round.miners, t))

\* What was mined: every round is counted once, and the bound on the rounds leaves
\* room for one more block of each validator of the round.
CountsOK ==
  /\ pow_blocks \in [0..MaxIndex -> [Miner -> Nat]]
  /\ worked \in [0..MaxIndex -> [Miner -> 0..(MaxRounds + 1)]]
  /\ WorkCounted
  /\ round # NoRound =>
       \A v \in Range(round.miners) \ best : worked[round.index][v] <= MaxRounds
  /\ slot = "join" => \A v \in Range(candidates) :
       /\ worked[last_index][v] <= MaxRounds
       /\ round.index = last_index /\ v \notin best => worked[last_index][v] < MaxRounds

\* Which indexes were mined: the round is for the index of the last block or the one
\* before, and there was a round for every earlier index.
IndexesOK ==
  /\ last_index \in 0..MaxIndex /\ block_index \in 0..MaxIndex
  /\ collected \subseteq 0..MaxIndex
  /\ round = NoRound => last_index = 0 /\ block_index = 0 /\ slot # "elect"
  /\ round # NoRound => /\ block_index = round.index
                        /\ last_index \in {round.index, round.index + 1}
  /\ slot = "elect" => last_index = round.index
  /\ \A i \in 0..(round.index - 1) : i \in collected

Inv == RoundOK /\ ResultsOK /\ CountsOK /\ IndexesOK

\* The chunks of the threads of a round divide up its validators.
LEMMA RoundChunks ==
  ASSUME MinotaurAssumption, RoundOK, NEW t \in DOMAIN thread
  PROVE  /\ round # NoRound /\ round \in [index : 0..MaxIndex, miners : Lists]
         /\ Range(round.miners) \subseteq Miner
         /\ Chunk(round.miners, t) \in Seq(Range(round.miners))
         /\ \A u \in DOMAIN thread : \A v \in Range(Chunk(round.miners, t)) :
              v \in Range(Chunk(round.miners, u)) => t = u
<1>1. round # NoRound /\ round \in [index : 0..MaxIndex, miners : Lists]
  BY Zenon DEF RoundOK
<1>2. round.miners \in Lists /\ DOMAIN thread \subseteq Threads(round.miners)
  BY <1>1, Zenon DEF RoundOK, RoundThreads
<1>3. /\ max_threads \in Nat /\ IsInjective(round.miners)
      /\ round.miners \in Seq(Range(round.miners))
  BY <1>2, Zenon DEF MinotaurAssumption
<1>4. Chunk(round.miners, t) \in Seq(Range(round.miners))
  BY <1>2, <1>3, ChunkOfList, Zenon
<1>5. ASSUME NEW u \in DOMAIN thread, NEW v \in Range(Chunk(round.miners, t)),
             v \in Range(Chunk(round.miners, u))
      PROVE  t = u
  BY <1>2, <1>3, <1>5, ChunksDisjoint, Zenon
<1>6. Range(round.miners) \subseteq Miner
  BY <1>2, Zenon DEF Miner
<1> QED
  BY <1>1, <1>4, <1>5, <1>6, Zenon

\* The invariant holds initially.
LEMMA InitInv == MinotaurAssumption /\ Init => Inv
<1> SUFFICES ASSUME MinotaurAssumption, Init PROVE Inv
  BY Zenon
<1>1. round.miners = <<>> /\ round.index = -1 /\ DOMAIN thread = {} /\ DOMAIN state = {}
  BY DEF Init, NoRound
<1>2. RoundOK
  BY <1>1, Zenon DEF Init, RoundOK
<1>3. ResultsOK
  BY <1>1 DEF Init, ResultsOK, NoBlocks
<1>4. CountsOK
  BY DEF Init, CountsOK, NoBlocks, WorkCounted, MinotaurAssumption
<1>5. IndexesOK
  BY <1>1 DEF Init, IndexesOK, MinotaurAssumption
<1> QED
  BY <1>2, <1>3, <1>4, <1>5, Zenon DEF Inv

\* The begin of a slot preserves the invariant.
LEMMA BeginSlotInv ==
  ASSUME MinotaurAssumption, Inv, NEW vs \in Lists, BeginSlot(vs)
  PROVE  Inv'
<1>1. /\ UNCHANGED <<last_index, proposer, block_index, pow_blocks, round, thread, state,
                     best, results, worked, collected>>
      /\ candidates' = vs /\ slot' = "join" /\ stop_flag' \in BOOLEAN
      /\ \A v \in Range(vs) : worked[last_index][v] < MaxRounds
  BY Zenon DEF BeginSlot, consensus, threads, history
<1>2. RoundOK'
  BY <1>1, Zenon DEF Inv, RoundOK
<1>3. ResultsOK'
  BY <1>1, Zenon DEF Inv, ResultsOK
<1>4. CountsOK'
  <2>1. \A v \in Range(vs) : worked[last_index][v] \in Int
    <3>1. Range(vs) \subseteq Miner
      BY Zenon DEF Miner
    <3> QED
      BY <3>1 DEF Inv, CountsOK, IndexesOK
  <2> QED
    BY <1>1, <2>1 DEF Inv, CountsOK, WorkCounted, MinotaurAssumption
<1>5. IndexesOK'
  BY <1>1, Zenon DEF Inv, IndexesOK, RoundOK
<1> QED
  BY <1>2, <1>3, <1>4, <1>5, Zenon DEF Inv

\* A look at the stop flag preserves the invariant.
LEMMA CheckFlagInv ==
  ASSUME MinotaurAssumption, Inv, NEW t \in DOMAIN thread, CheckFlag(t)
  PROVE  Inv'
<1>1. /\ UNCHANGED <<last_index, slot, candidates, proposer, block_index, pow_blocks, round,
                     stop_flag, best, results, worked, collected>>
      /\ DOMAIN thread' = DOMAIN thread /\ DOMAIN state' = DOMAIN state
      /\ thread[t] = "check" /\ thread'[t] \in {"check", "batch", "publish"}
      /\ state'[t] \in {1, state[t]}
      /\ thread'[t] = "batch" => /\ state'[t] = state[t]
                                 /\ state[t] <= Len(Chunk(round.miners, t))
      /\ \A u \in DOMAIN thread : u # t => thread'[u] = thread[u] /\ state'[u] = state[u]
  BY Zenon DEF CheckFlag, consensus, history, Inv, RoundOK
<1>2. Len(Chunk(round.miners, t)) \in Nat
  BY RoundChunks DEF Inv
<1>3. RoundOK'
  BY <1>1, <1>2 DEF Inv, RoundOK
<1>4. ResultsOK'
  <2>1. \A u \in DOMAIN thread : thread'[u] = "done" <=> thread[u] = "done"
    BY <1>1, Zenon
  <2> QED
    BY <1>1, <2>1, Zenon DEF Inv, ResultsOK
<1>5. CountsOK' /\ IndexesOK'
  BY <1>1, Zenon DEF Inv, CountsOK, WorkCounted, IndexesOK
<1> QED
  BY <1>3, <1>4, <1>5, Zenon DEF Inv

\* A batch preserves the invariant: its validator is in the chunk of no other thread,
\* so the threads that have ended keep what they handed in.
LEMMA BatchInv ==
  ASSUME MinotaurAssumption, Inv, NEW t \in DOMAIN thread, Batch(t)
  PROVE  Inv'
<1> DEFINE v == Chunk(round.miners, t)[state[t]]
<1>1. /\ UNCHANGED <<last_index, slot, candidates, proposer, block_index, pow_blocks, round,
                     stop_flag, results, collected>>
      /\ DOMAIN thread' = DOMAIN thread /\ DOMAIN state' = DOMAIN state
      /\ thread[t] = "batch" /\ thread'[t] = "check"
      /\ state'[t] = state[t] + 1 /\ state[t] <= Len(Chunk(round.miners, t))
      /\ state[t] \in 1..(Len(Chunk(round.miners, t)) + 1)
      /\ \A u \in DOMAIN thread : u # t => thread'[u] = thread[u] /\ state'[u] = state[u]
      /\ best' = best \cup {v}
      /\ worked' = IF v \in best THEN worked ELSE [worked EXCEPT ![round.index][v] = @ + 1]
  BY Zenon DEF Batch, consensus, Inv, RoundOK
<1>2. /\ round # NoRound /\ round.index \in 0..MaxIndex
      /\ Len(Chunk(round.miners, t)) \in Nat
      /\ v \in Range(Chunk(round.miners, t)) /\ v \in Range(round.miners) /\ v \in Miner
  <2>1. Chunk(round.miners, t) \in Seq(Range(round.miners))
    BY RoundChunks, Zenon DEF Inv
  <2>2. state[t] \in DOMAIN Chunk(round.miners, t)
    BY <1>1, <2>1
  <2> QED
    BY <2>1, <2>2, RoundChunks DEF Inv, Range
<1>3. \A u \in DOMAIN thread : v \in Range(Chunk(round.miners, u)) => u = t
  BY <1>2, RoundChunks, Zenon DEF Inv
<1> HIDE DEF v
<1>4. RoundOK'
  BY <1>1, <1>2 DEF Inv, RoundOK
<1>5. ResultsOK'
  <2>1. best' \subseteq Range(round.miners)
    BY <1>1, <1>2, Zenon DEF Inv, ResultsOK
  <2>2. \A w \in best' : \E u \in DOMAIN thread : w \in Range(Chunk(round.miners, u))
    BY <1>1, <1>2, Zenon DEF Inv, ResultsOK
  <2>3. ASSUME NEW w \in Miner
        PROVE  results[w] = 1 <=> /\ w \in best'
                                  /\ \E u \in DOMAIN thread : /\ thread'[u] = "done"
                                        /\ w \in Range(Chunk(round.miners, u))
    <3>1. \A u \in DOMAIN thread : thread'[u] = "done" <=> thread[u] = "done"
      BY <1>1, Zenon
    <3>2. CASE w = v
      BY <1>1, <1>3, <3>1, <3>2, Zenon DEF Inv, ResultsOK
    <3>3. CASE w # v
      BY <1>1, <3>1, <3>3, Zenon DEF Inv, ResultsOK
    <3> QED
      BY <3>2, <3>3, Zenon
  <2> QED
    BY <1>1, <2>1, <2>2, <2>3, Zenon DEF Inv, ResultsOK
<1>6. CountsOK'
  <2>1. CASE v \in best
    <3>1. worked' = worked /\ best' = best
      BY <1>1, <2>1, Zenon
    <3> QED
      BY <1>1, <3>1 DEF Inv, CountsOK, WorkCounted
  <2>2. CASE v \notin best
    <3>1. worked[round.index][v] \in 0..MaxRounds
      BY <1>2, <2>2 DEF Inv, CountsOK
    <3> DEFINE counts == worked[round.index]
               more == [counts EXCEPT ![v] = @ + 1]
    <3>2. /\ worked \in [0..MaxIndex -> [Miner -> 0..(MaxRounds + 1)]]
          /\ counts \in [Miner -> 0..(MaxRounds + 1)]
      BY <1>2, Zenon DEF Inv, CountsOK
    <3>3. worked' = [worked EXCEPT ![round.index] = more]
      BY <1>1, <2>2, Zenon
    <3>4. counts[v] + 1 \in 0..(MaxRounds + 1)
      BY <3>1 DEF MinotaurAssumption
    <3>5. more \in [Miner -> 0..(MaxRounds + 1)]
      BY <1>2, <3>2, <3>4, Zenon
    <3> HIDE DEF more
    <3>6. worked' \in [0..MaxIndex -> [Miner -> 0..(MaxRounds + 1)]]
      BY <1>2, <3>2, <3>3, <3>5, Zenon
    <3>7. \A i \in 0..MaxIndex, w \in Miner :
            worked'[i][w] = worked[i][w] + (IF i = round.index /\ w = v THEN 1 ELSE 0)
      <4> SUFFICES ASSUME NEW i \in 0..MaxIndex, NEW w \in Miner
                   PROVE  worked'[i][w] = worked[i][w]
                            + (IF i = round.index /\ w = v THEN 1 ELSE 0)
        BY Zenon
      <4>1. worked[i][w] \in Int
        BY <3>2, SMTT(30)
      <4>2. CASE i = round.index
        <5>1. worked'[i] = more
          BY <3>2, <3>3, <4>2, Zenon
        <5> QED
          BY <3>2, <4>1, <4>2, <5>1 DEF more
      <4>3. CASE i # round.index
        BY <3>2, <3>3, <4>1, <4>3, SMTT(30)
      <4> QED
        BY <4>2, <4>3, Zenon
    <3>8. WorkCounted'
      <4> SUFFICES ASSUME NEW i \in 0..MaxIndex, NEW w \in Miner
                   PROVE  worked'[i][w] = pow_blocks[i][w]
                     + (IF round # NoRound /\ round.index = i /\ w \in best' THEN 1 ELSE 0)
        BY <1>1 DEF WorkCounted
      <4>1. worked[i][w] = pow_blocks[i][w]
                     + (IF round # NoRound /\ round.index = i /\ w \in best THEN 1 ELSE 0)
        BY Zenon DEF Inv, CountsOK, WorkCounted
      <4>2. pow_blocks[i][w] \in Nat
        BY Zenon DEF Inv, CountsOK
      <4> QED
        BY <1>1, <1>2, <2>2, <3>7, <4>1, <4>2, SMTT(30)
    <3>9. \A w \in Range(round.miners) \ best' : worked'[round.index][w] <= MaxRounds
      <4>1. Range(round.miners) \subseteq Miner
        BY RoundChunks, Zenon DEF Inv
      <4> QED
        BY <1>1, <1>2, <3>7, <4>1, Zenon DEF Inv, CountsOK
    <3>10. slot = "join" => \A w \in Range(candidates) :
            /\ worked'[last_index][w] <= MaxRounds
            /\ round.index = last_index /\ w \notin best' => worked'[last_index][w] < MaxRounds
      <4> SUFFICES ASSUME slot = "join", NEW w \in Range(candidates)
                   PROVE  /\ worked'[last_index][w] <= MaxRounds
                          /\ round.index = last_index /\ w \notin best'
                                => worked'[last_index][w] < MaxRounds
        BY Zenon
      <4>1. w \in Miner /\ last_index \in 0..MaxIndex
        BY Zenon DEF Inv, RoundOK, IndexesOK, Miner
      <4>2. /\ worked[last_index][w] <= MaxRounds
            /\ round.index = last_index /\ w \notin best => worked[last_index][w] < MaxRounds
            /\ worked[last_index][w] \in Nat
        BY <4>1 DEF Inv, CountsOK
      <4> QED
        BY <1>1, <2>2, <3>7, <4>1, <4>2 DEF MinotaurAssumption
    <3> QED
      BY <1>1, <3>6, <3>8, <3>9, <3>10, Zenon DEF Inv, CountsOK
  <2> QED
    BY <2>1, <2>2, ZenonT(60)
<1>7. IndexesOK'
  BY <1>1, Zenon DEF Inv, IndexesOK
<1> QED
  BY <1>4, <1>5, <1>6, <1>7, Zenon DEF Inv

\* Handing in preserves the invariant: nobody else handed in a block of the chunk.
LEMMA PublishInv ==
  ASSUME MinotaurAssumption, Inv, NEW t \in DOMAIN thread, Publish(t)
  PROVE  Inv'
<1> DEFINE mine == best \cap Range(Chunk(round.miners, t))
<1>1. /\ UNCHANGED <<last_index, slot, candidates, proposer, block_index, pow_blocks, round,
                     stop_flag, state, best, worked, collected>>
      /\ DOMAIN thread' = DOMAIN thread
      /\ thread[t] = "publish" /\ thread'[t] = "done"
      /\ \A u \in DOMAIN thread : u # t => thread'[u] = thread[u]
      /\ results' = [v \in Miner |-> results[v] + BestOf(t)[v]]
  BY Zenon DEF Publish, consensus, history
<1>2. \A v \in Miner : BestOf(t)[v] = IF v \in mine THEN 1 ELSE 0
  BY Zenon DEF BestOf
<1>3. \A v \in mine : results[v] = 0
  <2> SUFFICES ASSUME NEW v \in mine, results[v] # 0
               PROVE  FALSE
    BY Zenon
  <2>1. v \in Miner /\ results[v] = 1
    BY RoundChunks DEF Inv, ResultsOK
  <2>2. PICK u \in DOMAIN thread : thread[u] = "done" /\ v \in Range(Chunk(round.miners, u))
    BY <2>1, Zenon DEF Inv, ResultsOK
  <2> QED
    BY <1>1, <2>2, RoundChunks, Zenon DEF Inv
<1> HIDE DEF mine
<1>4. RoundOK'
  BY <1>1, Zenon DEF Inv, RoundOK
<1>5. ResultsOK'
  <2>1. \A v \in Miner : results'[v] = IF v \in mine THEN 1 ELSE results[v]
    BY <1>1, <1>2, <1>3 DEF Inv, ResultsOK
  <2>2. results' \in [Miner -> 0..1]
    <3>1. results' = [v \in Miner |-> results'[v]]
      BY <1>1, Zenon
    <3> QED
      BY <2>1, <3>1 DEF Inv, ResultsOK
  <2>3. ASSUME NEW v \in Miner
        PROVE  results'[v] = 1 <=> /\ v \in best
                                   /\ \E u \in DOMAIN thread : /\ thread'[u] = "done"
                                        /\ v \in Range(Chunk(round.miners, u))
    <3>1. CASE v \in mine
      BY <1>1, <2>1, <3>1, Zenon DEF mine
    <3>2. CASE v \notin mine
      <4>1. v \in best => v \notin Range(Chunk(round.miners, t))
        BY <3>2, Zenon DEF mine
      <4> QED
        BY <1>1, <2>1, <3>2, <4>1, Zenon DEF Inv, ResultsOK
    <3> QED
      BY <3>1, <3>2, Zenon
  <2> QED
    BY <1>1, <2>2, <2>3, Zenon DEF Inv, ResultsOK
<1>6. CountsOK' /\ IndexesOK'
  BY <1>1, Zenon DEF Inv, CountsOK, WorkCounted, IndexesOK
<1> QED
  BY <1>4, <1>5, <1>6 DEF Inv

\* When all threads have ended, each best block has been handed in once.
LEMMA AllHandedIn ==
  ASSUME Inv, \A t \in DOMAIN thread : thread[t] = "done", NEW v \in Miner
  PROVE  results[v] = IF v \in best THEN 1 ELSE 0
  BY DEF Inv, ResultsOK

\* The start of a round preserves the invariant.
LEMMA StartRoundInv ==
  ASSUME MinotaurAssumption, Inv, StartRound
  PROVE  Inv'
<1>1. /\ UNCHANGED <<last_index, candidates, proposer, worked>>
      /\ slot = "join" /\ slot' = "elect"
      /\ \A t \in DOMAIN thread : thread[t] = "done"
      /\ pow_blocks' = IF round = NoRound THEN pow_blocks ELSE add_pow_block
      /\ collected' = IF round = NoRound THEN collected ELSE collected \cup {round.index}
      /\ block_index' = last_index
      /\ round' = [index |-> last_index, miners |-> candidates]
      /\ stop_flag' = FALSE
      /\ thread' = [t \in RoundThreads(candidates) |-> "check"]
      /\ state' = [t \in RoundThreads(candidates) |-> 1]
      /\ best' = {} /\ results' = NoBlocks
  BY Zenon DEF StartRound, get_last_index, MineIndex
<1>2. /\ candidates \in Lists /\ last_index \in 0..MaxIndex
      /\ round'.index = last_index /\ round'.miners = candidates
      /\ round' \in [index : 0..MaxIndex, miners : Lists] /\ round' # NoRound
  BY <1>1 DEF Inv, RoundOK, IndexesOK, NoRound
<1>3. RoundOK'
  <2>1. \A t \in RoundThreads(candidates) : Len(Chunk(candidates, t)) \in Nat
    <3> SUFFICES ASSUME NEW t \in RoundThreads(candidates)
                 PROVE  Len(Chunk(candidates, t)) \in Nat
      BY Zenon
    <3>1. t \in Threads(candidates)
      BY Zenon DEF RoundThreads
    <3>2. /\ candidates \in Seq(Range(candidates)) /\ IsInjective(candidates)
          /\ max_threads \in Nat
      BY <1>2, Zenon DEF MinotaurAssumption
    <3>3. Chunk(candidates, t) \in Seq(Range(candidates))
      BY <3>1, <3>2, ChunkOfList, Zenon
    <3> QED
      BY <3>3
  <2>2. /\ DOMAIN thread' = RoundThreads(candidates) /\ DOMAIN state' = RoundThreads(candidates)
        /\ \A t \in RoundThreads(candidates) :
             /\ thread'[t] = "check" /\ state'[t] = 1
             /\ 1 \in 1..(Len(Chunk(candidates, t)) + 1)
    BY <1>1, <2>1
  <2>3. \A t \in DOMAIN thread' : Chunk(round.miners, t)' = Chunk(candidates, t)
    BY <1>1, <1>2, Zenon
  <2> QED
    BY <1>1, <1>2, <2>2, <2>3, Zenon DEF Inv, RoundOK
<1>4. ResultsOK'
  BY <1>1, <1>2 DEF ResultsOK, NoBlocks
<1>5. /\ pow_blocks' \in [0..MaxIndex -> [Miner -> Nat]]
      /\ \A i \in 0..MaxIndex, v \in Miner : pow_blocks'[i][v] = worked[i][v]
  <2>1. CASE round = NoRound
    BY <1>1, <2>1 DEF Inv, CountsOK, WorkCounted
  <2>2. CASE round # NoRound
    <3> DEFINE sums == [v \in Miner |-> pow_blocks[round.index][v] + results[v]]
    <3>1. round.index \in 0..MaxIndex /\ pow_blocks \in [0..MaxIndex -> [Miner -> Nat]]
      BY <2>2, Zenon DEF Inv, RoundOK, CountsOK
    <3>2. pow_blocks' = [pow_blocks EXCEPT ![round.index] = sums]
      BY <1>1, <2>2, Zenon DEF add_pow_block
    <3>3. \A v \in Miner : results[v] \in Nat /\ pow_blocks[round.index][v] \in Nat
      BY <3>1 DEF Inv, ResultsOK
    <3>4. sums \in [Miner -> Nat]
      BY <3>3
    <3>5. \A v \in Miner : sums[v] = pow_blocks[round.index][v] + (IF v \in best THEN 1 ELSE 0)
      BY <1>1, AllHandedIn, Zenon
    <3> HIDE DEF sums
    <3>6. pow_blocks' \in [0..MaxIndex -> [Miner -> Nat]]
      BY <3>1, <3>2, <3>4, Zenon
    <3>7. ASSUME NEW i \in 0..MaxIndex, NEW v \in Miner
          PROVE  pow_blocks'[i][v] = worked[i][v]
      <4>1. worked[i][v] = pow_blocks[i][v]
                     + (IF round # NoRound /\ round.index = i /\ v \in best THEN 1 ELSE 0)
        BY Zenon DEF Inv, CountsOK, WorkCounted
      <4>2. CASE i = round.index
        <5>1. pow_blocks'[i] = sums
          BY <3>1, <3>2, <4>2, Zenon
        <5> QED
          BY <2>2, <3>5, <4>1, <4>2, <5>1, Zenon
      <4>3. CASE i # round.index
        <5>1. pow_blocks'[i] = pow_blocks[i] /\ pow_blocks[i][v] \in Nat
          BY <3>1, <3>2, <4>3, Zenon
        <5> QED
          BY <4>1, <4>3, <5>1
      <4> QED
        BY <4>2, <4>3, Zenon
    <3> QED
      BY <3>6, <3>7, Zenon
  <2> QED
    BY <2>1, <2>2, Zenon
<1>6. CountsOK'
  <2>1. \A i \in 0..MaxIndex, v \in Miner : worked[i][v] \in Int
    BY DEF Inv, CountsOK
  <2>2. WorkCounted'
    BY SMTT(30), <1>1, <1>5, <2>1 DEF WorkCounted
  <2>3. \A v \in Range(candidates) : worked[last_index][v] <= MaxRounds
    BY <1>1, Zenon DEF Inv, CountsOK
  <2> QED
    BY <1>1, <1>2, <1>5, <2>2, <2>3, Zenon DEF Inv, CountsOK
<1>7. IndexesOK'
  <2>1. collected' \subseteq 0..MaxIndex
    BY <1>1, Zenon DEF Inv, IndexesOK, RoundOK
  <2>2. \A i \in 0..(last_index - 1) : i \in collected'
    <3>1. CASE round = NoRound
      BY <3>1 DEF Inv, IndexesOK
    <3>2. CASE round # NoRound
      <4>1. round.index \in Nat /\ last_index \in {round.index, round.index + 1}
        BY <3>2 DEF Inv, IndexesOK, RoundOK
      <4>2. \A i \in 0..(last_index - 1) : i \in 0..(round.index - 1) \/ i = round.index
        BY <4>1
      <4> QED
        BY <1>1, <3>2, <4>2, Zenon DEF Inv, IndexesOK
    <3> QED
      BY <3>1, <3>2, Zenon
  <2> QED
    BY <1>1, <1>2, <2>1, <2>2, Zenon DEF Inv, IndexesOK
<1> QED
  BY <1>3, <1>4, <1>6, <1>7, Zenon DEF Inv

\* An election preserves the invariant.
LEMMA SelectInv ==
  ASSUME MinotaurAssumption, Inv, select_proposer
  PROVE  Inv'
<1>1. /\ UNCHANGED <<candidates, block_index, pow_blocks, round, stop_flag, thread, state,
                     best, results, worked, collected>>
      /\ slot = "elect" /\ slot' = "idle"
      /\ last_index' \in {last_index, last_index + 1} \cap 0..MaxIndex
      /\ proposer' = NOValidatorError \/ proposer' \in Range(candidates) \cup {candidates[1]}
      /\ proposer' # NOValidatorError => candidates # <<>>
  BY Zenon DEF select_proposer, Electable, consensus, threads, history, Inv, IndexesOK
<1>2. proposer' \in Miner \cup {None, NOValidatorError}
  <2>1. CASE proposer' # NOValidatorError
    <3>1. candidates \in Lists /\ candidates # <<>>
      BY <1>1, <2>1, Zenon DEF Inv, RoundOK
    <3>2. candidates \in Seq(Range(candidates))
      BY <3>1, Zenon DEF MinotaurAssumption
    <3>3. candidates[1] \in Range(candidates)
      BY <3>1, <3>2
    <3> QED
      BY <1>1, <2>1, <3>1, <3>3, Zenon DEF Miner
  <2> QED
    BY <2>1, Zenon
<1>3. RoundOK'
  BY <1>1, <1>2, Zenon DEF Inv, RoundOK
<1>4. ResultsOK' /\ CountsOK'
  BY <1>1 DEF Inv, ResultsOK, CountsOK, WorkCounted
<1>5. IndexesOK'
  BY <1>1, Zenon DEF Inv, IndexesOK, RoundOK
<1> QED
  BY <1>3, <1>4, <1>5, Zenon DEF Inv

\* Every behaviour of MinotaurConsensus keeps the invariant.
THEOREM Invariance == Spec => []Inv
<1> MinotaurAssumption
  BY TasksAssumption, Zenon
<1>1. Inv /\ UNCHANGED vars => Inv'
  <2> SUFFICES ASSUME Inv, UNCHANGED vars PROVE Inv'
    BY Zenon
  <2>1. UNCHANGED <<last_index, slot, candidates, proposer, block_index, pow_blocks, round,
                    stop_flag, thread, state, best, results, worked, collected>>
    BY Zenon DEF vars, consensus, threads, history
  <2> QED
    BY <2>1, ZenonT(60) DEF Inv, RoundOK, ResultsOK, CountsOK, WorkCounted, IndexesOK
<1>2. Inv /\ [Next]_vars => Inv'
  BY <1>1, BeginSlotInv, CheckFlagInv, BatchInv, PublishInv, StartRoundInv, SelectInv
    , Zenon DEF Next, Mine
<1> QED
  BY InitInv, <1>2, PTL DEF Spec

\* The state has its type; no validator has more blocks than rounds were started.
THEOREM MinotaurTypes == Spec => []TypeOK
<1> MinotaurAssumption
  BY TasksAssumption
<1>1. Inv => TypeOK
  <2> SUFFICES ASSUME Inv PROVE TypeOK
    BY Zenon
  <2>1. best \subseteq Miner
    <3>1. CASE round = NoRound
      <4>1. best \subseteq Range(<<>>)
        BY <3>1, Zenon DEF Inv, ResultsOK, NoRound
      <4>2. Range(<<>>) = {}
        BY DEF Range
      <4> QED
        BY <4>1, <4>2, Zenon
    <3>2. CASE round # NoRound
      BY <3>2, Zenon DEF Inv, RoundOK, ResultsOK, Miner
    <3> QED
      BY <3>1, <3>2, Zenon
  <2>2. pow_blocks \in [0..MaxIndex -> [Miner -> 0..(MaxRounds + 1)]]
    <3>1. \A i \in 0..MaxIndex, v \in Miner : pow_blocks[i][v] \in 0..(MaxRounds + 1)
      <4> SUFFICES ASSUME NEW i \in 0..MaxIndex, NEW v \in Miner
                   PROVE  pow_blocks[i][v] \in 0..(MaxRounds + 1)
        BY Zenon
      <4>1. worked[i][v] = pow_blocks[i][v]
                     + (IF round # NoRound /\ round.index = i /\ v \in best THEN 1 ELSE 0)
        BY Zenon DEF Inv, CountsOK, WorkCounted
      <4>2. worked[i][v] \in 0..(MaxRounds + 1) /\ pow_blocks[i][v] \in Nat
        BY Zenon DEF Inv, CountsOK
      <4> QED
        BY <4>1, <4>2 DEF MinotaurAssumption
    <3> QED
      BY <3>1, Zenon DEF Inv, CountsOK
  <2> QED
    BY <2>1, <2>2, Zenon DEF Inv, RoundOK, ResultsOK, CountsOK, IndexesOK, TypeOK
<1> QED
  BY Invariance, <1>1, PTL

\* Every round in which a validator computed a hash is stored as one PowBlock.
THEOREM EveryRoundCounted == Spec => []WorkCounted
<1> MinotaurAssumption
  BY TasksAssumption
<1>1. Inv => WorkCounted
  BY ZenonT(60) DEF Inv, CountsOK
<1> QED
  BY Invariance, <1>1, PTL

\* An election after the first block finds a mined index.
THEOREM IndexMinedBefore == Spec => []ElectsOnMinedIndex
<1> MinotaurAssumption
  BY TasksAssumption
<1>1. Inv => ElectsOnMinedIndex
  BY DEF Inv, RoundOK, IndexesOK, ElectsOnMinedIndex
<1> QED
  BY Invariance, <1>1, PTL

\* Only StartRound stores blocks, and not those of the index elected on.
THEOREM ElectionBasisFrozen == Spec => BasisFrozen
<1> MinotaurAssumption
  BY TasksAssumption
<1> DEFINE Frozen == block_index > 0 /\ block_index' = block_index =>
                       pow_blocks'[block_index - 1] = pow_blocks[block_index - 1]
<1>1. Inv /\ [Next]_vars => Frozen
  <2> SUFFICES ASSUME Inv, [Next]_vars PROVE Frozen
    BY Zenon
  <2>1. CASE StartRound /\ round # NoRound
    <3>1. /\ pow_blocks' = [pow_blocks EXCEPT ![round.index] =
                                [v \in Miner |-> pow_blocks[round.index][v] + results[v]]]
          /\ block_index = round.index /\ block_index \in 0..MaxIndex
      BY <2>1, Zenon DEF StartRound, add_pow_block, Inv, IndexesOK
    <3>2. pow_blocks \in [0..MaxIndex -> [Miner -> Nat]]
      BY Zenon DEF Inv, CountsOK
    <3>3. block_index > 0 => block_index - 1 \in 0..MaxIndex /\ block_index - 1 # round.index
      BY <3>1 DEF MinotaurAssumption
    <3> QED
      BY <3>1, <3>2, <3>3, Zenon
  <2>2. CASE StartRound /\ round = NoRound
    BY <2>2, Zenon DEF StartRound
  <2>3. CASE ~StartRound
    BY <2>3, Zenon DEF Next, Mine, BeginSlot, CheckFlag, Batch, Publish, select_proposer, vars,
       consensus
  <2> QED
    BY <2>1, <2>2, <2>3, Zenon
<1>2. [Inv /\ [Next]_vars]_vars => [Frozen]_vars
  BY <1>1, Zenon
<1> QED
  BY Invariance, <1>1, PTL DEF Spec, BasisFrozen

--------------------------------------------------------------------------------
\* The channels keep to their capacity: every send waits for room or looks for it.
THEOREM ChannelsTypes == Channels!Spec => []Channels!TypeOK
<1> Channels!ChannelsAssumption
  BY TasksAssumption, Zenon
<1> DEFINE Message == {Channels!UpdateSlot, Channels!SendRandaoSeed, Channels!UpdateNodeBalance, Channels!GenerateTransactionPaths}
<1>1. Channels!Init => Channels!TypeOK
  <2>1. <<>> \in Seq(Message) /\ Len(<<>>) = 0
    OBVIOUS
  <2> QED
    BY <2>1 DEF Channels!Init, Channels!TypeOK, Channels!ChannelsAssumption
<1>2. ASSUME Channels!TypeOK, [Channels!Next]_(Channels!vars)
      PROVE  Channels!TypeOK'
  <2>1. CASE Channels!NextSlot \/ Channels!Proceed \/ Channels!Receive \/ Channels!HandleReceived
    BY <1>2, <2>1 DEF Channels!NextSlot, Channels!Proceed, Channels!Receive,
       Channels!HandleReceived, Channels!TypeOK, Channels!ChannelsAssumption
  <2>2. ASSUME NEW n \in Node, NEW m \in Message, Len(inbox[n]) < node_capacity,
               inbox' = [inbox EXCEPT ![n] = Append(@, m)]
        PROVE  /\ inbox' \in [Node -> Seq(Message)]
               /\ \A k \in Node : Len(inbox'[k]) <= node_capacity
    <3>1. inbox[n] \in Seq(Message)
      BY <1>2, Zenon DEF Channels!TypeOK
    <3>2. Append(inbox[n], m) \in Seq(Message) /\ Len(Append(inbox[n], m)) = Len(inbox[n]) + 1
      BY <3>1
    <3>3. Len(inbox[n]) + 1 <= node_capacity
      BY <2>2, <3>1 DEF Channels!ChannelsAssumption
    <3> QED
      BY <1>2, <2>2, <3>2, <3>3, Zenon DEF Channels!TypeOK
  <2>3. ASSUME NEW n \in Node, Channels!Send(n)
        PROVE  Channels!TypeOK'
    <3>1. timer \in Message
      BY <1>2, <2>3, Zenon DEF Channels!Send, Channels!TypeOK
    <3>2. /\ inbox' \in [Node -> Seq(Message)]
          /\ \A k \in Node : Len(inbox'[k]) <= node_capacity
      BY <2>2, <2>3, <3>1, Zenon DEF Channels!Send
    <3> QED
      BY <1>2, <2>3, <3>2, Zenon DEF Channels!Send, Channels!TypeOK
  <2>4. ASSUME NEW n \in Node, Channels!EmitTransaction(n)
        PROVE  Channels!TypeOK'
    <3>1. /\ inbox' \in [Node -> Seq(Message)]
          /\ \A k \in Node : Len(inbox'[k]) <= node_capacity
      BY <2>2, <2>4, Zenon DEF Channels!EmitTransaction
    <3>2. load' \in 0..MaxLoad
      BY <1>2, <2>4 DEF Channels!EmitTransaction, Channels!TypeOK, Channels!ChannelsAssumption
    <3> QED
      BY <1>2, <2>4, <3>1, <3>2, Zenon DEF Channels!EmitTransaction, Channels!TypeOK
  <2>5. ASSUME NEW n \in Node, Channels!Take(n)
        PROVE  Channels!TypeOK'
    <3>1. inbox[n] \in Seq(Message) /\ inbox[n] # <<>> /\ inbox' = [inbox EXCEPT ![n] = Tail(@)]
      BY <1>2, <2>5, Zenon DEF Channels!Take, Channels!TypeOK
    <3>2. Tail(inbox[n]) \in Seq(Message) /\ Len(Tail(inbox[n])) = Len(inbox[n]) - 1
      BY <3>1
    <3>3. Len(inbox[n]) \in Nat /\ Len(inbox[n]) <= node_capacity
      BY <1>2, <3>1 DEF Channels!TypeOK
    <3>4. /\ inbox' \in [Node -> Seq(Message)]
          /\ \A k \in Node : Len(inbox'[k]) <= node_capacity
      BY <1>2, <3>1, <3>2, <3>3 DEF Channels!TypeOK, Channels!ChannelsAssumption
    <3> QED
      BY <1>2, <2>5, <3>4, Zenon DEF Channels!Take, Channels!TypeOK
  <2>6. ASSUME NEW n \in Node, Channels!Answer(n)
        PROVE  Channels!TypeOK'
    BY <1>2, <2>6 DEF Channels!Answer, Channels!TypeOK, Channels!ChannelsAssumption
  <2>7. CASE UNCHANGED Channels!vars
    BY <1>2, <2>7, Zenon DEF Channels!vars, Channels!TypeOK
  <2> QED
    BY <1>2, <2>1, <2>3, <2>4, <2>5, <2>6, <2>7, ZenonT(60) DEF Channels!Next
<1> QED
  BY <1>1, <1>2, PTL DEF Channels!Spec

--------------------------------------------------------------------------------
\* All four parts are type correct, and channels keep to their capacity.
THEOREM TasksTypes ==
  Spec /\ Pow!Spec /\ Outage!Spec /\ Channels!Spec => []TasksTypeOK
<1>1. TypeOK /\ Pow!TypeOK /\ Outage!TypeOK /\ Channels!TypeOK => TasksTypeOK
  BY Zenon DEF TasksTypeOK
<1> QED
  BY MinotaurTypes, PowTypes, OutageTypes, ChannelsTypes, <1>1, PTL
===================================================================================
