--------------------------- MODULE WorldState_proofs ----------------------------
(* The safety properties of WorldState, for every set of nodes and transactions *)
(* and every configuration the code accepts.  First comes what the operations   *)
(* of TopoStakeConsensus guarantee; there the queue prefix that a while loop    *)
(* pops is shown to exist by an explicit witness: the queues are consecutive,   *)
(* so a loop pops at most one.                                                  *)
EXTENDS WorldState, TLAPS

\* The blocks on_epoch_end is called with when epoch ends.
EpochBlocks(blocks, epoch) ==
  \A b \in blocks : b.index \in Nat /\ b.epoch \in Nat /\ b.epoch <= epoch

\* The indices of a queue that holds at most one batch more than the depth.
SettlementQueue(batches, done) ==
  \A j \in DOMAIN batches :
    batches[j].settle_at_block = done + j + reward_settlement_depth

\* Every entry of a queue or of the registry has the type of its elements.
LEMMA SeqElements ==
  ASSUME NEW S, NEW s \in Seq(S)
  PROVE  \A i \in DOMAIN s : s[i] \in S
PROOF
  OBVIOUS

\* A sequence of any type is one of its own elements, and of any larger type.
LEMMA SeqOfElements ==
  ASSUME NEW S, NEW s \in Seq(S)
  PROVE  /\ s \in Seq(Range(s))
         /\ \A R : S \subseteq R => s \in Seq(R)
PROOF
  BY DEF Range

\* The queue prefixes a loop can pop.
LEMMA PoppedPrefix ==
  ASSUME NEW S, NEW s \in Seq(S)
  PROVE  /\ SubSeq(s, 1, 0) = <<>>
         /\ Len(s) > 0 => /\ SubSeq(s, 1, 1) \in Seq(S)
                          /\ Len(SubSeq(s, 1, 1)) = 1
                          /\ SubSeq(s, 1, 1)[1] = s[1]
PROOF
  OBVIOUS

\* push_back on a queue.
LEMMA Pushed ==
  ASSUME NEW S, NEW s \in Seq(S), NEW x \in S
  PROVE  /\ Append(s, x) \in Seq(S)
         /\ Len(s) \in Nat
         /\ Len(Append(s, x)) = Len(s) + 1
         /\ DOMAIN s = 1..Len(s)
         /\ DOMAIN Append(s, x) = 1..(Len(s) + 1)
         /\ \A i \in 1..Len(s) : Append(s, x)[i] = s[i]
         /\ Append(s, x)[Len(s) + 1] = x
PROOF
  OBVIOUS

\* k times pop_front on a queue.
LEMMA Popped ==
  ASSUME NEW S, NEW s \in Seq(S), NEW k \in 0..Len(s),
         NEW rest, rest = SubSeq(s, k + 1, Len(s))
  PROVE  /\ rest \in Seq(S)
         /\ Len(rest) = Len(s) - k
         /\ DOMAIN rest = 1..(Len(s) - k)
         /\ \A i \in 1..(Len(s) - k) : rest[i] = s[i + k]
PROOF
<1>1. SubSeq(s, k + 1, Len(s)) \in Seq(S)
  OBVIOUS
<1>2. Len(SubSeq(s, k + 1, Len(s))) = Len(s) - k
  OBVIOUS
<1>3. DOMAIN SubSeq(s, k + 1, Len(s)) = 1..(Len(s) - k)
  OBVIOUS
<1>4. \A i \in 1..(Len(s) - k) : SubSeq(s, k + 1, Len(s))[i] = s[i + k]
  OBVIOUS
<1> QED
  BY <1>1, <1>2, <1>3, <1>4, Zenon

\* The registry: a listed address is a node and has a stake.
LEMMA StakeOfType ==
  ASSUME NEW registry \in Validators, NEW a \in Addresses(registry)
  PROVE  a \in Node /\ StakeOf(registry, a) \in Nat
PROOF
<1>1. PICK i \in DOMAIN registry : registry[i].address = a
  BY Zenon DEF Addresses
<1>2. \A j \in DOMAIN registry : registry[j] \in [address : Node, stake : Nat]
  BY SeqElements, Zenon DEF Validators
<1> DEFINE k == CHOOSE j \in DOMAIN registry : registry[j].address = a
<1>3. k \in DOMAIN registry
  BY <1>1, Zenon
<1>4. registry[k].stake \in Nat
  BY <1>2, <1>3, Zenon
<1> QED
  BY <1>1, <1>2, <1>4, Zenon DEF StakeOf

\* activate_score_roots_for_epoch on a queue of consecutive roots pops exactly
\* the oldest one when the delay has passed since the first epoch, else none.
LEMMA RootsDueAtEpochEnd ==
  ASSUME NEW epoch \in Nat, NEW next, next = epoch + 1,
         NEW roots \in Seq(ScoreRoot),
         Len(roots) = 1 + (IF epoch < score_activation_delay_epochs THEN epoch
                           ELSE score_activation_delay_epochs - 1),
         \A i \in DOMAIN roots :
           roots[i].activates_at_epoch =
             next - Len(roots) + i - 1 + score_activation_delay_epochs
  PROVE  RootsDue(roots, next) =
           IF next >= score_activation_delay_epochs THEN 1 ELSE 0
PROOF
<1> DEFINE due == IF next >= score_activation_delay_epochs THEN 1 ELSE 0
           P(k) == /\ \A j \in 1..k : roots[j].activates_at_epoch <= next
                   /\ k < Len(roots) => roots[k + 1].activates_at_epoch > next
<1>1. score_activation_delay_epochs \in Nat /\ score_activation_delay_epochs >= 1
  BY ConfigAssumption
<1>2. Len(roots) \in Nat /\ DOMAIN roots = 1..Len(roots)
  OBVIOUS
<1>3. due \in 0..Len(roots) /\ P(due)
  BY <1>1, <1>2
<1>4. ASSUME NEW k \in 0..Len(roots), P(k)
      PROVE  k = due
  <2>1. k > 1 => roots[2].activates_at_epoch <= next
    BY <1>4
  <2>2. k = 0 => roots[1].activates_at_epoch > next
    BY <1>4, <1>2, <1>1
  <2>3. k >= 1 => roots[1].activates_at_epoch <= next
    BY <1>4
  <2> QED
    BY <2>1, <2>2, <2>3, <1>1, <1>2
<1>5. (CHOOSE k \in 0..Len(roots) : P(k)) = due
  BY <1>3, <1>4, Zenon
<1> QED
  BY <1>5, Zenon DEF RootsDue

\* settle_matured_rewards on the queue after block number last + 1 pops exactly
\* the oldest batch when the chain is deep enough, else none.
LEMMA BatchesDueAtBlock ==
  ASSUME NEW last \in Nat, NEW done \in Nat, NEW batches \in Seq(RewardBatch),
         done = (IF last > reward_settlement_depth
                 THEN last - reward_settlement_depth ELSE 0),
         Len(batches) = last + 1 - done,
         SettlementQueue(batches, done)
  PROVE  BatchesDue(batches, last + 1) = IF last >= reward_settlement_depth THEN 1 ELSE 0
PROOF
<1> DEFINE due == IF last >= reward_settlement_depth THEN 1 ELSE 0
           P(k) == /\ \A j \in 1..k : batches[j].settle_at_block <= last + 1
                   /\ k < Len(batches) => batches[k + 1].settle_at_block > last + 1
<1>1. reward_settlement_depth \in Nat
  BY ConfigAssumption, Zenon
<1>2. Len(batches) \in Nat /\ DOMAIN batches = 1..Len(batches)
  OBVIOUS
<1>3. due \in 0..Len(batches) /\ P(due)
  BY <1>1, <1>2, SMTT(30) DEF SettlementQueue
<1>4. ASSUME NEW k \in 0..Len(batches), P(k)
      PROVE  k = due
  <2>1. k > 1 => batches[2].settle_at_block <= last + 1
    BY <1>4
  <2>2. k = 0 => batches[1].settle_at_block > last + 1
    BY <1>4, <1>2, <1>1
  <2>3. k >= 1 => batches[1].settle_at_block <= last + 1
    BY <1>4
  <2>4. /\ Len(batches) >= 1 => batches[1].settle_at_block = done + 1 + reward_settlement_depth
        /\ Len(batches) >= 2 => batches[2].settle_at_block = done + 2 + reward_settlement_depth
    BY <1>1, <1>2 DEF SettlementQueue
  <2> QED
    BY <2>1, <2>2, <2>3, <2>4, <1>1, <1>2
<1>5. (CHOOSE k \in 0..Len(batches) : P(k)) = due
  BY <1>3, <1>4, Zenon
<1> QED
  BY <1>5, Zenon DEF BatchesDue

Fields == {"score_history", "active_score_history", "active_score_epoch", "next_epoch",
           "pending_score_roots", "frozen_proposer_weights", "pending_rewards"}

\* A consensus object has exactly the fields of a new one.
LEMMA FieldsOfConsensus ==
  DOMAIN NewConsensus = Fields
PROOF
  BY Zenon DEF NewConsensus, Fields

ConsensusInv(c, epoch) ==
  ConsensusType(c) /\ PipelineAt(c, epoch) /\ FreshnessAt(c, epoch)

\* update_scores_from_epoch replaces the produced scores only, and what it adds is
\* evidence of the blocks it was given.
LEMMA UpdateScores ==
  ASSUME NEW c, NEW epoch \in Nat, NEW blocks, NEW registry \in Validators,
         ConsensusInv(c, epoch), EpochBlocks(blocks, epoch)
  PROVE  LET u == update_scores_from_epoch(c, blocks, registry) IN
           /\ u = [c EXCEPT !.score_history = u.score_history]
           /\ u.score_history \in ScoreMap
           /\ UpTo(u.score_history, epoch)
PROOF
<1> DEFINE u == update_scores_from_epoch(c, blocks, registry)
           added(a) == Contribution(c, blocks, registry, a)
           scores == [a \in Node |-> IF a \in Addresses(registry)
                                     THEN added(a) \cup c.score_history[a] ELSE {}]
<1>1. DOMAIN c = Fields
  BY FieldsOfConsensus, Zenon DEF ConsensusInv, ConsensusType
<1>2. u.score_history = scores /\ u = [c EXCEPT !.score_history = u.score_history]
  BY <1>1, Zenon DEF update_scores_from_epoch, Fields
<1>3. c.next_epoch \in Nat /\ c.score_history \in ScoreMap /\ UpTo(c.score_history, epoch - 1)
  BY Zenon DEF ConsensusInv, ConsensusType, FreshnessAt
<1>4. ASSUME NEW a, NEW ev \in added(a)
      PROVE  ev \in Evidence /\ ev.block_epoch <= epoch
  BY <1>3, <1>4 DEF Contribution, EpochBlocks, Evidence
<1>5. ASSUME NEW a \in Node, NEW ev \in c.score_history[a]
      PROVE  ev \in Evidence /\ ev.block_epoch <= epoch
  BY <1>3, <1>5 DEF ScoreMap, UpTo, Evidence
<1>6. \A a \in Node : scores[a] \subseteq Evidence
  BY <1>4, <1>5, Zenon
<1>7. scores \in ScoreMap
  BY <1>6, Zenon DEF ScoreMap
<1>8. UpTo(scores, epoch)
  BY <1>4, <1>5, Zenon DEF UpTo
<1> HIDE DEF scores, added
<1> QED
  BY <1>2, <1>7, <1>8, Zenon

\* freeze_proposer_weights and the lazy freeze keep the invariant, leave both
\* queues alone and do not touch weights that exist.
LEMMA FreezeWeights ==
  ASSUME NEW c, NEW epoch \in Nat, NEW registry \in Validators,
         ConsensusType(c), UpTo(c.active_score_history, epoch - score_activation_delay_epochs)
  PROVE  LET f == freeze_proposer_weights(c, registry) IN
           /\ f = [c EXCEPT !.frozen_proposer_weights = f.frozen_proposer_weights]
           /\ ConsensusType(f)
           /\ \A a \in DOMAIN f.frozen_proposer_weights :
                \A ev \in f.frozen_proposer_weights[a].score :
                  ev.block_epoch <= epoch - score_activation_delay_epochs
PROOF
<1> DEFINE f == freeze_proposer_weights(c, registry)
           weights == [a \in Addresses(registry) |->
                         [stake |-> StakeOf(registry, a),
                          score |-> c.active_score_history[a]]]
<1>1. DOMAIN c = Fields
  BY FieldsOfConsensus, Zenon DEF ConsensusType
<1>2. f.frozen_proposer_weights = weights /\ f = [c EXCEPT !.frozen_proposer_weights = weights]
  BY <1>1, Zenon DEF freeze_proposer_weights, Fields
<1>3. ASSUME NEW a \in DOMAIN weights
      PROVE  /\ a \in Node
             /\ weights[a] \in [stake : Nat, score : SUBSET Evidence]
             /\ \A ev \in weights[a].score :
                  ev.block_epoch <= epoch - score_activation_delay_epochs
  BY StakeOfType, Zenon DEF ConsensusType, ScoreMap, UpTo
<1>4. ConsensusType(f)
  <2> HIDE DEF weights, f
  <2>1. DOMAIN f = Fields /\ \A x \in Fields \ {"frozen_proposer_weights"} : f[x] = c[x]
    BY <1>1, <1>2, Zenon
  <2> QED
    BY <2>1, <1>2, <1>3, FieldsOfConsensus, Zenon DEF ConsensusType, Fields
<1> HIDE DEF weights, f
<1> QED
  BY <1>2, <1>3, <1>4, Zenon DEF f

\* select_with_frozen_weights keeps the invariant of the object and its queues.
LEMMA LazyFreeze ==
  ASSUME NEW c, NEW epoch \in Nat, NEW registry \in Validators, ConsensusInv(c, epoch)
  PROVE  LET f == WithFrozenWeights(c, registry) IN
           /\ ConsensusInv(f, epoch)
           /\ f.pending_rewards = c.pending_rewards
           /\ DOMAIN c.frozen_proposer_weights # {} => f = c
PROOF
<1>1. CASE DOMAIN c.frozen_proposer_weights # {}
  BY <1>1, Zenon DEF WithFrozenWeights
<1>2. CASE DOMAIN c.frozen_proposer_weights = {}
  <2> DEFINE f == freeze_proposer_weights(c, registry)
  <2>1. /\ f = [c EXCEPT !.frozen_proposer_weights = f.frozen_proposer_weights]
        /\ ConsensusType(f)
        /\ \A a \in DOMAIN f.frozen_proposer_weights :
             \A ev \in f.frozen_proposer_weights[a].score :
               ev.block_epoch <= epoch - score_activation_delay_epochs
    BY FreezeWeights, Zenon DEF ConsensusInv, FreshnessAt
  <2>2. DOMAIN c = Fields
    BY FieldsOfConsensus, Zenon DEF ConsensusInv, ConsensusType
  <2> HIDE DEF f
  <2>3. \A x \in Fields \ {"frozen_proposer_weights"} : f[x] = c[x]
    BY <2>1, <2>2, Zenon
  <2>4. PipelineAt(f, epoch)
    BY <2>3, Zenon DEF ConsensusInv, PipelineAt, Fields
  <2>5. FreshnessAt(f, epoch)
    BY <2>1, <2>3, Zenon DEF ConsensusInv, FreshnessAt, Fields
  <2>6. WithFrozenWeights(c, registry) = f
    BY <1>2, Zenon DEF WithFrozenWeights, f
  <2> QED
    BY <1>2, <2>1, <2>3, <2>4, <2>5, <2>6, Zenon DEF ConsensusInv, Fields
<1> QED
  BY <1>1, <1>2, Zenon

\* on_epoch_end: the root of the epoch that ends is queued, the root that is due
\* becomes active, and the invariant holds for the next epoch.
LEMMA OnEpochEnd ==
  ASSUME NEW c, NEW epoch \in Nat, NEW blocks, NEW registry \in Validators,
         ConsensusInv(c, epoch), EpochBlocks(blocks, epoch),
         NEW next, next = epoch + 1
  PROVE  LET n == on_epoch_end(c, blocks, registry) IN
           /\ ConsensusInv(n, next)
           /\ n.pending_rewards = c.pending_rewards
PROOF
<1> DEFINE delay == score_activation_delay_epochs
           u == update_scores_from_epoch(c, blocks, registry)
           root == [produced_epoch     |-> epoch,
                    activates_at_epoch |-> epoch + delay,
                    scores             |-> u.score_history]
           q == [enqueue_score_root(u, c.next_epoch) EXCEPT !.next_epoch = c.next_epoch + 1]
           a == activate_score_roots_for_epoch(q, q.next_epoch)
           old == c.pending_score_roots
           roots == Append(old, root)
<1>1. delay \in Nat /\ delay >= 1 /\ next \in Nat
  BY ConfigAssumption
<1>2. DOMAIN c = Fields /\ c.next_epoch = epoch
  BY FieldsOfConsensus, Zenon DEF ConsensusInv, ConsensusType, PipelineAt
<1>3. /\ u = [c EXCEPT !.score_history = u.score_history]
      /\ u.score_history \in ScoreMap
      /\ UpTo(u.score_history, epoch)
  BY UpdateScores, Zenon
<1> HIDE DEF u
<1>4. root \in ScoreRoot
  BY <1>1, <1>3 DEF ScoreRoot
<1>5. /\ old \in Seq(ScoreRoot)
      /\ Len(old) = IF epoch < delay THEN epoch ELSE delay - 1
      /\ \A i \in DOMAIN old :
           /\ old[i].produced_epoch = epoch - Len(old) + i - 1
           /\ old[i].activates_at_epoch = old[i].produced_epoch + delay
           /\ UpTo(old[i].scores, old[i].produced_epoch)
  BY Zenon DEF ConsensusInv, ConsensusType, PipelineAt, FreshnessAt
<1>6. /\ DOMAIN q = Fields
      /\ q.next_epoch = next
      /\ q.pending_score_roots = roots
      /\ q.score_history = u.score_history
      /\ \A x \in Fields \ {"score_history", "pending_score_roots", "next_epoch"} : q[x] = c[x]
  BY <1>2, <1>3, Zenon DEF enqueue_score_root, Fields
<1> HIDE DEF q
<1>7. /\ roots \in Seq(ScoreRoot)
      /\ Len(roots) = Len(old) + 1
      /\ Len(old) \in Nat
      /\ DOMAIN old = 1..Len(old)
      /\ DOMAIN roots = 1..(Len(old) + 1)
      /\ \A i \in 1..Len(old) : roots[i] = old[i]
      /\ roots[Len(old) + 1] = root
  BY <1>4, <1>5, Pushed
<1>8. ASSUME NEW i \in DOMAIN roots
      PROVE  /\ roots[i].produced_epoch = next - Len(roots) + i - 1
             /\ roots[i].activates_at_epoch = roots[i].produced_epoch + delay
             /\ UpTo(roots[i].scores, roots[i].produced_epoch)
  <2> HIDE DEF roots, old
  <2>1. CASE i = Len(old) + 1
    <3>1. roots[i] = root
      BY <2>1, <1>7, Zenon
    <3>2. UpTo(root.scores, root.produced_epoch)
      BY <1>3, Zenon
    <3> QED
      BY <3>1, <3>2, <2>1, <1>7
  <2>2. CASE i # Len(old) + 1
    <3>1. i \in 1..Len(old) /\ roots[i] = old[i]
      BY <2>2, <1>7
    <3> QED
      BY <3>1, <1>5, <1>7
  <2> QED
    BY <2>1, <2>2, Zenon
<1> HIDE DEF roots, root
<1> DEFINE k == RootsDue(roots, next)
<1>9. k = IF next >= delay THEN 1 ELSE 0
  <2>1. \A i \in DOMAIN roots :
          roots[i].activates_at_epoch = next - Len(roots) + i - 1 + delay
    BY <1>8, Zenon
  <2>2. Len(roots) = 1 + (IF epoch < delay THEN epoch ELSE delay - 1)
    BY <1>5, <1>7
  <2> QED
    BY <2>1, <2>2, <1>7, RootsDueAtEpochEnd, Zenon
<1>10. a = IF k = 0 THEN q
           ELSE [q EXCEPT !.active_score_epoch   = roots[k].produced_epoch,
                          !.active_score_history = roots[k].scores,
                          !.pending_score_roots  = SubSeq(roots, k + 1, Len(roots))]
  BY <1>6, Zenon DEF activate_score_roots_for_epoch
<1> HIDE DEF a, k
<1>11. /\ DOMAIN a = Fields
       /\ a.next_epoch = next
       /\ a.score_history = u.score_history
       /\ a.frozen_proposer_weights = c.frozen_proposer_weights
       /\ a.pending_rewards = c.pending_rewards
  BY <1>6, <1>10, Zenon DEF Fields
<1>12. /\ a.active_score_history \in ScoreMap
       /\ UpTo(a.active_score_history, next - delay)
       /\ a.active_score_epoch = IF next >= delay THEN next - delay ELSE NoEpoch
  <2>1. CASE next >= delay
    <3>1. k = 1 /\ 1 \in DOMAIN roots
      BY <2>1, <1>9, <1>7, <1>5, <1>1
    <3>2. /\ a.active_score_history = roots[1].scores
          /\ a.active_score_epoch = roots[1].produced_epoch
      BY <3>1, <1>10, <1>6 DEF Fields
    <3>3. roots[1] \in ScoreRoot
      BY <3>1, <1>7, SeqElements, Zenon
    <3>4. roots[1].produced_epoch = next - delay
      BY <3>1, <1>8, <1>7, <1>5, <2>1, <1>1
    <3> QED
      BY <3>1, <3>2, <3>3, <3>4, <2>1, <1>8, Zenon DEF ScoreRoot
  <2>2. CASE ~(next >= delay)
    <3>1. a = q
      BY <2>2, <1>9, <1>10, Zenon
    <3>2. a.active_score_history = c.active_score_history
          /\ a.active_score_epoch = c.active_score_epoch
      BY <3>1, <1>6, Zenon DEF Fields
    <3>3. /\ c.active_score_history \in ScoreMap
          /\ UpTo(c.active_score_history, epoch - delay)
          /\ c.active_score_epoch = NoEpoch
      BY <2>2, <1>1 DEF ConsensusInv, ConsensusType, PipelineAt, FreshnessAt
    <3>4. UpTo(c.active_score_history, next - delay)
      BY <3>3, <1>1 DEF UpTo, ScoreMap, Evidence
    <3> QED
      BY <3>2, <3>3, <3>4, <2>2, Zenon
  <2> QED
    BY <2>1, <2>2, Zenon
<1>13. /\ a.pending_score_roots \in Seq(ScoreRoot)
       /\ Len(a.pending_score_roots) = IF next < delay THEN next ELSE delay - 1
       /\ \A i \in DOMAIN a.pending_score_roots :
            /\ a.pending_score_roots[i].produced_epoch =
                 next - Len(a.pending_score_roots) + i - 1
            /\ a.pending_score_roots[i].activates_at_epoch =
                 a.pending_score_roots[i].produced_epoch + delay
            /\ UpTo(a.pending_score_roots[i].scores, a.pending_score_roots[i].produced_epoch)
  <2>1. CASE next >= delay
    <3> DEFINE rest == SubSeq(roots, 2, Len(roots))
    <3>1. a.pending_score_roots = rest
      BY <2>1, <1>9, <1>10, <1>6 DEF Fields
    <3>2. /\ rest \in Seq(ScoreRoot)
          /\ Len(rest) = Len(old)
          /\ DOMAIN rest = 1..Len(old)
          /\ \A i \in 1..Len(old) : rest[i] = roots[i + 1]
      <4>1. 1 \in 0..Len(roots) /\ rest = SubSeq(roots, 1 + 1, Len(roots))
        BY <1>7
      <4> HIDE DEF rest, old
      <4>2. /\ rest \in Seq(ScoreRoot)
            /\ Len(rest) = Len(roots) - 1
            /\ DOMAIN rest = 1..(Len(roots) - 1)
            /\ \A i \in 1..(Len(roots) - 1) : rest[i] = roots[i + 1]
        BY <4>1, <1>7, Popped
      <4>3. Len(roots) - 1 = Len(old)
        BY <1>7
      <4> QED
        BY <4>2, <4>3, Zenon
    <3> HIDE DEF rest, old
    <3>3. ASSUME NEW i \in DOMAIN rest
          PROVE  /\ rest[i].produced_epoch = next - Len(rest) + i - 1
                 /\ rest[i].activates_at_epoch = rest[i].produced_epoch + delay
                 /\ UpTo(rest[i].scores, rest[i].produced_epoch)
      <4>1. i \in 1..Len(old) /\ i + 1 \in DOMAIN roots /\ rest[i] = roots[i + 1]
        BY <3>2, <1>7
      <4>2. roots[i + 1].produced_epoch = next - Len(roots) + (i + 1) - 1
        BY <4>1, <1>8, Zenon
      <4> QED
        BY <4>1, <4>2, <3>2, <1>7, <1>8, <1>1, SMTT(30)
    <3>4. Len(rest) = IF next < delay THEN next ELSE delay - 1
      BY <3>2, <2>1, <1>5, <1>1
    <3> QED
      BY <3>1, <3>2, <3>3, <3>4, Zenon
  <2>2. CASE ~(next >= delay)
    <3>1. a.pending_score_roots = roots
      BY <2>2, <1>9, <1>10, <1>6, Zenon
    <3> QED
      BY <3>1, <2>2, <1>7, <1>8, <1>5, <1>1
  <2> QED
    BY <2>1, <2>2, Zenon
<1>14. ConsensusType(a)
  BY <1>11, <1>12, <1>13, <1>1, <1>3, FieldsOfConsensus
     DEF ConsensusInv, ConsensusType, NoEpoch
<1> DEFINE n == freeze_proposer_weights(a, registry)
<1>15. /\ n = [a EXCEPT !.frozen_proposer_weights = n.frozen_proposer_weights]
       /\ ConsensusType(n)
       /\ \A v \in DOMAIN n.frozen_proposer_weights :
            \A ev \in n.frozen_proposer_weights[v].score : ev.block_epoch <= next - delay
  BY <1>1, <1>12, <1>14, FreezeWeights, Zenon
<1> HIDE DEF n
<1>16. /\ n.next_epoch = a.next_epoch
       /\ n.score_history = a.score_history
       /\ n.pending_score_roots = a.pending_score_roots
       /\ n.active_score_history = a.active_score_history
       /\ n.active_score_epoch = a.active_score_epoch
       /\ n.pending_rewards = a.pending_rewards
  BY <1>15, <1>11, Zenon DEF Fields
<1>17. PipelineAt(n, next)
  BY <1>11, <1>12, <1>13, <1>16, Zenon DEF PipelineAt
<1>18. FreshnessAt(n, next)
  <2>1. next - 1 = epoch
    OBVIOUS
  <2>2. UpTo(n.score_history, next - 1)
    BY <2>1, <1>3, <1>11, <1>16, Zenon
  <2> QED
    BY <2>2, <1>12, <1>13, <1>15, <1>16, Zenon DEF FreshnessAt
<1>19. on_epoch_end(c, blocks, registry) = n
  BY Zenon DEF on_epoch_end, n, a, q, u
<1> QED
  BY <1>11, <1>15, <1>16, <1>17, <1>18, <1>19, Zenon DEF ConsensusInv, Fields

\* The queue of reward batches when block number last is the last one.
QueueInv(c, last, done) ==
  /\ done = IF last > reward_settlement_depth THEN last - reward_settlement_depth ELSE 0
  /\ Len(c.pending_rewards) = last - done
  /\ SettlementQueue(c.pending_rewards, done)

\* From c, after the blocks up to last and with done batches paid, the next block
\* leads to n and pays the batches m.
Rewarded(c, epoch, last, done, n, m) ==
  /\ ConsensusInv(n, epoch)
  /\ n.frozen_proposer_weights = c.frozen_proposer_weights
  /\ m \in Seq(RewardBatch)
  /\ \A i \in DOMAIN m : m[i].settle_at_block = done + i + reward_settlement_depth
  /\ QueueInv(n, last + 1, done + Len(m))

\* distribute_rewards: the batch of the new block is queued, the batches that
\* mature leave the queue in order, and nothing else of the object changes.
LEMMA DistributeRewards ==
  ASSUME NEW c, NEW epoch \in Nat, NEW last \in Nat, NEW done \in Nat,
         NEW registry \in Validators, NEW block,
         ConsensusInv(c, epoch), QueueInv(c, last, done),
         block.index = last + 1, block.miner \in Node
  PROVE  Rewarded(c, epoch, last, done, distribute_rewards(c, block, registry),
                  settle_matured_rewards(c, block, registry))
PROOF
<1> DEFINE n == distribute_rewards(c, block, registry)
           m == settle_matured_rewards(c, block, registry)
           batch == [settle_at_block |-> block.index + reward_settlement_depth,
                     rewards         |-> BlockRewards(block, registry)]
           old == c.pending_rewards
           batches == Append(old, batch)
           due == IF last >= reward_settlement_depth THEN 1 ELSE 0
<1>1. reward_settlement_depth \in Nat
  BY ConfigAssumption, Zenon
<1>2. batch \in RewardBatch
  <2>1. Addresses(registry) \subseteq Node
    BY StakeOfType, Zenon
  <2>2. BlockRewards(block, registry) \subseteq Node
    BY <2>1, Zenon DEF BlockRewards, Relayers
  <2> HIDE DEF BlockRewards
  <2> QED
    BY <2>2, <1>1 DEF RewardBatch
<1>3. DOMAIN c = Fields /\ old \in Seq(RewardBatch)
  BY FieldsOfConsensus, Zenon DEF ConsensusInv, ConsensusType
<1>4. /\ batches \in Seq(RewardBatch)
      /\ Len(batches) = Len(old) + 1
      /\ Len(old) \in Nat
      /\ DOMAIN old = 1..Len(old)
      /\ DOMAIN batches = 1..(Len(old) + 1)
      /\ \A i \in 1..Len(old) : batches[i] = old[i]
      /\ batches[Len(old) + 1] = batch
  <2> HIDE DEF batch
  <2> QED
    BY <1>2, <1>3, Pushed
<1>5. Enqueued(c, block, registry) = batches
  BY Zenon DEF Enqueued
<1> HIDE DEF batches, old
<1>6. Len(batches) = last + 1 - done /\ SettlementQueue(batches, done)
  <2>1. Len(old) = last - done /\ \A i \in 1..Len(old) :
                                   old[i].settle_at_block = done + i + reward_settlement_depth
    BY <1>4, Zenon DEF QueueInv, SettlementQueue, old
  <2>2. ASSUME NEW i \in DOMAIN batches
        PROVE  batches[i].settle_at_block = done + i + reward_settlement_depth
    <3>1. CASE i \in 1..Len(old)
      BY <3>1, <2>1, <1>4, Zenon
    <3>2. CASE i = Len(old) + 1
      BY <3>2, <2>1, <1>4, <1>1
    <3> QED
      BY <3>1, <3>2, <1>4
  <2> QED
    BY <2>1, <2>2, <1>4 DEF SettlementQueue
<1>7. BatchesDue(batches, block.index) = due
  <2>1. BatchesDue(batches, last + 1) = due
    BY <1>4, <1>6, BatchesDueAtBlock, Zenon DEF QueueInv
  <2> QED
    BY <2>1, Zenon
<1>8. /\ n = [c EXCEPT !.pending_rewards = SubSeq(batches, due + 1, Len(batches))]
      /\ m = SubSeq(batches, 1, due)
  BY <1>5, <1>7, Zenon DEF distribute_rewards, settle_matured_rewards
<1> DEFINE rest == SubSeq(batches, due + 1, Len(batches))
<1>9. /\ rest \in Seq(RewardBatch)
      /\ Len(rest) = Len(batches) - due
      /\ DOMAIN rest = 1..(Len(batches) - due)
      /\ \A i \in 1..(Len(batches) - due) : rest[i] = batches[i + due]
  <2>1. due \in 0..Len(batches) /\ rest = SubSeq(batches, due + 1, Len(batches))
    BY <1>4, <1>1
  <2> HIDE DEF rest, due
  <2> QED
    BY <2>1, <1>4, Popped
<1>10. /\ m \in Seq(RewardBatch)
       /\ Len(m) = due
       /\ \A i \in DOMAIN m : m[i].settle_at_block = done + i + reward_settlement_depth
  <2>1. CASE due = 0
    <3>1. m = <<>>
      BY <2>1, <1>4, <1>8, PoppedPrefix, Zenon
    <3> QED
      BY <3>1, <2>1
  <2>2. CASE due = 1
    <3>1. m \in Seq(RewardBatch) /\ Len(m) = 1 /\ m[1] = batches[1]
      BY <2>2, <1>1, <1>4, <1>8, PoppedPrefix
    <3> QED
      BY <3>1, <2>2, <1>4, <1>6 DEF SettlementQueue
  <2> QED
    BY <2>1, <2>2, Zenon
<1> HIDE DEF n, m
<1>11. QueueInv(n, last + 1, done + Len(m))
  <2>1. n.pending_rewards = rest
    BY <1>8, <1>3, Zenon DEF Fields
  <2>2. done + due = IF last + 1 > reward_settlement_depth
                     THEN last + 1 - reward_settlement_depth ELSE 0
    BY <1>1 DEF QueueInv
  <2>3. Len(rest) = last + 1 - (done + due)
    BY <1>9, <1>6
  <2>4. SettlementQueue(rest, done + due)
    <3>1. \A i \in DOMAIN rest : i + due \in DOMAIN batches /\ rest[i] = batches[i + due]
      BY <1>9, <1>4, SMTT(30)
    <3> HIDE DEF rest
    <3> QED
      BY <3>1, <1>6, <1>9, <1>1 DEF SettlementQueue, rest
  <2> DEFINE next == last + 1
             settledNow == done + due
  <2>5. done + Len(m) = settledNow
    BY <1>10, Zenon
  <2> HIDE DEF rest, next, settledNow
  <2>6. QueueInv(n, next, settledNow)
    <3>1. SettlementQueue(n.pending_rewards, settledNow)
      BY <2>1, <2>4, Zenon DEF settledNow
    <3>2. Len(n.pending_rewards) = next - settledNow
      BY <2>1, <2>3 DEF next, settledNow
    <3>3. settledNow = IF next > reward_settlement_depth
                       THEN next - reward_settlement_depth ELSE 0
      BY <1>1, <2>2 DEF next, settledNow
    <3> QED
      BY <3>1, <3>2, <3>3, Zenon DEF QueueInv
  <2> QED
    BY <2>5, <2>6, Zenon DEF next
<1>12. /\ DOMAIN n = Fields
       /\ n.pending_rewards \in Seq(RewardBatch)
       /\ \A x \in Fields \ {"pending_rewards"} : n[x] = c[x]
  BY <1>3, <1>8, <1>9, Zenon DEF Fields
<1>13. ConsensusInv(n, epoch) /\ n.frozen_proposer_weights = c.frozen_proposer_weights
  <2>1. ConsensusType(n)
    BY <1>12, FieldsOfConsensus, Zenon DEF ConsensusInv, ConsensusType, Fields
  <2>2. PipelineAt(n, epoch)
    BY <1>12, Zenon DEF ConsensusInv, PipelineAt, Fields
  <2>3. FreshnessAt(n, epoch)
    BY <1>12, Zenon DEF ConsensusInv, FreshnessAt, Fields
  <2> QED
    BY <2>1, <2>2, <2>3, <1>12, Zenon DEF ConsensusInv, Fields
<1> QED
  BY <1>10, <1>11, <1>13, Zenon DEF n, m, Rewarded

---------------------------------------------------------------------------------
(* The world state. *)

\* Each block has a slot of its own: two blocks of one epoch are at least as many
\* slots apart as they are positions apart.
SlotsApart(s) ==
  \A i, j \in 1..Len(s) : i <= j =>
    \/ s[j].epoch > s[i].epoch
    \/ s[j].epoch = s[i].epoch /\ s[j].slot >= s[i].slot + (j - i)

\* What the properties need to know of the canonical chain.
ChainInv ==
  /\ blockchain.blocks \in Seq(Range(blockchain.blocks))
  /\ \A i \in DOMAIN blockchain.blocks :
       /\ blockchain.blocks[i].hash = blockchain.blocks[i].index
       /\ blockchain.blocks[i].epoch <= current_epoch
  /\ ChainLinked
  /\ SlotsApart(blockchain.blocks)
  /\ OfflineNeverProposes

\* The settled batches are those of the first blocks, the queue has the rest.
RewardInv ==
  /\ QueueInv(consensus, get_last_index(blockchain), Len(settled))
  /\ \A i \in DOMAIN settled :
       settled[i].settle_at_block = i + reward_settlement_depth

\* The transaction index still knows every transaction that was ever packed.
LedgerInv ==
  /\ \A i \in DOMAIN ledger : ledger[i] \subseteq blockchain.transaction_index
  /\ NoDoubleInclusion

\* The inductive invariant.
Inv ==
  /\ TypeOK
  /\ ConsensusInv(consensus, current_epoch)
  /\ ChainInv
  /\ RewardInv
  /\ LedgerInv
  /\ DutyAccounting

---------------------------------------------------------------------------------
\* t is s with at most its oldest element gone and x at the end.
KeepsTail(s, x, t) ==
  /\ t[Len(t)] = x
  /\ \E gone \in {0, 1} :
       /\ Len(t) = Len(s) + 1 - gone
       /\ \A i \in 1..(Len(t) - 1) : i + gone \in 1..Len(s) /\ t[i] = s[i + gone]

\* add_block: pruning after push drops at most the oldest block.
LEMMA PrunedAppend ==
  ASSUME NEW S, NEW s \in Seq(S), NEW x \in S, Len(s) \in 1..max_blocks_in_memory,
         NEW t, t = Prune(Append(s, x))
  PROVE  /\ t \in Seq(S)
         /\ Len(t) \in 1..max_blocks_in_memory
         /\ KeepsTail(s, x, t)
PROOF
<1> DEFINE a == Append(s, x)
<1>1. max_blocks_in_memory \in Nat \ {0}
  BY MaxBlocksAssumption, Zenon
<1>2. /\ a \in Seq(S)
      /\ Len(s) \in Nat
      /\ Len(a) = Len(s) + 1
      /\ \A i \in 1..Len(s) : a[i] = s[i]
      /\ a[Len(s) + 1] = x
  BY Pushed
<1> HIDE DEF a
<1>3. t = IF Len(a) > max_blocks_in_memory THEN Tail(a) ELSE a
  BY Zenon DEF Prune, a
<1>4. CASE Len(a) > max_blocks_in_memory
  <2>1. t = SubSeq(a, 1 + 1, Len(a)) /\ 1 \in 0..Len(a)
    <3>1. t = Tail(a)
      BY <1>3, <1>4, Zenon
    <3>2. Tail(a) = SubSeq(a, 2, Len(a))
      BY <1>2
    <3> QED
      BY <3>1, <3>2, <1>2
  <2>2. /\ t \in Seq(S)
        /\ Len(t) = Len(a) - 1
        /\ \A i \in 1..(Len(a) - 1) : t[i] = a[i + 1]
    BY <2>1, <1>2, Popped
  <2>3. Len(t) = Len(s) + 1 - 1
    BY <2>2, <1>2
  <2>4. \A i \in 1..(Len(t) - 1) : i + 1 \in 1..Len(s) /\ t[i] = s[i + 1]
    BY <2>2, <1>2
  <2>5. t[Len(t)] = x
    BY <2>2, <1>2
  <2> QED
    BY <2>2, <2>3, <2>4, <2>5, <1>1, <1>2 DEF KeepsTail
<1>5. CASE ~(Len(a) > max_blocks_in_memory)
  <2>1. t = a
    BY <1>3, <1>5, Zenon
  <2>2. Len(t) = Len(s) + 1 - 0
    BY <2>1, <1>2
  <2>3. \A i \in 1..(Len(t) - 1) : i + 0 \in 1..Len(s) /\ t[i] = s[i + 0]
    BY <2>1, <1>2
  <2> QED
    BY <2>1, <2>2, <2>3, <1>1, <1>2, <1>5 DEF KeepsTail
<1> QED
  BY <1>4, <1>5, Zenon

\* The distance in slots grows with a block of a later slot.
LEMMA OneSlotLater ==
  ASSUME NEW e1 \in Nat, NEW l1 \in Nat, NEW e2 \in Nat, NEW l2 \in Nat,
         NEW e3 \in Nat, NEW l3 \in Nat, NEW d \in Int,
         e2 > e1 \/ (e2 = e1 /\ l2 >= l1 + d), After(e3, l3, e2, l2)
  PROVE  e3 > e1 \/ (e3 = e1 /\ l3 >= l1 + (d + 1))
PROOF
  BY DEF After

\* The blocks have an epoch and a slot.
Timed(s) == \A i \in 1..Len(s) : s[i].epoch \in Nat /\ s[i].slot \in Nat

\* A block of a later slot than the last one keeps the blocks apart.
LEMMA ApartWhenPushed ==
  ASSUME NEW s, NEW t, NEW b, Len(s) \in Nat, Len(s) > 0, KeepsTail(s, b, t),
         Timed(s), b.epoch \in Nat, b.slot \in Nat,
         After(b.epoch, b.slot, s[Len(s)].epoch, s[Len(s)].slot),
         SlotsApart(s)
  PROVE  SlotsApart(t)
PROOF
<1>1. PICK gone \in {0, 1} :
        /\ Len(t) = Len(s) + 1 - gone
        /\ \A i \in 1..(Len(t) - 1) : i + gone \in 1..Len(s) /\ t[i] = s[i + gone]
  BY Zenon DEF KeepsTail
<1>2. t[Len(t)] = b
  BY Zenon DEF KeepsTail
<1> SUFFICES ASSUME NEW i \in 1..Len(t), NEW j \in 1..Len(t), i <= j
             PROVE  \/ t[j].epoch > t[i].epoch
                    \/ t[j].epoch = t[i].epoch /\ t[j].slot >= t[i].slot + (j - i)
  BY Zenon DEF SlotsApart
<1>3. Len(t) \in Nat /\ gone \in Nat /\ i \in Nat /\ j \in Nat
  BY <1>1
<1>4. CASE i = Len(t)
  <2>1. i = j
    BY <1>3, <1>4
  <2> QED
    BY <1>2, <1>3, <1>4, <2>1
<1>5. CASE i # Len(t)
  <2>1. i \in 1..(Len(t) - 1)
    BY <1>3, <1>5
  <2>2. i + gone \in 1..Len(s) /\ t[i] = s[i + gone]
    BY <1>1, <2>1, Zenon
  <2>3. CASE j = Len(t)
    <3> DEFINE k == i + gone
               n == Len(s)
    <3>1. n \in 1..Len(s) /\ k <= n /\ j - i = (n - k) + 1 /\ n - k \in Int
      BY <1>1, <1>3, <2>2, <2>3
    <3>2. \/ s[n].epoch > s[k].epoch
          \/ s[n].epoch = s[k].epoch /\ s[n].slot >= s[k].slot + (n - k)
      BY <2>2, <3>1, Zenon DEF SlotsApart
    <3>3. s[n].epoch \in Nat /\ s[n].slot \in Nat /\ s[k].epoch \in Nat /\ s[k].slot \in Nat
      BY <2>2, <3>1, Zenon DEF Timed
    <3>4. \/ b.epoch > s[k].epoch
          \/ b.epoch = s[k].epoch /\ b.slot >= s[k].slot + ((n - k) + 1)
      <4>1. b.epoch \in Nat /\ b.slot \in Nat /\ n - k \in Int
        BY <3>1, Zenon
      <4>2. After(b.epoch, b.slot, s[n].epoch, s[n].slot)
        BY Zenon
      <4> DEFINE e1 == s[k].epoch
                 l1 == s[k].slot
                 e2 == s[n].epoch
                 l2 == s[n].slot
                 d == n - k
      <4>3. /\ e1 \in Nat /\ l1 \in Nat /\ e2 \in Nat /\ l2 \in Nat /\ d \in Int
            /\ e2 > e1 \/ (e2 = e1 /\ l2 >= l1 + d)
        BY <3>2, <3>3, <4>1, Zenon
      <4>4. After(b.epoch, b.slot, e2, l2)
        BY <4>2, Zenon
      <4> HIDE DEF e1, l1, e2, l2, d
      <4>5. b.epoch > e1 \/ (b.epoch = e1 /\ b.slot >= l1 + (d + 1))
        BY <4>1, <4>3, <4>4 DEF After
      <4> QED
        BY <4>5, Zenon DEF e1, l1, d
    <3> QED
      BY <3>1, <3>4, <2>2, <2>3, <1>2, Zenon
  <2>4. CASE j # Len(t)
    <3>1. j \in 1..(Len(t) - 1)
      BY <1>3, <2>4
    <3>2. j + gone \in 1..Len(s) /\ t[j] = s[j + gone]
      BY <1>1, <3>1, Zenon
    <3>3. i + gone <= j + gone /\ (j + gone) - (i + gone) = j - i
      BY <1>3
    <3>4. \/ s[j + gone].epoch > s[i + gone].epoch
          \/ /\ s[j + gone].epoch = s[i + gone].epoch
             /\ s[j + gone].slot >= s[i + gone].slot + ((j + gone) - (i + gone))
      BY <2>2, <3>2, <3>3, Zenon DEF SlotsApart
    <3> QED
      BY <2>2, <3>2, <3>3, <3>4, Zenon
  <2> QED
    BY <2>3, <2>4, Zenon
<1> QED
  BY <1>4, <1>5, Zenon

\* The elected proposer is a registered node.
LEMMA ElectableNodes ==
  ASSUME NEW c, NEW vs \in Validators
  PROVE  Electable(c, vs) \subseteq Node
PROOF
<1>1. \A i \in DOMAIN vs : vs[i] \in [address : Node, stake : Nat]
  BY SeqElements, Zenon DEF Validators
<1>2. \A i \in DOMAIN vs : vs[i].address \in Node
  BY <1>1, Zenon
<1> QED
  BY <1>2, Zenon DEF Electable

\* The blocks in memory.
LEMMA ChainFacts ==
  ASSUME Inv
  PROVE  LET s == blockchain.blocks IN
           /\ s \in Seq(Range(s))
           /\ Len(s) \in 1..max_blocks_in_memory /\ Len(s) \in Nat /\ DOMAIN s = 1..Len(s)
           /\ \A i \in DOMAIN s : /\ s[i].hash = s[i].index /\ s[i].epoch <= current_epoch
                                 /\ s[i].index \in Nat /\ s[i].epoch \in Nat
                                 /\ s[i].slot \in Nat /\ s[i].txs \subseteq Tx
PROOF
<1> DEFINE s == blockchain.blocks
<1>1. Len(s) \in 1..max_blocks_in_memory
  BY Zenon DEF Inv, TypeOK
<1>2. \A i \in DOMAIN s : /\ s[i].index \in Nat /\ s[i].epoch \in Nat
                          /\ s[i].slot \in Nat /\ s[i].txs \subseteq Tx
  BY Zenon DEF Inv, TypeOK
<1>3. /\ s \in Seq(Range(s))
      /\ \A i \in DOMAIN s : s[i].hash = s[i].index /\ s[i].epoch <= current_epoch
  BY Zenon DEF Inv, ChainInv
<1> HIDE DEF s
<1>4. Len(s) \in Nat /\ DOMAIN s = 1..Len(s)
  BY <1>3
<1> QED
  BY <1>1, <1>2, <1>3, <1>4, Zenon DEF s

\* get_last_epoch_block returns blocks of the chain, none from the future.
LEMMA LastEpochBlocks ==
  ASSUME Inv
  PROVE  EpochBlocks(get_last_epoch_block(blockchain), current_epoch)
PROOF
  BY Zenon DEF Inv, TypeOK, ChainInv, EpochBlocks, get_last_epoch_block

\* The last block of the chain.
LEMMA LastBlock ==
  ASSUME Inv
  PROVE  /\ Len(blockchain.blocks) \in DOMAIN blockchain.blocks
         /\ get_last_index(blockchain) \in Nat
         /\ get_last_block(blockchain).epoch \in Nat
         /\ get_last_block(blockchain).slot \in Nat
         /\ get_last_block(blockchain).epoch <= current_epoch
         /\ get_last_hash(blockchain) = get_last_index(blockchain)
         /\ ~After(get_last_block(blockchain).epoch, get_last_block(blockchain).slot,
                   current_epoch, current_slot)
PROOF
<1>1. Len(blockchain.blocks) \in 1..max_blocks_in_memory
  BY ChainFacts, Zenon
<1>2. DOMAIN blockchain.blocks = 1..Len(blockchain.blocks)
  BY ChainFacts, Zenon
<1>3. Len(blockchain.blocks) \in DOMAIN blockchain.blocks
  BY <1>1, <1>2
<1> QED
  BY <1>3, Zenon DEF Inv, TypeOK, ChainInv, ChainLinked, get_last_block, get_last_index, get_last_hash

\* b is a block for (epoch, slot) that add_block accepts.
NextBlock(b, epoch, slot, miner) ==
  /\ add_block_error(blockchain, b) = "Ok"
  /\ b.index = get_last_index(blockchain) + 1
  /\ b.hash = b.index
  /\ b.parent_hash = get_last_hash(blockchain)
  /\ b.epoch = epoch /\ b.slot = slot /\ b.miner = miner
  /\ b.txs \subseteq Tx
  /\ b.txs \cap blockchain.transaction_index = {}

\* apply_canonical_block never fails on what build_canonical_block made for a
\* later slot.
LEMMA BlockAccepted ==
  ASSUME Inv, NEW epoch \in Nat, NEW slot \in Nat, NEW miner, NEW packed,
         packed \in Packable(miner, epoch),
         After(epoch, slot, current_epoch, current_slot),
         NEW b, b = build_canonical_block(miner, epoch, slot, packed)
  PROVE  NextBlock(b, epoch, slot, miner)
PROOF
<1> DEFINE last == get_last_block(blockchain)
<1>1. /\ b.index = get_last_index(blockchain) + 1
      /\ b.hash = get_last_index(blockchain) + 1
      /\ b.parent_hash = get_last_hash(blockchain)
      /\ b.epoch = epoch /\ b.slot = slot /\ b.miner = miner
      /\ b.txs = DOMAIN packed
  BY Zenon DEF build_canonical_block
<1>2. DOMAIN packed \subseteq {tx \in Tx : ~exist_transaction(blockchain, tx)}
  BY Zenon DEF Packable
<1>3. b.txs \subseteq Tx /\ b.txs \cap blockchain.transaction_index = {}
  BY <1>1, <1>2, Zenon DEF exist_transaction
<1>4. /\ last.index \in Nat /\ last.hash = last.index
      /\ last.epoch \in Nat /\ last.slot \in Nat
      /\ b.index = last.index + 1 /\ b.hash = last.index + 1 /\ b.parent_hash = last.hash
      /\ ~After(last.epoch, last.slot, current_epoch, current_slot)
  BY <1>1, LastBlock, Zenon DEF get_last_index, get_last_hash
<1>5. current_epoch \in Nat /\ current_slot \in Nat
  BY WorldAssumption DEF Inv, TypeOK
<1>6. ~(last.epoch > epoch) /\ ~(last.epoch = epoch /\ last.slot > slot)
  BY <1>4, <1>5 DEF After
<1>7. add_block_error(blockchain, b) = "Ok"
  <2> HIDE DEF last
  <2> QED
    BY <1>1, <1>3, <1>4, <1>6 DEF add_block_error, last
<1> QED
  BY <1>1, <1>3, <1>7, Zenon DEF NextBlock

\* What next_slot has done when it comes to elect a proposer for (epoch, slot).
ClockMoved(c, epoch, slot, duties) ==
  /\ running /\ running' = running
  /\ epoch \in Nat /\ slot \in 0..(slot_per_epoch - 1) /\ duties \in Nat
  /\ ConsensusInv(c, epoch) /\ c.pending_rewards = consensus.pending_rewards
  /\ After(epoch, slot, current_epoch, current_slot)
  /\ duties <= slot
  /\ duties <= block_production_success + block_production_failed
  /\ logical_slot_counter + 1 = SlotNumber(epoch, slot)
  /\ current_epoch' = epoch
  /\ current_slot' = slot
  /\ logical_slot_counter' = logical_slot_counter + 1
  /\ validators' = validators
  /\ node_availability' = Availability(epoch)

\* A slot without a block: no proposer, or a missed duty.
LEMMA SlotWithoutBlock ==
  ASSUME Inv, NEW c, NEW epoch, NEW slot, NEW duties, NEW failed \in {0, 1},
         ClockMoved(c, epoch, slot, duties),
         consensus' = c, UNCHANGED <<blockchain, block_production_success, settled, ledger>>,
         block_production_failed' = block_production_failed + failed,
         epoch_proposer_counts' = duties + failed
  PROVE  Inv'
PROOF
<1>1. /\ slot_per_epoch \in Nat \ {0}
      /\ slot \in Nat
      /\ current_epoch \in Nat /\ current_slot \in Nat /\ logical_slot_counter \in Nat
      /\ block_production_success \in Nat /\ block_production_failed \in Nat
  BY WorldAssumption DEF Inv, TypeOK, ClockMoved
<1>2. current_epoch <= epoch
  BY <1>1 DEF ClockMoved, After
<1>3. ConsensusInv(consensus', current_epoch')
  BY Zenon DEF ClockMoved
<1>4. TypeOK'
  <2>1. node_availability' \in [Node -> BOOLEAN]
    BY Zenon DEF ClockMoved, Availability
  <2>2. epoch_proposer_counts' \in 0..slot_per_epoch
    BY <1>1 DEF ClockMoved
  <2>3. running' \in BOOLEAN
    BY Zenon DEF Inv, TypeOK, ClockMoved
  <2>4. /\ current_epoch' \in Nat /\ current_slot' \in 0..(slot_per_epoch - 1)
        /\ logical_slot_counter' \in Nat
        /\ block_production_failed' \in Nat
    BY <1>1 DEF ClockMoved
  <2>5. validators' = validators /\ ConsensusType(consensus')
    BY <1>3, Zenon DEF ClockMoved, ConsensusInv
  <2> QED
    BY <2>1, <2>2, <2>3, <2>4, <2>5, Zenon DEF Inv, TypeOK
<1>5. ChainInv'
  <2>1. \A i \in DOMAIN blockchain.blocks : blockchain.blocks[i].epoch <= epoch
    BY <1>1, <1>2 DEF Inv, TypeOK, ChainInv, ClockMoved
  <2>2. ~After(get_last_block(blockchain).epoch, get_last_block(blockchain).slot, epoch, slot)
    <3> DEFINE last == get_last_block(blockchain)
    <3>1. /\ last.epoch \in Nat /\ last.slot \in Nat
          /\ ~After(last.epoch, last.slot, current_epoch, current_slot)
      BY LastBlock, Zenon
    <3>2. epoch \in Nat /\ After(epoch, slot, current_epoch, current_slot)
      BY Zenon DEF ClockMoved
    <3> HIDE DEF last
    <3> QED
      BY <1>1, <3>1, <3>2 DEF After, last
  <2> QED
    BY <2>1, <2>2, Zenon DEF Inv, ChainInv, ChainLinked, OfflineNeverProposes, ClockMoved,
                      get_last_block
<1>6. RewardInv'
  BY Zenon DEF Inv, RewardInv, QueueInv, ClockMoved, get_last_index, get_last_block
<1>7. LedgerInv'
  BY Zenon DEF Inv, LedgerInv, NoDoubleInclusion
<1>8. DutyAccounting'
  <2>1. /\ block_production_success = get_last_index(blockchain)
        /\ block_production_success + block_production_failed <= logical_slot_counter
    BY Zenon DEF Inv, DutyAccounting
  <2>2. /\ duties \in Nat /\ duties <= slot
        /\ duties <= block_production_success + block_production_failed
        /\ current_slot' = slot
        /\ logical_slot_counter' = logical_slot_counter + 1
    BY Zenon DEF ClockMoved
  <2>3. block_production_success' = get_last_index(blockchain)'
    BY <2>1, Zenon DEF get_last_index, get_last_block
  <2>4. /\ block_production_success' + block_production_failed' <= logical_slot_counter'
        /\ epoch_proposer_counts' <= block_production_success' + block_production_failed'
        /\ epoch_proposer_counts' <= current_slot' + 1
    BY <1>1, <2>1, <2>2
  <2>5. logical_slot_counter' = SlotNumber(current_epoch', current_slot')
    BY Zenon DEF ClockMoved
  <2>6. SlotNumber(current_epoch', current_slot') = SlotNumber(current_epoch, current_slot)'
    BY Zenon DEF SlotNumber
  <2> QED
    BY <2>3, <2>4, <2>5, <2>6, Zenon DEF DutyAccounting
<1> QED
  BY <1>3, <1>4, <1>5, <1>6, <1>7, <1>8, Zenon DEF Inv

\* A slot in which an online proposer makes a block.
LEMMA SlotWithBlock ==
  ASSUME Inv, NEW c, NEW epoch, NEW slot, NEW duties, NEW miner \in Node, NEW packed,
         packed \in Packable(miner, epoch),
         ClockMoved(c, epoch, slot, duties),
         epoch_proposer_counts' = duties + 1,
         apply_canonical_block(c, miner, build_canonical_block(miner, epoch, slot, packed))
  PROVE  /\ Inv'
         /\ block_production_failed' = block_production_failed
         /\ consensus'.frozen_proposer_weights = c.frozen_proposer_weights
PROOF
<1> DEFINE b == build_canonical_block(miner, epoch, slot, packed)
           last == get_last_index(blockchain)
           m == settle_matured_rewards(c, b, validators)
           s == blockchain.blocks
           t == blockchain'.blocks
<1>1. /\ slot_per_epoch \in Nat \ {0}
      /\ slot \in Nat /\ epoch \in Nat
      /\ current_epoch \in Nat /\ current_slot \in Nat /\ logical_slot_counter \in Nat
      /\ block_production_success \in Nat /\ block_production_failed \in Nat
      /\ validators \in Validators
      /\ settled \in Seq(RewardBatch) /\ ledger \in Seq(SUBSET Tx)
      /\ After(epoch, slot, current_epoch, current_slot)
  BY WorldAssumption DEF Inv, TypeOK, ClockMoved
<1>2. current_epoch <= epoch
  BY <1>1 DEF After
<1>3. /\ add_block_error(blockchain, b) = "Ok"
      /\ b.index = last + 1 /\ b.hash = b.index /\ b.parent_hash = get_last_hash(blockchain)
      /\ b.epoch = epoch /\ b.slot = slot /\ b.miner = miner
      /\ b.txs \subseteq Tx
      /\ b.txs \cap blockchain.transaction_index = {}
  <2>1. b = build_canonical_block(miner, epoch, slot, packed)
    BY Zenon
  <2> HIDE DEF b
  <2>2. NextBlock(b, epoch, slot, miner)
    BY <2>1, <1>1, BlockAccepted, Zenon
  <2> QED
    BY <2>2, Zenon DEF NextBlock
<1> HIDE DEF b
<1>4. /\ node_availability'[miner]
      /\ blockchain' = add_block(blockchain, b)
      /\ consensus' = distribute_rewards(c, b, validators)
      /\ settled' = settled \o m
      /\ ledger' = Append(ledger, b.txs)
      /\ block_production_success' = block_production_success + 1
      /\ block_production_failed' = block_production_failed + 0
  BY <1>3, Zenon DEF apply_canonical_block, b
<1>5. /\ last \in Nat
      /\ Len(s) \in DOMAIN s /\ s[Len(s)].index = last
      /\ s[Len(s)].epoch \in Nat /\ s[Len(s)].slot \in Nat
      /\ get_last_hash(blockchain) = s[Len(s)].hash
      /\ ~After(s[Len(s)].epoch, s[Len(s)].slot, current_epoch, current_slot)
  BY LastBlock, Zenon DEF get_last_index, get_last_block, get_last_hash
<1> HIDE DEF last
<1>6. PICK gone \in {0, 1} :
        /\ t \in Seq(Range(t))
        /\ Len(t) \in 1..max_blocks_in_memory
        /\ t[Len(t)] = b
        /\ Len(t) = Len(s) + 1 - gone
        /\ \A i \in 1..(Len(t) - 1) : i + gone \in 1..Len(s) /\ t[i] = s[i + gone]
  <2> DEFINE S == Range(s) \cup {b}
  <2>1. s \in Seq(Range(s)) /\ Len(s) \in 1..max_blocks_in_memory
    BY ChainFacts, Zenon
  <2>2. s \in Seq(S) /\ b \in S
    BY <2>1, SeqOfElements, Zenon
  <2>3. t = Prune(Append(s, b))
    BY <1>4, Zenon DEF add_block
  <2> HIDE DEF S, s, t
  <2>4. /\ t \in Seq(S)
        /\ Len(t) \in 1..max_blocks_in_memory
        /\ KeepsTail(s, b, t)
    BY <2>1, <2>2, <2>3, PrunedAppend, Zenon
  <2>5. t \in Seq(Range(t))
    BY <2>4, SeqOfElements, Zenon
  <2> QED
    BY <2>4, <2>5, Zenon DEF KeepsTail
<1>7. DOMAIN t = 1..Len(t) /\ DOMAIN s = 1..Len(s) /\ Len(t) \in Nat /\ Len(s) \in Nat
  <2>1. DOMAIN s = 1..Len(s) /\ Len(s) \in Nat
    BY ChainFacts, Zenon
  <2> QED
    BY <2>1, <1>6
<1>8. ASSUME NEW i \in DOMAIN t
      PROVE  t[i] = b \/ \E j \in DOMAIN s : t[i] = s[j]
  <2>1. CASE i = Len(t)
    BY <2>1, <1>6, Zenon
  <2>2. CASE i # Len(t)
    <3>1. i \in 1..(Len(t) - 1)
      BY <2>2, <1>7
    <3> QED
      BY <3>1, <1>6, <1>7, Zenon
  <2> QED
    BY <2>1, <2>2, Zenon
<1>9. get_last_index(blockchain)' = last + 1
  BY <1>3, <1>6, Zenon DEF get_last_index, get_last_block
<1>10. /\ ConsensusInv(consensus', epoch)
       /\ consensus'.frozen_proposer_weights = c.frozen_proposer_weights
       /\ m \in Seq(RewardBatch)
       /\ \A i \in DOMAIN m :
            m[i].settle_at_block = Len(settled) + i + reward_settlement_depth
       /\ QueueInv(consensus', last + 1, Len(settled) + Len(m))
  <2>1. QueueInv(c, last, Len(settled)) /\ ConsensusInv(c, epoch)
    BY Zenon DEF Inv, RewardInv, QueueInv, ClockMoved, last
  <2>2. Len(settled) \in Nat
    BY <1>1
  <2> DEFINE done == Len(settled)
  <2> HIDE DEF done
  <2>3. /\ epoch \in Nat /\ last \in Nat /\ done \in Nat /\ validators \in Validators
        /\ ConsensusInv(c, epoch) /\ QueueInv(c, last, done)
        /\ b.index = last + 1 /\ b.miner \in Node
    BY <2>1, <2>2, <1>1, <1>3, <1>5, Zenon DEF done
  <2>4. Rewarded(c, epoch, last, done, distribute_rewards(c, b, validators), m)
    BY <2>3, DistributeRewards, Zenon
  <2> QED
    BY <2>4, <1>4, Zenon DEF done, Rewarded
<1> HIDE DEF m
<1>11. /\ settled' \in Seq(RewardBatch)
       /\ Len(settled') = Len(settled) + Len(m)
       /\ \A i \in DOMAIN settled' : settled'[i].settle_at_block = i + reward_settlement_depth
  <2>1. /\ settled' \in Seq(RewardBatch)
        /\ Len(settled') = Len(settled) + Len(m)
        /\ Len(m) \in Nat /\ Len(settled) \in Nat
        /\ DOMAIN m = 1..Len(m) /\ DOMAIN settled = 1..Len(settled)
        /\ DOMAIN settled' = 1..(Len(settled) + Len(m))
    BY <1>1, <1>4, <1>10
  <2>2. ASSUME NEW i \in DOMAIN settled'
        PROVE  settled'[i].settle_at_block = i + reward_settlement_depth
    <3>1. CASE i <= Len(settled)
      <4>1. i \in DOMAIN settled /\ settled'[i] = settled[i]
        BY <3>1, <2>1, <1>1, <1>4, <1>10
      <4> QED
        BY <4>1, Zenon DEF Inv, RewardInv
    <3>2. CASE i > Len(settled)
      <4>1. i - Len(settled) \in DOMAIN m /\ settled'[i] = m[i - Len(settled)]
        BY <3>2, <2>1, <1>1, <1>4, <1>10, SMTT(30)
      <4>2. settled'[i].settle_at_block =
              Len(settled) + (i - Len(settled)) + reward_settlement_depth
        BY <4>1, <1>10, Zenon
      <4> QED
        BY <4>2, <2>1, ConfigAssumption, SMTT(30)
    <3> QED
      BY <3>1, <3>2, <2>1
  <2> QED
    BY <2>1, <2>2, Zenon
<1>12. RewardInv'
  <2>1. QueueInv(consensus', last + 1, Len(settled'))
    BY <1>10, <1>11, Zenon
  <2>2. QueueInv(consensus', get_last_index(blockchain)', Len(settled'))
    BY <2>1, <1>9, Zenon
  <2> QED
    BY <2>2, <1>11, Zenon DEF RewardInv, QueueInv, SettlementQueue
<1>13. LedgerInv'
  <2>1. blockchain'.transaction_index = blockchain.transaction_index \cup b.txs
    BY <1>4, Zenon DEF add_block
  <2>2. /\ Len(ledger) \in Nat
        /\ DOMAIN ledger = 1..Len(ledger)
        /\ DOMAIN ledger' = 1..(Len(ledger) + 1)
        /\ \A i \in 1..Len(ledger) : ledger'[i] = ledger[i]
        /\ ledger'[Len(ledger) + 1] = b.txs
    BY <1>1, <1>3, <1>4
  <2>3. \A i \in 1..Len(ledger) : ledger[i] \subseteq blockchain.transaction_index
    BY <2>2, Zenon DEF Inv, LedgerInv
  <2>4. \A i, j \in 1..Len(ledger) : i # j => ledger[i] \cap ledger[j] = {}
    BY <2>2, Zenon DEF Inv, LedgerInv, NoDoubleInclusion
  <2>5. \A i \in DOMAIN ledger' : i \in 1..Len(ledger) \/ i = Len(ledger) + 1
    BY <2>2
  <2>6. \A i \in DOMAIN ledger' : ledger'[i] \subseteq blockchain'.transaction_index
    BY <2>1, <2>2, <2>3, <2>5, Zenon
  <2>7. \A i, j \in DOMAIN ledger' : i # j => ledger'[i] \cap ledger'[j] = {}
    BY <2>2, <2>3, <2>4, <2>5, <1>3, Zenon
  <2> QED
    BY <2>6, <2>7, Zenon DEF LedgerInv, NoDoubleInclusion
<1>14. ChainInv'
  <2>1. \A i \in DOMAIN s : /\ s[i].hash = s[i].index
                            /\ s[i].epoch <= current_epoch /\ s[i].epoch \in Nat
    BY ChainFacts, Zenon
  <2>2. \A i \in DOMAIN t : t[i].hash = t[i].index /\ t[i].epoch <= epoch
    BY <1>1, <1>2, <1>3, <1>8, <2>1
  <2>3. \A i \in DOMAIN t : ~(/\ scheduled_outage_active(t[i].epoch)
                              /\ t[i].miner \in outage_validators)
    <3>1. ~(scheduled_outage_active(epoch) /\ miner \in outage_validators)
      BY <1>4, Zenon DEF ClockMoved, Availability
    <3> QED
      BY <3>1, <1>3, <1>8, Zenon DEF Inv, ChainInv, OfflineNeverProposes
  <2>4. ASSUME NEW i \in 1..(Len(t) - 1)
        PROVE  /\ t[i + 1].index = t[i].index + 1
               /\ t[i + 1].parent_hash = t[i].hash
               /\ After(t[i + 1].epoch, t[i + 1].slot, t[i].epoch, t[i].slot)
    <3>1. t[i] = s[i + gone] /\ i + gone \in 1..Len(s)
      BY <1>6, Zenon
    <3>2. CASE i + 1 = Len(t)
      <4>1. t[i + 1] = b /\ i + gone = Len(s)
        BY <3>2, <1>6, <1>7, SMTT(30)
      <4>2. After(epoch, slot, s[Len(s)].epoch, s[Len(s)].slot)
        BY <1>1, <1>5, SMTT(30) DEF After
      <4> QED
        BY <3>1, <4>1, <4>2, <1>3, <1>5, Zenon
    <3>3. CASE i + 1 # Len(t)
      <4> DEFINE j == i + gone
      <4>1. /\ i + 1 \in 1..(Len(t) - 1)
            /\ j \in 1..(Len(s) - 1)
            /\ t[i + 1] = s[j + 1]
        <5>1. i + 1 \in 1..(Len(t) - 1)
          BY <3>3, <1>7
        <5>2. i + 1 + gone \in 1..Len(s) /\ t[i + 1] = s[i + 1 + gone]
          BY <5>1, <1>6, Zenon
        <5>3. i + 1 + gone = j + 1 /\ j \in 1..(Len(s) - 1)
          BY <5>2, <3>1, <1>7
        <5> QED
          BY <5>1, <5>2, <5>3, Zenon
      <4> HIDE DEF j
      <4>2. /\ s[j + 1].index = s[j].index + 1
            /\ s[j + 1].parent_hash = s[j].hash
            /\ After(s[j + 1].epoch, s[j + 1].slot, s[j].epoch, s[j].slot)
        BY <4>1, Zenon DEF Inv, ChainInv, ChainLinked
      <4>3. t[i] = s[j]
        BY <3>1, Zenon DEF j
      <4> QED
        BY <4>1, <4>2, <4>3, Zenon
    <3> QED
      BY <3>2, <3>3, Zenon
  <2>5. ~After(t[Len(t)].epoch, t[Len(t)].slot, epoch, slot)
    BY <1>1, <1>3, <1>6 DEF After
  <2>6. current_epoch' = epoch /\ current_slot' = slot
    BY Zenon DEF ClockMoved
  <2>7. ChainLinked'
    BY <2>4, <2>5, <2>6, Zenon DEF ChainLinked, get_last_block
  <2>8. OfflineNeverProposes'
    BY <2>3, Zenon DEF OfflineNeverProposes, scheduled_outage_active
  <2>9. SlotsApart(t)
    <3>1. KeepsTail(s, b, t)
      BY <1>6, Zenon DEF KeepsTail
    <3>2. Timed(s)
      BY <1>7, Zenon DEF Inv, TypeOK, Timed
    <3>3. /\ Len(s) \in Nat /\ Len(s) > 0 /\ b.epoch \in Nat /\ b.slot \in Nat
          /\ After(b.epoch, b.slot, s[Len(s)].epoch, s[Len(s)].slot)
      BY <1>1, <1>3, <1>5, <1>7, SMTT(30) DEF After
    <3>4. SlotsApart(s)
      BY Zenon DEF Inv, ChainInv
    <3> HIDE DEF s, t
    <3> QED
      BY <3>1, <3>2, <3>3, <3>4, ApartWhenPushed, Zenon
  <2> QED
    BY <2>2, <2>6, <2>7, <2>8, <2>9, <1>6, Zenon DEF ChainInv
<1>15. DutyAccounting'
  <2>1. /\ block_production_success = last
        /\ block_production_success + block_production_failed <= logical_slot_counter
    BY Zenon DEF Inv, DutyAccounting, last
  <2>2. /\ duties \in Nat /\ duties <= slot
        /\ duties <= block_production_success + block_production_failed
        /\ current_slot' = slot
        /\ logical_slot_counter' = logical_slot_counter + 1
    BY Zenon DEF ClockMoved
  <2>3. block_production_success' = get_last_index(blockchain)'
    BY <2>1, <1>4, <1>9, Zenon
  <2>4. /\ block_production_success' + block_production_failed' <= logical_slot_counter'
        /\ epoch_proposer_counts' <= block_production_success' + block_production_failed'
        /\ epoch_proposer_counts' <= current_slot' + 1
    BY <1>1, <1>4, <2>1, <2>2
  <2>5. logical_slot_counter' = SlotNumber(current_epoch', current_slot')
    BY Zenon DEF ClockMoved
  <2>6. SlotNumber(current_epoch', current_slot') = SlotNumber(current_epoch, current_slot)'
    BY Zenon DEF SlotNumber
  <2> QED
    BY <2>3, <2>4, <2>5, <2>6, Zenon DEF DutyAccounting
<1>16. TypeOK'
  <2>1. node_availability' \in [Node -> BOOLEAN]
    BY Zenon DEF ClockMoved, Availability
  <2>2. epoch_proposer_counts' \in 0..slot_per_epoch
    BY <1>1 DEF ClockMoved
  <2>3. running' \in BOOLEAN
    BY ZenonT(60) DEF Inv, TypeOK, ClockMoved
  <2>4. /\ current_epoch' \in Nat /\ current_slot' \in 0..(slot_per_epoch - 1)
        /\ logical_slot_counter' \in Nat
        /\ block_production_success' \in Nat
        /\ block_production_failed' \in Nat
    BY <1>1, <1>4 DEF ClockMoved
  <2>5. validators' \in Validators /\ ConsensusType(consensus')
    BY <1>1, <1>10, Zenon DEF ClockMoved, ConsensusInv
  <2>6. blockchain'.transaction_index \subseteq Tx
    BY <1>3, <1>4, Zenon DEF add_block, Inv, TypeOK
  <2>7. ledger' \in Seq(SUBSET Tx)
    <3>1. ledger \in Seq(SUBSET Tx) /\ b.txs \in SUBSET Tx /\ ledger' = Append(ledger, b.txs)
      BY <1>1, <1>3, <1>4, Zenon
    <3> QED
      BY <3>1, Pushed, Zenon
  <2>8. \A i \in DOMAIN t : /\ t[i].index \in Nat /\ t[i].epoch \in Nat /\ t[i].slot \in Nat
                            /\ t[i].txs \subseteq Tx
    <3>1. \A i \in DOMAIN s : /\ s[i].index \in Nat /\ s[i].epoch \in Nat /\ s[i].slot \in Nat
                              /\ s[i].txs \subseteq Tx
      BY ChainFacts, Zenon
    <3>2. b.index \in Nat /\ b.epoch \in Nat /\ b.slot \in Nat /\ b.txs \subseteq Tx
      BY <1>1, <1>3, <1>5
    <3> HIDE DEF s, t
    <3> QED
      BY <3>1, <3>2, <1>8, Zenon
  <2> QED
    BY <2>1, <2>2, <2>3, <2>4, <2>5, <2>6, <2>7, <2>8, <1>6, <1>11, Zenon DEF TypeOK
<1>17. ConsensusInv(consensus', current_epoch')
  BY <1>10, Zenon DEF ClockMoved
<1>18. block_production_failed' = block_production_failed
  BY <1>1, <1>4
<1> QED
  BY <1>10, <1>12, <1>13, <1>14, <1>15, <1>16, <1>17, <1>18, Zenon DEF Inv

\* The rest of next_slot, once the clock has moved.
LEMMA ProposeStep ==
  ASSUME Inv, NEW c, NEW epoch, NEW slot, NEW duties,
         ClockMoved(c, epoch, slot, duties), Propose(c, epoch, slot, duties)
  PROVE  /\ Inv'
         /\ consensus'.frozen_proposer_weights = c.frozen_proposer_weights
         /\ block_production_failed' # block_production_failed
              => scheduled_outage_active(epoch)
PROOF
<1>1. validators \in Validators /\ block_production_failed \in Nat /\ duties \in Nat
  BY Zenon DEF Inv, TypeOK, ClockMoved
<1>2. CASE NoProposer(c) /\ epoch_proposer_counts' = duties
  <2>1. /\ consensus' = c /\ UNCHANGED <<blockchain, block_production_success, settled, ledger>>
        /\ block_production_failed' = block_production_failed
    BY <1>2, Zenon DEF NoProposer
  <2>2. /\ block_production_failed' = block_production_failed + 0
        /\ epoch_proposer_counts' = duties + 0
    BY <1>1, <1>2, <2>1
  <2>3. Inv'
    BY <2>1, <2>2, SlotWithoutBlock, Zenon
  <2> QED
    BY <2>1, <2>3, Zenon
<1>3. ASSUME NEW miner \in Electable(c, validators), epoch_proposer_counts' = duties + 1,
             MissedDuty(c, miner)
      PROVE  /\ Inv'
             /\ consensus' = c
             /\ scheduled_outage_active(epoch)
  <2>1. /\ ~node_availability'[miner]
        /\ consensus' = c /\ UNCHANGED <<blockchain, block_production_success, settled, ledger>>
        /\ block_production_failed' = block_production_failed + 1
    BY <1>3, Zenon DEF MissedDuty
  <2>2. Inv'
    BY <2>1, <1>3, SlotWithoutBlock, Zenon
  <2>3. miner \in Node
    BY <1>1, ElectableNodes, Zenon
  <2>4. scheduled_outage_active(epoch)
    BY <2>1, <2>3, Zenon DEF ClockMoved, Availability
  <2> QED
    BY <2>1, <2>2, <2>4, Zenon
<1>4. ASSUME NEW miner \in Electable(c, validators), epoch_proposer_counts' = duties + 1,
             NEW packed \in Packable(miner, epoch),
             apply_canonical_block(c, miner, build_canonical_block(miner, epoch, slot, packed))
      PROVE  /\ Inv'
             /\ block_production_failed' = block_production_failed
             /\ consensus'.frozen_proposer_weights = c.frozen_proposer_weights
  <2>1. miner \in Node
    BY <1>1, ElectableNodes, Zenon
  <2> QED
    BY <2>1, <1>4, SlotWithBlock, Zenon
<1>5. CASE \E miner \in Electable(c, validators) :
             /\ epoch_proposer_counts' = duties + 1
             /\ \/ MissedDuty(c, miner)
                \/ \E packed \in Packable(miner, epoch) :
                     apply_canonical_block(
                       c, miner, build_canonical_block(miner, epoch, slot, packed))
  <2>1. PICK miner \in Electable(c, validators) :
             /\ epoch_proposer_counts' = duties + 1
             /\ \/ MissedDuty(c, miner)
                \/ \E packed \in Packable(miner, epoch) :
                     apply_canonical_block(
                       c, miner, build_canonical_block(miner, epoch, slot, packed))
    BY <1>5, Zenon
  <2>2. CASE MissedDuty(c, miner)
    BY <2>1, <2>2, <1>3, Zenon
  <2>3. ASSUME NEW packed \in Packable(miner, epoch),
               apply_canonical_block(
                 c, miner, build_canonical_block(miner, epoch, slot, packed))
        PROVE  /\ Inv'
               /\ block_production_failed' = block_production_failed
               /\ consensus'.frozen_proposer_weights = c.frozen_proposer_weights
    BY <2>1, <2>3, <1>4, Zenon
  <2> QED
    BY <2>1, <2>2, <2>3, Zenon
<1> QED
  BY <1>2, <1>5, Zenon DEF Propose

\* The consensus object when the first slot of the next epoch begins.
LEMMA EpochEnds ==
  ASSUME Inv, NEW next, next = current_epoch + 1
  PROVE  /\ ConsensusInv(ConsensusAfterEpoch, next)
         /\ ConsensusAfterEpoch.pending_rewards = consensus.pending_rewards
PROOF
<1>1. /\ current_epoch \in Nat /\ validators \in Validators
      /\ ConsensusInv(consensus, current_epoch)
  BY Zenon DEF Inv, TypeOK
<1>2. EpochBlocks(get_last_epoch_block(blockchain), current_epoch)
  BY LastEpochBlocks, Zenon
<1> DEFINE blocks == get_last_epoch_block(blockchain)
<1> HIDE DEF blocks
<1>3. /\ ConsensusInv(on_epoch_end(consensus, blocks, validators), next)
      /\ on_epoch_end(consensus, blocks, validators).pending_rewards = consensus.pending_rewards
  BY <1>1, <1>2, OnEpochEnd DEF blocks
<1> QED
  BY <1>3, Zenon DEF ConsensusAfterEpoch, blocks

\* next_slot inside an epoch.
LEMMA NextSlotStep ==
  ASSUME Inv, NextSlot
  PROVE  /\ Inv'
         /\ current_epoch' = current_epoch
         /\ DOMAIN consensus.frozen_proposer_weights # {} =>
              consensus'.frozen_proposer_weights = consensus.frozen_proposer_weights
         /\ block_production_failed' # block_production_failed
              => scheduled_outage_active(current_epoch')
PROOF
<1> DEFINE c == WithFrozenWeights(consensus, validators)
           slot == current_slot + 1
<1>1. /\ current_epoch \in Nat /\ current_slot \in 0..(slot_per_epoch - 1)
      /\ slot_per_epoch \in Nat \ {0}
      /\ epoch_proposer_counts \in Nat /\ logical_slot_counter \in Nat
      /\ validators \in Validators /\ ConsensusInv(consensus, current_epoch)
  BY WorldAssumption DEF Inv, TypeOK
<1>2. /\ running /\ running' = running
      /\ ~(current_slot >= slot_per_epoch - 1)
      /\ current_slot' = slot
      /\ logical_slot_counter' = logical_slot_counter + 1
      /\ node_availability' = Availability(current_epoch)
      /\ Propose(c, current_epoch, slot, epoch_proposer_counts)
      /\ current_epoch' = current_epoch /\ validators' = validators
  BY Zenon DEF NextSlot, LastSlotOfEpoch
<1>3. /\ ConsensusInv(c, current_epoch)
      /\ c.pending_rewards = consensus.pending_rewards
      /\ DOMAIN consensus.frozen_proposer_weights # {} => c = consensus
  BY <1>1, LazyFreeze, Zenon
<1> HIDE DEF c
<1>4. slot \in 0..(slot_per_epoch - 1) /\ After(current_epoch, slot, current_epoch, current_slot)
  BY <1>1, <1>2 DEF After
<1>5. logical_slot_counter + 1 = SlotNumber(current_epoch, slot)
  <2>1. logical_slot_counter = current_epoch * slot_per_epoch + current_slot
    BY <1>2, Zenon DEF Inv, DutyAccounting, SlotNumber
  <2>2. current_epoch * slot_per_epoch \in Nat
    BY <1>1
  <2> DEFINE base == current_epoch * slot_per_epoch
  <2> HIDE DEF base
  <2>3. logical_slot_counter = base + current_slot /\ base \in Nat
    BY <2>1, <2>2, Zenon DEF base
  <2>4. logical_slot_counter + 1 = base + slot
    BY <2>3, <1>1
  <2> QED
    BY <2>4, Zenon DEF base, SlotNumber
<1>6. /\ epoch_proposer_counts <= slot
      /\ epoch_proposer_counts <= block_production_success + block_production_failed
  BY Zenon DEF Inv, DutyAccounting
<1> HIDE DEF slot
<1>7. ClockMoved(c, current_epoch, slot, epoch_proposer_counts)
  BY <1>1, <1>2, <1>3, <1>4, <1>5, <1>6, Zenon DEF ClockMoved
<1>8. /\ Inv'
      /\ consensus'.frozen_proposer_weights = c.frozen_proposer_weights
      /\ block_production_failed' # block_production_failed
           => scheduled_outage_active(current_epoch)
  BY <1>2, <1>7, ProposeStep, Zenon
<1> QED
  BY <1>2, <1>3, <1>8, Zenon

\* next_slot across an epoch boundary.
LEMMA NextEpochStep ==
  ASSUME Inv, NextEpoch
  PROVE  /\ Inv'
         /\ current_epoch' # current_epoch
         /\ block_production_failed' # block_production_failed
              => scheduled_outage_active(current_epoch')
PROOF
<1> DEFINE n == ConsensusAfterEpoch
           c == WithFrozenWeights(n, validators)
           next == current_epoch + 1
<1>1. /\ current_epoch \in Nat /\ current_slot \in 0..(slot_per_epoch - 1)
      /\ slot_per_epoch \in Nat \ {0} /\ next \in Nat
      /\ logical_slot_counter \in Nat
      /\ block_production_success \in Nat /\ block_production_failed \in Nat
      /\ validators \in Validators
  BY WorldAssumption DEF Inv, TypeOK
<1>2. /\ running /\ running' = running
      /\ current_slot >= slot_per_epoch - 1
      /\ current_slot' = 0
      /\ logical_slot_counter' = logical_slot_counter + 1
      /\ node_availability' = Availability(next)
      /\ Propose(c, next, 0, 0)
      /\ current_epoch' = next /\ validators' = validators
  BY Zenon DEF NextEpoch, LastSlotOfEpoch
<1>3. logical_slot_counter + 1 = SlotNumber(next, 0)
  <2> DEFINE base == current_epoch * slot_per_epoch
  <2>1. logical_slot_counter = base + current_slot
    BY <1>2, Zenon DEF Inv, DutyAccounting, SlotNumber
  <2>2. base \in Nat /\ next * slot_per_epoch = base + slot_per_epoch
    BY <1>1
  <2>3. current_slot = slot_per_epoch - 1
    BY <1>1, <1>2
  <2> HIDE DEF base
  <2>4. logical_slot_counter + 1 = base + slot_per_epoch
    BY <2>1, <2>2, <2>3, <1>1
  <2>5. next * slot_per_epoch + 0 = base + slot_per_epoch
    BY <2>2, <1>1
  <2> QED
    BY <2>4, <2>5, Zenon DEF SlotNumber
<1>4. next # current_epoch /\ After(next, 0, current_epoch, current_slot)
  BY <1>1 DEF After
<1>5. next = current_epoch + 1
  BY Zenon
<1> HIDE DEF next
<1>6. ConsensusInv(n, next) /\ n.pending_rewards = consensus.pending_rewards
  BY <1>5, EpochEnds, Zenon
<1> HIDE DEF n
<1>7. ConsensusInv(c, next) /\ c.pending_rewards = consensus.pending_rewards
  BY <1>1, <1>6, LazyFreeze, Zenon
<1>8. 0 \in Nat /\ 0 \in 0..(slot_per_epoch - 1) /\ 0 <= 0
      /\ 0 <= block_production_success + block_production_failed
  BY <1>1
<1> HIDE DEF c
<1>9. ClockMoved(c, next, 0, 0)
  BY <1>1, <1>2, <1>3, <1>4, <1>7, <1>8, Zenon DEF ClockMoved
<1>10. /\ Inv'
       /\ block_production_failed' # block_production_failed => scheduled_outage_active(next)
  BY <1>2, <1>9, ProposeStep, Zenon
<1> QED
  BY <1>2, <1>4, <1>10, Zenon

\* The end of the last epoch.
LEMMA ShutdownStep ==
  ASSUME Inv, Shutdown
  PROVE  Inv' /\ current_epoch' # current_epoch
PROOF
<1> DEFINE next == current_epoch + 1
           last == get_last_block(blockchain)
<1>1. /\ current_epoch \in Nat /\ current_slot \in Nat
      /\ slot_per_epoch \in Nat \ {0} /\ next \in Nat /\ next # current_epoch
      /\ block_production_success \in Nat /\ block_production_failed \in Nat
  BY WorldAssumption DEF Inv, TypeOK
<1>2. /\ running' = FALSE
      /\ current_epoch' = next /\ current_slot' = 0
      /\ consensus' = ConsensusAfterEpoch
      /\ node_availability' = Availability(next)
      /\ epoch_proposer_counts' = 0
      /\ UNCHANGED <<logical_slot_counter, validators, blockchain,
                     block_production_success, block_production_failed, settled, ledger>>
  BY Zenon DEF Shutdown
<1>3. /\ ConsensusInv(consensus', next)
      /\ consensus'.pending_rewards = consensus.pending_rewards
  BY <1>2, EpochEnds, Zenon
<1>4. TypeOK'
  <2>1. node_availability' \in [Node -> BOOLEAN]
    BY <1>2, Zenon DEF Availability
  <2>2. epoch_proposer_counts' \in 0..slot_per_epoch /\ current_slot' \in 0..(slot_per_epoch - 1)
    BY <1>1, <1>2
  <2>3. running' \in BOOLEAN
    BY <1>2, Zenon
  <2>4. ConsensusType(consensus')
    BY <1>3, ZenonT(30) DEF ConsensusInv
  <2> QED
    BY <1>1, <1>2, <2>1, <2>2, <2>3, <2>4, Zenon DEF Inv, TypeOK
<1>5. ChainInv'
  <2>1. \A i \in DOMAIN blockchain.blocks : blockchain.blocks[i].epoch <= next
    BY <1>1 DEF Inv, TypeOK, ChainInv
  <2>2. ~After(last.epoch, last.slot, next, 0)
    <3>1. last.epoch \in Nat /\ last.epoch <= current_epoch
      BY LastBlock, Zenon
    <3> HIDE DEF last
    <3> QED
      BY <1>1, <3>1 DEF After
  <2> QED
    BY <1>2, <2>1, <2>2, Zenon DEF Inv, ChainInv, ChainLinked, OfflineNeverProposes, get_last_block
<1>6. RewardInv'
  BY <1>2, <1>3, Zenon DEF Inv, RewardInv, QueueInv, get_last_index, get_last_block
<1>7. LedgerInv'
  BY <1>2, Zenon DEF Inv, LedgerInv, NoDoubleInclusion
<1>8. DutyAccounting'
  <2>1. /\ epoch_proposer_counts' <= block_production_success' + block_production_failed'
        /\ epoch_proposer_counts' <= current_slot' + 1
        /\ block_production_success' + block_production_failed' <= logical_slot_counter'
    BY <1>1, <1>2 DEF Inv, DutyAccounting
  <2>2. block_production_success' = get_last_index(blockchain)'
    BY <1>2, Zenon DEF Inv, DutyAccounting, get_last_index, get_last_block
  <2> QED
    BY <1>2, <2>1, <2>2, Zenon DEF DutyAccounting
<1> QED
  BY <1>1, <1>2, <1>3, <1>4, <1>5, <1>6, <1>7, <1>8, Zenon DEF Inv

\* A registration changes the registry only.
LEMMA RegistrationStep ==
  ASSUME Inv, NEW n \in Node, ReceiveBecomeValidator(n)
  PROVE  /\ Inv'
         /\ consensus' = consensus
         /\ block_production_failed' = block_production_failed
PROOF
<1>1. /\ validators' = Append(validators, [address |-> n, stake |-> stake[n]])
      /\ UNCHANGED <<clock, blockchain, consensus, node_availability, counters, settled, ledger>>
  BY Zenon DEF ReceiveBecomeValidator
<1>2. validators' \in Validators
  <2>1. validators \in Seq([address : Node, stake : Nat])
    BY Zenon DEF Inv, TypeOK, Validators
  <2>2. [address |-> n, stake |-> stake[n]] \in [address : Node, stake : Nat]
    BY WorldAssumption, Zenon
  <2> QED
    BY <1>1, <2>1, <2>2 DEF Validators
<1>3. /\ running' = running /\ current_epoch' = current_epoch /\ current_slot' = current_slot
      /\ logical_slot_counter' = logical_slot_counter /\ blockchain' = blockchain
      /\ consensus' = consensus /\ node_availability' = node_availability
      /\ epoch_proposer_counts' = epoch_proposer_counts
      /\ block_production_success' = block_production_success
      /\ block_production_failed' = block_production_failed
      /\ settled' = settled /\ ledger' = ledger
  BY <1>1, Zenon DEF clock, counters
<1>4. TypeOK'
  BY <1>2, <1>3, ZenonT(30) DEF Inv, TypeOK
<1>5. ChainInv'
  BY <1>3, Zenon DEF Inv, ChainInv, ChainLinked, OfflineNeverProposes, get_last_block
<1>6. RewardInv' /\ LedgerInv'
  BY <1>3, Zenon DEF Inv, RewardInv, LedgerInv, NoDoubleInclusion, get_last_index, get_last_block
<1>7. DutyAccounting'
  BY <1>3, Zenon DEF Inv, DutyAccounting, SlotNumber, get_last_index, get_last_block
<1> QED
  BY <1>3, <1>4, <1>5, <1>6, <1>7, Zenon DEF Inv

\* The world state starts with the genesis block and empty queues.
LEMMA InitInv ==
  Init => Inv
PROOF
<1> SUFFICES ASSUME Init PROVE Inv
  BY Zenon
<1>1. /\ slot_per_epoch \in Nat \ {0} /\ max_blocks_in_memory \in Nat \ {0}
      /\ score_activation_delay_epochs \in Nat \ {0} /\ reward_settlement_depth \in Nat
  BY WorldAssumption, MaxBlocksAssumption, ConfigAssumption, Zenon
<1>2. /\ blockchain.blocks = <<Genesis>> /\ blockchain.transaction_index = {}
      /\ get_last_block(blockchain) = Genesis /\ get_last_index(blockchain) = 0
  BY Zenon DEF Init, new, get_last_block, get_last_index, Genesis
<1>3. ConsensusInv(consensus, current_epoch)
  BY <1>1 DEF Init, NewConsensus, ConsensusInv, ConsensusType, PipelineAt, FreshnessAt, UpTo,
              ScoreMap, NoEpoch
<1>4. TypeOK
  <2>1. \A i \in DOMAIN blockchain.blocks :
          /\ blockchain.blocks[i].index \in Nat /\ blockchain.blocks[i].epoch \in Nat
          /\ blockchain.blocks[i].slot \in Nat /\ blockchain.blocks[i].txs \subseteq Tx
    BY <1>2 DEF Genesis
  <2>2. Len(blockchain.blocks) \in 1..max_blocks_in_memory
    BY <1>1, <1>2
  <2>3. current_slot \in 0..(slot_per_epoch - 1) /\ epoch_proposer_counts \in 0..slot_per_epoch
    BY <1>1 DEF Init
  <2>4. running \in BOOLEAN /\ node_availability \in [Node -> BOOLEAN]
    BY Zenon DEF Init
  <2>5. /\ validators \in Validators /\ settled \in Seq(RewardBatch)
        /\ ledger \in Seq(SUBSET Tx)
        /\ current_epoch \in Nat /\ logical_slot_counter \in Nat
        /\ block_production_success \in Nat /\ block_production_failed \in Nat
    BY DEF Init, Validators
  <2>6. ConsensusType(consensus) /\ blockchain.transaction_index \subseteq Tx
    <3>1. ConsensusType(consensus)
      BY <1>3, Zenon DEF ConsensusInv
    <3> QED
      BY <3>1, <1>2, Zenon
  <2> QED
    BY <2>1, <2>2, <2>3, <2>4, <2>5, <2>6, Zenon DEF TypeOK
<1>5. ChainInv
  <2>1. blockchain.blocks \in Seq(Range(blockchain.blocks))
    <3>1. <<Genesis>> \in Seq({Genesis})
      OBVIOUS
    <3> QED
      BY <1>2, <3>1, SeqOfElements, Zenon
  <2>2. Genesis.miner \notin outage_validators
    BY WorldAssumption, Zenon DEF Genesis
  <2> QED
    BY <1>2, <2>1, <2>2 DEF ChainInv, ChainLinked, SlotsApart, OfflineNeverProposes, Genesis,
                            After, Init
<1>6. RewardInv
  <2>1. /\ consensus.pending_rewards = <<>> /\ settled = <<>>
        /\ Len(<<>>) = 0 /\ DOMAIN <<>> = {}
    BY DEF Init, NewConsensus
  <2>2. 0 = IF 0 > reward_settlement_depth THEN 0 - reward_settlement_depth ELSE 0
    BY <1>1
  <2>3. QueueInv(consensus, 0, 0)
    BY <2>1, <2>2 DEF QueueInv, SettlementQueue
  <2> QED
    BY <1>2, <2>1, <2>3, Zenon DEF RewardInv
<1>7. LedgerInv
  BY DEF Init, LedgerInv, NoDoubleInclusion
<1>8. DutyAccounting
  <2>1. SlotNumber(0, 0) = 0
    BY <1>1 DEF SlotNumber
  <2> QED
    BY <1>2, <2>1 DEF Init, DutyAccounting
<1> QED
  BY <1>3, <1>4, <1>5, <1>6, <1>7, <1>8, Zenon DEF Inv

\* Every step keeps the invariant.
LEMMA NextInv ==
  Inv /\ [Next]_vars => Inv'
PROOF
<1> SUFFICES ASSUME Inv, [Next]_vars PROVE Inv'
  BY Zenon
<1>1. CASE \E n \in Node : ReceiveBecomeValidator(n)
  BY <1>1, RegistrationStep, Zenon
<1>2. CASE NextSlot
  BY <1>2, NextSlotStep, Zenon
<1>3. CASE NextEpoch
  BY <1>3, NextEpochStep, Zenon
<1>4. CASE Shutdown
  BY <1>4, ShutdownStep, SMTT(30)
<1>5. CASE UNCHANGED vars
  BY <1>5, Zenon DEF Inv, TypeOK, ChainInv, RewardInv, LedgerInv, DutyAccounting, ChainLinked,
              OfflineNeverProposes, NoDoubleInclusion, SlotNumber, vars, clock, counters,
              get_last_index, get_last_block
<1> QED
  BY <1>1, <1>2, <1>3, <1>4, <1>5, Zenon DEF Next

\* Inv is an invariant of the coordinator.
THEOREM Invariance ==
  Spec => []Inv
PROOF
  BY InitInv, NextInv, PTL DEF Spec

\* The state of the coordinator keeps its type for every set of nodes and
\* transactions: queues, registry, counters and chain.
THEOREM TypeCorrect ==
  Spec => []TypeOK
PROOF
<1>1. Inv => TypeOK
  BY Zenon DEF Inv
<1> QED
  BY Invariance, <1>1, PTL

\* on_epoch_end: for every activation delay the score root of each epoch becomes
\* active exactly that many epochs after it was produced.
THEOREM ScoreRootsOnTime ==
  Spec => []ScorePipeline
PROOF
<1>1. Inv => ScorePipeline
  BY Zenon DEF Inv, ConsensusInv, ScorePipeline
<1> QED
  BY Invariance, <1>1, PTL

\* freeze_proposer_weights: the election of an epoch never uses evidence of a
\* block younger than the activation delay.
THEOREM ElectionUsesOldEvidence ==
  Spec => []EvidenceDelay
PROOF
<1>1. Inv => EvidenceDelay
  <2> SUFFICES ASSUME Inv PROVE EvidenceDelay
    BY SMTT(30)
  <2>1. /\ score_activation_delay_epochs \in Nat /\ current_epoch \in Nat
        /\ ConsensusType(consensus) /\ FreshnessAt(consensus, current_epoch)
    BY ConfigAssumption, Zenon DEF Inv, TypeOK, ConsensusInv
  <2>2. ASSUME NEW a \in DOMAIN consensus.frozen_proposer_weights,
               NEW ev \in consensus.frozen_proposer_weights[a].score
        PROVE  ev.block_epoch + score_activation_delay_epochs <= current_epoch
    <3>1. consensus.frozen_proposer_weights[a] \in [stake : Nat, score : SUBSET Evidence]
      BY <2>1, Zenon DEF ConsensusType
    <3>2. ev.block_epoch \in Nat
      BY <3>1, Zenon DEF Evidence
    <3>3. ev.block_epoch <= current_epoch - score_activation_delay_epochs
      BY <2>1, Zenon DEF FreshnessAt
    <3> QED
      BY <2>1, <3>2, <3>3
  <2> QED
    BY <2>2, Zenon DEF EvidenceDelay
<1> QED
  BY Invariance, <1>1, PTL

\* settle_matured_rewards: the batch of every block is credited once, in chain
\* order, exactly reward_settlement_depth blocks later.
THEOREM RewardsAreSettledOnce ==
  Spec => []RewardsSettledOnce
PROOF
<1>1. Inv => RewardsSettledOnce
  <2> SUFFICES ASSUME Inv PROVE RewardsSettledOnce
    BY Zenon
  <2> DEFINE last == get_last_index(blockchain)
             pending == consensus.pending_rewards
             all == settled \o pending
  <2>1. /\ settled \in Seq(RewardBatch) /\ pending \in Seq(RewardBatch)
        /\ last \in Nat /\ reward_settlement_depth \in Nat
    BY LastBlock, ConfigAssumption, SMTT(30) DEF Inv, TypeOK, ConsensusType
  <2>2. /\ Len(settled) = IF last > reward_settlement_depth
                          THEN last - reward_settlement_depth ELSE 0
        /\ Len(pending) = last - Len(settled)
        /\ \A j \in DOMAIN pending :
             pending[j].settle_at_block = Len(settled) + j + reward_settlement_depth
        /\ \A i \in DOMAIN settled :
             settled[i].settle_at_block = i + reward_settlement_depth
    BY Zenon DEF Inv, RewardInv, QueueInv, SettlementQueue
  <2> HIDE DEF last, pending
  <2>3. /\ Len(settled) \in Nat /\ Len(pending) \in Nat
        /\ DOMAIN settled = 1..Len(settled) /\ DOMAIN pending = 1..Len(pending)
        /\ Len(all) = Len(settled) + Len(pending)
        /\ DOMAIN all = 1..(Len(settled) + Len(pending))
        /\ \A i \in 1..Len(settled) : all[i] = settled[i]
        /\ \A i \in 1..Len(pending) : all[Len(settled) + i] = pending[i]
    BY <2>1
  <2>4. Len(all) = last
    BY <2>1, <2>2, <2>3
  <2>5. ASSUME NEW i \in DOMAIN all
        PROVE  all[i].settle_at_block = i + reward_settlement_depth
    <3>1. CASE i <= Len(settled)
      BY <3>1, <2>2, <2>3
    <3>2. CASE i > Len(settled)
      <4> DEFINE j == i - Len(settled)
      <4>1. j \in 1..Len(pending) /\ i = Len(settled) + j
        BY <3>2, <2>3
      <4> HIDE DEF j
      <4>2. all[i] = pending[j]
        BY <4>1, <2>3, Zenon
      <4> QED
        BY <4>1, <4>2, <2>2, <2>3, Zenon
    <3> QED
      BY <3>1, <3>2, <2>3
  <2> QED
    BY <2>2, <2>4, <2>5, SMTT(30) DEF RewardsSettledOnce, last, pending
<1> QED
  BY Invariance, <1>1, PTL

\* add_block and next_slot: the canonical chain is linked and has at most one
\* block per slot, for every pruning bound.
THEOREM ChainIsLinked ==
  Spec => []ChainLinked
PROOF
<1>1. Inv => ChainLinked
  BY Zenon DEF Inv, ChainInv
<1> QED
  BY Invariance, <1>1, PTL

\* The transaction index outlives pruning: no transaction is in two canonical
\* blocks, for every number of blocks kept in memory.
THEOREM TransactionsPackedOnce ==
  Spec => []NoDoubleInclusion
PROOF
<1>1. Inv => NoDoubleInclusion
  BY Zenon DEF Inv, LedgerInv
<1> QED
  BY Invariance, <1>1, PTL

\* The production counters agree with the chain and with the clock.
THEOREM DutiesAccounted ==
  Spec => []DutyAccounting
PROOF
<1>1. Inv => DutyAccounting
  BY Zenon DEF Inv
<1> QED
  BY Invariance, <1>1, PTL

\* No block of an outage epoch is from an outage validator.
THEOREM OutageRespected ==
  Spec => []OfflineNeverProposes
PROOF
<1>1. Inv => OfflineNeverProposes
  BY Zenon DEF Inv, ChainInv
<1> QED
  BY Invariance, <1>1, PTL

\* select_with_frozen_weights: no step changes frozen weights within an epoch.
THEOREM WeightsStayFrozen ==
  Spec => FrozenWithinEpoch
PROOF
<1> DEFINE A == (current_epoch' = current_epoch /\ DOMAIN consensus.frozen_proposer_weights # {})
                  => consensus'.frozen_proposer_weights = consensus.frozen_proposer_weights
<1>1. Inv /\ [Next]_vars => [A]_vars
  <2> SUFFICES ASSUME Inv, [Next]_vars PROVE [A]_vars
    BY Zenon
  <2>1. CASE \E n \in Node : ReceiveBecomeValidator(n)
    BY <2>1, RegistrationStep, Zenon
  <2>2. CASE NextSlot
    BY <2>2, NextSlotStep, Zenon
  <2>3. CASE NextEpoch
    BY <2>3, NextEpochStep, Zenon
  <2>4. CASE Shutdown
    BY <2>4, ShutdownStep, Zenon
  <2>5. CASE UNCHANGED vars
    BY <2>5, Zenon
  <2> QED
    BY <2>1, <2>2, <2>3, <2>4, <2>5, Zenon DEF Next
<1> QED
  BY Invariance, <1>1, PTL DEF Spec, FrozenWithinEpoch

\* apply_canonical_block: add_block accepts every block of build_canonical_block,
\* so a duty fails only in the scheduled outage.
THEOREM BlocksAreAccepted ==
  Spec => FailsOnlyInOutage
PROOF
<1> DEFINE A == block_production_failed' # block_production_failed
                  => scheduled_outage_active(current_epoch')
<1>1. Inv /\ [Next]_vars => [A]_vars
  <2> SUFFICES ASSUME Inv, [Next]_vars PROVE [A]_vars
    BY Zenon
  <2>1. CASE \E n \in Node : ReceiveBecomeValidator(n)
    BY <2>1, RegistrationStep, Zenon
  <2>2. CASE NextSlot
    BY <2>2, NextSlotStep, Zenon
  <2>3. CASE NextEpoch
    BY <2>3, NextEpochStep, Zenon
  <2>4. CASE Shutdown
    BY <2>4, Zenon DEF Shutdown
  <2>5. CASE UNCHANGED vars
    BY <2>5, Zenon
  <2> QED
    BY <2>1, <2>2, <2>3, <2>4, <2>5, Zenon DEF Next
<1> QED
  BY Invariance, <1>1, PTL DEF Spec, FailsOnlyInOutage

\* A slot drops a block from memory only when the memory is full.
LEMMA DroppedWhenFull ==
  ASSUME Inv, NextSlot, blockchain'.blocks[1] # blockchain.blocks[1]
  PROVE  Len(blockchain.blocks) = max_blocks_in_memory
PROOF
<1>1. PICK b : blockchain'.blocks = Prune(Append(blockchain.blocks, b))
  BY DEF NextSlot, Propose, NoProposer, MissedDuty, apply_canonical_block, add_block
<1>2. /\ blockchain.blocks \in Seq(Range(blockchain.blocks))
      /\ Len(blockchain.blocks) \in 1..max_blocks_in_memory
  BY ChainFacts, Zenon
<1>3. blockchain.blocks \in Seq(Range(blockchain.blocks) \cup {b})
  BY <1>2
<1>4. SUFFICES ASSUME Len(blockchain.blocks) < max_blocks_in_memory PROVE FALSE
  BY <1>2, MaxBlocksAssumption
<1>5. blockchain'.blocks = Append(blockchain.blocks, b)
  BY <1>1, <1>3, <1>4, MaxBlocksAssumption DEF Prune
<1>6. Append(blockchain.blocks, b)[1] = blockchain.blocks[1]
  BY <1>2, <1>3
<1> QED
  BY <1>5, <1>6, Zenon

\* add_block and next_epoch: with room for the blocks of one epoch, pruning never
\* takes a block of the epoch that is still to be scored.
THEOREM EpochKeptForScoring ==
  Spec => ScoredBeforePruned
PROOF
<1> DEFINE A == (/\ slot_per_epoch <= max_blocks_in_memory
                 /\ blockchain'.blocks[1] # blockchain.blocks[1])
                  => blockchain.blocks[1].epoch < current_epoch'
<1>1. Inv /\ [Next]_vars => [A]_vars
  <2> SUFFICES ASSUME Inv, [Next]_vars,
                      slot_per_epoch <= max_blocks_in_memory,
                      blockchain'.blocks[1] # blockchain.blocks[1]
               PROVE  blockchain.blocks[1].epoch < current_epoch'
    BY Zenon
  <2>1. /\ Len(blockchain.blocks) \in 1..max_blocks_in_memory
        /\ DOMAIN blockchain.blocks = 1..Len(blockchain.blocks)
        /\ \A i \in DOMAIN blockchain.blocks :
             /\ blockchain.blocks[i].epoch \in Nat /\ blockchain.blocks[i].slot \in Nat
             /\ blockchain.blocks[i].epoch <= current_epoch
        /\ current_epoch \in Nat /\ current_slot \in Nat
    <3>1. current_epoch \in Nat /\ current_slot \in 0..(slot_per_epoch - 1)
      BY Zenon DEF Inv, TypeOK
    <3>2. current_slot \in Nat
      BY <3>1, WorldAssumption
    <3> QED
      BY <3>1, <3>2, ChainFacts, Zenon
  <2>2. 1 \in DOMAIN blockchain.blocks
    BY <2>1, MaxBlocksAssumption
  <2>3. CASE \E n \in Node : ReceiveBecomeValidator(n)
    BY <2>3, Zenon DEF ReceiveBecomeValidator
  <2>4. CASE NextSlot
    <3>1. Len(blockchain.blocks) = max_blocks_in_memory
      BY <2>4, DroppedWhenFull, Zenon
    <3>2. /\ max_blocks_in_memory \in DOMAIN blockchain.blocks
          /\ max_blocks_in_memory \in Nat
      BY <2>1, <3>1, MaxBlocksAssumption, Zenon
    <3> DEFINE last == blockchain.blocks[max_blocks_in_memory]
    <3>3. \/ last.epoch > blockchain.blocks[1].epoch
          \/ last.epoch = blockchain.blocks[1].epoch /\ last.slot >= max_blocks_in_memory - 1
      <4>1. /\ SlotsApart(blockchain.blocks)
            /\ 1 \in 1..Len(blockchain.blocks)
            /\ max_blocks_in_memory \in 1..Len(blockchain.blocks)
            /\ 1 <= max_blocks_in_memory
        BY <2>1, <2>2, <3>1, <3>2 DEF Inv, ChainInv
      <4>2. \/ last.epoch > blockchain.blocks[1].epoch
            \/ /\ last.epoch = blockchain.blocks[1].epoch
               /\ last.slot >= blockchain.blocks[1].slot + (max_blocks_in_memory - 1)
        BY <4>1, Zenon DEF SlotsApart
      <4>3. blockchain.blocks[1].slot \in Nat /\ last.slot \in Nat
        BY <2>1, <2>2, <3>2, Zenon
      <4> HIDE DEF last
      <4> QED
        BY <4>2, <4>3, <3>2
    <3>4. ~After(last.epoch, last.slot, current_epoch, current_slot)
      BY <3>1, LastBlock, Zenon DEF get_last_block
    <3>5. current_epoch' = current_epoch /\ current_slot < slot_per_epoch - 1
      BY <2>4, <2>1, WorldAssumption DEF NextSlot, LastSlotOfEpoch
    <3>6. last.epoch \in Nat /\ last.slot \in Nat /\ slot_per_epoch \in Nat
      BY <2>1, <3>2, WorldAssumption, Zenon
    <3> HIDE DEF last
    <3> QED
      BY <2>1, <2>2, <3>2, <3>3, <3>4, <3>5, <3>6 DEF After
  <2>5. CASE NextEpoch
    BY <2>5, <2>1, <2>2 DEF NextEpoch
  <2>6. CASE Shutdown
    BY <2>6, Zenon DEF Shutdown
  <2>7. CASE UNCHANGED vars
    BY <2>7, Zenon DEF vars
  <2> QED
    BY <2>3, <2>4, <2>5, <2>6, <2>7, Zenon DEF Next
<1> QED
  BY Invariance, <1>1, PTL DEF Spec, ScoredBeforePruned
=================================================================================
