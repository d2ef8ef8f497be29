--------------------------- MODULE EvidenceRuntime_proofs ---------------------------
(* Proofs about EvidenceRuntime: which evidence can reach which epoch's credits,     *)
(* scores and proposer weights, for every configuration with depths above zero.      *)
EXTENDS EvidenceRuntime, WellFoundedInduction, TLAPS

-------------------------------------------------------------------------------------
(* Lemmas. *)

\* A nonempty set of epochs has a greatest one: the latest eligible epoch and the last
\* epoch of a settlement.
LEMMA GreatestEpoch ==
  ASSUME NEW T, T \subseteq Epoch, T # {}
  PROVE  \E x \in T : \A y \in T : y <= x
<1> DEFINE Less == {ss \in Nat \X Nat : ss[1] < ss[2]}
           Down == {MaxEpoch - x : x \in T}
<1>1. IsWellFoundedOn(Less, Nat)
  BY NatLessThanWellFounded, Zenon DEF OpToRel
<1>2. Down \subseteq Nat /\ Down # {}
  <2>1. \A x \in T : MaxEpoch - x \in Nat
    BY EvidenceAssumption DEF Epoch
  <2> QED
    BY <2>1, Zenon
<1> HIDE DEF Less, Down
<1>3. PICK d \in Down : \A y \in Down : ~ (<<y, d>> \in Less)
  BY <1>1, <1>2, WFMin, Zenon
<1>4. ASSUME NEW y \in Down, y < d  PROVE FALSE
  <2>1. <<y, d>> \in Nat \X Nat /\ <<y, d>>[1] < <<y, d>>[2]
    BY <1>2, <1>4, Zenon
  <2>2. <<y, d>> \in Less
    BY <2>1, Zenon DEF Less
  <2> QED
    BY <2>2, <1>3, Zenon
<1>5. PICK x \in T : d = MaxEpoch - x
  BY Zenon DEF Down
<1>6. ASSUME NEW y \in T  PROVE y <= x
  <2>1. MaxEpoch - y \in Down
    BY Zenon DEF Down
  <2>2. ~(MaxEpoch - y < MaxEpoch - x)
    BY <1>4, <1>5, <2>1, Zenon
  <2> QED
    BY <2>2, EvidenceAssumption DEF Epoch
<1> QED
  BY <1>6, Zenon

-------------------------------------------------------------------------------------
(* The inductive invariant. *)

\* The transactions recorded in the epochs up to k.
EvidenceUpTo(k) == UNION {accepted[i] : i \in {i \in Epoch : i <= k}}

\* What is settled or submitted is below the finalized epoch by its depth.
DepthOK(f) ==
  /\ \A e \in DOMAIN scores : e + FinalityDepth <= f
  /\ \A e \in Epoch : credit_settled[e] # {} => e + RewardDepth <= f
  /\ \A e \in DOMAIN submitted : e + RewardDepth <= f

\* No epoch with an entry is left out below a settled one.
NoGap == \A e \in entries, k \in DOMAIN scores : e <= k => e \in DOMAIN scores

\* Scores are made of evidence of their own and of earlier epochs.
ScoreOK == \A e \in DOMAIN scores : scores[e] \subseteq EvidenceUpTo(e)

\* The weights of an epoch are made of evidence older than the activation delay.
ActiveOK ==
  \A p \in DOMAIN activated : activated[p] \subseteq EvidenceUpTo(p - ActivationDelay)

RInv(f) ==
  /\ TypeOK /\ CreditedOnce /\ DepthOK(f) /\ NoGap /\ ScoreOK /\ ActiveOK
  /\ SettledEpochsClosed /\ SubmittedIsComplete

\* The evidence of a processed block is recorded, so a replay finds nothing new.
ValidTxs(body) == {r.tx : r \in {r \in FreshRecords(body) : r.path = "valid"}}

Recorded(epoch, body) ==
  /\ ValidTxs(body) \subseteq UNION {accepted[e] : e \in Epoch}
  /\ Touches(body) => epoch \in entries

ChainOK ==
  \A b \in 1..Len(blocks) :
    /\ blocks[b].finalized <= finalized_checkpoint.epoch
    /\ Recorded(blocks[b].epoch, blocks[b].body)

IInv == RInv(finalized_checkpoint.epoch) /\ ChainOK

\* Epochs are natural numbers.
LEMMA EpochType == \A e \in Epoch : e \in Nat
  BY EvidenceAssumption DEF Epoch

\* What a block adds to accepted_tx_hashes are transactions that are not in it.
LEMMA AcceptsType ==
  ASSUME NEW epoch \in Epoch, NEW body \in Body
  PROVE  /\ Accepts(epoch, body) \subseteq Tx
         /\ \A e \in Epoch : accepted[e] \cap Accepts(epoch, body) = {}
<1>1. body.records \subseteq Record
  BY Zenon DEF Body
<1>2. FreshRecords(body) \subseteq Record
  BY <1>1, Zenon DEF FreshRecords
<1>3. \A r \in Record : r.tx \in Tx
  BY Zenon DEF Record
<1> QED
  BY <1>2, <1>3, Zenon DEF Accepts, AcceptedAnywhere

\* The latest eligible scores are made of evidence of epochs that are old enough.
LEMMA EligibleOK ==
  ASSUME TypeOK, ScoreOK, NEW p \in Epoch
  PROVE  /\ EligibleScores(p) \subseteq EvidenceUpTo(p - ActivationDelay)
         /\ EligibleScores(p) \subseteq Relayed
<1> DEFINE eligible == {e \in DOMAIN scores : e <= p - ActivationDelay /\ scores[e] # {}}
           latest == CHOOSE e \in eligible : \A k \in eligible : k <= e
<1>1. CASE eligible = {}
  BY <1>1, Zenon DEF EligibleScores
<1>2. CASE eligible # {}
  <2>1. eligible \subseteq Epoch
    BY Zenon DEF TypeOK
  <2>2. \E e \in eligible : \A k \in eligible : k <= e
    BY <1>2, <2>1, GreatestEpoch, Zenon
  <2>3. latest \in eligible
    BY <2>2, Zenon
  <2>4. EligibleScores(p) = scores[latest]
    BY <1>2, Zenon DEF EligibleScores
  <2> HIDE DEF latest
  <2>5. latest \in Epoch /\ latest <= p - ActivationDelay /\ latest \in DOMAIN scores
    BY <2>1, <2>3, Zenon
  <2>6. scores[latest] \subseteq EvidenceUpTo(latest) /\ scores[latest] \subseteq Relayed
    BY <2>5, Zenon DEF ScoreOK, TypeOK
  <2>7. EvidenceUpTo(latest) \subseteq EvidenceUpTo(p - ActivationDelay)
    <3>1. \A i \in Epoch : i <= latest => i <= p - ActivationDelay
      BY <2>5, EpochType, EvidenceAssumption
    <3> QED
      BY <3>1, Zenon DEF EvidenceUpTo
  <2> QED
    BY <2>4, <2>6, <2>7, Zenon
<1> QED
  BY <1>1, <1>2, Zenon

\* A lookup caches old evidence only.
LEMMA ActivateOK ==
  ASSUME TypeOK, ScoreOK, ActiveOK, NEW p \in Epoch, activated' = Activate(p),
         \A e \in Epoch : accepted[e] \subseteq accepted'[e]
  PROVE  /\ DOMAIN activated' \subseteq Epoch
         /\ \A e \in DOMAIN activated' : activated'[e] \subseteq Relayed
         /\ ActiveOK'
<1>1. \A k : EvidenceUpTo(k) \subseteq EvidenceUpTo(k)'
  BY Zenon DEF EvidenceUpTo
<1>2. \A e \in DOMAIN activated :
        activated[e] \subseteq Relayed /\ activated[e] \subseteq EvidenceUpTo(e - ActivationDelay)
  BY Zenon DEF TypeOK, ActiveOK
<1>3. /\ DOMAIN activated' \subseteq DOMAIN activated \cup {p}
      /\ \A e \in DOMAIN activated' :
           \/ e = p /\ activated'[e] = EligibleScores(p)
           \/ e \in DOMAIN activated /\ activated'[e] = activated[e]
  BY Zenon DEF Activate
<1>4. \A e \in DOMAIN activated' :
        activated'[e] \subseteq Relayed /\ activated'[e] \subseteq EvidenceUpTo(e - ActivationDelay)
  BY <1>2, <1>3, EligibleOK
<1> QED
  BY <1>1, <1>3, <1>4, Zenon DEF ActiveOK, TypeOK

-------------------------------------------------------------------------------------
(* per_block_processing. *)

\* f is the finalized epoch before the block and g the one after it.  The block is new,
\* and not older than f, or it is replayed and carries nothing new.
LEMMA PerBlockInv ==
  ASSUME NEW f \in Epoch, NEW g \in Epoch, f <= g, RInv(f),
         NEW epoch \in Epoch, NEW finalized \in Epoch, finalized <= g, NEW body \in Body,
         PerBlockProcessing(epoch, finalized, body),
         \/ f <= epoch
         \/ Accepts(epoch, body) = {} /\ (Touches(body) => epoch \in entries),
         blocks' \in Seq(Block), finalized_checkpoint'.epoch \in Epoch
  PROVE  /\ RInv(g)'
         /\ entries \subseteq entries' /\ (Touches(body) => epoch \in entries')
         /\ \A e \in Epoch : accepted[e] \subseteq accepted'[e]
         /\ Accepts(epoch, body) \subseteq accepted'[epoch]
<1> DEFINE acc == [accepted EXCEPT ![epoch] = @ \cup Accepts(epoch, body)]
           ents == IF Touches(body) THEN entries \cup {epoch} ELSE entries
           settled == SettleCredits(acc, finalized)
           due == ScoresDue(ents, finalized)
<1>1. /\ TypeOK /\ CreditedOnce /\ DepthOK(f) /\ NoGap /\ ScoreOK /\ ActiveOK
      /\ SettledEpochsClosed /\ SubmittedIsComplete
  BY Zenon DEF RInv
<1>2. /\ activated' = Activate(epoch) /\ accepted' = acc /\ entries' = ents
      /\ credit_settled' = settled
      /\ scores' = SettleScores(due, acc)
      /\ latest_settled_epoch' = IF due = {} THEN latest_settled_epoch
                                 ELSE CHOOSE e \in due : \A k \in due : k <= e
  BY Zenon DEF PerBlockProcessing
<1>3. PICK answered \in SUBSET Submittable(acc, settled, finalized) :
        submitted' = [e \in DOMAIN submitted \cup answered |->
                        IF e \in answered THEN acc[e] \cap Paying ELSE submitted[e]]
  BY Zenon DEF PerBlockProcessing
<1>4. /\ accepted \in [Epoch -> SUBSET Tx] /\ entries \subseteq Epoch
      /\ credit_settled \in [Epoch -> SUBSET Paying] /\ DOMAIN submitted \subseteq Epoch
      /\ DOMAIN scores \subseteq entries /\ latest_settled_epoch \in DOMAIN scores \cup {None}
      /\ \A e \in DOMAIN scores : scores[e] \subseteq Relayed
  BY <1>1, Zenon DEF TypeOK
<1>5. /\ acc \in [Epoch -> SUBSET Tx]
      /\ \A e \in Epoch : accepted[e] \subseteq acc[e]
      /\ \A e \in Epoch : acc[e] = IF e = epoch THEN accepted[e] \cup Accepts(epoch, body)
                                   ELSE accepted[e]
  BY <1>4, AcceptsType, Zenon
<1>6. /\ ents \subseteq Epoch /\ entries \subseteq ents
      /\ Touches(body) => epoch \in ents
      /\ \A e \in ents : e \in entries \/ f <= e
  BY <1>4, Zenon
<1>7. \A e \in Epoch : (e + FinalityDepth <= f \/ e + RewardDepth <= f) => acc[e] = accepted[e]
  <2> SUFFICES ASSUME NEW e \in Epoch, e + FinalityDepth <= f \/ e + RewardDepth <= f
               PROVE  acc[e] = accepted[e]
    BY Zenon
  <2>1. e < f
    BY EpochType, EvidenceAssumption
  <2>2. CASE f <= epoch
    <3>1. e # epoch
      BY <2>1, <2>2, EpochType
    <3> QED
      BY <1>5, <3>1, Zenon
  <2>3. CASE Accepts(epoch, body) = {}
    BY <1>5, <2>3, Zenon
  <2> QED
    BY <2>2, <2>3, Zenon
<1> HIDE DEF acc, ents
<1>8. /\ due \subseteq ents
      /\ \A e \in ents : e \in due <=> e \notin DOMAIN scores /\ e + FinalityDepth <= finalized
      /\ due \cap DOMAIN scores = {}
  BY Zenon DEF ScoresDue
<1>9. /\ settled \in [Epoch -> SUBSET Paying]
      /\ \A e \in Epoch : settled[e] = IF e + RewardDepth <= finalized THEN acc[e] \cap Paying
                                       ELSE credit_settled[e]
  BY <1>4, <1>5, Zenon DEF SettleCredits
<1> HIDE DEF settled, due
<1>10. CreditedOnce'
  BY <1>1, <1>2, <1>5, AcceptsType DEF CreditedOnce
<1>11. \A k : EvidenceUpTo(k) \subseteq EvidenceUpTo(k)'
  BY <1>2, <1>5 DEF EvidenceUpTo
<1>12. \A e \in due : latest_settled_epoch = None \/ latest_settled_epoch <= e
  <2> SUFFICES ASSUME NEW e \in due, latest_settled_epoch # None
               PROVE  latest_settled_epoch <= e
    BY Zenon
  <2> DEFINE last == latest_settled_epoch
  <2>1. last \in DOMAIN scores /\ last \in Epoch /\ e \in Epoch /\ e \notin DOMAIN scores
    BY <1>4, <1>6, <1>8, Zenon
  <2>2. CASE e \in entries
    BY <1>1, <2>1, <2>2, EpochType DEF NoGap
  <2>3. CASE f <= e
    <3>1. last + FinalityDepth <= f
      BY <1>1, <2>1, Zenon DEF DepthOK
    <3> QED
      BY <2>1, <2>3, <3>1, EpochType, EvidenceAssumption
  <2> QED
    BY <1>6, <1>8, <2>2, <2>3, Zenon
<1>13. /\ DOMAIN scores' = DOMAIN scores \cup due
       /\ \A e \in DOMAIN scores : scores'[e] = scores[e]
       /\ \A e \in due : scores'[e] = LatestScores \cup
            UNION {acc[k] \cap Relayed : k \in {d \in due : d <= e}}
  BY <1>2, <1>8, Zenon DEF SettleScores
<1>14. LatestScores \subseteq Relayed
       /\ (latest_settled_epoch # None =>
             LatestScores \subseteq EvidenceUpTo(latest_settled_epoch))
       /\ (latest_settled_epoch = None => LatestScores = {})
  BY <1>1, <1>4, Zenon DEF LatestScores, ScoreOK
<1>15. \A e \in DOMAIN scores' : scores'[e] \subseteq Relayed
  BY <1>4, <1>13, <1>14
<1>16. ScoreOK'
  <2> SUFFICES ASSUME NEW e \in DOMAIN scores' PROVE scores'[e] \subseteq EvidenceUpTo(e)'
    BY Zenon DEF ScoreOK
  <2>1. CASE e \in DOMAIN scores
    BY <1>1, <1>11, <1>13, <2>1, Zenon DEF ScoreOK
  <2>2. CASE e \in due
    <3>1. LatestScores \subseteq EvidenceUpTo(e)
      <4>1. CASE latest_settled_epoch = None
        BY <1>14, <4>1, Zenon
      <4>2. CASE latest_settled_epoch # None
        <5>1. latest_settled_epoch \in Epoch /\ e \in Epoch /\ latest_settled_epoch <= e
          BY <1>4, <1>6, <1>8, <1>12, <2>2, <4>2, Zenon
        <5>2. \A i \in Epoch : i <= latest_settled_epoch => i <= e
          BY <5>1, EpochType
        <5>3. EvidenceUpTo(latest_settled_epoch) \subseteq EvidenceUpTo(e)
          BY <5>2, Zenon DEF EvidenceUpTo
        <5> QED
          BY <1>14, <4>2, <5>3, Zenon
      <4> QED
        BY <4>1, <4>2, Zenon
    <3>2. UNION {acc[k] \cap Relayed : k \in {d \in due : d <= e}} \subseteq EvidenceUpTo(e)'
      BY <1>2, <1>6, <1>8, Zenon DEF EvidenceUpTo
    <3> QED
      BY <1>11, <1>13, <2>2, <3>1, <3>2, Zenon
  <2> QED
    BY <1>13, <2>1, <2>2, Zenon
<1>17. \A e \in answered : /\ e \in Epoch /\ e \notin DOMAIN submitted
                            /\ settled[e] # {} /\ acc[e] \cap Paying = settled[e]
  BY Zenon DEF Submittable
<1>18. DepthOK(g)'
  <2>1. \A e \in DOMAIN scores' : e + FinalityDepth <= g
    <3> SUFFICES ASSUME NEW e \in DOMAIN scores' PROVE e + FinalityDepth <= g
      BY Zenon
    <3>1. e \in Epoch /\ (e + FinalityDepth <= f \/ e + FinalityDepth <= finalized)
      BY <1>1, <1>4, <1>6, <1>8, <1>13, Zenon DEF DepthOK
    <3> QED
      BY <3>1, EpochType, EvidenceAssumption
  <2>2. \A e \in Epoch : settled[e] # {} => e + RewardDepth <= g
    <3> SUFFICES ASSUME NEW e \in Epoch, settled[e] # {} PROVE e + RewardDepth <= g
      BY Zenon
    <3>1. e + RewardDepth <= f \/ e + RewardDepth <= finalized
      BY <1>1, <1>9, Zenon DEF DepthOK
    <3> QED
      BY <3>1, EpochType, EvidenceAssumption
  <2>3. \A e \in DOMAIN submitted' : e + RewardDepth <= g
    <3> SUFFICES ASSUME NEW e \in DOMAIN submitted' PROVE e + RewardDepth <= g
      OBVIOUS
    <3>1. CASE e \in answered
      BY <1>17, <2>2, <3>1, Zenon
    <3>2. CASE e \in DOMAIN submitted
      <4>1. e \in Epoch /\ e + RewardDepth <= f
        BY <1>1, <1>4, <3>2, Zenon DEF DepthOK
      <4> QED
        BY <4>1, EpochType, EvidenceAssumption
    <3> QED
      BY <1>3, <3>1, <3>2, Zenon
  <2> QED
    BY <1>2, <2>1, <2>2, <2>3, Zenon DEF DepthOK
<1>19. NoGap'
  <2> SUFFICES ASSUME NEW e \in ents, NEW k \in DOMAIN scores', e <= k, e \notin DOMAIN scores
               PROVE  e \in due
    BY <1>2, <1>13, Zenon DEF NoGap
  <2>1. e \in Epoch /\ k \in Epoch
    BY <1>4, <1>6, <1>8, <1>13, Zenon
  <2>2. CASE k \in due
    <3>1. k + FinalityDepth <= finalized
      BY <1>6, <1>8, <2>2, Zenon
    <3>2. e + FinalityDepth <= finalized
      BY <2>1, <3>1, EpochType, EvidenceAssumption
    <3> QED
      BY <1>8, <3>2, Zenon
  <2>3. CASE k \in DOMAIN scores
    <3>1. k + FinalityDepth <= f
      BY <1>1, <2>3, Zenon DEF DepthOK
    <3>2. ~(f <= e)
      BY <2>1, <3>1, EpochType, EvidenceAssumption
    <3>3. e \in entries
      BY <1>6, <3>2, Zenon
    <3> QED
      BY <1>1, <2>3, <3>3, Zenon DEF NoGap
  <2> QED
    BY <1>13, <2>2, <2>3, Zenon
<1>20. SettledEpochsClosed'
  <2> SUFFICES ASSUME NEW e \in DOMAIN scores' PROVE acc[e] \cap Relayed \subseteq scores'[e]
    BY <1>2, Zenon DEF SettledEpochsClosed
  <2>1. CASE e \in DOMAIN scores
    <3>1. e \in Epoch /\ e + FinalityDepth <= f
      BY <1>1, <1>4, <2>1, Zenon DEF DepthOK
    <3>2. acc[e] = accepted[e]
      BY <1>7, <3>1, Zenon
    <3> QED
      BY <1>1, <1>13, <2>1, <3>2, Zenon DEF SettledEpochsClosed
  <2>2. CASE e \in due
    <3>1. e \in {d \in due : d <= e}
      BY <1>6, <1>8, <2>2, EpochType
    <3>2. acc[e] \cap Relayed \in {acc[k] \cap Relayed : k \in {d \in due : d <= e}}
      BY <3>1, Zenon
    <3> QED
      BY <1>13, <2>2, <3>2, Zenon
  <2> QED
    BY <1>13, <2>1, <2>2, Zenon
<1>21. SubmittedIsComplete'
  <2> SUFFICES ASSUME NEW e \in DOMAIN submitted' PROVE submitted'[e] = acc[e] \cap Paying
    BY <1>2, Zenon DEF SubmittedIsComplete
  <2>1. CASE e \in answered
    BY <1>3, <2>1, Zenon
  <2>2. CASE e \notin answered
    <3>1. e \in DOMAIN submitted /\ submitted'[e] = submitted[e]
      BY <1>3, <2>2, Zenon
    <3>2. e \in Epoch /\ e + RewardDepth <= f
      BY <1>1, <1>4, <3>1, Zenon DEF DepthOK
    <3>3. acc[e] = accepted[e]
      BY <1>7, <3>2, Zenon
    <3> QED
      BY <1>1, <3>1, <3>3, Zenon DEF SubmittedIsComplete
  <2> QED
    BY <2>1, <2>2, Zenon
<1>22. /\ DOMAIN activated' \subseteq Epoch
       /\ \A e \in DOMAIN activated' : activated'[e] \subseteq Relayed
       /\ ActiveOK'
  BY <1>1, <1>2, <1>5, ActivateOK, Zenon
<1>23. latest_settled_epoch' \in DOMAIN scores' \cup {None}
  <2>1. CASE due = {}
    BY <1>2, <1>4, <1>13, <2>1, Zenon
  <2>2. CASE due # {}
    <3>1. due \subseteq Epoch
      BY <1>6, <1>8, Zenon
    <3>2. \E e \in due : \A k \in due : k <= e
      BY <2>2, <3>1, GreatestEpoch, Zenon
    <3> QED
      BY <1>2, <1>13, <2>2, <3>2, Zenon
  <2> QED
    BY <2>1, <2>2, Zenon
<1>24. TypeOK'
  <2>1. DOMAIN submitted' \subseteq Epoch
    BY <1>3, <1>4, <1>17, Zenon
  <2>2. DOMAIN scores' \subseteq entries'
    BY <1>2, <1>4, <1>6, <1>8, <1>13, Zenon
  <2> QED
    BY <1>2, <1>5, <1>6, <1>9, <1>15, <1>22, <1>23, <2>1, <2>2, Zenon DEF TypeOK
<1> QED
  BY <1>2, <1>5, <1>6, <1>10, <1>16, <1>18, <1>19, <1>20, <1>21, <1>22, <1>24, Zenon DEF RInv

-------------------------------------------------------------------------------------
(* The steps. *)

\* The runtime starts empty.
LEMMA InitInv == Init => IInv
<1> SUFFICES ASSUME Init PROVE IInv
  BY Zenon
<1> USE DEF Init
<1>1. /\ DOMAIN submitted = {} /\ DOMAIN scores = {} /\ DOMAIN activated = {}
      /\ Len(blocks) = 0
  BY Zenon DEF Empty
<1>2. 0 \in Epoch
  BY EvidenceAssumption DEF Epoch
<1>3. TypeOK
  BY <1>1, <1>2 DEF TypeOK
<1>4. CreditedOnce /\ DepthOK(finalized_checkpoint.epoch) /\ NoGap /\ ScoreOK /\ ActiveOK
      /\ SettledEpochsClosed /\ SubmittedIsComplete
  BY <1>1, Zenon DEF CreditedOnce, DepthOK, NoGap, ScoreOK, ActiveOK, SettledEpochsClosed,
              SubmittedIsComplete
<1>5. ChainOK
  BY <1>1 DEF ChainOK
<1> QED
  BY <1>3, <1>4, <1>5, Zenon DEF IInv, RInv

\* The parts of a block have their types.
LEMMA BlockType ==
  ASSUME TypeOK, NEW b \in 1..Len(blocks)
  PROVE  /\ blocks[b] \in Block /\ blocks[b].ancestors \subseteq Nat
         /\ blocks[b].epoch \in Epoch /\ blocks[b].finalized \in Epoch
         /\ blocks[b].body \in Body
<1>1. blocks \in Seq(Block)
  BY Zenon DEF TypeOK
<1>2. blocks[b] \in Block
  BY <1>1
<1> QED
  BY <1>2, Zenon DEF Block

\* A block that arrives or is built preserves the invariant.
LEMMA ProcessBlockInv ==
  ASSUME IInv, NEW parent \in BlockIds, NEW epoch \in Epoch, NEW finalized \in Epoch,
         NEW body \in Bodies, NEW imported \in BOOLEAN,
         Admissible(parent, epoch, finalized),
         ProcessBlock(parent, epoch, finalized, body, imported)
  PROVE  IInv'
<1> DEFINE ancestors == BlockAt(parent).ancestors \cup {parent}
           block == [parent |-> parent, ancestors |-> ancestors, epoch |-> epoch,
                     finalized |-> finalized, body |-> body, imported |-> imported]
<1> PICK f \in Epoch : f = finalized_checkpoint.epoch
  BY Zenon DEF IInv, RInv, TypeOK
<1>1. RInv(f) /\ ChainOK /\ TypeOK
  BY Zenon DEF IInv, RInv
<1>2. PerBlockProcessing(epoch, finalized, body) /\ blocks' = Append(blocks, block)
  BY Zenon DEF ProcessBlock
<1> PICK g : g = finalized_checkpoint'.epoch
  BY Zenon
<1>3. g \in Epoch /\ f <= g /\ finalized <= g
  <2>1. finalized_checkpoint' = IF finalized > finalized_checkpoint.epoch
          THEN [epoch |-> finalized, block |-> Checkpoint(ancestors, finalized)]
          ELSE finalized_checkpoint
    BY Zenon DEF ProcessBlock, Finalize
  <2> QED
    BY <2>1, EpochType
<1>4. f <= epoch
  BY Zenon DEF Admissible
<1>5. /\ blocks \in Seq(Block) /\ parent \in Nat
      /\ ancestors \subseteq Nat /\ body \in Body
  <2>1. blocks \in Seq(Block) /\ parent \in 0..Len(blocks)
    BY <1>1, Zenon DEF TypeOK, BlockIds
  <2>2. BlockAt(parent).ancestors \subseteq Nat
    <3>1. CASE parent = 0
      BY <3>1, Zenon DEF BlockAt, GenesisBlock
    <3>2. CASE parent \in 1..Len(blocks)
      <4>1. parent # 0 /\ blocks[parent].ancestors \subseteq Nat
        BY <1>1, <3>2, BlockType
      <4> QED
        BY <4>1, Zenon DEF BlockAt
    <3> QED
      BY <2>1, <3>1, <3>2
  <2> QED
    BY <2>1, <2>2, EvidenceAssumption
<1>6. block \in Block
  BY <1>5, Zenon DEF Block
<1>7. /\ block.finalized = finalized /\ block.body = body /\ block.epoch = epoch
  BY Zenon
<1> HIDE DEF block
<1>8. /\ blocks' \in Seq(Block) /\ Len(blocks') = Len(blocks) + 1
      /\ \A b \in 1..Len(blocks') : \/ b \in 1..Len(blocks) /\ blocks'[b] = blocks[b]
                                    \/ blocks'[b] = block
  BY <1>2, <1>5, <1>6
<1>9. /\ RInv(g)'
      /\ entries \subseteq entries' /\ (Touches(body) => epoch \in entries')
      /\ \A e \in Epoch : accepted[e] \subseteq accepted'[e]
      /\ Accepts(epoch, body) \subseteq accepted'[epoch]
  BY <1>1, <1>2, <1>3, <1>4, <1>5, <1>8, PerBlockInv, Zenon
<1>10. \A e \in Epoch : accepted'[e] \subseteq UNION {accepted'[k] : k \in Epoch}
  BY Zenon
<1>11. ValidTxs(body) \subseteq UNION {accepted'[e] : e \in Epoch}
  BY <1>9 DEF Accepts, AcceptedAnywhere, ValidTxs
<1>12. \A e \in Epoch : accepted[e] \subseteq UNION {accepted'[k] : k \in Epoch}
  BY <1>9, <1>10, Zenon
<1>13. UNION {accepted[e] : e \in Epoch} \subseteq UNION {accepted'[e] : e \in Epoch}
  BY <1>12, Zenon
<1>14. ChainOK'
  <2> SUFFICES ASSUME NEW b \in 1..Len(blocks')
               PROVE  /\ blocks'[b].finalized <= g
                      /\ ValidTxs(blocks'[b].body) \subseteq UNION {accepted'[e] : e \in Epoch}
                      /\ Touches(blocks'[b].body) => blocks'[b].epoch \in entries'
    BY Zenon DEF ChainOK, Recorded
  <2>1. CASE b \in 1..Len(blocks) /\ blocks'[b] = blocks[b]
    <3>1. blocks[b].finalized \in Epoch
      BY <1>1, <2>1, BlockType, Zenon
    <3>2. /\ blocks[b].finalized <= f
          /\ ValidTxs(blocks[b].body) \subseteq UNION {accepted[e] : e \in Epoch}
          /\ Touches(blocks[b].body) => blocks[b].epoch \in entries
      BY <1>1, <2>1, Zenon DEF ChainOK, Recorded
    <3> QED
      BY <1>3, <1>9, <1>13, <2>1, <3>1, <3>2, EpochType, SMTT(30)
  <2>2. CASE blocks'[b] = block
    BY <1>3, <1>7, <1>9, <1>11, <2>2, Zenon
  <2> QED
    BY <1>8, <2>1, <2>2, Zenon
<1> QED
  BY <1>9, <1>14, Zenon DEF IInv, RInv, DepthOK

\* Replaying a stored block preserves the invariant.
LEMMA ReplayInv ==
  ASSUME IInv, NEW b \in 1..Len(blocks), Replay(b)
  PROVE  IInv'
<1> PICK f \in Epoch : f = finalized_checkpoint.epoch
  BY Zenon DEF IInv, RInv, TypeOK
<1> PICK epoch, finalized, body :
      epoch = blocks[b].epoch /\ finalized = blocks[b].finalized /\ body = blocks[b].body
  BY Zenon
<1>1. RInv(f) /\ ChainOK /\ TypeOK
  BY Zenon DEF IInv, RInv
<1>2. epoch \in Epoch /\ finalized \in Epoch /\ body \in Body
  BY <1>1, BlockType, Zenon
<1>3. blocks' = blocks /\ finalized_checkpoint' = finalized_checkpoint
  BY Zenon DEF Replay, chain
<1>4. PerBlockProcessing(epoch, finalized, body)
  <2>1. b # 0
    OBVIOUS
  <2>2. BlockAt(b) = blocks[b]
    BY <2>1, Zenon DEF BlockAt
  <2> QED
    BY <2>2, Zenon DEF Replay
<1>5. finalized <= f /\ Recorded(epoch, body)
  BY <1>1, Zenon DEF ChainOK
<1>6. Accepts(epoch, body) = {} /\ (Touches(body) => epoch \in entries)
  BY <1>5, Zenon DEF Recorded, ValidTxs, Accepts, AcceptedAnywhere
<1>7. f <= f /\ blocks' \in Seq(Block) /\ finalized_checkpoint'.epoch \in Epoch
  BY <1>1, <1>3, EpochType DEF TypeOK
<1>8. /\ RInv(f)'
      /\ entries \subseteq entries'
      /\ \A e \in Epoch : accepted[e] \subseteq accepted'[e]
  BY <1>1, <1>2, <1>4, <1>5, <1>6, <1>7, PerBlockInv, Zenon
<1>9. \A e \in Epoch : accepted'[e] \subseteq UNION {accepted'[k] : k \in Epoch}
  BY Zenon
<1>10. \A e \in Epoch : accepted[e] \subseteq UNION {accepted'[k] : k \in Epoch}
  BY <1>8, <1>9, Zenon
<1>11. UNION {accepted[e] : e \in Epoch} \subseteq UNION {accepted'[e] : e \in Epoch}
  BY <1>10, Zenon
<1>12. ChainOK'
  BY <1>1, <1>3, <1>8, <1>11, Zenon DEF ChainOK, Recorded
<1> QED
  BY <1>3, <1>8, <1>12, Zenon DEF IInv, RInv, DepthOK

\* Looking up proposer duties preserves the invariant.
LEMMA DutiesInv ==
  ASSUME IInv, NEW p \in Epoch, Duties(p)
  PROVE  IInv'
<1>1. /\ UNCHANGED <<blocks, finalized_checkpoint, entries, accepted, credit_settled,
                     submitted, scores, latest_settled_epoch>>
      /\ activated' = Activate(p)
  BY Zenon DEF Duties, chain
<1>2. TypeOK /\ ScoreOK /\ ActiveOK
  BY Zenon DEF IInv, RInv
<1>3. /\ DOMAIN activated' \subseteq Epoch
      /\ \A e \in DOMAIN activated' : activated'[e] \subseteq Relayed
      /\ ActiveOK'
  BY <1>1, <1>2, ActivateOK, Zenon
<1>4. TypeOK'
  BY <1>1, <1>2, <1>3, Zenon DEF TypeOK
<1>5. ScoreOK'
  BY <1>1, <1>2, Zenon DEF ScoreOK, EvidenceUpTo
<1>6. /\ CreditedOnce' /\ DepthOK(finalized_checkpoint.epoch)' /\ NoGap'
      /\ SettledEpochsClosed' /\ SubmittedIsComplete' /\ ChainOK'
  <2>1. /\ CreditedOnce /\ DepthOK(finalized_checkpoint.epoch) /\ NoGap
        /\ SettledEpochsClosed /\ SubmittedIsComplete /\ ChainOK
    BY Zenon DEF IInv, RInv
  <2>2. CreditedOnce'
    BY <1>1, <2>1, Zenon DEF CreditedOnce
  <2>3. DepthOK(finalized_checkpoint.epoch)'
    BY <1>1, <2>1, Zenon DEF DepthOK
  <2>4. NoGap'
    BY <1>1, <2>1, Zenon DEF NoGap, Recorded
  <2>5. SettledEpochsClosed' /\ SubmittedIsComplete'
    BY <1>1, <2>1, Zenon DEF SettledEpochsClosed, SubmittedIsComplete
  <2>6. ChainOK'
    BY <1>1, <2>1, Zenon DEF ChainOK, Recorded
  <2> QED
    BY <2>2, <2>3, <2>4, <2>5, <2>6, Zenon
<1> QED
  BY <1>3, <1>4, <1>5, <1>6, Zenon DEF IInv, RInv

\* So does a step that changes nothing.
LEMMA StutterInv ==
  ASSUME IInv, UNCHANGED vars
  PROVE  IInv'
<1>1. UNCHANGED <<blocks, finalized_checkpoint, entries, accepted, credit_settled, submitted,
                  scores, latest_settled_epoch, activated>>
  BY Zenon DEF vars, chain, runtime
<1>2. TypeOK'
  BY <1>1, Zenon DEF IInv, RInv, TypeOK
<1>3. ScoreOK' /\ ActiveOK'
  BY <1>1 DEF IInv, RInv, ScoreOK, ActiveOK, EvidenceUpTo
<1>4. /\ CreditedOnce' /\ DepthOK(finalized_checkpoint.epoch)' /\ NoGap'
      /\ SettledEpochsClosed' /\ SubmittedIsComplete' /\ ChainOK'
  BY <1>1 DEF IInv, RInv, CreditedOnce, DepthOK, NoGap, SettledEpochsClosed,
              SubmittedIsComplete, ChainOK, Recorded
<1> QED
  BY <1>2, <1>3, <1>4, Zenon DEF IInv, RInv

-------------------------------------------------------------------------------------
(* The theorems. *)

\* The inductive invariant holds in every reachable state.
LEMMA Invariance == Spec => []IInv
<1>1. ASSUME IInv, [Next]_vars PROVE IInv'
  <2>1. ASSUME NEW parent \in BlockIds, NEW epoch \in Epoch, NEW finalized \in Epoch,
               Admissible(parent, epoch, finalized),
               NEW body \in Bodies, NEW imported \in BOOLEAN,
               ProcessBlock(parent, epoch, finalized, body, imported)
        PROVE  IInv'
    BY <1>1, <2>1, ProcessBlockInv, Zenon
  <2>2. ASSUME NEW b \in 1..Len(blocks), Replay(b) PROVE IInv'
    BY <1>1, <2>2, ReplayInv, Zenon
  <2>3. ASSUME NEW p \in Epoch, Duties(p) PROVE IInv'
    BY <1>1, <2>3, DutiesInv, Zenon
  <2>4. CASE UNCHANGED vars
    BY <1>1, <2>4, StutterInv, Zenon
  <2> QED
    BY <1>1, <2>1, <2>2, <2>3, <2>4, Zenon DEF Next
<1> QED
  BY InitInv, <1>1, PTL DEF Spec

\* The runtime keeps its type.
THEOREM TypeCorrect == Spec => []TypeOK
<1>1. IInv => TypeOK
  BY Zenon DEF IInv, RInv
<1> QED
  BY Invariance, <1>1, PTL

\* A transaction earns credit and score in one epoch only.
THEOREM RecordedOnce == Spec => []CreditedOnce
<1>1. IInv => CreditedOnce
  BY Zenon DEF IInv, RInv
<1> QED
  BY Invariance, <1>1, PTL

\* Evidence of an epoch moves no proposer weight before the activation delay is over,
\* for every delay, every pair of depths and every tree of blocks.
THEOREM DelayedActivation == Spec => []EvidenceDelay
<1>1. ASSUME IInv PROVE EvidenceDelay
  <2>1. TypeOK /\ CreditedOnce /\ ActiveOK
    BY <1>1, Zenon DEF IInv, RInv
  <2> SUFFICES ASSUME NEW p \in DOMAIN activated, NEW e \in Epoch,
                      NEW tx \in accepted[e] \cap activated[p]
               PROVE  e + ActivationDelay <= p
    BY Zenon DEF EvidenceDelay
  <2>2. PICK k \in Epoch : k <= p - ActivationDelay /\ tx \in accepted[k]
    BY <2>1, Zenon DEF ActiveOK, EvidenceUpTo
  <2>3. e = k
    BY <2>1, <2>2, Zenon DEF CreditedOnce
  <2>4. p \in Epoch
    BY <2>1, Zenon DEF TypeOK
  <2> QED
    BY <2>2, <2>3, <2>4, EpochType, EvidenceAssumption
<1> QED
  BY Invariance, <1>1, PTL

\* No evidence is recorded in an epoch whose scores are settled.
THEOREM ClosedEpochs == Spec => []SettledEpochsClosed
<1>1. IInv => SettledEpochsClosed
  BY Zenon DEF IInv, RInv
<1> QED
  BY Invariance, <1>1, PTL

\* Epochs settle in order.
THEOREM OrderedSettlement == Spec => []SettledInOrder
<1>1. ASSUME IInv PROVE SettledInOrder
  <2>1. TypeOK /\ NoGap
    BY <1>1, Zenon DEF IInv, RInv
  <2> SUFFICES ASSUME NEW e \in entries, e <= latest_settled_epoch PROVE e \in DOMAIN scores
    BY Zenon DEF SettledInOrder
  <2>2. e \in Nat
    BY <2>1, EpochType, Zenon DEF TypeOK
  <2>3. latest_settled_epoch # None
    BY <2>2 DEF None
  <2> QED
    BY <2>1, <2>3, Zenon DEF TypeOK, NoGap
<1> QED
  BY Invariance, <1>1, PTL

\* A submitted summary holds every credit its epoch will ever have.
THEOREM CompleteSubmission == Spec => []SubmittedIsComplete
<1>1. IInv => SubmittedIsComplete
  BY Zenon DEF IInv, RInv
<1> QED
  BY Invariance, <1>1, PTL
====================================================================================
