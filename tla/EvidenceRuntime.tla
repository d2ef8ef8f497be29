----------------------------- MODULE EvidenceRuntime -----------------------------
(* TopoStakeEvidenceRuntime of one consensus client: the process-wide memory of *)
(* the path evidence that the client's blocks carried, of the fee credits and   *)
(* the propagation scores that follow from it, and of the scores each proposer  *)
(* epoch uses.  Every block that reaches the end of per_block_processing changes *)
(* it: blocks of branches that lose, blocks the client builds itself, blocks    *)
(* that fail afterwards, and stored blocks replayed to rebuild a state.          *)
(* The model covers one life of the process; nothing of the runtime is on disk. *)
(* A score is kept as the set of transactions whose evidence it is made of: the *)
(* moving average of an epoch mixes its own evidence with the scores before it, *)
(* and does not decay to zero.  FixedPoint has the amounts.  Only the blocks    *)
(* that matter are there: one of the model may stand for a run of blocks without *)
(* evidence, and none sits on the first slot of an epoch.                        *)
EXTENDS Integers, Sequences, FiniteSets

CONSTANTS
  Tx,
  Relayed,          \* transactions whose path gives some validator a contribution
  Paying,           \* transactions with a priority fee to distribute
  Bodies,           \* the evidence a block may carry
  ActivationDelay,  \* score_activation_delay_epochs(), at least one
  FinalityDepth,    \* evidence_finality_depth
  RewardDepth,      \* reward_settlement_depth
  MaxEpoch,         \* bound: epochs
  MaxBlocks         \* bound: blocks processed

VARIABLES
  blocks,                \* the blocks processed, parents first; block 0 is the genesis
  finalized_checkpoint,  \* of fork choice: the epoch and the block below it
  entries,               \* epochs with an entry in TopoStakeEvidenceRuntime::epochs
  accepted,              \* accepted_tx_hashes of every epoch
  credit_settled,        \* transactions whose credit record is settled, by epoch
  submitted,             \* the transactions of the summary submitted for an epoch
  scores,                \* the scores of the epochs with score_settled
  latest_settled_epoch,  \* its scores are latest_scores
  activated              \* activated_scores_by_proposer_epoch

chain == <<blocks, finalized_checkpoint>>
runtime == <<entries, accepted, credit_settled, submitted, scores, latest_settled_epoch,
             activated>>
vars == <<chain, runtime>>

Epoch == 0..MaxEpoch
None == -1
Empty == [e \in {} |-> {}]

\* A record is tagged with the epoch its path was signed in, relative to its block's.
Record == [tx : Tx, tag : {"stale", "fresh", "future"}, path : {"valid", "invalid", "empty"}]
Body == [records : SUBSET Record, verified : BOOLEAN]

\* With a depth of zero the finalized epoch itself would settle while its blocks still
\* arrive; the configurations of the repository have depths of one and two.
ASSUME EvidenceAssumption ==
  /\ Relayed \subseteq Tx /\ Paying \subseteq Tx /\ Bodies \subseteq Body
  /\ ActivationDelay \in Nat \ {0}
  /\ FinalityDepth \in Nat \ {0}
  /\ RewardDepth \in Nat \ {0}
  /\ MaxEpoch \in Nat

Block == [parent : Nat, ancestors : SUBSET Nat, epoch : Epoch, finalized : Epoch,
          body : Body, imported : BOOLEAN]
GenesisBlock == [parent |-> None, ancestors |-> {}, epoch |-> 0, finalized |-> 0,
                 body |-> [records |-> {}, verified |-> TRUE], imported |-> TRUE]
BlockIds == 0..Len(blocks)
BlockAt(b) == IF b = 0 THEN GenesisBlock ELSE blocks[b]

Init ==
  /\ blocks = <<>>
  /\ finalized_checkpoint = [epoch |-> 0, block |-> 0]
  /\ entries = {}
  /\ accepted = [e \in Epoch |-> {}]
  /\ credit_settled = [e \in Epoch |-> {}]
  /\ submitted = Empty
  /\ scores = Empty
  /\ latest_settled_epoch = None
  /\ activated = Empty

-------------------------------------------------------------------------------------
(* The chain around the runtime: which blocks reach per_block_processing. *)

\* The checkpoint of epoch f seen from a block with these ancestors: the last of them
\* before the epoch starts.
Checkpoint(ancestors, f) ==
  CHOOSE b \in ancestors \cup {0} :
    /\ BlockAt(b).epoch < f \/ b = 0
    /\ \A a \in ancestors : BlockAt(a).epoch < f => a <= b

\* A block on this parent reaches per_block_processing: its state finalizes an epoch
\* two epochs back at most, and check_block_against_finalized_slot and the check that
\* it descends from the finalized checkpoint let it through.
Admissible(parent, epoch, finalized) ==
  /\ BlockAt(parent).imported
  /\ epoch >= BlockAt(parent).epoch
  /\ finalized >= BlockAt(parent).finalized
  /\ finalized = 0 \/ finalized + 2 <= epoch
  /\ epoch >= finalized_checkpoint.epoch
  /\ Checkpoint(BlockAt(parent).ancestors \cup {parent}, finalized_checkpoint.epoch)
       = finalized_checkpoint.block

\* Fork choice takes over the highest finalized checkpoint it has seen.
Finalize(ancestors, finalized) ==
  finalized_checkpoint' =
    IF finalized > finalized_checkpoint.epoch
      THEN [epoch |-> finalized, block |-> Checkpoint(ancestors, finalized)]
      ELSE finalized_checkpoint

-------------------------------------------------------------------------------------
(* The runtime. *)

\* record_topostake_tx_gossip_metadata_for_block: records from a later epoch, or an
\* aggregate that does not verify, invalidate all; stale ones count as invalid.
FreshRecords(body) ==
  IF body.verified /\ \A r \in body.records : r.tag # "future"
    THEN {r \in body.records : r.tag = "fresh"}
    ELSE {}

\* Mutant: only the hashes of the block's own epoch are looked at.
AcceptedInEpoch(epoch) == accepted[epoch]

\* accepted_tx_hashes of the runtime: a transaction is recorded once over all epochs.
AcceptedAnywhere(epoch) == UNION {accepted[e] : e \in Epoch}

Accepts(epoch, body) ==
  {r.tx : r \in {r \in FreshRecords(body) : r.path = "valid"}} \ AcceptedAnywhere(epoch)

\* Whether recording the body touches the entry of its epoch: an invalid aggregate and
\* stale records do, and fresh records unless their path is empty.
Touches(body) ==
  body.records # {} /\ ~ \A r \in body.records : r \in FreshRecords(body) /\ r.path = "empty"

\* Mutant: credits settle without the depth.
SettleCreditsAtOnce(acc, finalized) ==
  [e \in Epoch |-> IF e <= finalized THEN acc[e] \cap Paying ELSE credit_settled[e]]

\* topostake_settle_credits_through_epoch
SettleCredits(acc, finalized) ==
  [e \in Epoch |-> IF e + RewardDepth <= finalized THEN acc[e] \cap Paying
                   ELSE credit_settled[e]]

\* The epochs submit_topostake_finalized_settlements sends: settled records, none of
\* them pending, not yet marked.
Submittable(acc, settled, finalized) ==
  {e \in Epoch \ DOMAIN submitted :
     e <= finalized /\ settled[e] # {} /\ acc[e] \cap Paying = settled[e]}

\* Mutant: scores settle without the depth.
ScoresDueAtOnce(ents, finalized) == {e \in ents \ DOMAIN scores : e <= finalized}

\* The epochs topostake_settle_scores_through_epoch settles, in ascending order.
ScoresDue(ents, finalized) ==
  {e \in ents \ DOMAIN scores : e + FinalityDepth <= finalized}

LatestScores == IF latest_settled_epoch = None THEN {} ELSE scores[latest_settled_epoch]

SettleScores(due, acc) ==
  [e \in DOMAIN scores \cup due |->
     IF e \in due
       THEN LatestScores \cup UNION {acc[k] \cap Relayed : k \in {d \in due : d <= e}}
       ELSE scores[e]]

\* Mutant: the latest scores are used without a delay.
EligibleAtOnce(proposer_epoch) == LatestScores

\* The settled, nonempty score map of the latest epoch that is old enough.
EligibleScores(proposer_epoch) ==
  LET eligible == {e \in DOMAIN scores :
                     e <= proposer_epoch - ActivationDelay /\ scores[e] # {}}
  IN  IF eligible = {} THEN {}
      ELSE scores[CHOOSE e \in eligible : \A k \in eligible : k <= e]

\* topostake_evidence_scores_for_epoch: the first lookup of an epoch is cached.
Activate(proposer_epoch) ==
  IF proposer_epoch \in DOMAIN activated \/ proposer_epoch < ActivationDelay
    THEN activated
    ELSE [e \in DOMAIN activated \cup {proposer_epoch} |->
            IF e \in DOMAIN activated THEN activated[e] ELSE EligibleScores(proposer_epoch)]

\* per_block_processing.  The proposer of the block's epoch is computed first, then the
\* evidence is recorded, and then the finalized epoch of the block's state settles
\* credits, submits them (the execution clients may not answer) and settles scores.
PerBlockProcessing(epoch, finalized, body) ==
  LET acc == [accepted EXCEPT ![epoch] = @ \cup Accepts(epoch, body)]
      ents == IF Touches(body) THEN entries \cup {epoch} ELSE entries
      settled == SettleCredits(acc, finalized)
      due == ScoresDue(ents, finalized)
  IN  /\ activated' = Activate(epoch)
      /\ accepted' = acc
      /\ entries' = ents
      /\ credit_settled' = settled
      /\ \E answered \in SUBSET Submittable(acc, settled, finalized) :
           submitted' = [e \in DOMAIN submitted \cup answered |->
                           IF e \in answered THEN acc[e] \cap Paying ELSE submitted[e]]
      /\ scores' = SettleScores(due, acc)
      /\ latest_settled_epoch' = IF due = {} THEN latest_settled_epoch
                                 ELSE CHOOSE e \in due : \A k \in due : k <= e

\* A block arrives, or the client builds one.  It is imported unless it fails after
\* its evidence is recorded or is never published; by then fork choice has pulled up
\* the finality that its parent's chain reached.
ProcessBlock(parent, epoch, finalized, body, imported) ==
  LET ancestors == BlockAt(parent).ancestors \cup {parent}
  IN  /\ PerBlockProcessing(epoch, finalized, body)
      /\ Finalize(ancestors, finalized)
      /\ blocks' = Append(blocks,
           [parent |-> parent, ancestors |-> ancestors, epoch |-> epoch,
            finalized |-> finalized, body |-> body, imported |-> imported])

\* The block replayer rebuilds a state from stored blocks, of any branch and age.  It
\* does not compute the proposer; that was done when the block came first, so the
\* scores of its epoch are cached.
Replay(b) ==
  /\ BlockAt(b).imported
  /\ PerBlockProcessing(BlockAt(b).epoch, BlockAt(b).finalized, BlockAt(b).body)
  /\ UNCHANGED chain

\* Proposer duties of an epoch up to the one after the newest block.
Duties(proposer_epoch) ==
  /\ \E b \in BlockIds : proposer_epoch <= BlockAt(b).epoch + 1
  /\ activated' = Activate(proposer_epoch)
  /\ UNCHANGED <<chain, entries, accepted, credit_settled, submitted, scores,
                 latest_settled_epoch>>

Next ==
  \/ \E parent \in BlockIds, epoch \in Epoch, finalized \in Epoch :
       /\ Len(blocks) < MaxBlocks
       /\ Admissible(parent, epoch, finalized)
       /\ \E body \in Bodies, imported \in BOOLEAN :
            ProcessBlock(parent, epoch, finalized, body, imported)
  \/ \E b \in 1..Len(blocks) : Replay(b)
  \/ \E proposer_epoch \in Epoch : Duties(proposer_epoch)

Spec == Init /\ [][Next]_vars

-------------------------------------------------------------------------------------
(* Properties. *)

TypeOK ==
  /\ blocks \in Seq(Block)
  /\ finalized_checkpoint.epoch \in Epoch
  /\ entries \subseteq Epoch
  /\ accepted \in [Epoch -> SUBSET Tx]
  /\ credit_settled \in [Epoch -> SUBSET Paying]
  /\ DOMAIN submitted \subseteq Epoch
  /\ DOMAIN scores \subseteq entries
  /\ \A e \in DOMAIN scores : scores[e] \subseteq Relayed
  /\ latest_settled_epoch \in DOMAIN scores \cup {None}
  /\ DOMAIN activated \subseteq Epoch
  /\ \A e \in DOMAIN activated : activated[e] \subseteq Relayed

\* A transaction earns credit and score in one epoch only, although blocks of several
\* branches and epochs carry its evidence.
CreditedOnce ==
  \A e, k \in Epoch : e # k => accepted[e] \cap accepted[k] = {}

\* Evidence of an epoch never moves the proposer weights of an epoch less than the
\* activation delay later, its own included, whatever branch, late block or postponed
\* settlement it came through.
EvidenceDelay ==
  \A p \in DOMAIN activated : \A e \in Epoch :
    accepted[e] \cap activated[p] # {} => e + ActivationDelay <= p

\* No evidence reaches an epoch after its scores are settled: the block would have
\* been refused, because the settled epoch is finalized with depth to spare.
SettledEpochsClosed ==
  \A e \in DOMAIN scores : accepted[e] \cap Relayed \subseteq scores[e]

\* Epochs settle in their order: none at or below the latest settled one is left out,
\* so a later average never feeds an earlier epoch.
SettledInOrder ==
  \A e \in entries : e <= latest_settled_epoch => e \in DOMAIN scores

\* A submitted summary is complete: no credit of its epoch is recorded afterwards and
\* left unpaid.
SubmittedIsComplete ==
  \A e \in DOMAIN submitted : submitted[e] = accepted[e] \cap Paying

\* "Score settlement still requires a finalized canonical epoch": what is scored was
\* carried in that epoch by a block below the finalized checkpoint.
CanonicalScores ==
  LET checkpoint == finalized_checkpoint.block
      canonical == BlockAt(checkpoint).ancestors \cup {checkpoint}
  IN  \A e \in DOMAIN scores : \A tx \in accepted[e] \cap scores[e] :
        \E a \in canonical :
          /\ BlockAt(a).epoch = e
          /\ \E r \in FreshRecords(BlockAt(a).body) : r.tx = tx
====================================================================================
