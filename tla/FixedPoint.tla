-------------------------------- MODULE FixedPoint --------------------------------
(* The amounts behind EvidenceRuntime, in the integers the consensus client        *)
(* computes with: what a path is credited (record_topostake_path), what an epoch   *)
(* scores (topostake_settle_scores_through_epoch), the proposer weight that        *)
(* follows, and the loop that draws a proposer from the weights.  One epoch is     *)
(* recorded and settled at a time, and its scores are in force at once; which      *)
(* epochs settle when, and when scores activate, is the subject of EvidenceRuntime. *)
(* No score fixtures are configured.                                               *)
EXTENDS Sums, Sequences

CONSTANTS
  Validator,
  effective_balance,   \* of active validators
  SCALE,               \* TOPOSTAKE_FIXED_POINT_SCALE
  U64_MAX,
  target_depth,        \* score_target_depth
  fee_ratio,           \* proposer_fee_ratio_scaled
  reference_cost,      \* score_cost_reference_wei
  beta,                \* score_ema_beta_scaled
  saturation_k,        \* score_saturation_k_scaled
  kappa,               \* score_floor_kappa_scaled
  zeta,                \* bonus_zeta_scaled
  bonus_cap,           \* bonus_cap_scaled
  eta,                 \* eta_scaled
  Paths,               \* paths without repeated validators
  Fees, Costs,         \* of the transactions
  max_random,          \* MAX_RANDOM_VALUE
  MaxPaths,            \* bound: paths recorded in an epoch
  MaxEpochs            \* bound: epochs settled

None == "none"

\* All of them are unsigned integers, of 64 bits where the code has u64.
ASSUME FixedPointAssumption ==
  /\ IsFiniteSet(Validator) /\ Validator # {} /\ None \notin Validator
  /\ effective_balance \in [Validator -> Nat \ {0}]
  /\ {SCALE, target_depth, reference_cost} \subseteq Nat \ {0}
  /\ {beta, saturation_k, kappa, zeta, bonus_cap, eta, max_random} \subseteq Nat
  /\ U64_MAX \in Nat /\ SCALE <= U64_MAX
  /\ fee_ratio \in 0..SCALE
  /\ Fees \subseteq Nat /\ Costs \subseteq Nat /\ MaxPaths \in Nat \ {0}
  /\ Paths \subseteq Seq(Validator)
  /\ \A path \in Paths : \A i, j \in DOMAIN path : i # j => path[i] # path[j]

\* The fees of an epoch fit into 64 bits, so that no sum of credits saturates.
FeesFit == \A fee \in Fees : fee * MaxPaths <= U64_MAX

VARIABLES
  raw_contributions, proposer_credits, relay_credits,   \* of the epoch, by validator
  total_credit_budget, burned_credit,                   \* of the epoch
  valid_paths,
  latest_scores,
  epochs,       \* the number of settled epochs
  outdone,      \* pairs <<a, b>>: b contributed no more than a in every settled epoch
  untried,      \* candidates of the round that the election has not looked at
  proposer      \* None while the election goes on

credits == <<proposer_credits, relay_credits, total_credit_budget, burned_credit>>
record == <<raw_contributions, credits, valid_paths>>
settled == <<latest_scores, epochs, outdone>>
election == <<untried, proposer>>
fixed_vars == <<record, settled, election>>

Zero == [v \in Validator |-> 0]
Cap(x) == Min({x, U64_MAX})
saturating_add(x, y) == Cap(x + y)
saturating_sub(x, y) == Max({x - y, 0})

\* Mutant: the quotient is rounded up.
scaled_mul_div_up(value, multiplier, divisor) ==
  IF divisor = 0 THEN 0 ELSE Cap((value * multiplier + divisor - 1) \div divisor)

scaled_mul_div(value, multiplier, divisor) ==
  IF divisor = 0 THEN 0 ELSE Cap((value * multiplier) \div divisor)

total_active_balance == Sum(effective_balance)

FixedInit ==
  /\ raw_contributions = Zero /\ proposer_credits = Zero /\ relay_credits = Zero
  /\ total_credit_budget = 0 /\ burned_credit = 0 /\ valid_paths = 0
  /\ latest_scores = Zero /\ epochs = 0
  /\ outdone = Validator \X Validator
  /\ untried = Validator /\ proposer = None

-------------------------------------------------------------------------------------
(* Recording a path. *)

fixed_pow_scaled(base, exp) ==
  LET power[k \in 0..exp] == IF k = 0 THEN SCALE ELSE (power[k - 1] * base) \div SCALE
  IN  Cap(power[exp])

\* topostake_transaction_credit_weight_scaled
credit_weight(cost) ==
  IF cost = 0 THEN 0 ELSE Min({scaled_mul_div(cost, SCALE, reference_cost), SCALE})

\* topostake_path_budget_scaled
path_budget(edge_count) ==
  LET depth_factor == IF target_depth >= edge_count THEN SCALE
                      ELSE (target_depth * SCALE) \div edge_count
      lambda == ((2 * target_depth + 1) * SCALE) \div (3 * target_depth + 1)
  IN  Cap((depth_factor * fixed_pow_scaled(lambda, edge_count - 1)) \div SCALE)

RelayWeight(position) ==
  fixed_pow_scaled((target_depth * SCALE) \div (2 * target_depth + 1), position)

weight_sum(relays) == Sum([j \in 1..relays |-> RelayWeight(j - 1)])

\* topostake_path_relay_contributions, for the relays in their order: the validators
\* between the first and the last of the path.
relay_contributions(path) ==
  LET relays == Len(path) - 2
  IN  [j \in 1..relays |->
         Cap((path_budget(relays + 1) * RelayWeight(j - 1)) \div weight_sum(relays))]

\* What the amounts of the relays add to the sums of the validators.
AddToRelays(sums, path, amounts) ==
  [v \in Validator |->
     saturating_add(sums[v],
       Sum([j \in {j \in DOMAIN amounts : path[j + 1] = v} |-> amounts[j]]))]

\* record_topostake_credit: what is not distributed is burned.
record_topostake_credit(path, fee, block_proposer) ==
  LET proposer_credit == scaled_mul_div(fee, fee_ratio, SCALE)
      relay_budget == saturating_sub(fee, proposer_credit)
      contributions == relay_contributions(path)
      amounts == [j \in DOMAIN contributions |->
                    scaled_mul_div(relay_budget, contributions[j], SCALE)]
  IN  /\ proposer_credits' = [proposer_credits EXCEPT ![block_proposer] =
                                saturating_add(@, proposer_credit)]
      /\ relay_credits' = AddToRelays(relay_credits, path, amounts)
      /\ total_credit_budget' = saturating_add(total_credit_budget, fee)
      /\ burned_credit' = saturating_add(burned_credit,
                                         saturating_sub(relay_budget, Sum(amounts)))

\* record_topostake_path
RecordPath(path, fee, cost, block_proposer) ==
  LET contributions == relay_contributions(path)
      weighted == [j \in DOMAIN contributions |->
                     scaled_mul_div(contributions[j], credit_weight(cost), SCALE)]
  IN  /\ valid_paths < MaxPaths /\ epochs < MaxEpochs /\ proposer = None
      /\ valid_paths' = valid_paths + 1
      /\ raw_contributions' = AddToRelays(raw_contributions, path, weighted)
      /\ record_topostake_credit(path, fee, block_proposer)
      /\ UNCHANGED <<settled, election>>

-------------------------------------------------------------------------------------
(* Settling the scores of the epoch. *)

\* Mutant: the powers of the logarithm's series are those of x itself, with their
\* alternating signs.
fixed_ln_1p_direct(x) ==
  LET term[n \in 1..24] == IF n = 1 THEN x ELSE (term[n - 1] * Min({x, 4 * SCALE})) \div SCALE
      sum[n \in 0..8] == IF n = 0 THEN 0
                         ELSE IF n % 2 = 1 THEN sum[n - 1] + term[n] \div n
                         ELSE saturating_sub(sum[n - 1], term[n] \div n)
  IN  Cap(sum[8])

\* The series of ln(1 + x) in z = x / (1 + x), of at most 24 terms.
fixed_ln_1p_scaled(x) ==
  LET z == (x * SCALE) \div (x + SCALE)
      term[n \in 1..24] == IF n = 1 THEN z ELSE (term[n - 1] * z) \div SCALE
  IN  Cap(Sum([n \in 1..24 |-> term[n] \div n]))

\* topostake_saturate_contribution_scaled
saturate_contribution(raw, validator_balance) ==
  LET stake_share == scaled_mul_div(validator_balance, SCALE, total_active_balance)
      denominator == scaled_mul_div(saturation_k, stake_share, SCALE)
      ratio == scaled_mul_div(raw, SCALE, denominator)
  IN  IF stake_share = 0 \/ denominator = 0 THEN 0
      ELSE scaled_mul_div(stake_share, fixed_ln_1p_scaled(ratio), SCALE)

\* topostake_settle_scores_through_epoch for one epoch: a moving average.  The next
\* epoch starts without records.
SettleEpoch ==
  LET b == Min({beta, SCALE})
  IN  /\ epochs < MaxEpochs /\ proposer = None /\ untried = Validator
      /\ epochs' = epochs + 1
      /\ latest_scores' = [v \in Validator |->
           saturating_add(
             scaled_mul_div(
               saturate_contribution(raw_contributions[v], effective_balance[v]), b, SCALE),
             scaled_mul_div(latest_scores[v], SCALE - b, SCALE))]
      /\ outdone' = {p \in outdone : raw_contributions[p[2]] <= raw_contributions[p[1]]}
      /\ raw_contributions' = Zero /\ proposer_credits' = Zero /\ relay_credits' = Zero
      /\ total_credit_budget' = 0 /\ burned_credit' = 0 /\ valid_paths' = 0
      /\ UNCHANGED election

-------------------------------------------------------------------------------------
(* Electing a proposer. *)

\* concave_bonus_scaled
concave_bonus(score_to_stake) ==
  IF zeta + score_to_stake = 0 THEN 0
  ELSE Cap((bonus_cap * score_to_stake) \div (zeta + score_to_stake))

\* bonus_scaled_at_epoch_with_score_total
bonus_scaled(v) ==
  LET damped_denominator == kappa + Cap(Sum(latest_scores))
      damped_score == (latest_scores[v] * SCALE) \div damped_denominator
      stake_share == (effective_balance[v] * SCALE) \div total_active_balance
  IN  IF \/ latest_scores[v] = 0 \/ effective_balance[v] = 0
         \/ damped_denominator = 0 \/ stake_share = 0
        THEN 0
        ELSE concave_bonus(Cap((damped_score * SCALE) \div stake_share))

\* bonus_multiplier_from_bonus_scaled
bonus_multiplier(bonus) ==
  Cap(SCALE + (Min({eta, SCALE}) * Min({bonus, bonus_cap})) \div SCALE)

\* proposer_weight_scaled_at_epoch_with_score_total
proposer_weight(v) == effective_balance[v] * bonus_multiplier(bonus_scaled(v))

\* Mutant: the bound of max_proposer_weight_scaled, which no candidate need reach.
max_weight_possible ==
  Max({effective_balance[v] : v \in Validator}) * bonus_multiplier(bonus_cap)

max_proposer_weight == Max({proposer_weight(v) : v \in Validator})

\* One turn of the loop of compute_topostake_proposer_index, on settled scores: the
\* shuffle visits every candidate once in a round, and the random value decides.
TryCandidate(v, random_value) ==
  /\ epochs > 0 /\ valid_paths = 0 /\ proposer = None
  /\ v \in untried
  /\ IF proposer_weight(v) * max_random >= max_proposer_weight * random_value
       THEN proposer' = v /\ untried' = untried \ {v}
       ELSE /\ untried' = IF untried = {v} THEN Validator ELSE untried \ {v}
            /\ UNCHANGED proposer
  /\ UNCHANGED <<record, settled>>

FixedNext ==
  \/ \E path \in Paths, fee \in Fees, cost \in Costs, v \in Validator :
       RecordPath(path, fee, cost, v)
  \/ SettleEpoch
  \/ \E v \in Validator, random_value \in 0..max_random : TryCandidate(v, random_value)

FixedSpec == FixedInit /\ [][FixedNext]_fixed_vars

-------------------------------------------------------------------------------------
(* Properties. *)

\* No wei is lost or made up: however the divisions round, the credits of the proposers
\* and the relays and the burned rest add up to the fees of the epoch, so credit_summary
\* never reports a conservation_violation.
FeesConserved ==
  Sum(proposer_credits) + Sum(relay_credits) + burned_credit = total_credit_budget

\* Of two validators with the same stake, the one that contributed at least as much in
\* every settled epoch has at least the score of the other: neither the cut-off series
\* of the logarithm nor the rounding of the moving average turns the order around.
MoreRelayedScoresNoLess ==
  \A p \in outdone : effective_balance[p[1]] = effective_balance[p[2]]
                       => latest_scores[p[2]] <= latest_scores[p[1]]

\* The loop of compute_topostake_proposer_index looks at no candidate twice: whatever
\* the random values are, a candidate of the greatest weight is accepted when its turn
\* comes, so no second round begins.
ProposerInOneRound == [][untried' # Validator]_election
====================================================================================
