------------------------------- MODULE RewardCurve --------------------------------
(* What the relays of a path are credited: path_budget_for_depth, alpha_for_depth  *)
(* and gamma_for_depth of src/consensus/topostake.rs, and the padding of a path    *)
(* that src/security_eval.rs evaluates.  The code computes with f64; here the      *)
(* values are exact fractions.  The fractions of one path length share their       *)
(* denominator, so only numerators are added, and a path is compared with the one  *)
(* that has a relay more.                                                          *)
EXTENDS Sums, Sequences

CONSTANTS
  Depth,            \* values of target_depth
  max_path_hops     \* bound: of the path length, for each depth

ASSUME CurveAssumption ==
  \A d \in Depth : d \in Nat \ {0} /\ max_path_hops[d] \in Nat /\ max_path_hops[d] >= 3

VARIABLES
  depth,
  coalition     \* for each relay of the path, whether the coalition controls it

curve_vars == <<depth, coalition>>

\* The hops of the path: its relays and the proposer.
path_length == Len(coalition) + 1

---------------------------------------------------------------------------------
\* alpha_for_depth(d, position, m) is AlphaShare / AlphaTotal: with
\* r_for_depth = d / (2 d + 1), both are multiplied by (2 d + 1)^(m - 1).
AlphaShare(d, position, m) ==
  (d + 1) * Power(d, position - 1) * Power(2 * d + 1, m - 1 - position)

AlphaTotal(d, m) == Power(2 * d + 1, m - 1) - Power(d, m - 1)

\* Mutant: longer paths are not discounted by lambda_for_depth.
BudgetRatioUndiscounted(d, m) == <<Min({d, m + 1}) * m, Min({d, m}) * (m + 1)>>

\* path_budget_for_depth(d, m + 1) / path_budget_for_depth(d, m): the capped depth
\* by the length, and one more factor lambda_for_depth = (2 d + 1) / (3 d + 1).
BudgetRatio(d, m) ==
  <<Min({d, m + 1}) * m * (2 * d + 1), Min({d, m}) * (m + 1) * (3 * d + 1)>>

\* credit: the shares of the relays in S, over AlphaTotal(d, m).
credit(d, m, S) == Sum([i \in S |-> AlphaShare(d, i, m)])

Held(c) == {i \in 1..Len(c) : c[i]}

CurveInit ==
  /\ depth \in Depth
  /\ coalition \in UNION {[1..k -> BOOLEAN] : k \in 1..(max_path_hops[depth] - 2)}

\* evaluate_padding_case, one identity at a time: the relay at position i puts
\* another identity of the coalition next to itself.
Pad(i) ==
  /\ coalition[i] /\ path_length < max_path_hops[depth]
  /\ coalition' = SubSeq(coalition, 1, i) \o SubSeq(coalition, i, Len(coalition))
  /\ UNCHANGED depth

CurveNext == \E i \in 1..Len(coalition) : Pad(i)

CurveSpec == CurveInit /\ [][CurveNext]_curve_vars

---------------------------------------------------------------------------------
\* Coalition credit never increases by padding a path with further identities of
\* the coalition, wherever the other relays of the coalition are.
PaddingNeverPays ==
  [][LET m     == path_length
         ratio == BudgetRatio(depth, m)
     IN  credit(depth, m + 1, Held(coalition')) * AlphaTotal(depth, m) * ratio[1]
           <= credit(depth, m, Held(coalition)) * AlphaTotal(depth, m + 1) * ratio[2]
    ]_curve_vars
=================================================================================
