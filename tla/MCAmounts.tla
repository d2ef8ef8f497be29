-------------------------------- MODULE MCAmounts ---------------------------------
(* The three components whose state is amounts: the balances of the simulator      *)
(* (Accounts), the exact reward curve (RewardCurve), and the fixed-point credits   *)
(* and scores of the consensus client (FixedPoint).  They share nothing; the       *)
(* initial state chooses the one that runs.                                        *)
EXTENDS MCAccounts, RewardCurve, FixedPoint

VARIABLE component

ASSUME MCFeesFit == FeesFit

\* Every path length whose fractions fit into 32 bits; 4 is the frozen depth.
MCDepth == 1..4
MCHops == <<9, 6, 5, 5>>

MCValidator == {"v1", "v2", "v3", "v4"}
MCBalance == [v1 |-> 8, v2 |-> 8, v3 |-> 3, v4 |-> 1]
MCPaths == {<<"v4", "v1">>, <<"v3", "v1", "v4">>, <<"v4", "v2", "v1", "v3">>,
            <<"v3", "v1", "v2", "v4">>}

MCInit ==
  /\ Init /\ FixedInit
  /\ \/ component \in {"accounts", "fixed_point"} /\ depth = 1 /\ coalition = <<FALSE>>
     \/ component = "reward_curve" /\ CurveInit

MCNext ==
  \/ component = "accounts" /\ Next /\ UNCHANGED <<component, curve_vars, fixed_vars>>
  \/ component = "reward_curve" /\ CurveNext /\ UNCHANGED <<component, vars, fixed_vars>>
  \/ component = "fixed_point" /\ FixedNext /\ UNCHANGED <<component, vars, curve_vars>>

MCSpec == MCInit /\ [][MCNext]_<<component, vars, curve_vars, fixed_vars>>
=================================================================================
