-------------------------------- MODULE SharedState -------------------------------
(* State that threads and tasks of one process share through mutexes and atomics:  *)
(* the winner and the stop flags of the mining threads of PowConsensus (Pow), and  *)
(* the availability flags and forward counters of the timer task and the nodes     *)
(* around an outage (OutageWindow).  The two share nothing with each other.        *)
EXTENDS Mining

CONSTANTS
  ValidatorLists, initial_difficulty, max_batches, HashBits, MaxDifficulty,
  Node, degree, outage_nodes, outage_start_epoch, outage_duration_epochs, MaxEpoch,
  MaxForwards

VARIABLES
  difficulty, validators, selected, main, late, expired, winner, lock, should_stop,
  at, position, any_running, batches, found, polled,
  current_epoch, step, scheduled_online, relay_forward_attempts,
  last_relay_forward_attempts, handler, left, outage_relay_attempts

Pow == INSTANCE Pow
Outage == INSTANCE OutageWindow

ASSUME SharedStateAssumption == Pow!PowAssumption /\ Outage!OutageAssumption

---------------------------------------------------------------------------------
\* select_proposer returns the recorded winner whenever there is one.
SelectedIsWinner == Pow!SelectedIsWinner

\* A hash that meets the difficulty is lost only to the poll holding the mutex.
FinderWinsUnlessPolled == Pow!FinderWinsUnlessPolled

\* Every call of PowConsensus::select_proposer returns.
SelectReturns == Pow!SelectReturns

\* At most one forward per node of the outage is sampled in its epochs (next_epoch).
OnsetDrain == Outage!OnsetDrain
=================================================================================
