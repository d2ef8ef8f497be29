------------------------------ MODULE OutageWindow ------------------------------
(* The scheduled outage of src/network/world_state.rs against the handlers of   *)
(* src/network/node.rs that are running when it begins and ends.  The world     *)
(* state stores the availability flags and samples the forward counters inside  *)
(* next_epoch; a node loads its flag before every forward and counts the        *)
(* forward later.  All of these are single atomic operations that interleave.   *)
(* The experiment report experiments/sustained_outage_report.py adds up the     *)
(* samples of the outage epochs.                                                *)
EXTENDS Naturals

CONSTANTS
  Node,
  degree,                  \* the number of neighbours of each node
  outage_nodes,            \* the nodes of the scheduled outage
  outage_start_epoch,      \* not 0: epoch 0 runs before the flags are first stored
  outage_duration_epochs,  \* 0: the outage never ends
  MaxEpoch,                \* bound: the last epoch
  MaxForwards              \* bound: a node takes no message once it forwarded so often

OutageAssumption ==
  /\ degree \in [Node -> Nat]
  /\ outage_nodes \subseteq Node
  /\ outage_start_epoch \in Nat \ {0} /\ outage_duration_epochs \in Nat
  /\ MaxEpoch \in Nat /\ MaxForwards \in Nat

VARIABLES
  current_epoch,
  step,                         \* where the world state is in next_epoch
  scheduled_online,             \* the flag shared by the world state and each node
  relay_forward_attempts,       \* the counter shared in the same way
  last_relay_forward_attempts,  \* its value at the last sample
  handler,                      \* of SendTransactionPaths, on each node
  left,                         \* the neighbours the loop of the handler still has
  outage_relay_attempts         \* the sum of the samples taken for outage epochs

world == <<current_epoch, step, last_relay_forward_attempts, outage_relay_attempts>>
vars == <<world, scheduled_online, relay_forward_attempts, handler, left>>

scheduled_outage_active(e) ==
  /\ outage_nodes # {}
  /\ e >= outage_start_epoch
  /\ outage_duration_epochs = 0 \/ e < outage_start_epoch + outage_duration_epochs

\* update_scheduled_availability: the flags for epoch e.
Availability(e) ==
  [n \in Node |-> ~scheduled_outage_active(e) \/ n \notin outage_nodes]

---------------------------------------------------------------------------------
Init ==
  /\ current_epoch = 0
  /\ step = "slot"
  /\ scheduled_online = [n \in Node |-> TRUE]
  /\ relay_forward_attempts = [n \in Node |-> 0]
  /\ last_relay_forward_attempts = [n \in Node |-> 0]
  /\ handler = [n \in Node |-> "idle"]
  /\ left = [n \in Node |-> 0]
  /\ outage_relay_attempts = [n \in Node |-> 0]

\* next_slot within an epoch stores the flags of the epoch once more.
NextSlot ==
  /\ step = "slot"
  /\ scheduled_online' = Availability(current_epoch)
  /\ UNCHANGED <<world, relay_forward_attempts, handler, left>>

\* next_epoch, up to the sample: an outage epoch closes the flags first.
BeginNextEpoch ==
  /\ step = "slot" /\ current_epoch < MaxEpoch
  /\ step' = "sample"
  /\ scheduled_online' = IF scheduled_outage_active(current_epoch + 1)
                         THEN Availability(current_epoch + 1) ELSE scheduled_online
  /\ UNCHANGED <<current_epoch, last_relay_forward_attempts, outage_relay_attempts,
                 relay_forward_attempts, handler, left>>

\* The sample of the epoch that ends: each counter less its previous value.
collect_epoch_metrics ==
  /\ step = "sample"
  /\ step' = "reopen"
  /\ last_relay_forward_attempts' = relay_forward_attempts
  /\ outage_relay_attempts' = [n \in Node |->
       IF scheduled_outage_active(current_epoch) /\ n \in outage_nodes
       THEN outage_relay_attempts[n]
              + (relay_forward_attempts[n] - last_relay_forward_attempts[n])
       ELSE outage_relay_attempts[n]]
  /\ UNCHANGED <<current_epoch, scheduled_online, relay_forward_attempts, handler, left>>

\* next_epoch, after the sample: an online epoch opens the flags only now.
FinishNextEpoch ==
  /\ step = "reopen"
  /\ step' = "slot"
  /\ scheduled_online' = IF ~scheduled_outage_active(current_epoch + 1)
                         THEN Availability(current_epoch + 1) ELSE scheduled_online
  /\ current_epoch' = current_epoch + 1
  /\ UNCHANGED <<last_relay_forward_attempts, outage_relay_attempts,
                 relay_forward_attempts, handler, left>>

\* The message loop takes a transaction; while the flag is off it drops it.
Receive(n) ==
  /\ handler[n] = "idle" /\ scheduled_online[n]
  /\ relay_forward_attempts[n] < MaxForwards
  /\ handler' = [handler EXCEPT ![n] = "loop"]
  /\ left' = [left EXCEPT ![n] = degree[n]]
  /\ UNCHANGED <<world, scheduled_online, relay_forward_attempts>>

\* Mutant: the flag is not loaded again for each neighbour.
CheckFlagOnce(n) ==
  /\ handler[n] = "loop"
  /\ handler' = [handler EXCEPT ![n] = IF left[n] > 0 THEN "checked" ELSE "idle"]
  /\ UNCHANGED <<world, scheduled_online, relay_forward_attempts, left>>

\* The loop over the neighbours ends, or breaks because the flag is off.
CheckFlag(n) ==
  /\ handler[n] = "loop"
  /\ handler' = [handler EXCEPT ![n] =
                   IF left[n] > 0 /\ scheduled_online[n] THEN "checked" ELSE "idle"]
  /\ UNCHANGED <<world, scheduled_online, relay_forward_attempts, left>>

\* The neighbour is skipped (it is the sender, the relay profile decides against
\* it, or it is on the path already), or the forward is signed and counted.
Forward(n) ==
  /\ handler[n] = "checked"
  /\ handler' = [handler EXCEPT ![n] = "loop"]
  /\ left' = [left EXCEPT ![n] = @ - 1]
  /\ \/ relay_forward_attempts' = [relay_forward_attempts EXCEPT ![n] = @ + 1]
     \/ UNCHANGED relay_forward_attempts
  /\ UNCHANGED <<world, scheduled_online>>

Next ==
  \/ NextSlot \/ BeginNextEpoch \/ collect_epoch_metrics \/ FinishNextEpoch
  \/ \E n \in Node : Receive(n) \/ CheckFlag(n) \/ Forward(n)

Spec == Init /\ [][Next]_vars

---------------------------------------------------------------------------------
\* The handler checks only while neighbours are left, a sample is never ahead of
\* its counter, and a handler forwards to each neighbour at most once.
TypeOK ==
  /\ current_epoch \in Nat
  /\ step \in {"slot", "sample", "reopen"}
  /\ scheduled_online \in [Node -> BOOLEAN]
  /\ relay_forward_attempts \in [Node -> Nat]
  /\ last_relay_forward_attempts \in [Node -> Nat]
  /\ handler \in [Node -> {"idle", "loop", "checked"}]
  /\ left \in [Node -> Nat]
  /\ outage_relay_attempts \in [Node -> Nat]
  /\ \A n \in Node : /\ last_relay_forward_attempts[n] <= relay_forward_attempts[n]
                     /\ relay_forward_attempts[n] <= MaxForwards + degree[n]
                     /\ handler[n] = "checked" => left[n] > 0

\* What the outage epochs report of a node that is out: the one forward whose
\* flag it had loaded before the onset, and nothing that it forwards after the
\* recovery, however late the handler runs.
OnsetDrain == \A n \in outage_nodes : outage_relay_attempts[n] <= 1
=================================================================================
