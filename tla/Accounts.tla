-------------------------------- MODULE Accounts --------------------------------
(* The two copies of every account balance: Node::balance (src/network/node.rs) *)
(* and account_balances of the world state (src/network/world_state.rs).  Each  *)
(* side changes its own copy and sends the other one the new absolute value:    *)
(* the node when it pays for a transaction, the world state when a reward is    *)
(* settled.  The transaction generator (src/network/mod.rs) asks a node for a   *)
(* transaction and then charges it to fee_spent.                                *)
EXTENDS Integers, Sequences, FiniteSets

CONSTANTS
  Node,
  stake,               \* the balance both copies start with, by node
  transaction_cost,    \* twice the transaction fee
  may_be_offline,      \* the nodes that may be offline and skip messages
  node_capacity,       \* of a node's channel
  world_capacity,      \* of the world state's channel
  MaxEmitted,          \* bound: the cost of the transactions asked for, per node
  MaxRewards           \* bound: rewards settled, per node

ASSUME AccountsAssumption ==
  /\ stake \in [Node -> Nat]
  /\ transaction_cost \in Nat
  /\ may_be_offline \subseteq Node

VARIABLES
  balance,            \* of the node
  account_balances,   \* of the world state
  inbox,              \* the channel of each node
  world_inbox,        \* the channel of the world state
  emitting,           \* the cost of the request the generator has not charged yet
  fee_spent,          \* the generator's ledger
  paid,               \* what the node has paid
  earned              \* rewards settled for the node

network == <<inbox, world_inbox>>
ledgers == <<emitting, fee_spent, paid, earned>>
vars == <<balance, account_balances, network, ledgers>>

Generate == [type |-> "GenerateTransactionPaths"]
UpdateNodeBalance(b) == [type |-> "UpdateNodeBalance", new_balance |-> b]
UpdateAccountBalance(n, b) == [address |-> n, new_balance |-> b]

Init ==
  /\ balance = stake
  /\ account_balances = stake
  /\ inbox = [n \in Node |-> <<>>]
  /\ world_inbox = <<>>
  /\ emitting = [n \in Node |-> 0]
  /\ fee_spent = [n \in Node |-> 0]
  /\ paid = [n \in Node |-> 0]
  /\ earned = [n \in Node |-> 0]

\* emit_one_transaction up to its try_send; without room nothing is charged.  The
\* generator charges one request before it makes the next.
Emit(n) ==
  /\ \A k \in Node : emitting[k] = 0
  /\ fee_spent[n] < MaxEmitted
  /\ Len(inbox[n]) < node_capacity
  /\ inbox' = [inbox EXCEPT ![n] = Append(@, Generate)]
  /\ emitting' = [emitting EXCEPT ![n] = @ + transaction_cost]
  /\ UNCHANGED <<balance, account_balances, world_inbox, fee_spent, paid, earned>>

\* Mutant: the ledger has the fee without the protocol cost.
ChargeFeeOnly(n) ==
  /\ emitting[n] >= transaction_cost
  /\ emitting' = [emitting EXCEPT ![n] = @ - transaction_cost]
  /\ fee_spent' = [fee_spent EXCEPT ![n] = @ + transaction_cost \div 2]
  /\ UNCHANGED <<balance, account_balances, network, paid, earned>>

\* emit_one_transaction after its try_send.
Charge(n) ==
  /\ emitting[n] >= transaction_cost
  /\ emitting' = [emitting EXCEPT ![n] = @ - transaction_cost]
  /\ fee_spent' = [fee_spent EXCEPT ![n] = @ + transaction_cost]
  /\ UNCHANGED <<balance, account_balances, network, paid, earned>>

\* Node n takes m from its channel.
Receives(n, m) ==
  /\ inbox[n] # <<>> /\ m = Head(inbox[n])
  /\ inbox' = [inbox EXCEPT ![n] = Tail(@)]

\* An offline node skips the message.
Skip(n) ==
  /\ n \in may_be_offline
  /\ Receives(n, Head(inbox[n]))
  /\ UNCHANGED <<balance, account_balances, world_inbox, ledgers>>

\* deduct_balance succeeds.
deduct_balance(n) == balance[n] >= transaction_cost

\* GenerateTransactionPaths: the node pays before anything else and then waits
\* for room in the world state's channel.  Nothing returns the payment when the
\* mempool turns out to be full.
GenerateTransactionPaths(n) ==
  /\ Receives(n, Generate)
  /\ \/ /\ deduct_balance(n) /\ Len(world_inbox) < world_capacity
        /\ balance' = [balance EXCEPT ![n] = @ - transaction_cost]
        /\ paid' = [paid EXCEPT ![n] = @ + transaction_cost]
        /\ world_inbox' = Append(world_inbox,
                            UpdateAccountBalance(n, balance[n] - transaction_cost))
     \/ /\ ~deduct_balance(n)
        /\ UNCHANGED <<balance, paid, world_inbox>>
  /\ UNCHANGED <<account_balances, emitting, fee_spent, earned>>

\* UpdateNodeBalance overwrites the node's copy.
set_balance(n) ==
  /\ inbox[n] # <<>> /\ Head(inbox[n]).type = "UpdateNodeBalance"
  /\ Receives(n, Head(inbox[n]))
  /\ balance' = [balance EXCEPT ![n] = Head(inbox[n]).new_balance]
  /\ UNCHANGED <<account_balances, world_inbox, ledgers>>

\* UpdateAccountBalance overwrites the world state's copy.
ReceiveAccountBalance ==
  /\ world_inbox # <<>>
  /\ LET m == Head(world_inbox) IN
       account_balances' = [account_balances EXCEPT ![m.address] = m.new_balance]
  /\ world_inbox' = Tail(world_inbox)
  /\ UNCHANGED <<balance, inbox, ledgers>>

\* Mutant: the node is sent the reward instead of the new balance.
ApplyRewardSendingDelta(n) ==
  /\ earned[n] < MaxRewards /\ Len(inbox[n]) < node_capacity
  /\ earned' = [earned EXCEPT ![n] = @ + 1]
  /\ account_balances' = [account_balances EXCEPT ![n] = @ + 1]
  /\ inbox' = [inbox EXCEPT ![n] = Append(@, UpdateNodeBalance(1))]
  /\ UNCHANGED <<balance, world_inbox, emitting, fee_spent, paid>>

\* apply_canonical_block settles a reward for n: it adds the reward to the world
\* state's copy and waits until the node's channel takes the new balance.  No
\* UpdateAccountBalance is handled meanwhile: the world state is locked.
ApplyReward(n) ==
  /\ earned[n] < MaxRewards /\ Len(inbox[n]) < node_capacity
  /\ earned' = [earned EXCEPT ![n] = @ + 1]
  /\ account_balances' = [account_balances EXCEPT ![n] = @ + 1]
  /\ inbox' = [inbox EXCEPT ![n] = Append(@, UpdateNodeBalance(account_balances[n] + 1))]
  /\ UNCHANGED <<balance, world_inbox, emitting, fee_spent, paid>>

Next ==
  \/ ReceiveAccountBalance
  \/ \E n \in Node :
       \/ Emit(n) \/ Charge(n) \/ Skip(n)
       \/ GenerateTransactionPaths(n) \/ set_balance(n)
       \/ ApplyReward(n)

Spec == Init /\ [][Next]_vars

---------------------------------------------------------------------------------
NodeMessage == {Generate} \cup [type : {"UpdateNodeBalance"}, new_balance : Nat]
AccountMessage == [address : Node, new_balance : Nat]

\* No copy of a balance, in memory or on its way, is ever negative.
TypeOK ==
  /\ balance \in [Node -> Nat]
  /\ account_balances \in [Node -> Nat]
  /\ inbox \in [Node -> Seq(NodeMessage)]
  /\ world_inbox \in Seq(AccountMessage)
  /\ emitting \in [Node -> Nat]
  /\ fee_spent \in [Node -> Nat]
  /\ paid \in [Node -> Nat]
  /\ earned \in [Node -> Nat]

\* Whether b lies between the stake less everything n paid and the stake plus
\* everything n earned.
Within(n, b) ==
  stake[n] - paid[n] <= b /\ b <= stake[n] + earned[n]

\* However the absolute values overtake each other and whatever offline nodes
\* skip, neither copy loses more than the node paid or gains more than it earned.
BalanceEnvelope ==
  \A n \in Node : Within(n, balance[n]) /\ Within(n, account_balances[n])

\* The requests for a transaction in a channel that holds s, by their places.
Requests(s) == {i \in 1..Len(s) : s[i] = Generate}

\* The ledger fee_spent charges the originator at least what it has paid and what
\* the requests in its channel will make it pay, once the generator has charged
\* its request.  It charges more when the node cannot pay or is offline.
LedgerCoversPayments ==
  \A n \in Node :
    paid[n] + transaction_cost * Cardinality(Requests(inbox[n]))
      <= fee_spent[n] + emitting[n]

Quiet == world_inbox = <<>> /\ \A n \in Node : inbox[n] = <<>> /\ emitting[n] = 0

\* The originator of a transaction pays twice the fee and relayers are credited:
\* once all messages are handled, the account shows every payment and reward.
\* Not so when a payment and a reward cross.
PaymentsAndRewardsKept ==
  Quiet => \A n \in Node :
    account_balances[n] = stake[n] + earned[n] - paid[n]

=================================================================================
