---------------------------------- MODULE Payout ----------------------------------
(* What the fee settlement of the Ethereum devnet promises, with no node, store *)
(* or message in it: every chain has an escrow, a block adds the fees of its    *)
(* transactions to it and may pay one evidence epoch out of it, an epoch that   *)
(* the chain below it has not paid.                                              *)
EXTENDS Naturals, Sequences

CONSTANTS
  Payload,    \* settlements that may be paid: records with fields epoch and total
  Fees        \* what the transactions of one block may pay

VARIABLE ledger    \* the state after every block of the tree, the genesis first

Account == [escrow : Nat, payouts : Seq(Payload)]

Genesis == [escrow |-> 0, payouts |-> <<>>]

PaidEpochs(account) == {account.payouts[i].epoch : i \in DOMAIN account.payouts}

Collect(account, fee) == [account EXCEPT !.escrow = @ + fee]

Pay(account, payload) ==
  [escrow |-> account.escrow - payload.total, payouts |-> Append(account.payouts, payload)]

Init == ledger = <<Genesis>>

\* A block on any block of the tree that pays nothing.
Extend ==
  \E parent \in DOMAIN ledger, fee \in Fees :
    ledger' = Append(ledger, Collect(ledger[parent], fee))

\* A block on any block of the tree that pays one fresh epoch.
ExtendAndPay ==
  \E parent \in DOMAIN ledger, fee \in Fees, payload \in Payload :
    LET account == Collect(ledger[parent], fee)
    IN  /\ payload.epoch \notin PaidEpochs(account)
        /\ payload.total <= account.escrow
        /\ ledger' = Append(ledger, Pay(account, payload))

\* The tree grows by one block in every step.
Next == Len(ledger') = Len(ledger) + 1 /\ (Extend \/ ExtendAndPay)

Spec == Init /\ [][Next]_ledger
====================================================================================
