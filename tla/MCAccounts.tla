------------------------------- MODULE MCAccounts -------------------------------
EXTENDS Accounts

MCNode == {"n1", "n2"}
MCStake == [n1 |-> 3, n2 |-> 2]
MCOne == {"n1"}
MCOneStake == [n1 |-> 3]
=================================================================================
