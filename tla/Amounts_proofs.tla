----------------------------- MODULE Amounts_proofs ------------------------------
(* The components whose state is amounts, for every value of the constants.        *)
(*                                                                                 *)
(* Accounts: BalanceEnvelope is not inductive, for a copy is overwritten by a      *)
(* value that was sent earlier.  The invariant therefore bounds the values on      *)
(* their way as well, which works because the envelope of a node only ever widens. *)
(*                                                                                 *)
(* RewardCurve and FixedPoint: sums over finite sets first, from induction over    *)
(* the subsets of a set; then the power functions and the series, as iterations;   *)
(* then the invariants.                                                            *)
EXTENDS Accounts, RewardCurve, FixedPoint, FiniteSetTheorems, WellFoundedInduction, TLAPS

---------------------------------------------------------------------------------
(* The balances of the simulator. *)

\* Within, for given payments p and earnings e.
Env(p, e, n, b) == stake[n] - p[n] <= b /\ b <= stake[n] + e[n]

\* Every balance in the channel s of node n lies in the envelope.
InboxWithin(p, e, n, s) ==
  \A i \in 1..Len(s) :
    s[i].type = "UpdateNodeBalance" => Env(p, e, n, s[i].new_balance)

\* So does every balance in the channel s of the world state.
WorldInboxWithin(p, e, s) ==
  \A i \in 1..Len(s) : Env(p, e, s[i].address, s[i].new_balance)

Inv ==
  /\ TypeOK
  /\ BalanceEnvelope
  /\ \A n \in Node : InboxWithin(paid, earned, n, inbox[n])
  /\ WorldInboxWithin(paid, earned, world_inbox)

---------------------------------------------------------------------------------
\* The parts of a queue that is not empty.
LEMMA HeadTail ==
  ASSUME NEW S, NEW s \in Seq(S), s # <<>>
  PROVE  /\ Head(s) = s[1] /\ 1 \in 1..Len(s) /\ Head(s) \in S
         /\ Tail(s) \in Seq(S)
         /\ \A i \in 1..Len(Tail(s)) : i + 1 \in 1..Len(s) /\ Tail(s)[i] = s[i + 1]
  OBVIOUS

\* The elements of a queue after sending.
LEMMA AppendElement ==
  ASSUME NEW S, NEW s \in Seq(S), NEW x \in S
  PROVE  /\ Append(s, x) \in Seq(S)
         /\ \A i \in 1..Len(Append(s, x)) :
              Append(s, x)[i] = x \/ (i \in 1..Len(s) /\ Append(s, x)[i] = s[i])
  OBVIOUS

\* A counter raised for one node falls for none.
LEMMA CounterRises ==
  ASSUME NEW f \in [Node -> Nat], NEW n \in Node, NEW d \in Nat,
         NEW g, g = [f EXCEPT ![n] = @ + d]
  PROVE  /\ g \in [Node -> Nat] /\ g[n] = f[n] + d
         /\ \A k \in Node : f[k] <= g[k]
<1>1. f[n] \in Nat /\ f[n] + d \in Nat
  OBVIOUS
<1>2. g \in [Node -> Nat] /\ \A k \in Node : g[k] = IF k = n THEN f[n] + d ELSE f[k]
  BY <1>1, Zenon
<1>3. ASSUME NEW k \in Node PROVE f[k] <= g[k]
  <2>1. f[k] \in Nat
    BY Zenon
  <2> QED
    BY <1>1, <1>2, <2>1
<1> QED
  BY <1>2, <1>3, Zenon

\* A value inside the envelope stays inside when the envelope widens.
LEMMA EnvWidens ==
  ASSUME NEW n \in Node, NEW b \in Nat,
         NEW p \in [Node -> Nat], NEW q \in [Node -> Nat], p[n] <= q[n],
         NEW e \in [Node -> Nat], NEW f \in [Node -> Nat], e[n] <= f[n],
         Env(p, e, n, b)
  PROVE  Env(q, f, n, b)
<1>1. stake[n] \in Nat
  BY AccountsAssumption, Zenon
<1>2. p[n] \in Nat /\ q[n] \in Nat /\ e[n] \in Nat /\ f[n] \in Nat
  BY Zenon
<1> QED
  BY <1>1, <1>2 DEF Env

\* A channel in the envelope stays in it when the envelope widens.
LEMMA InboxWidens ==
  ASSUME NEW n \in Node, NEW s \in Seq(NodeMessage),
         NEW p \in [Node -> Nat], NEW q \in [Node -> Nat], p[n] <= q[n],
         NEW e \in [Node -> Nat], NEW f \in [Node -> Nat], e[n] <= f[n],
         InboxWithin(p, e, n, s)
  PROVE  InboxWithin(q, f, n, s)
<1> SUFFICES ASSUME NEW i \in 1..Len(s), s[i].type = "UpdateNodeBalance"
             PROVE  Env(q, f, n, s[i].new_balance)
  BY Zenon DEF InboxWithin
<1>1. s[i] \in NodeMessage
  OBVIOUS
<1>2. s[i].new_balance \in Nat
  BY <1>1 DEF NodeMessage, Generate
<1>3. Env(p, e, n, s[i].new_balance)
  BY Zenon DEF InboxWithin
<1> QED
  BY <1>2, <1>3, EnvWidens, Zenon

\* So does the channel of the world state.
LEMMA WorldInboxWidens ==
  ASSUME NEW s \in Seq(AccountMessage),
         NEW p \in [Node -> Nat], NEW q \in [Node -> Nat],
         NEW e \in [Node -> Nat], NEW f \in [Node -> Nat],
         \A n \in Node : p[n] <= q[n] /\ e[n] <= f[n],
         WorldInboxWithin(p, e, s)
  PROVE  WorldInboxWithin(q, f, s)
<1> SUFFICES ASSUME NEW i \in 1..Len(s)
             PROVE  Env(q, f, s[i].address, s[i].new_balance)
  BY Zenon DEF WorldInboxWithin
<1>1. s[i] \in AccountMessage
  OBVIOUS
<1>2. s[i].address \in Node /\ s[i].new_balance \in Nat
  BY <1>1, SMTT(30) DEF AccountMessage
<1>3. Env(p, e, s[i].address, s[i].new_balance)
  BY Zenon DEF WorldInboxWithin
<1> QED
  BY <1>2, <1>3, EnvWidens, Zenon

\* Taking a message keeps what the channel held within the envelope.
LEMMA InboxTail ==
  ASSUME NEW n, NEW s \in Seq(NodeMessage), s # <<>>, NEW p, NEW e,
         InboxWithin(p, e, n, s)
  PROVE  InboxWithin(p, e, n, Tail(s))
  BY HeadTail, Zenon DEF InboxWithin

\* The same for the channel of the world state.
LEMMA WorldInboxTail ==
  ASSUME NEW s \in Seq(AccountMessage), s # <<>>, NEW p, NEW e,
         WorldInboxWithin(p, e, s)
  PROVE  WorldInboxWithin(p, e, Tail(s))
  BY HeadTail, Zenon DEF WorldInboxWithin

\* Sending a balance of the envelope, or a request, keeps it as well.
LEMMA InboxAppend ==
  ASSUME NEW n, NEW s \in Seq(NodeMessage), NEW p, NEW e, NEW m \in NodeMessage,
         m.type = "UpdateNodeBalance" => Env(p, e, n, m.new_balance),
         InboxWithin(p, e, n, s)
  PROVE  InboxWithin(p, e, n, Append(s, m))
  BY AppendElement DEF InboxWithin

\* The same for the channel of the world state.
LEMMA WorldInboxAppend ==
  ASSUME NEW s \in Seq(AccountMessage), NEW p, NEW e, NEW m \in AccountMessage,
         Env(p, e, m.address, m.new_balance),
         WorldInboxWithin(p, e, s)
  PROVE  WorldInboxWithin(p, e, Append(s, m))
  BY AppendElement DEF WorldInboxWithin

---------------------------------------------------------------------------------
\* At the start both copies are the stake and all channels are empty.
LEMMA InitEstablishes == Init => Inv
<1> SUFFICES ASSUME Init PROVE Inv
  BY Zenon
<1>1. TypeOK
  BY AccountsAssumption DEF Init, TypeOK
<1>2. ASSUME NEW n \in Node PROVE Within(n, balance[n]) /\ Within(n, account_balances[n])
  <2>1. stake[n] \in Nat
    BY AccountsAssumption, Zenon
  <2> QED
    BY <2>1 DEF Init, Within
<1>3. WorldInboxWithin(paid, earned, world_inbox)
  BY DEF Init, WorldInboxWithin
<1>4. \A n \in Node : InboxWithin(paid, earned, n, inbox[n])
  BY DEF Init, InboxWithin
<1> QED
  BY <1>1, <1>2, <1>3, <1>4, Zenon DEF Inv, BalanceEnvelope

\* Every action of Accounts keeps the invariant.
LEMMA StepKeeps == Inv /\ [Next]_vars => Inv'
<1> SUFFICES ASSUME Inv, [Next]_vars PROVE Inv'
  BY Zenon
<1> USE AccountsAssumption
<1>t. TypeOK
  BY Zenon DEF Inv
<1>b. \A n \in Node : /\ Env(paid, earned, n, balance[n])
                      /\ Env(paid, earned, n, account_balances[n])
  BY Zenon DEF Inv, BalanceEnvelope, Within, Env
<1>i. \A n \in Node : InboxWithin(paid, earned, n, inbox[n])
  BY Zenon DEF Inv
<1>w. WorldInboxWithin(paid, earned, world_inbox)
  BY Zenon DEF Inv
<1>q. ASSUME TypeOK',
             \A n \in Node : /\ Env(paid', earned', n, balance'[n])
                             /\ Env(paid', earned', n, account_balances'[n])
                             /\ InboxWithin(paid', earned', n, inbox'[n]),
             WorldInboxWithin(paid', earned', world_inbox')
      PROVE  Inv'
  <2>1. BalanceEnvelope'
    BY <1>q, Zenon DEF BalanceEnvelope, Within, Env
  <2> QED
    BY <1>q, <2>1, Zenon DEF Inv
\* Whoever takes a message from its channel leaves the rest of it in order.
<1>r. ASSUME NEW n \in Node, NEW m, Receives(n, m)
      PROVE  /\ m \in NodeMessage
             /\ inbox' \in [Node -> Seq(NodeMessage)]
             /\ \A k \in Node : InboxWithin(paid, earned, k, inbox'[k])
             /\ m.type = "UpdateNodeBalance" => Env(paid, earned, n, m.new_balance)
  <2>1. inbox[n] \in Seq(NodeMessage) /\ inbox[n] # <<>>
    BY <1>r, <1>t, Zenon DEF TypeOK, Receives
  <2>2. m \in NodeMessage /\ Tail(inbox[n]) \in Seq(NodeMessage)
    BY <1>r, <2>1, HeadTail, Zenon DEF Receives
  <2>3. inbox' \in [Node -> Seq(NodeMessage)]
    BY <1>r, <1>t, <2>2, Zenon DEF TypeOK, Receives
  <2>4. InboxWithin(paid, earned, n, Tail(inbox[n]))
    BY <1>i, <2>1, InboxTail, Zenon
  <2>5. \A k \in Node : inbox'[k] = IF k = n THEN Tail(inbox[n]) ELSE inbox[k]
    BY <1>r, <1>t, Zenon DEF TypeOK, Receives
  <2>6. m.type = "UpdateNodeBalance" => Env(paid, earned, n, m.new_balance)
    BY <1>r, <1>i, <2>1, HeadTail, Zenon DEF Receives, InboxWithin
  <2> QED
    BY <1>i, <2>2, <2>3, <2>4, <2>5, <2>6, Zenon
<1>1. ASSUME NEW n \in Node, Emit(n) PROVE Inv'
  <2>1. Generate \in NodeMessage /\ Generate.type # "UpdateNodeBalance"
    BY Zenon DEF NodeMessage, Generate
  <2>2. inbox[n] \in Seq(NodeMessage)
    BY <1>t, Zenon DEF TypeOK
  <2>3. Append(inbox[n], Generate) \in Seq(NodeMessage)
    BY <2>1, <2>2, AppendElement, Zenon
  <2>4. InboxWithin(paid, earned, n, Append(inbox[n], Generate))
    BY <1>i, <2>1, <2>2, InboxAppend, Zenon
  <2>5. \A k \in Node :
          inbox'[k] = IF k = n THEN Append(inbox[n], Generate) ELSE inbox[k]
    BY <1>1, <1>t, Zenon DEF Emit, TypeOK
  <2>6. TypeOK'
    <3>1. inbox' \in [Node -> Seq(NodeMessage)]
      BY <1>1, <1>t, <2>3, Zenon DEF Emit, TypeOK
    <3>2. emitting' \in [Node -> Nat]
      BY <1>1, <1>t DEF Emit, TypeOK
    <3> QED
      BY <1>1, <1>t, <3>1, <3>2, SMTT(30) DEF Emit, TypeOK
  <2>7. UNCHANGED <<balance, account_balances, world_inbox, paid, earned>>
    BY <1>1, Zenon DEF Emit
  <2> QED
    BY <1>b, <1>i, <1>w, <1>q, <2>4, <2>5, <2>6, <2>7, Zenon
<1>2. ASSUME NEW n \in Node, Charge(n) PROVE Inv'
  <2>1. TypeOK'
    <3>1. emitting[n] - transaction_cost \in Nat
      BY <1>2, <1>t DEF Charge, TypeOK
    <3>2. emitting' \in [Node -> Nat] /\ fee_spent' \in [Node -> Nat]
      BY <1>2, <1>t, <3>1 DEF Charge, TypeOK
    <3> QED
      BY <1>2, <1>t, <3>2, SMTT(30) DEF Charge, TypeOK, network
  <2>2. UNCHANGED <<balance, account_balances, inbox, world_inbox, paid, earned>>
    BY <1>2, Zenon DEF Charge, network
  <2> QED
    BY <1>b, <1>i, <1>w, <1>q, <2>1, <2>2, Zenon
<1>3. ASSUME NEW n \in Node, Skip(n) PROVE Inv'
  <2>1. Receives(n, Head(inbox[n]))
    BY <1>3, Zenon DEF Skip
  <2>2. UNCHANGED <<balance, account_balances, world_inbox, emitting, fee_spent,
                    paid, earned>>
    BY <1>3, Zenon DEF Skip, ledgers
  <2>3. TypeOK'
    BY <1>r, <1>t, <2>1, <2>2, SMTT(30) DEF TypeOK
  <2> QED
    BY <1>b, <1>r, <1>w, <1>q, <2>1, <2>2, <2>3, Zenon
<1>4. ASSUME NEW n \in Node, GenerateTransactionPaths(n), deduct_balance(n) PROVE Inv'
  <2> DEFINE b == balance[n] - transaction_cost
             m == UpdateAccountBalance(n, b)
  <2>1. balance[n] \in Nat /\ b \in Nat
    BY <1>4, <1>t DEF deduct_balance, TypeOK
  <2>2. /\ balance' = [balance EXCEPT ![n] = b]
        /\ paid' = [paid EXCEPT ![n] = @ + transaction_cost]
        /\ world_inbox' = Append(world_inbox, m)
        /\ UNCHANGED <<account_balances, emitting, fee_spent, earned>>
        /\ Receives(n, Generate)
    BY <1>4, Zenon DEF GenerateTransactionPaths
  <2>3. m \in AccountMessage /\ m.address = n /\ m.new_balance = b
    BY <2>1, Zenon DEF AccountMessage, UpdateAccountBalance
  <2>4. /\ paid \in [Node -> Nat] /\ paid' \in [Node -> Nat]
        /\ earned \in [Node -> Nat] /\ earned' \in [Node -> Nat]
        /\ \A k \in Node : paid[k] <= paid'[k] /\ earned[k] <= earned'[k]
        /\ paid'[n] = paid[n] + transaction_cost
    <3>1. paid \in [Node -> Nat] /\ earned \in [Node -> Nat]
      BY <1>t, Zenon DEF TypeOK
    <3>2. /\ paid' \in [Node -> Nat] /\ paid'[n] = paid[n] + transaction_cost
          /\ \A k \in Node : paid[k] <= paid'[k]
      BY <2>2, <3>1, CounterRises, Zenon
    <3>3. earned' = earned /\ \A k \in Node : earned[k] <= earned[k]
      BY <2>2, <3>1
    <3> QED
      BY <3>1, <3>2, <3>3, Zenon
  <2> HIDE DEF b, m
  <2>5. TypeOK'
    <3>1. world_inbox' \in Seq(AccountMessage)
      BY <1>t, <2>2, <2>3, AppendElement, Zenon DEF TypeOK
    <3>2. balance' \in [Node -> Nat]
      BY <1>t, <2>1, <2>2, Zenon DEF TypeOK
    <3> QED
      BY <1>r, <1>t, <2>2, <2>4, <3>1, <3>2, SMTT(30) DEF TypeOK
  <2>6. Env(paid', earned', n, b)
    <3>1. stake[n] \in Nat /\ paid[n] \in Nat /\ earned[n] \in Nat
      BY <2>4, Zenon
    <3>2. Env(paid, earned, n, balance[n])
      BY <1>b, Zenon
    <3>3. earned' = earned
      BY <2>2, Zenon
    <3> QED
      BY <2>1, <2>4, <3>1, <3>2, <3>3 DEF Env, b
  <2>7. WorldInboxWithin(paid', earned', world_inbox')
    <3>1. WorldInboxWithin(paid', earned', world_inbox)
      BY <1>t, <1>w, <2>4, WorldInboxWidens, Zenon DEF TypeOK
    <3> QED
      BY <1>t, <2>2, <2>3, <2>6, <3>1, WorldInboxAppend, Zenon DEF TypeOK
  <2>8. ASSUME NEW k \in Node
        PROVE  /\ Env(paid', earned', k, balance'[k])
               /\ Env(paid', earned', k, account_balances'[k])
               /\ InboxWithin(paid', earned', k, inbox'[k])
    <3>1. InboxWithin(paid', earned', k, inbox'[k])
      <4>1. inbox'[k] \in Seq(NodeMessage) /\ InboxWithin(paid, earned, k, inbox'[k])
        BY <1>r, <2>2, Zenon
      <4> QED
        BY <2>4, <4>1, InboxWidens, Zenon
    <3>2. Env(paid', earned', k, account_balances'[k])
      <4>1. account_balances[k] \in Nat /\ account_balances'[k] = account_balances[k]
        BY <1>t, <2>2, Zenon DEF TypeOK
      <4> QED
        BY <1>b, <2>4, <4>1, EnvWidens, Zenon
    <3>3. Env(paid', earned', k, balance'[k])
      <4>1. balance[k] \in Nat /\ balance'[k] = IF k = n THEN b ELSE balance[k]
        BY <1>t, <2>2, Zenon DEF TypeOK
      <4>2. Env(paid', earned', k, balance[k])
        BY <1>b, <2>4, <4>1, EnvWidens, Zenon
      <4> QED
        BY <2>6, <4>1, <4>2, Zenon
    <3> QED
      BY <3>1, <3>2, <3>3, Zenon
  <2> QED
    BY <1>q, <2>5, <2>7, <2>8, Zenon
<1>5. ASSUME NEW n \in Node, GenerateTransactionPaths(n), ~deduct_balance(n) PROVE Inv'
  <2>1. Receives(n, Generate)
    BY <1>5, Zenon DEF GenerateTransactionPaths
  <2>2. UNCHANGED <<balance, account_balances, world_inbox, emitting, fee_spent,
                    paid, earned>>
    BY <1>5, Zenon DEF GenerateTransactionPaths
  <2>3. TypeOK'
    BY <1>r, <1>t, <2>1, <2>2, Zenon DEF TypeOK
  <2> QED
    BY <1>b, <1>r, <1>w, <1>q, <2>1, <2>2, <2>3, Zenon
<1>6. ASSUME NEW n \in Node, set_balance(n) PROVE Inv'
  <2> DEFINE m == Head(inbox[n])
  <2>1. /\ Receives(n, m) /\ m.type = "UpdateNodeBalance"
        /\ balance' = [balance EXCEPT ![n] = m.new_balance]
        /\ UNCHANGED <<account_balances, world_inbox, emitting, fee_spent, paid, earned>>
    BY <1>6, Zenon DEF set_balance, ledgers
  <2> HIDE DEF m
  <2>2. m \in NodeMessage /\ Env(paid, earned, n, m.new_balance)
    BY <1>r, <2>1, Zenon
  <2>3. m.new_balance \in Nat
    BY <2>1, <2>2 DEF NodeMessage, Generate
  <2>4. TypeOK'
    BY <1>r, <1>t, <2>1, <2>3, Zenon DEF TypeOK
  <2>5. \A k \in Node : balance'[k] = IF k = n THEN m.new_balance ELSE balance[k]
    BY <1>t, <2>1, Zenon DEF TypeOK
  <2> QED
    BY <1>b, <1>r, <1>w, <1>q, <2>1, <2>2, <2>4, <2>5, Zenon
<1>7. ASSUME ReceiveAccountBalance PROVE Inv'
  <2> DEFINE m == Head(world_inbox)
  <2>1. /\ world_inbox # <<>> /\ world_inbox' = Tail(world_inbox)
        /\ account_balances' = [account_balances EXCEPT ![m.address] = m.new_balance]
        /\ UNCHANGED <<balance, inbox, emitting, fee_spent, paid, earned>>
    BY <1>7, Zenon DEF ReceiveAccountBalance, ledgers
  <2>2. m \in AccountMessage /\ Env(paid, earned, m.address, m.new_balance)
    BY <1>t, <1>w, <2>1, HeadTail, Zenon DEF TypeOK, WorldInboxWithin
  <2>3. world_inbox' \in Seq(AccountMessage) /\ WorldInboxWithin(paid, earned, world_inbox')
    BY <1>t, <1>w, <2>1, HeadTail, WorldInboxTail, Zenon DEF TypeOK
  <2> HIDE DEF m
  <2>4. m.address \in Node /\ m.new_balance \in Nat
    BY <2>2, Zenon DEF AccountMessage
  <2>5. TypeOK'
    BY <1>t, <2>1, <2>3, <2>4, SMTT(30) DEF TypeOK
  <2>6. \A k \in Node : account_balances'[k] =
                          IF k = m.address THEN m.new_balance ELSE account_balances[k]
    BY <1>t, <2>1, <2>4, Zenon DEF TypeOK
  <2> QED
    BY <1>b, <1>i, <1>q, <2>1, <2>2, <2>3, <2>5, <2>6, Zenon
<1>8. ASSUME NEW n \in Node, ApplyReward(n) PROVE Inv'
  <2> DEFINE b == account_balances[n] + 1
             m == UpdateNodeBalance(b)
  <2>1. b \in Nat
    BY <1>t DEF TypeOK
  <2>2. /\ account_balances' = [account_balances EXCEPT ![n] = b]
        /\ earned' = [earned EXCEPT ![n] = @ + 1]
        /\ inbox' = [inbox EXCEPT ![n] = Append(@, m)]
        /\ UNCHANGED <<balance, world_inbox, emitting, fee_spent, paid>>
    BY <1>8, <1>t, Zenon DEF ApplyReward, TypeOK
  <2>3. m \in NodeMessage /\ m.new_balance = b
    BY <2>1, Zenon DEF NodeMessage, UpdateNodeBalance
  <2>4. /\ paid \in [Node -> Nat] /\ paid' \in [Node -> Nat]
        /\ earned \in [Node -> Nat] /\ earned' \in [Node -> Nat]
        /\ \A k \in Node : paid[k] <= paid'[k] /\ earned[k] <= earned'[k]
        /\ earned'[n] = earned[n] + 1
    <3>1. paid \in [Node -> Nat] /\ earned \in [Node -> Nat]
      BY <1>t DEF TypeOK
    <3>2. /\ earned' \in [Node -> Nat] /\ earned'[n] = earned[n] + 1
          /\ \A k \in Node : earned[k] <= earned'[k]
      BY <2>2, <3>1, CounterRises, Zenon
    <3>3. paid' = paid /\ \A k \in Node : paid[k] <= paid[k]
      BY <2>2, <3>1
    <3> QED
      BY <3>1, <3>2, <3>3, Zenon
  <2>5. Env(paid', earned', n, b)
    <3>1. /\ stake[n] \in Nat /\ paid[n] \in Nat /\ earned[n] \in Nat
          /\ account_balances[n] \in Nat
      BY <1>t, <2>4, Zenon DEF TypeOK
    <3>2. Env(paid, earned, n, account_balances[n])
      BY <1>b, Zenon
    <3>3. paid' = paid
      BY <2>2, Zenon
    <3> QED
      BY <2>4, <3>1, <3>2, <3>3 DEF Env
  <2> HIDE DEF b, m
  <2>6. inbox[n] \in Seq(NodeMessage) /\ Append(inbox[n], m) \in Seq(NodeMessage)
    BY <1>t, <2>3, AppendElement, Zenon DEF TypeOK
  <2>7. TypeOK'
    BY <1>t, <2>1, <2>2, <2>4, <2>6, Zenon DEF TypeOK
  <2>8. WorldInboxWithin(paid', earned', world_inbox')
    BY <1>t, <1>w, <2>2, <2>4, WorldInboxWidens, Zenon DEF TypeOK
  <2>9. ASSUME NEW k \in Node
        PROVE  /\ Env(paid', earned', k, balance'[k])
               /\ Env(paid', earned', k, account_balances'[k])
               /\ InboxWithin(paid', earned', k, inbox'[k])
    <3>1. InboxWithin(paid', earned', k, inbox'[k])
      <4>1. inbox[k] \in Seq(NodeMessage)
        BY <1>t, Zenon DEF TypeOK
      <4>2. InboxWithin(paid', earned', k, inbox[k])
        BY <1>i, <2>4, <4>1, InboxWidens, Zenon
      <4>3. inbox'[k] = IF k = n THEN Append(inbox[n], m) ELSE inbox[k]
        BY <1>t, <2>2, Zenon DEF TypeOK
      <4>4. k = n => InboxWithin(paid', earned', k, Append(inbox[n], m))
        BY <2>3, <2>5, <4>1, <4>2, InboxAppend, Zenon
      <4> QED
        BY <4>2, <4>3, <4>4, Zenon
    <3>2. Env(paid', earned', k, account_balances'[k])
      <4>1. /\ account_balances[k] \in Nat
            /\ account_balances'[k] = IF k = n THEN b ELSE account_balances[k]
        BY <1>t, <2>2, Zenon DEF TypeOK
      <4>2. Env(paid', earned', k, account_balances[k])
        BY <1>b, <2>4, <4>1, EnvWidens, Zenon
      <4> QED
        BY <2>5, <4>1, <4>2, Zenon
    <3>3. Env(paid', earned', k, balance'[k])
      <4>1. balance[k] \in Nat /\ balance'[k] = balance[k]
        BY <1>t, <2>2, Zenon DEF TypeOK
      <4> QED
        BY <1>b, <2>4, <4>1, EnvWidens, Zenon
    <3> QED
      BY <3>1, <3>2, <3>3
  <2> QED
    BY <1>q, <2>7, <2>8, <2>9
<1>9. CASE UNCHANGED vars
  <2>1. UNCHANGED <<balance, account_balances, inbox, world_inbox, emitting,
                    fee_spent, paid, earned>>
    BY <1>9, Zenon DEF vars, network, ledgers
  <2>2. TypeOK'
    BY <1>t, <2>1, Zenon DEF TypeOK
  <2> QED
    BY <1>b, <1>i, <1>w, <1>q, <2>1, <2>2, Zenon
<1> QED
  BY <1>1, <1>2, <1>3, <1>4, <1>5, <1>6, <1>7, <1>8, <1>9, Zenon DEF Next

---------------------------------------------------------------------------------
(* The ledger of the generator. *)

\* The requests in a channel can be counted.
LEMMA RequestsFinite ==
  ASSUME NEW s \in Seq(NodeMessage)
  PROVE  IsFiniteSet(Requests(s)) /\ Cardinality(Requests(s)) \in Nat
<1>1. Len(s) \in Nat /\ IsFiniteSet(1..Len(s))
  BY FS_Interval
<1>2. Requests(s) \in SUBSET (1..Len(s))
  BY Zenon DEF Requests
<1> QED
  BY <1>1, <1>2, FS_Subset, FS_CardinalityType, Zenon

\* A request sent counts once more, any other message does not count.
LEMMA RequestsOfAppend ==
  ASSUME NEW s \in Seq(NodeMessage), NEW m \in NodeMessage
  PROVE  Cardinality(Requests(Append(s, m))) =
           Cardinality(Requests(s)) + (IF m = Generate THEN 1 ELSE 0)
<1> DEFINE k == Len(s) + 1
<1>1. /\ k \notin Requests(s)
      /\ Requests(Append(s, m)) = IF m = Generate THEN Requests(s) \cup {k} ELSE Requests(s)
  BY DEF Requests
<1>2. IsFiniteSet(Requests(s)) /\ Cardinality(Requests(s)) \in Nat
  BY RequestsFinite, Zenon
<1>3. Cardinality(Requests(s) \cup {k}) = Cardinality(Requests(s)) + 1
  BY <1>1, <1>2, FS_AddElement, Zenon
<1> QED
  BY <1>1, <1>2, <1>3

\* Taking the first message takes the request that it is.
LEMMA RequestsOfTail ==
  ASSUME NEW s \in Seq(NodeMessage), s # <<>>
  PROVE  Cardinality(Requests(s)) =
           Cardinality(Requests(Tail(s))) + (IF Head(s) = Generate THEN 1 ELSE 0)
<1> DEFINE R == Requests(Tail(s))
           U == Requests(s) \ {1}
           f == [i \in R |-> i + 1]
<1>1. /\ Tail(s) \in Seq(NodeMessage) /\ Head(s) = s[1] /\ Len(s) \in Nat \ {0}
      /\ Len(Tail(s)) = Len(s) - 1
      /\ \A i \in 1..Len(Tail(s)) : Tail(s)[i] = s[i + 1]
  OBVIOUS
<1>2. \A i \in R : i \in Nat /\ i + 1 \in U
  BY <1>1 DEF Requests
<1>3. \A j \in U : j \in Nat /\ j - 1 \in R /\ (j - 1) + 1 = j
  BY <1>1 DEF Requests
<1> HIDE DEF R, U
<1>4. f \in Bijection(R, U)
  <2>1. f \in [R -> U]
    BY <1>2, Zenon
  <2>2. \A i, j \in R : f[i] = f[j] => i = j
    BY <1>2
  <2>3. \A j \in U : \E i \in R : f[i] = j
    <3>1. ASSUME NEW j \in U PROVE \E i \in R : f[i] = j
      <4>1. j - 1 \in R /\ f[j - 1] = j
        BY <1>3, Zenon
      <4> QED
        BY <4>1, Zenon
    <3> QED
      BY <3>1, Zenon
  <2> HIDE DEF f
  <2>4. f \in Injection(R, U)
    BY <2>1, <2>2, Zenon DEF Injection, IsInjective
  <2>5. f \in Surjection(R, U)
    BY <2>1, <2>3, Zenon DEF Surjection
  <2> QED
    BY <2>4, <2>5, Zenon DEF Bijection
<1>5. IsFiniteSet(R) /\ Cardinality(R) \in Nat
  BY <1>1, RequestsFinite, Zenon DEF R
<1>6. Cardinality(U) = Cardinality(R)
  BY <1>4, <1>5, FS_Bijection, Zenon DEF ExistsBijection
<1>7. IsFiniteSet(Requests(s)) /\ Cardinality(Requests(s)) \in Nat
  BY RequestsFinite, Zenon
<1>8. Cardinality(U) = IF 1 \in Requests(s) THEN Cardinality(Requests(s)) - 1
                       ELSE Cardinality(Requests(s))
  BY <1>7, FS_RemoveElement, Zenon DEF U
<1>9. 1 \in Requests(s) <=> Head(s) = Generate
  BY <1>1 DEF Requests
<1> QED
  BY <1>5, <1>6, <1>7, <1>8, <1>9 DEF R

\* What the ledger owes to n for the payments p, c requests, the charges f and e.
Covered(p, c, f, e) == p + transaction_cost * c <= f + e

\* Every action of Accounts keeps the fee ledger ahead of the payments.
LEMMA LedgerStep ==
  ASSUME TypeOK, LedgerCoversPayments, [Next]_vars
  PROVE  LedgerCoversPayments'
<1> USE AccountsAssumption
<1> DEFINE C(k) == Cardinality(Requests(inbox[k]))
<1>1. \A k \in Node : /\ paid[k] \in Nat /\ C(k) \in Nat
                      /\ fee_spent[k] \in Nat /\ emitting[k] \in Nat
                      /\ inbox[k] \in Seq(NodeMessage)
  <2>1. \A k \in Node : inbox[k] \in Seq(NodeMessage)
    BY Zenon DEF TypeOK
  <2>2. \A k \in Node : C(k) \in Nat
    BY <2>1, RequestsFinite, Zenon
  <2> QED
    BY <2>1, <2>2, Zenon DEF TypeOK
<1>2. \A k \in Node : Covered(paid[k], C(k), fee_spent[k], emitting[k])
  BY Zenon DEF LedgerCoversPayments, Covered
<1>q. ASSUME \A k \in Node : Covered(paid'[k], C(k)', fee_spent'[k], emitting'[k])
      PROVE  LedgerCoversPayments'
  BY <1>q, Zenon DEF LedgerCoversPayments, Covered
<1>r. ASSUME NEW n \in Node, NEW m, Receives(n, m)
      PROVE  /\ \A k \in Node \ {n} : C(k)' = C(k)
             /\ C(n)' \in Nat /\ C(n) = C(n)' + (IF m = Generate THEN 1 ELSE 0)
  <2>1. /\ inbox[n] # <<>> /\ m = Head(inbox[n])
        /\ inbox' = [inbox EXCEPT ![n] = Tail(inbox[n])]
    BY <1>r, Zenon DEF Receives
  <2>2. /\ inbox'[n] = Tail(inbox[n])
        /\ \A k \in Node \ {n} : inbox'[k] = inbox[k]
    BY <2>1, Zenon DEF TypeOK
  <2>3. Tail(inbox[n]) \in Seq(NodeMessage)
    BY <1>1, <2>1, HeadTail, Zenon
  <2>4. Cardinality(Requests(Tail(inbox[n]))) \in Nat
    BY <2>3, RequestsFinite, Zenon
  <2>5. C(n) = Cardinality(Requests(Tail(inbox[n]))) + (IF m = Generate THEN 1 ELSE 0)
    BY <1>1, <2>1, RequestsOfTail, Zenon
  <2>6. /\ C(n)' = Cardinality(Requests(Tail(inbox[n])))
        /\ \A k \in Node \ {n} : C(k)' = C(k)
    BY <2>2, Zenon DEF Requests
  <2> QED
    BY <2>4, <2>5, <2>6, Zenon
<1>s. ASSUME NEW n \in Node, NEW m \in NodeMessage,
             inbox' = [inbox EXCEPT ![n] = Append(@, m)]
      PROVE  /\ \A k \in Node \ {n} : C(k)' = C(k)
             /\ C(n)' = C(n) + (IF m = Generate THEN 1 ELSE 0)
  <2>1. /\ inbox'[n] = Append(inbox[n], m)
        /\ \A k \in Node \ {n} : inbox'[k] = inbox[k]
    BY <1>s, Zenon DEF TypeOK
  <2>2. /\ C(n)' = Cardinality(Requests(Append(inbox[n], m)))
        /\ \A k \in Node \ {n} : C(k)' = C(k)
    BY <2>1, Zenon DEF Requests
  <2> QED
    BY <1>1, <2>2, RequestsOfAppend, Zenon
<1> HIDE DEF C
<1>3. ASSUME NEW n \in Node, Emit(n) PROVE LedgerCoversPayments'
  <2>1. /\ \A k \in Node \ {n} : C(k)' = C(k)
        /\ C(n)' = C(n) + 1
    <3>1. Generate \in NodeMessage
      BY Zenon DEF NodeMessage
    <3>2. inbox' = [inbox EXCEPT ![n] = Append(@, Generate)]
      BY <1>3, Zenon DEF Emit
    <3> QED
      BY <1>s, <3>1, <3>2, Zenon
  <2>2. \A k \in Node : emitting'[k] = IF k = n THEN emitting[n] + transaction_cost
                                                ELSE emitting[k]
    BY <1>3, Zenon DEF Emit, TypeOK
  <2>3. paid' = paid /\ fee_spent' = fee_spent
    BY <1>3, Zenon DEF Emit
  <2>4. Covered(paid[n], C(n) + 1, fee_spent[n], emitting[n] + transaction_cost)
    BY <1>1, <1>2, SMTT(30) DEF Covered
  <2> QED
    BY <1>2, <1>q, <2>1, <2>2, <2>3, <2>4, Zenon
<1>4. ASSUME NEW n \in Node, Charge(n) PROVE LedgerCoversPayments'
  <2>1. \A k \in Node : C(k)' = C(k) /\ paid'[k] = paid[k]
    BY <1>4, Zenon DEF Charge, network, C
  <2>2. \A k \in Node : /\ emitting'[k] = IF k = n THEN emitting[n] - transaction_cost
                                                   ELSE emitting[k]
                        /\ fee_spent'[k] = IF k = n THEN fee_spent[n] + transaction_cost
                                                    ELSE fee_spent[k]
    BY <1>4, Zenon DEF Charge, TypeOK
  <2>3. Covered(paid[n], C(n), fee_spent[n] + transaction_cost,
                emitting[n] - transaction_cost)
    BY <1>1, <1>2 DEF Covered
  <2> QED
    BY <1>2, <1>q, <2>1, <2>2, <2>3, Zenon
<1>5. ASSUME NEW n \in Node, NEW m, Receives(n, m), UNCHANGED <<fee_spent, emitting, paid>>
      PROVE  LedgerCoversPayments'
  <2>1. /\ \A k \in Node \ {n} : C(k)' = C(k)
        /\ C(n)' \in Nat /\ (C(n) = C(n)' \/ C(n) = C(n)' + 1)
    BY <1>5, <1>r
  <2>2. Covered(paid[n], C(n)', fee_spent[n], emitting[n])
    BY <1>1, <1>2, <2>1, SMTT(30) DEF Covered
  <2> QED
    BY <1>2, <1>5, <1>q, <2>1, <2>2, Zenon
<1>6. ASSUME NEW n \in Node, GenerateTransactionPaths(n), deduct_balance(n)
      PROVE  LedgerCoversPayments'
  <2>1. /\ \A k \in Node \ {n} : C(k)' = C(k)
        /\ C(n)' \in Nat /\ C(n) = C(n)' + 1
    BY <1>6, <1>r, Zenon DEF GenerateTransactionPaths
  <2>2. /\ \A k \in Node : paid'[k] = IF k = n THEN paid[n] + transaction_cost ELSE paid[k]
        /\ fee_spent' = fee_spent /\ emitting' = emitting
    BY <1>6, Zenon DEF GenerateTransactionPaths, TypeOK
  <2>3. Covered(paid[n] + transaction_cost, C(n)', fee_spent[n], emitting[n])
    BY <1>1, <1>2, <2>1 DEF Covered
  <2> QED
    BY <1>2, <1>q, <2>1, <2>2, <2>3, Zenon
<1>7. ASSUME NEW n \in Node, ApplyReward(n) PROVE LedgerCoversPayments'
  <2> DEFINE m == UpdateNodeBalance(account_balances[n] + 1)
  <2>1. m \in NodeMessage /\ m # Generate
    BY DEF NodeMessage, UpdateNodeBalance, Generate, TypeOK
  <2>2. inbox' = [inbox EXCEPT ![n] = Append(@, m)]
    BY <1>7, Zenon DEF ApplyReward
  <2> HIDE DEF m
  <2>3. \A k \in Node : C(k)' = C(k)
    <3>1. /\ \A k \in Node \ {n} : C(k)' = C(k)
          /\ C(n)' = C(n) + (IF m = Generate THEN 1 ELSE 0)
      BY <1>s, <2>1, <2>2, Zenon
    <3>2. C(n)' = C(n)
      BY <1>1, <2>1, <3>1
    <3> QED
      BY <3>1, <3>2, Zenon
  <2>4. UNCHANGED <<paid, fee_spent, emitting>>
    BY <1>7, Zenon DEF ApplyReward
  <2> QED
    BY <1>2, <1>q, <2>3, <2>4, Zenon
<1>8. ASSUME UNCHANGED <<inbox, paid, fee_spent, emitting>> PROVE LedgerCoversPayments'
  BY <1>2, <1>8, <1>q, Zenon DEF C
<1>9. ASSUME NEW n \in Node, Skip(n) \/ set_balance(n) PROVE LedgerCoversPayments'
  BY <1>5, <1>9, Zenon DEF Skip, set_balance, ledgers
<1>10. ASSUME NEW n \in Node, GenerateTransactionPaths(n), ~deduct_balance(n)
       PROVE  LedgerCoversPayments'
  BY <1>5, <1>10, Zenon DEF GenerateTransactionPaths
<1>11. CASE ReceiveAccountBalance
  BY <1>8, <1>11, Zenon DEF ReceiveAccountBalance, ledgers
<1>12. CASE UNCHANGED vars
  BY <1>8, <1>12, Zenon DEF vars, network, ledgers
<1> QED
  BY <1>3, <1>4, <1>6, <1>7, <1>9, <1>10, <1>11, <1>12, Zenon DEF Next

---------------------------------------------------------------------------------
\* The inductive invariant: the copies and all balances on their way lie in the
\* envelope of their node.
THEOREM Invariance == Spec => []Inv
  BY InitEstablishes, StepKeeps, PTL DEF Spec

\* No copy of a balance becomes negative: deduct_balance compares before it
\* subtracts, and every value sent is one a copy had.
THEOREM TypeCorrect == Spec => []TypeOK
<1>1. Inv => TypeOK
  BY Zenon DEF Inv
<1> QED
  BY <1>1, Invariance, PTL

\* Neither copy loses more than the node paid or gains more than it earned,
\* whatever order UpdateAccountBalance and UpdateNodeBalance are handled in.
THEOREM EnvelopeHolds == Spec => []BalanceEnvelope
<1>1. Inv => BalanceEnvelope
  BY Zenon DEF Inv
<1> QED
  BY <1>1, Invariance, PTL

\* fee_spent, with the request on its way, covers what every node has paid and what
\* the requests in its channel will make it pay.
THEOREM LedgerCovers == Spec => []LedgerCoversPayments
<1>1. Init => LedgerCoversPayments
  <2> SUFFICES ASSUME Init, NEW n \in Node
               PROVE  paid[n] + transaction_cost * Cardinality(Requests(inbox[n]))
                        <= fee_spent[n] + emitting[n]
    BY Zenon DEF LedgerCoversPayments
  <2>1. Requests(inbox[n]) = {}
    BY DEF Init, Requests
  <2>2. Cardinality(Requests(inbox[n])) = 0
    BY <2>1, FS_EmptySet, Zenon
  <2> QED
    BY <2>2, AccountsAssumption DEF Init
<1>2. TypeOK /\ LedgerCoversPayments /\ [Next]_vars => LedgerCoversPayments'
  BY LedgerStep, Zenon
<1> QED
  BY <1>1, <1>2, TypeCorrect, PTL DEF Spec

---------------------------------------------------------------------------------
(* Sums over finite sets. *)

\* A set of natural numbers that is not empty has a least element.
LEMMA LeastNatural ==
  ASSUME NEW T, T \subseteq Nat, T # {}
  PROVE  \E x \in T : \A y \in T : x <= y
<1> DEFINE R == OpToRel(<, Nat)
<1>1. IsWellFoundedOn(R, Nat)
  BY NatLessThanWellFounded, Zenon
<1>2. \A i, j \in Nat : i < j => <<i, j>> \in R
  BY Zenon DEF OpToRel
<1> HIDE DEF R
<1>3. PICK x \in T : \A y \in T : ~ (<<y, x>> \in R)
  BY <1>1, WFMin, Zenon
<1>4. ASSUME NEW y \in T PROVE x <= y
  <2>1. ~(y < x)
    BY <1>2, <1>3, Zenon
  <2> QED
    BY <2>1
<1> QED
  BY <1>4, Zenon

\* A set that has 0 and with every number its successor has all of them.
LEMMA SetInduction ==
  ASSUME NEW S, 0 \in S, \A n \in Nat : n \in S => n + 1 \in S
  PROVE  Nat \subseteq S
<1> DEFINE T == Nat \ S
<1> SUFFICES ASSUME T # {} PROVE FALSE
  BY Zenon
<1>1. PICK x \in T : \A y \in T : x <= y
  BY LeastNatural, Zenon
<1>2. x # 0 /\ x - 1 \in Nat /\ x - 1 \notin T /\ (x - 1) + 1 = x
  BY <1>1
<1> QED
  BY <1>1, <1>2, Zenon

\* The same up to a bound.
LEMMA BoundedInduction ==
  ASSUME NEW k \in Nat, NEW S, 0 \in S, \A n \in Nat : n < k /\ n \in S => n + 1 \in S
  PROVE  0..k \subseteq S
<1> DEFINE T == {n \in Nat : n <= k => n \in S}
<1>1. 0 \in T /\ \A n \in Nat : n \in T => n + 1 \in T
  OBVIOUS
<1>2. Nat \subseteq T
  <2> HIDE DEF T
  <2> QED
    BY <1>1, SetInduction, Zenon
<1> QED
  BY <1>2

\* A property of the empty set that a set has when it has it without any one of its
\* elements holds of all subsets of a finite set.
LEMMA FiniteInduction ==
  ASSUME NEW D, IsFiniteSet(D), NEW P, {} \in P,
         \A s \in SUBSET D : s # {} /\ (\A x \in s : s \ {x} \in P) => s \in P
  PROVE  SUBSET D \subseteq P
<1> DEFINE Q == {n \in Nat : \A s \in SUBSET D : Cardinality(s) = n => s \in P}
<1>1. \A s \in SUBSET D : IsFiniteSet(s) /\ Cardinality(s) \in Nat
  BY FS_Subset, FS_CardinalityType, Zenon
<1>2. 0 \in Q
  BY <1>1, FS_EmptySet, Zenon
<1>3. ASSUME NEW n \in Nat, n \in Q PROVE n + 1 \in Q
  <2> SUFFICES ASSUME NEW s \in SUBSET D, Cardinality(s) = n + 1 PROVE s \in P
    OBVIOUS
  <2>1. s # {}
    <3>1. Cardinality({}) = 0
      BY FS_EmptySet, Zenon
    <3>2. n + 1 # 0
      BY SMT
    <3> QED
      BY <3>1, <3>2, Zenon
  <2>2. ASSUME NEW x \in s PROVE s \ {x} \in P
    <3>1. Cardinality(s \ {x}) = Cardinality(s) - 1
      BY <1>1, FS_RemoveElement, Zenon
    <3>2. s \ {x} \in SUBSET D /\ Cardinality(s \ {x}) = n
      BY <3>1
    <3> QED
      BY <1>3, <3>2, Zenon
  <2> QED
    BY <2>1, <2>2, Zenon
<1>4. Nat \subseteq Q
  <2> HIDE DEF Q
  <2> QED
    BY <1>2, <1>3, SetInduction, Zenon
<1> QED
  BY <1>1, <1>4, Zenon

\* g has the sums of f over all subsets of D.
SubsetSums(f, D, g) ==
  /\ g \in [SUBSET D -> Nat]
  /\ g[{}] = 0
  /\ \A s \in SUBSET D : \A x \in s : g[s] = f[x] + g[s \ {x}]

\* There are such sums, because they extend from a set to one with an element more.
LEMMA SumsExist ==
  ASSUME NEW D, IsFiniteSet(D), NEW f \in [D -> Nat]
  PROVE  \E g : SubsetSums(f, D, g)
<1> DEFINE P == {T \in SUBSET D : \E g : SubsetSums(f, T, g)}
<1>1. {} \in P
  <2>1. SubsetSums(f, {}, [s \in SUBSET {} |-> 0])
    BY DEF SubsetSums
  <2> QED
    BY <2>1, Zenon
<1>2. ASSUME NEW T \in SUBSET D, NEW y \in T, T \ {y} \in P
      PROVE  T \in P
  <2>1. PICK h : SubsetSums(f, T \ {y}, h)
    BY <1>2, Zenon
  <2> DEFINE g == [s \in SUBSET T |-> h[s \ {y}] + (IF y \in s THEN f[y] ELSE 0)]
  <2>2. \A s \in SUBSET T : s \ {y} \in SUBSET (T \ {y}) /\ h[s \ {y}] \in Nat
    <3>1. \A s \in SUBSET T : s \ {y} \in SUBSET (T \ {y})
      BY Zenon
    <3> QED
      BY <2>1, <3>1, Zenon DEF SubsetSums
  <2>3. f[y] \in Nat /\ \A x \in T : f[x] \in Nat
    BY Zenon
  <2>4. g \in [SUBSET T -> Nat]
    <3>1. ASSUME NEW s \in SUBSET T
          PROVE  h[s \ {y}] + (IF y \in s THEN f[y] ELSE 0) \in Nat
      <4>1. h[s \ {y}] \in Nat /\ (IF y \in s THEN f[y] ELSE 0) \in Nat
        BY <2>2, <2>3, Zenon
      <4> QED
        BY <4>1
    <3> QED
      BY <3>1, Zenon
  <2>5. g[{}] = 0
    <3>1. {} \in SUBSET T /\ {} \ {y} = {} /\ y \notin {}
      BY Zenon
    <3>2. h[{}] = 0
      BY <2>1, Zenon DEF SubsetSums
    <3> QED
      BY <3>1, <3>2
  <2>6. ASSUME NEW s \in SUBSET T, NEW x \in s
        PROVE  g[s] = f[x] + g[s \ {x}]
    <3>1. s \ {x} \in SUBSET T
      BY Zenon
    <3>2. CASE x = y
      <4>1. (s \ {x}) \ {y} = s \ {y}
        BY <3>2, Zenon
      <4>2. g[s] = h[s \ {y}] + f[y] /\ g[s \ {x}] = h[s \ {y}] + 0
        BY <3>1, <3>2, <4>1, Zenon
      <4>3. h[s \ {y}] \in Nat
        BY <2>2, Zenon
      <4> HIDE DEF g
      <4> QED
        BY <2>3, <3>2, <4>2, <4>3
    <3>3. CASE x # y
      <4>1. x \in s \ {y} /\ (s \ {y}) \ {x} = (s \ {x}) \ {y} /\ (y \in s <=> y \in s \ {x})
        BY <3>3, Zenon
      <4>2. h[s \ {y}] = f[x] + h[(s \ {x}) \ {y}]
        <5>1. h[s \ {y}] = f[x] + h[(s \ {y}) \ {x}]
          BY <2>1, <2>2, <4>1, Zenon DEF SubsetSums
        <5> QED
          BY <4>1, <5>1, Zenon
      <4> DEFINE c == IF y \in s THEN f[y] ELSE 0
      <4>3. c \in Nat
        BY <2>3, Zenon
      <4>4. g[s] = h[s \ {y}] + c /\ g[s \ {x}] = h[(s \ {x}) \ {y}] + c
        BY <3>1, <4>1, Zenon
      <4>5. h[(s \ {x}) \ {y}] \in Nat /\ f[x] \in Nat
        BY <2>2, <2>3, <3>1, Zenon
      <4> HIDE DEF g, c
      <4> QED
        BY <4>2, <4>3, <4>4, <4>5
    <3> QED
      BY <3>2, <3>3, Zenon
  <2>7. SubsetSums(f, T, g)
    <3> HIDE DEF g
    <3> QED
      BY <2>4, <2>5, <2>6, Zenon DEF SubsetSums
  <2> QED
    BY <2>7, Zenon
<1>3. SUBSET D \subseteq P
  <2>1. \A s \in SUBSET D : s # {} /\ (\A x \in s : s \ {x} \in P) => s \in P
    BY <1>2, Zenon
  <2> HIDE DEF P
  <2> QED
    BY <1>1, <2>1, FiniteInduction, Zenon
<1> QED
  BY <1>3, Zenon

\* There are no others.
LEMMA SumsUnique ==
  ASSUME NEW D, IsFiniteSet(D), NEW f, NEW g, NEW h, SubsetSums(f, D, g), SubsetSums(f, D, h)
  PROVE  \A s \in SUBSET D : g[s] = h[s]
<1> DEFINE P == {s \in SUBSET D : g[s] = h[s]}
<1>1. {} \in P
  BY Zenon DEF SubsetSums
<1>2. ASSUME NEW s \in SUBSET D, NEW x \in s, s \ {x} \in P PROVE s \in P
  BY <1>2, Zenon DEF SubsetSums
<1>3. SUBSET D \subseteq P
  <2>1. \A s \in SUBSET D : s # {} /\ (\A x \in s : s \ {x} \in P) => s \in P
    BY <1>2, Zenon
  <2> HIDE DEF P
  <2> QED
    BY <1>1, <2>1, FiniteInduction, Zenon
<1> QED
  BY <1>3, Zenon

\* Sum adds what it should, in whatever order.
LEMMA SumIs ==
  ASSUME NEW D, IsFiniteSet(D), NEW f, DOMAIN f = D, NEW g, SubsetSums(f, D, g)
  PROVE  Sum(f) = g[D]
<1> DEFINE pick(s) == CHOOSE x \in s : TRUE
           Rec(h) == h = [s \in SUBSET D |->
                            IF s = {} THEN 0 ELSE f[pick(s)] + h[s \ {pick(s)}]]
           iter == CHOOSE h : Rec(h)
<1>1. \A s \in SUBSET D : s # {} => pick(s) \in s
  BY Zenon
<1>2. Rec(g)
  <2> SUFFICES ASSUME NEW s \in SUBSET D
               PROVE  g[s] = IF s = {} THEN 0 ELSE f[pick(s)] + g[s \ {pick(s)}]
    BY Zenon DEF SubsetSums
  <2> QED
    BY <1>1, Zenon DEF SubsetSums
<1>3. Rec(iter)
  <2> HIDE DEF Rec
  <2> QED
    BY <1>2, Zenon
<1>4. Sum(f) = iter[D]
  BY DEF Sum, MapThenSumSet, MapThenFoldSet
<1>5. \A s \in SUBSET D : iter[s] = IF s = {} THEN 0 ELSE f[pick(s)] + iter[s \ {pick(s)}]
  <2> HIDE DEF iter
  <2> QED
    BY <1>3, Zenon
<1> HIDE DEF iter
<1> DEFINE P == {s \in SUBSET D : iter[s] = g[s]}
<1>6. {} \in P
  BY <1>5, Zenon DEF SubsetSums
<1>7. ASSUME NEW s \in SUBSET D, s # {}, \A x \in s : s \ {x} \in P
      PROVE  s \in P
  <2>1. pick(s) \in s
    BY <1>1, <1>7, Zenon
  <2> HIDE DEF pick
  <2>2. iter[s] = f[pick(s)] + iter[s \ {pick(s)}]
    BY <1>5, <1>7, Zenon
  <2>3. iter[s \ {pick(s)}] = g[s \ {pick(s)}]
    BY <1>7, <2>1, Zenon
  <2> QED
    BY <2>1, <2>2, <2>3, Zenon DEF SubsetSums
<1>8. SUBSET D \subseteq P
  <2> HIDE DEF P
  <2> QED
    BY <1>6, <1>7, FiniteInduction, Zenon
<1> QED
  BY <1>4, <1>8, Zenon

\* The sum of a function, with its sums over subsets.
LEMMA SumFacts ==
  ASSUME NEW D, IsFiniteSet(D), NEW f \in [D -> Nat]
  PROVE  \E g : SubsetSums(f, D, g) /\ Sum(f) = g[D] /\ Sum(f) \in Nat
<1>1. PICK g : SubsetSums(f, D, g)
  BY SumsExist, Zenon
<1>2. DOMAIN f = D /\ D \in SUBSET D
  BY Zenon
<1>3. Sum(f) = g[D]
  BY <1>1, <1>2, SumIs, Zenon
<1> QED
  BY <1>1, <1>2, <1>3, Zenon DEF SubsetSums

Adds(D, f, h, e) ==
    /\ IsFiniteSet(D) /\ f \in [D -> Nat] /\ h \in [D -> Nat] /\ e \in [D -> Nat]
    /\ \A x \in D : e[x] = f[x] + h[x]

\* The sum of sums is the sum of both.
LEMMA SumOfSums ==
  ASSUME NEW D, NEW f, NEW h, NEW e, Adds(D, f, h, e)
  PROVE  Sum(e) = Sum(f) + Sum(h)
<1> USE DEF Adds
<1>1. PICK g : SubsetSums(f, D, g) /\ Sum(f) = g[D]
  BY SumFacts, Zenon
<1>2. PICK k : SubsetSums(h, D, k) /\ Sum(h) = k[D]
  BY SumFacts, Zenon
<1> DEFINE both == [s \in SUBSET D |-> g[s] + k[s]]
<1>3. \A s \in SUBSET D : g[s] \in Nat /\ k[s] \in Nat
  BY <1>1, <1>2, Zenon DEF SubsetSums
<1>4. SubsetSums(e, D, both)
  <2>1. both \in [SUBSET D -> Nat]
    <3>1. \A s \in SUBSET D : g[s] + k[s] \in Nat
      BY <1>3
    <3> QED
      BY <3>1, Zenon
  <2>2. both[{}] = 0
    <3>1. g[{}] = 0 /\ k[{}] = 0 /\ {} \in SUBSET D
      BY <1>1, <1>2, Zenon DEF SubsetSums
    <3>2. both[{}] = g[{}] + k[{}]
      BY <3>1, Zenon
    <3> QED
      BY <3>1, <3>2
  <2>3. ASSUME NEW s \in SUBSET D, NEW x \in s
        PROVE  both[s] = e[x] + both[s \ {x}]
    <3>1. g[s] = f[x] + g[s \ {x}] /\ k[s] = h[x] + k[s \ {x}]
      BY <1>1, <1>2, Zenon DEF SubsetSums
    <3>2. s \ {x} \in SUBSET D /\ x \in D
      BY Zenon
    <3>3. both[s] = g[s] + k[s] /\ both[s \ {x}] = g[s \ {x}] + k[s \ {x}]
      BY <3>2, Zenon
    <3>4. g[s \ {x}] \in Nat /\ k[s \ {x}] \in Nat /\ f[x] \in Nat /\ h[x] \in Nat
      BY <1>3, <3>2, Zenon
    <3>5. e[x] = f[x] + h[x]
      BY <3>2, Zenon
    <3> HIDE DEF both
    <3> QED
      BY <3>1, <3>3, <3>4, <3>5
  <2> HIDE DEF both
  <2> QED
    BY <2>1, <2>2, <2>3, Zenon DEF SubsetSums
<1>5. DOMAIN e = D /\ both[D] = g[D] + k[D]
  BY Zenon
<1> HIDE DEF both
<1> QED
  BY <1>1, <1>2, <1>4, <1>5, SumIs, Zenon

\* A common factor can be taken out of a sum.
LEMMA SumOfMultiples ==
  ASSUME NEW D, IsFiniteSet(D), NEW f \in [D -> Nat], NEW c \in Nat,
         NEW e \in [D -> Nat], \A x \in D : e[x] = c * f[x]
  PROVE  Sum(e) = c * Sum(f)
<1>1. PICK g : SubsetSums(f, D, g) /\ Sum(f) = g[D]
  BY SumFacts, Zenon
<1> DEFINE times == [s \in SUBSET D |-> c * g[s]]
<1>3. \A s \in SUBSET D : g[s] \in Nat
  BY <1>1, Zenon DEF SubsetSums
<1>4. SubsetSums(e, D, times)
  <2>1. times \in [SUBSET D -> Nat]
    <3>1. \A n \in Nat : c * n \in Nat
      BY SMT
    <3>2. \A s \in SUBSET D : c * g[s] \in Nat
      BY <1>3, <3>1, Zenon
    <3> QED
      BY <3>2, Zenon
  <2>2. times[{}] = 0
    <3>1. g[{}] = 0 /\ {} \in SUBSET D
      BY <1>1, Zenon DEF SubsetSums
    <3>2. times[{}] = c * g[{}]
      BY <3>1, Zenon
    <3> QED
      BY <3>1, <3>2
  <2>3. ASSUME NEW s \in SUBSET D, NEW x \in s
        PROVE  times[s] = e[x] + times[s \ {x}]
    <3>1. g[s] = f[x] + g[s \ {x}]
      BY <1>1, Zenon DEF SubsetSums
    <3>2. s \ {x} \in SUBSET D /\ x \in D
      BY Zenon
    <3>3. times[s] = c * g[s] /\ times[s \ {x}] = c * g[s \ {x}]
      BY <3>2, Zenon
    <3>4. g[s \ {x}] \in Nat /\ f[x] \in Nat
      BY <1>3, <3>2, Zenon
    <3>5. e[x] = c * f[x]
      BY <3>2, Zenon
    <3>6. \A a, b \in Nat : c * (a + b) = c * a + c * b
      BY SMT
    <3> HIDE DEF times
    <3> QED
      BY <3>1, <3>3, <3>4, <3>5, <3>6, Zenon
  <2> HIDE DEF times
  <2> QED
    BY <2>1, <2>2, <2>3, Zenon DEF SubsetSums
<1>5. DOMAIN e = D /\ times[D] = c * g[D]
  BY Zenon
<1> HIDE DEF times
<1> QED
  BY <1>1, <1>4, <1>5, SumIs, Zenon

\* A sum of larger values is no smaller.
LEMMA SumMonotone ==
  ASSUME NEW D, IsFiniteSet(D), NEW f \in [D -> Nat], NEW h \in [D -> Nat],
         \A x \in D : f[x] <= h[x]
  PROVE  Sum(f) <= Sum(h)
<1>1. PICK g : SubsetSums(f, D, g) /\ Sum(f) = g[D]
  BY SumFacts, Zenon
<1>2. PICK k : SubsetSums(h, D, k) /\ Sum(h) = k[D]
  BY SumFacts, Zenon
<1> DEFINE P == {s \in SUBSET D : g[s] <= k[s]}
<1>3. {} \in P
  <2>1. g[{}] = 0 /\ k[{}] = 0
    BY <1>1, <1>2, Zenon DEF SubsetSums
  <2> QED
    BY <2>1
<1>4. ASSUME NEW s \in SUBSET D, NEW x \in s, s \ {x} \in P PROVE s \in P
  <2>1. g[s] = f[x] + g[s \ {x}] /\ k[s] = h[x] + k[s \ {x}]
    BY <1>1, <1>2, Zenon DEF SubsetSums
  <2>2. g[s \ {x}] <= k[s \ {x}] /\ f[x] <= h[x]
    BY <1>4, Zenon
  <2>3. f[x] \in Nat /\ h[x] \in Nat
    BY Zenon
  <2>4. g[s \ {x}] \in Nat /\ k[s \ {x}] \in Nat
    BY <1>1, <1>2, <1>4, Zenon DEF SubsetSums
  <2>5. g[s] <= k[s]
    BY <2>1, <2>2, <2>3, <2>4
  <2> QED
    BY <2>5, Zenon
<1>5. SUBSET D \subseteq P
  <2>1. \A s \in SUBSET D : s # {} /\ (\A x \in s : s \ {x} \in P) => s \in P
    BY <1>4, Zenon
  <2> HIDE DEF P
  <2> QED
    BY <1>3, <2>1, FiniteInduction, Zenon
<1>6. D \in P
  BY <1>5, Zenon
<1> QED
  BY <1>1, <1>2, <1>6, Zenon

\* One value among zeros.
OneAmongZeros(D, y, d, e) ==
    /\ IsFiniteSet(D) /\ y \in D /\ d \in Nat /\ e \in [D -> Nat]
    /\ \A x \in D : e[x] = IF x = y THEN d ELSE 0

\* Such a sum is the one value.
LEMMA SumOfOne ==
  ASSUME NEW D, NEW y, NEW d, NEW e, OneAmongZeros(D, y, d, e)
  PROVE  Sum(e) = d
<1> USE DEF OneAmongZeros
<1> DEFINE one == [s \in SUBSET D |-> IF y \in s THEN d ELSE 0]
<1>1. SubsetSums(e, D, one)
  <2>1. one \in [SUBSET D -> Nat] /\ one[{}] = 0
    OBVIOUS
  <2>2. ASSUME NEW s \in SUBSET D, NEW x \in s
        PROVE  one[s] = e[x] + one[s \ {x}]
    <3>1. s \ {x} \in SUBSET D
      BY Zenon
    <3>2. /\ one[s] = IF y \in s THEN d ELSE 0
          /\ one[s \ {x}] = IF y \in s \ {x} THEN d ELSE 0
      BY <3>1, Zenon
    <3> HIDE DEF one
    <3>3. CASE x = y
      <4>1. one[s] = d /\ one[s \ {x}] = 0 /\ e[x] = d
        BY <3>2, <3>3, Zenon
      <4> QED
        BY <4>1
    <3>4. CASE x # y
      <4>1. one[s] = one[s \ {x}] /\ e[x] = 0 /\ one[s] \in {0, d}
        BY <3>2, <3>4, Zenon
      <4> QED
        BY <4>1
    <3> QED
      BY <3>3, <3>4, Zenon
  <2> HIDE DEF one
  <2> QED
    BY <2>1, <2>2, Zenon DEF SubsetSums
<1>2. DOMAIN e = D /\ one[D] = d
  BY Zenon
<1> HIDE DEF one
<1> QED
  BY <1>1, <1>2, SumIs, Zenon

\* No value exceeds the sum.
LEMMA SumBounds ==
  ASSUME NEW D, IsFiniteSet(D), NEW f \in [D -> Nat], NEW y \in D
  PROVE  f[y] <= Sum(f)
<1>1. PICK g : SubsetSums(f, D, g) /\ Sum(f) = g[D]
  BY SumFacts, Zenon
<1>2. g[D] = f[y] + g[D \ {y}] /\ g[D \ {y}] \in Nat /\ f[y] \in Nat
  <2>1. D \in SUBSET D /\ D \ {y} \in SUBSET D
    BY Zenon
  <2> QED
    BY <1>1, <2>1, Zenon DEF SubsetSums
<1> QED
  BY <1>1, <1>2

\* The sum of zeros.
LEMMA SumOfZeros ==
  ASSUME NEW D, IsFiniteSet(D), NEW e \in [D -> Nat], \A x \in D : e[x] = 0
  PROVE  Sum(e) = 0
<1>1. PICK g : SubsetSums(e, D, g) /\ Sum(e) = g[D] /\ Sum(e) \in Nat
  BY SumFacts, Zenon
<1>2. \A x \in D : e[x] = 0 * e[x]
  BY SMT
<1>3. Sum(e) = 0 * Sum(e)
  <2>1. 0 \in Nat
    BY SMT
  <2> QED
    BY <1>2, <2>1, SumOfMultiples, Zenon
<1> QED
  BY <1>1, <1>3

\* The sum over a part of the domain.
LEMMA SumOfPart ==
  ASSUME NEW D, IsFiniteSet(D), NEW f \in [D -> Nat], NEW g, SubsetSums(f, D, g)
  PROVE  \A K \in SUBSET D : Sum([x \in K |-> f[x]]) = g[K]
<1> TAKE K \in SUBSET D
<1> DEFINE part == [x \in K |-> f[x]]
           sums == [s \in SUBSET K |-> g[s]]
<1>1. IsFiniteSet(K) /\ DOMAIN part = K
  BY FS_Subset, Zenon
<1>2. SubsetSums(part, K, sums)
  <2>1. \A s \in SUBSET K : s \in SUBSET D /\ sums[s] = g[s]
    BY Zenon
  <2>2. sums \in [SUBSET K -> Nat] /\ sums[{}] = 0
    BY <2>1, Zenon DEF SubsetSums
  <2>3. ASSUME NEW s \in SUBSET K, NEW x \in s
        PROVE  sums[s] = part[x] + sums[s \ {x}]
    <3>1. s \ {x} \in SUBSET K /\ x \in K /\ part[x] = f[x]
      BY Zenon
    <3>2. g[s] = f[x] + g[s \ {x}]
      BY <2>1, Zenon DEF SubsetSums
    <3> HIDE DEF sums, part
    <3> QED
      BY <2>1, <3>1, <3>2, Zenon
  <2> HIDE DEF sums, part
  <2> QED
    BY <2>2, <2>3, Zenon DEF SubsetSums
<1>3. sums[K] = g[K]
  BY Zenon
<1> HIDE DEF sums
<1> QED
  BY <1>1, <1>2, <1>3, SumIs, Zenon

\* The sum over two parts that share nothing.
LEMMA SumsOfUnion ==
  ASSUME NEW D, IsFiniteSet(D), NEW f \in [D -> Nat], NEW g, SubsetSums(f, D, g)
  PROVE  \A A, B \in SUBSET D : A \cap B = {} => g[A \cup B] = g[A] + g[B]
<1> SUFFICES ASSUME NEW A \in SUBSET D, NEW B \in SUBSET D, A \cap B = {}
             PROVE  g[A \cup B] = g[A] + g[B]
  BY Zenon
<1> DEFINE P == {s \in SUBSET B : g[A \cup s] = g[A] + g[s]}
<1>1. IsFiniteSet(B)
  BY FS_Subset, Zenon
<1>2. g[A] \in Nat /\ g[{}] = 0 /\ \A s \in SUBSET D : g[s] \in Nat
  BY Zenon DEF SubsetSums
<1>3. {} \in P
  <2>1. A \cup {} = A
    BY Zenon
  <2>2. g[A] = g[A] + g[{}]
    BY <1>2
  <2> QED
    BY <2>1, <2>2, Zenon
<1>4. ASSUME NEW s \in SUBSET B, NEW x \in s, s \ {x} \in P PROVE s \in P
  <2>1. g[A \cup (s \ {x})] = g[A] + g[s \ {x}]
    BY <1>4, Zenon
  <2>2. (A \cup s) \ {x} = A \cup (s \ {x}) /\ x \in A \cup s
    BY Zenon
  <2>3. A \cup s \in SUBSET D /\ s \in SUBSET D /\ s \ {x} \in SUBSET D /\ x \in D
    BY Zenon
  <2>4. g[A \cup s] = f[x] + g[A \cup (s \ {x})] /\ g[s] = f[x] + g[s \ {x}]
    BY <2>2, <2>3, Zenon DEF SubsetSums
  <2>5. f[x] \in Nat /\ g[s \ {x}] \in Nat
    BY <1>2, <2>3, Zenon
  <2>6. g[A \cup s] = g[A] + g[s]
    BY <1>2, <2>1, <2>4, <2>5
  <2> QED
    BY <2>6, Zenon
<1>5. SUBSET B \subseteq P
  <2>1. \A s \in SUBSET B : s # {} /\ (\A x \in s : s \ {x} \in P) => s \in P
    BY <1>4, Zenon
  <2> HIDE DEF P
  <2> QED
    BY <1>1, <1>3, <2>1, FiniteInduction, Zenon
<1> QED
  BY <1>5, Zenon

\* Adding up by groups: p names the group of each element.
LEMMA SumOfGroups ==
  ASSUME NEW J, IsFiniteSet(J), NEW a \in [J -> Nat], NEW V, IsFiniteSet(V),
         NEW p \in [J -> V],
         NEW e \in [V -> Nat],
         \A v \in V : e[v] = Sum([j \in {j \in J : p[j] = v} |-> a[j]])
  PROVE  Sum(e) = Sum(a)
<1>1. PICK g : SubsetSums(a, J, g) /\ Sum(a) = g[J]
  BY SumFacts, Zenon
<1> DEFINE group(v) == {j \in J : p[j] = v}
           groups == [s \in SUBSET V |-> g[{j \in J : p[j] \in s}]]
<1>2. \A v \in V : group(v) \in SUBSET J /\ e[v] = g[group(v)]
  <2>1. ASSUME NEW v \in V PROVE e[v] = g[group(v)]
    <3>1. group(v) \in SUBSET J
      BY Zenon
    <3>2. e[v] = Sum([j \in group(v) |-> a[j]])
      OBVIOUS
    <3>3. \A K \in SUBSET J : Sum([j \in K |-> a[j]]) = g[K]
      BY <1>1, SumOfPart, SMT
    <3> HIDE DEF group
    <3> QED
      BY <3>1, <3>2, <3>3
  <2> QED
    BY <2>1, Zenon
<1>3. \A s \in SUBSET J : g[s] \in Nat
  BY <1>1, Zenon DEF SubsetSums
<1>4. SubsetSums(e, V, groups)
  <2>1. groups \in [SUBSET V -> Nat]
    <3>1. \A s \in SUBSET V : {j \in J : p[j] \in s} \in SUBSET J
      BY Zenon
    <3> QED
      BY <1>3, <3>1, Zenon
  <2>2. groups[{}] = 0
    <3>1. {j \in J : p[j] \in {}} = {}
      BY Zenon
    <3> QED
      BY <1>1, <3>1, Zenon DEF SubsetSums
  <2>3. ASSUME NEW s \in SUBSET V, NEW x \in s
        PROVE  groups[s] = e[x] + groups[s \ {x}]
    <3> DEFINE rest == {j \in J : p[j] \in s \ {x}}
    <3>1. /\ group(x) \in SUBSET J /\ rest \in SUBSET J
          /\ group(x) \cap rest = {} /\ group(x) \cup rest = {j \in J : p[j] \in s}
      BY SMT
    <3>2. groups[s] = g[group(x) \cup rest] /\ groups[s \ {x}] = g[rest]
      <4>1. s \ {x} \in SUBSET V
        BY Zenon
      <4>2. groups[s] = g[{j \in J : p[j] \in s}] /\ groups[s \ {x}] = g[rest]
        BY <4>1, Zenon
      <4> HIDE DEF rest, group, groups
      <4> QED
        BY <3>1, <4>2, Zenon
    <3>3. e[x] = g[group(x)]
      BY <1>2, Zenon
    <3> HIDE DEF rest, group, groups
    <3>4. g[group(x) \cup rest] = g[group(x)] + g[rest]
      <4>1. \A A, B \in SUBSET J : A \cap B = {} => g[A \cup B] = g[A] + g[B]
        BY <1>1, SumsOfUnion, SMT
      <4> QED
        BY <3>1, <4>1, SMT
    <3> QED
      BY <3>2, <3>3, <3>4, Zenon
  <2> HIDE DEF groups
  <2> QED
    BY <2>1, <2>2, <2>3, Zenon DEF SubsetSums
<1>5. DOMAIN e = V /\ groups[V] = g[J]
  <2>1. {j \in J : p[j] \in V} = J
    BY Zenon
  <2> QED
    BY <2>1, Zenon
<1> HIDE DEF groups
<1> QED
  BY <1>1, <1>4, <1>5, SumIs, Zenon

---------------------------------------------------------------------------------
\* Iterating a function.
LEMMA Iterates ==
  ASSUME NEW n \in Nat, NEW b \in Nat, NEW step \in [Nat -> Nat]
  PROVE  \E h \in [0..n -> Nat] : h[0] = b /\ \A k \in 1..n : h[k] = step[h[k - 1]]
<1> DEFINE Good(m, h) == /\ h \in [0..m -> Nat] /\ h[0] = b
                         /\ \A k \in 1..m : h[k] = step[h[k - 1]]
           S == {m \in Nat : \E h : Good(m, h)}
<1>1. 0 \in S
  <2>1. Good(0, [k \in 0..0 |-> b])
    OBVIOUS
  <2> HIDE DEF Good
  <2>2. 0 \in Nat
    BY SMT
  <2> QED
    BY <2>1, <2>2, Zenon
<1>2. ASSUME NEW m \in Nat, m \in S PROVE m + 1 \in S
  <2>1. PICK h : Good(m, h)
    BY <1>2, Zenon
  <2> DEFINE g == [k \in 0..(m + 1) |-> IF k = m + 1 THEN step[h[m]] ELSE h[k]]
  <2>2. h[m] \in Nat /\ step[h[m]] \in Nat /\ m + 1 \in Nat
    BY <2>1
  <2>3. g \in [0..(m + 1) -> Nat]
    BY <2>1, <2>2
  <2>4. g[0] = b
    BY <2>1
  <2>5. ASSUME NEW k \in 1..(m + 1) PROVE g[k] = step[g[k - 1]]
    <3>1. g[k - 1] = h[k - 1]
      OBVIOUS
    <3>2. CASE k = m + 1
      <4>1. k - 1 = m /\ k \in 0..(m + 1)
        BY <3>2
      <4> QED
        BY <3>1, <3>2, <4>1, Zenon
    <3>3. CASE k # m + 1
      <4>1. k \in 1..m /\ k \in 0..(m + 1)
        BY <3>3
      <4> QED
        BY <2>1, <3>1, <3>3, <4>1, Zenon
    <3> QED
      BY <3>2, <3>3, Zenon
  <2> HIDE DEF g
  <2>6. Good(m + 1, g)
    BY <2>3, <2>4, <2>5, Zenon
  <2> HIDE DEF Good
  <2> QED
    BY <2>2, <2>6, Zenon
<1>3. n \in S
  <2> HIDE DEF S
  <2>1. Nat \subseteq S
    BY <1>1, <1>2, SetInduction, Zenon
  <2> QED
    BY <2>1, Zenon
<1> QED
  BY <1>3, Zenon

\* Power is the last of the values that its recursion describes.
LEMMA PowerIs ==
  ASSUME NEW b \in Nat, NEW n \in Nat, NEW h \in [0..n -> Nat], h[0] = 1,
         \A k \in 1..n : h[k] = b * h[k - 1]
  PROVE  Power(b, n) = h[n]
<1> DEFINE Rec(f) == f = [k \in 0..n |-> IF k = 0 THEN 1 ELSE b * f[k - 1]]
           power == CHOOSE f : Rec(f)
<1>1. Rec(h)
  <2>1. \A k \in 0..n : h[k] = IF k = 0 THEN 1 ELSE b * h[k - 1]
    OBVIOUS
  <2> QED
    BY <2>1, Zenon
<1>2. Rec(power)
  <2> HIDE DEF Rec
  <2> QED
    BY <1>1, Zenon
<1>3. Power(b, n) = power[n]
  BY Zenon DEF Power
<1>4. \A k \in 0..n : power[k] = IF k = 0 THEN 1 ELSE b * power[k - 1]
  <2> HIDE DEF power
  <2> QED
    BY <1>2, Zenon
<1> HIDE DEF power
<1> DEFINE S == {k \in Nat : k <= n => power[k] = h[k]}
<1>5. 0 \in S
  BY <1>4
<1>6. ASSUME NEW k \in Nat, k < n, k \in S PROVE k + 1 \in S
  <2>1. k + 1 \in 0..n /\ k + 1 \in 1..n /\ k + 1 # 0 /\ (k + 1) - 1 = k /\ k + 1 \in Nat /\ k <= n
    BY <1>6
  <2>2. power[k + 1] = b * power[k] /\ h[k + 1] = b * h[k]
    BY <1>4, <2>1
  <2>3. power[k] = h[k]
    BY <1>6, <2>1, Zenon
  <2> QED
    BY <2>1, <2>2, <2>3, Zenon
<1>7. 0..n \subseteq S
  <2> HIDE DEF S
  <2> QED
    BY <1>5, <1>6, BoundedInduction, Zenon
<1>8. n \in 0..n /\ n <= n
  BY SMT
<1> QED
  BY <1>3, <1>7, <1>8, Zenon

\* The laws of powers.
LEMMA PowerLaws ==
  ASSUME NEW b \in Nat, NEW n \in Nat
  PROVE  Power(b, 0) = 1 /\ Power(b, n) \in Nat /\ Power(b, n + 1) = b * Power(b, n)
<1> DEFINE step == [x \in Nat |-> b * x]
<1>1. step \in [Nat -> Nat]
  <2>1. \A x \in Nat : b * x \in Nat
    BY SMT
  <2> QED
    BY <2>1, Zenon
<1>2. PICK h \in [0..(n + 1) -> Nat] : h[0] = 1 /\ \A k \in 1..(n + 1) : h[k] = step[h[k - 1]]
  <2> HIDE DEF step
  <2>1. n + 1 \in Nat /\ 1 \in Nat
    BY SMT
  <2> QED
    BY <1>1, <2>1, Iterates, Zenon
<1>3. \A k \in 1..(n + 1) : h[k] = b * h[k - 1]
  <2>1. \A k \in 1..(n + 1) : h[k - 1] \in Nat
    <3> HIDE DEF step
    <3> QED
      BY SMT
  <2> QED
    BY <1>2, <2>1, Zenon
<1> HIDE DEF step
<1>4. Power(b, n + 1) = h[n + 1]
  <2>1. n + 1 \in Nat
    BY SMT
  <2> QED
    BY <1>2, <1>3, <2>1, PowerIs, Zenon
<1>5. ASSUME NEW m \in Nat, m <= n
      PROVE  Power(b, m) = h[m]
  <2> DEFINE f == [k \in 0..m |-> h[k]]
  <2>1. /\ f \in [0..m -> Nat] /\ f[0] = 1 /\ f[m] = h[m]
        /\ \A k \in 1..m : f[k] = b * f[k - 1]
    BY <1>2, <1>3, <1>5
  <2> HIDE DEF f
  <2> QED
    BY <2>1, PowerIs, Zenon
<1>6. /\ n + 1 \in 1..(n + 1) /\ (n + 1) - 1 = n /\ h[n] \in Nat
      /\ 0 \in Nat /\ 0 <= n /\ n <= n
  OBVIOUS
<1>7. h[n + 1] = b * h[n]
  BY <1>3, <1>6, Zenon
<1> QED
  BY <1>2, <1>4, <1>5, <1>6, <1>7, Zenon

---------------------------------------------------------------------------------
(* The reward curve. *)

\* The smaller of two numbers.
LEMMA MinOfTwo ==
  ASSUME NEW a \in Int, NEW b \in Int
  PROVE  Min({a, b}) = IF a <= b THEN a ELSE b
<1>1. \A x, y \in {a, b} : (\A z \in {a, b} : x <= z) /\ (\A z \in {a, b} : y <= z) => x = y
  OBVIOUS
<1> DEFINE c == IF a <= b THEN a ELSE b
<1>2. c \in {a, b} /\ \A z \in {a, b} : c <= z
  OBVIOUS
<1> HIDE DEF c
<1>3. Min({a, b}) = c
  BY <1>1, <1>2, Zenon DEF Min
<1> QED
  BY <1>3, Zenon DEF c

\* A larger base has no smaller power.
LEMMA PowerMonotone ==
  ASSUME NEW a \in Nat, NEW b \in Nat, a <= b, NEW n \in Nat
  PROVE  Power(a, n) <= Power(b, n)
<1> DEFINE S == {k \in Nat : Power(a, k) <= Power(b, k)}
<1>1. 0 \in S
  <2>1. 0 \in Nat /\ 1 <= 1
    BY SMT
  <2> QED
    BY <2>1, PowerLaws, Zenon
<1>2. ASSUME NEW k \in Nat, k \in S PROVE k + 1 \in S
  <2>1. Power(a, k) <= Power(b, k) /\ Power(a, k) \in Nat /\ Power(b, k) \in Nat
    BY <1>2, PowerLaws, Zenon
  <2>2. Power(a, k + 1) = a * Power(a, k) /\ Power(b, k + 1) = b * Power(b, k)
    BY PowerLaws, Zenon
  <2>3. \A x, y \in Nat : x <= y => a * x <= b * y
    BY SMT
  <2>4. a * Power(a, k) <= b * Power(b, k) /\ k + 1 \in Nat
    BY <2>1, <2>3
  <2> QED
    BY <2>2, <2>4, Zenon
<1>3. Nat \subseteq S
  <2> HIDE DEF S
  <2> QED
    BY <1>1, <1>2, SetInduction, Zenon
<1> QED
  BY <1>3, Zenon

\* A longer path multiplies the share of a relay by r_for_depth's denominator, or by its
\* numerator for the relays that move on by one position.
LEMMA ShareFacts ==
  ASSUME NEW d \in Nat \ {0}, NEW m \in Nat, NEW j \in 1..(m - 1)
  PROVE  /\ AlphaShare(d, j, m) \in Nat
         /\ AlphaShare(d, j, m + 1) = (2 * d + 1) * AlphaShare(d, j, m)
         /\ AlphaShare(d, j + 1, m + 1) = d * AlphaShare(d, j, m)
<1> DEFINE q == 2 * d + 1
           x == j - 1
           y == m - 1 - j
           P == Power(d, x)
           Q == Power(q, y)
<1>1. d \in Nat /\ q \in Nat /\ x \in Nat /\ y \in Nat
  OBVIOUS
<1>2. (m + 1) - 1 - j = y + 1 /\ (j + 1) - 1 = x + 1 /\ (m + 1) - 1 - (j + 1) = y
  OBVIOUS
<1>3. AlphaShare(d, j, m) = (d + 1) * P * Q
  BY Zenon DEF AlphaShare
<1>4. AlphaShare(d, j, m + 1) = (d + 1) * P * Power(q, (m + 1) - 1 - j)
  BY Zenon DEF AlphaShare
<1>5. AlphaShare(d, j + 1, m + 1)
        = (d + 1) * Power(d, (j + 1) - 1) * Power(q, (m + 1) - 1 - (j + 1))
  BY Zenon DEF AlphaShare
<1> HIDE DEF q, x, y
<1>6. P \in Nat /\ Q \in Nat /\ Power(d, x + 1) = d * P /\ Power(q, y + 1) = q * Q
  BY <1>1, PowerLaws, Zenon
<1> HIDE DEF P, Q
<1>7. \A a, b \in Nat : /\ (d + 1) * a * b \in Nat
                        /\ (d + 1) * a * (q * b) = q * ((d + 1) * a * b)
                        /\ (d + 1) * (d * a) * b = d * ((d + 1) * a * b)
  BY <1>1, SMT
<1>8. /\ AlphaShare(d, j, m + 1) = q * ((d + 1) * P * Q)
      /\ AlphaShare(d, j + 1, m + 1) = d * ((d + 1) * P * Q)
      /\ (d + 1) * P * Q \in Nat
  <2>1. (m + 1) - 1 - j = y + 1 /\ (j + 1) - 1 = x + 1 /\ (m + 1) - 1 - (j + 1) = y
    BY <1>1, <1>2, Zenon
  <2>2. /\ AlphaShare(d, j, m + 1) = (d + 1) * P * (q * Q)
        /\ AlphaShare(d, j + 1, m + 1) = (d + 1) * (d * P) * Q
    BY <1>4, <1>5, <1>6, <2>1, Zenon DEF P, Q
  <2> QED
    BY <1>6, <1>7, <2>2, Zenon
<1> QED
  BY <1>3, <1>8, Zenon DEF q

\* A longer path multiplies the common denominator by at least that of r_for_depth.
LEMMA TotalFacts ==
  ASSUME NEW d \in Nat \ {0}, NEW m \in Nat \ {0}
  PROVE  /\ AlphaTotal(d, m) \in Nat /\ AlphaTotal(d, m + 1) \in Nat
         /\ (2 * d + 1) * AlphaTotal(d, m) <= AlphaTotal(d, m + 1)
<1> DEFINE q == 2 * d + 1
           x == m - 1
           P == Power(d, x)
           Q == Power(q, x)
<1>1. d \in Nat /\ q \in Nat /\ d <= q /\ x \in Nat /\ (m + 1) - 1 = x + 1
  OBVIOUS
<1>2. /\ AlphaTotal(d, m) = Q - P
      /\ AlphaTotal(d, m + 1) = Power(q, (m + 1) - 1) - Power(d, (m + 1) - 1)
  BY Zenon DEF AlphaTotal
<1> HIDE DEF q, x
<1>3. P \in Nat /\ Q \in Nat /\ Power(d, x + 1) = d * P /\ Power(q, x + 1) = q * Q
  BY <1>1, PowerLaws, Zenon
<1>4. P <= Q
  BY <1>1, PowerMonotone, Zenon
<1>5. AlphaTotal(d, m + 1) = q * Q - d * P
  BY <1>1, <1>2, <1>3, Zenon
<1> HIDE DEF P, Q
<1>6. \A a, b \in Nat : a <= b => /\ b - a \in Nat /\ d * a <= q * b
                                 /\ q * (b - a) = q * b - q * a /\ d * a <= q * a
                                 /\ q * b \in Nat /\ d * a \in Nat /\ q * a \in Nat
  BY <1>1, SMT
<1>7. Q - P \in Nat /\ q * Q - d * P \in Nat /\ q * (Q - P) <= q * Q - d * P
  <2>1. /\ Q - P \in Nat /\ d * P <= q * Q
        /\ q * (Q - P) = q * Q - q * P /\ d * P <= q * P
        /\ q * Q \in Nat /\ d * P \in Nat /\ q * P \in Nat
    BY <1>3, <1>4, <1>6, Zenon
  <2> QED
    BY <2>1
<1> QED
  BY <1>2, <1>5, <1>7, Zenon DEF q

\* The path after padding at position i.
LEMMA PaddedPath ==
  ASSUME NEW c \in Seq(BOOLEAN), NEW i \in 1..Len(c),
         NEW cc, cc = SubSeq(c, 1, i) \o SubSeq(c, i, Len(c))
  PROVE  /\ cc \in Seq(BOOLEAN) /\ Len(cc) = Len(c) + 1
         /\ \A j \in 1..Len(cc) : cc[j] = IF j <= i THEN c[j] ELSE c[j - 1]
<1> DEFINE l == SubSeq(c, 1, i)
           r == SubSeq(c, i, Len(c))
<1>1. l \in Seq(BOOLEAN) /\ Len(l) = i /\ \A j \in 1..i : l[j] = c[j]
  OBVIOUS
<1>2. /\ r \in Seq(BOOLEAN) /\ Len(r) = Len(c) - i + 1
      /\ \A j \in 1..(Len(c) - i + 1) : r[j] = c[i + j - 1]
  OBVIOUS
<1> HIDE DEF l, r
<1>3. cc = l \o r
  BY Zenon DEF l, r
<1>4. cc \in Seq(BOOLEAN) /\ Len(cc) = Len(c) + 1
  BY <1>1, <1>2, <1>3
<1>5. ASSUME NEW j \in 1..Len(cc) PROVE cc[j] = IF j <= i THEN c[j] ELSE c[j - 1]
  <2>1. cc[j] = IF j <= i THEN l[j] ELSE r[j - i]
    BY <1>1, <1>2, <1>3, <1>4
  <2>2. CASE j <= i
    BY <1>1, <2>1, <2>2
  <2>3. CASE ~(j <= i)
    <3>1. j - i \in 1..(Len(c) - i + 1) /\ i + (j - i) - 1 = j - 1
      BY <1>4, <2>3
    <3>2. r[j - i] = c[j - 1]
      BY <1>2, <3>1, Zenon
    <3> QED
      BY <2>1, <2>3, <3>2, Zenon
  <2> QED
    BY <2>2, <2>3, Zenon
<1> QED
  BY <1>4, <1>5, Zenon

\* Sums over one and over two elements.
SumsOfFew(D, f) ==
    \A x \in D : /\ Sum([j \in {x} |-> f[j]]) = f[x]
                 /\ \A y \in D : y # x => Sum([j \in {x, y} |-> f[j]]) = f[x] + f[y]

\* The sums over one and over two elements are what they should be.
LEMMA SumOfFew ==
  ASSUME NEW D, IsFiniteSet(D), NEW f \in [D -> Nat]
  PROVE  SumsOfFew(D, f)
<1> SUFFICES ASSUME NEW x \in D
             PROVE  /\ Sum([j \in {x} |-> f[j]]) = f[x]
                    /\ \A y \in D : y # x => Sum([j \in {x, y} |-> f[j]]) = f[x] + f[y]
  BY Zenon DEF SumsOfFew
<1>1. PICK g : SubsetSums(f, D, g) /\ Sum(f) = g[D]
  BY SumFacts, Zenon
<1>2. \A K \in SUBSET D : Sum([j \in K |-> f[j]]) = g[K]
  BY <1>1, SumOfPart, SMT
<1>3. ASSUME NEW y \in D PROVE g[{y}] = f[y]
  <2>1. {y} \in SUBSET D /\ y \in {y} /\ {y} \ {y} = {}
    BY Zenon
  <2>2. g[{y}] = f[y] + g[{y} \ {y}] /\ g[{}] = 0 /\ f[y] \in Nat
    BY <1>1, <2>1, Zenon DEF SubsetSums
  <2>3. g[{y}] = f[y] + 0
    BY <2>1, <2>2, Zenon
  <2> QED
    BY <2>2, <2>3
<1>4. ASSUME NEW y \in D, y # x PROVE g[{x, y}] = f[x] + f[y]
  <2>1. {x, y} \in SUBSET D /\ x \in {x, y} /\ {x, y} \ {x} = {y}
    BY <1>4, Zenon
  <2>2. g[{x, y}] = f[x] + g[{x, y} \ {x}]
    BY <1>1, <2>1, Zenon DEF SubsetSums
  <2> QED
    BY <1>3, <2>1, <2>2, Zenon
<1>5. {x} \in SUBSET D /\ \A y \in D : {x, y} \in SUBSET D
  BY Zenon
<1>6. /\ Sum([j \in {x} |-> f[j]]) = g[{x}]
      /\ \A y \in D : Sum([j \in {x, y} |-> f[j]]) = g[{x, y}]
  BY <1>2, <1>5, Zenon
<1> QED
  BY <1>3, <1>4, <1>6, Zenon

\* When every group of a sum is at most t times a value, so is the whole.
GroupsWithin(J, a, V, p, t, s) ==
    /\ a \in [J -> Nat] /\ p \in [J -> V] /\ t \in Nat /\ s \in [V -> Nat]
    /\ \A v \in V : /\ Sum([j \in {j \in J : p[j] = v} |-> a[j]]) \in Nat
                    /\ Sum([j \in {j \in J : p[j] = v} |-> a[j]]) <= t * s[v]

\* The sum over all groups, from the bounds of the groups.
LEMMA GroupsBound ==
  ASSUME NEW J, IsFiniteSet(J), NEW V, IsFiniteSet(V), NEW a, NEW p, NEW t, NEW s,
         GroupsWithin(J, a, V, p, t, s)
  PROVE  Sum(a) \in Nat /\ Sum(s) \in Nat /\ Sum(a) <= t * Sum(s)
<1> DEFINE e == [v \in V |-> Sum([j \in {j \in J : p[j] = v} |-> a[j]])]
           more == [v \in V |-> t * s[v]]
<1>1. /\ a \in [J -> Nat] /\ p \in [J -> V] /\ t \in Nat /\ s \in [V -> Nat]
      /\ \A v \in V : /\ Sum([j \in {j \in J : p[j] = v} |-> a[j]]) \in Nat
                      /\ Sum([j \in {j \in J : p[j] = v} |-> a[j]]) <= t * s[v]
  BY Zenon DEF GroupsWithin
<1>2. e \in [V -> Nat] /\ \A v \in V : e[v] = Sum([j \in {j \in J : p[j] = v} |-> a[j]])
  BY <1>1, Zenon
<1>3. more \in [V -> Nat] /\ \A v \in V : more[v] = t * s[v]
  <2>1. \A x \in Nat : t * x \in Nat
    BY <1>1, SMT
  <2>2. \A v \in V : t * s[v] \in Nat
    BY <1>1, <2>1, Zenon
  <2> QED
    BY <2>2, Zenon
<1>4. \A v \in V : e[v] <= more[v]
  BY <1>1, Zenon
<1> HIDE DEF e, more
<1>5. Sum(e) = Sum(a)
  BY <1>1, <1>2, SumOfGroups, SMT
<1>6. Sum(e) <= Sum(more)
  BY <1>2, <1>3, <1>4, SumMonotone, Zenon
<1>7. Sum(more) = t * Sum(s)
  BY <1>1, <1>3, SumOfMultiples, SMT
<1>8. Sum(s) \in Nat /\ Sum(a) \in Nat
  BY <1>1, SumFacts, Zenon
<1> QED
  BY <1>5, <1>6, <1>7, <1>8, Zenon

\* What a coalition holds before and after padding: the credit numerator grows at most
\* by the factor 3 d + 1, the denominator of lambda_for_depth.
LEMMA PaddingGain ==
  ASSUME NEW d \in Nat \ {0}, NEW c \in Seq(BOOLEAN), NEW i \in 1..Len(c), c[i],
         NEW m \in Nat, m = Len(c) + 1,
         NEW cc, cc = SubSeq(c, 1, i) \o SubSeq(c, i, Len(c))
  PROVE  /\ credit(d, m, Held(c)) \in Nat
         /\ credit(d, m + 1, Held(cc)) \in Nat
         /\ credit(d, m + 1, Held(cc))
              <= (3 * d + 1) * credit(d, m, Held(c))
<1> DEFINE H == Held(c)
           K == Held(cc)
           s == [j \in H |-> AlphaShare(d, j, m)]
           a == [j \in K |-> AlphaShare(d, j, m + 1)]
           p == [j \in K |-> IF j <= i THEN j ELSE j - 1]
           group(v) == {j \in K : p[j] = v}
<1>1. H = {j \in 1..(m - 1) : c[j]} /\ K = {j \in 1..m : cc[j]} /\ m - 1 = Len(c)
  <2>1. Len(c) = m - 1 /\ Len(cc) = m
    BY PaddedPath
  <2> QED
    BY <2>1, Zenon DEF Held
<1>2. \A j \in 1..m : cc[j] = IF j <= i THEN c[j] ELSE c[j - 1]
  BY PaddedPath
<1>3. IsFiniteSet(H) /\ IsFiniteSet(K)
  <2>1. IsFiniteSet(1..(m - 1)) /\ IsFiniteSet(1..m)
    BY FS_Interval
  <2>2. H \subseteq 1..(m - 1) /\ K \subseteq 1..m
    BY <1>1, Zenon
  <2> QED
    BY <2>1, <2>2, FS_Subset, Zenon
<1>4. /\ credit(d, m, H) = Sum(s) /\ credit(d, m + 1, K) = Sum(a)
  BY Zenon DEF credit
<1> HIDE DEF H, K
<1>5. s \in [H -> Nat] /\ \A v \in H : s[v] = AlphaShare(d, v, m) /\ s[v] \in Nat
  <2>1. \A v \in H : AlphaShare(d, v, m) \in Nat
    BY <1>1, ShareFacts, Zenon
  <2> QED
    BY <2>1, Zenon
<1>6. a \in [K -> Nat] /\ \A j \in K : a[j] = AlphaShare(d, j, m + 1)
  <2>1. \A j \in K : j \in 1..((m + 1) - 1) /\ m + 1 \in Nat
    BY <1>1
  <2>2. \A j \in K : AlphaShare(d, j, m + 1) \in Nat
    BY <2>1, ShareFacts, Zenon
  <2> QED
    BY <2>2, Zenon
<1>7. p \in [K -> H] /\ \A j \in K : p[j] = IF j <= i THEN j ELSE j - 1
  <2>1. ASSUME NEW j \in K PROVE (IF j <= i THEN j ELSE j - 1) \in H
    <3>1. j \in 1..m /\ cc[j] /\ cc[j] = IF j <= i THEN c[j] ELSE c[j - 1]
      BY <1>1, <1>2, Zenon
    <3>2. i \in 1..(m - 1)
      BY <1>1, Zenon
    <3>3. CASE j <= i
      <4>1. j \in 1..(m - 1) /\ c[j]
        BY <3>1, <3>2, <3>3
      <4> QED
        BY <1>1, <3>3, <4>1, Zenon
    <3>4. CASE ~(j <= i)
      <4>1. j - 1 \in 1..(m - 1) /\ c[j - 1]
        BY <3>1, <3>2, <3>4
      <4> QED
        BY <1>1, <3>4, <4>1, Zenon
    <3> QED
      BY <3>3, <3>4, Zenon
  <2> QED
    BY <2>1, Zenon
<1> HIDE DEF s, a, p
<1>8. a \in [K -> Nat] /\ s \in [H -> Nat] /\ p \in [K -> H]
  BY <1>5, <1>6, <1>7, Zenon
<1>9. /\ \A j \in K : Sum([k \in {j} |-> a[k]]) = a[j]
      /\ \A j, l \in K : l # j => Sum([k \in {j, l} |-> a[k]]) = a[j] + a[l]
  <2>1. IsFiniteSet(K)
    BY <1>3, Zenon
  <2>2. a \in [K -> Nat]
    BY <1>8, Zenon
  <2>3. SumsOfFew(K, a)
    BY <2>1, <2>2, SumOfFew, Zenon
  <2> QED
    BY <2>3, Zenon DEF SumsOfFew
<1>10. ASSUME NEW v \in H
      PROVE  /\ Sum([j \in group(v) |-> a[j]]) \in Nat
             /\ Sum([j \in group(v) |-> a[j]]) <= (3 * d + 1) * s[v]
  <2>2. v \in 1..(m - 1) /\ c[v] /\ i \in 1..(m - 1) /\ v \in Nat
    BY <1>1
  <2>3. /\ AlphaShare(d, v, m + 1) = (2 * d + 1) * s[v]
        /\ AlphaShare(d, v + 1, m + 1) = d * s[v]
    <3>1. s[v] = AlphaShare(d, v, m)
      BY <1>5, Zenon
    <3>2. /\ AlphaShare(d, v, m + 1) = (2 * d + 1) * AlphaShare(d, v, m)
          /\ AlphaShare(d, v + 1, m + 1) = d * AlphaShare(d, v, m)
      BY <2>2, ShareFacts, Zenon
    <3> QED
      BY <3>1, <3>2, Zenon
  <2>4. s[v] \in Nat
    BY <1>5, Zenon
  <2>5. /\ v <= i => v \in K
        /\ i <= v => v + 1 \in K
    <3>1. v \in 1..m /\ v + 1 \in 1..m /\ (v + 1) - 1 = v
      BY <2>2
    <3>2. ASSUME v <= i PROVE v \in K
      BY <1>1, <1>2, <2>2, <3>1, <3>2, Zenon
    <3>3. ASSUME i <= v PROVE v + 1 \in K
      <4>1. ~(v + 1 <= i)
        BY <2>2, <3>3
      <4> QED
        BY <1>1, <1>2, <2>2, <3>1, <4>1, Zenon
    <3> QED
      BY <3>2, <3>3, Zenon
  <2>6. \A j \in K : j \in Int
    BY <1>1
  <2>7. CASE v < i
    <3>1. group(v) = {v}
      BY <1>7, <2>2, <2>5, <2>6, <2>7
    <3>2. v \in K
      BY <2>2, <2>5, <2>7
    <3>3. Sum([k \in {v} |-> a[k]]) = (2 * d + 1) * s[v]
      <4>1. Sum([k \in {v} |-> a[k]]) = a[v]
        BY <1>9, <3>2, Zenon
      <4> QED
        BY <1>6, <2>3, <3>2, <4>1, Zenon
    <3>4. \A x \in Nat : (2 * d + 1) * x <= (3 * d + 1) * x /\ (2 * d + 1) * x \in Nat
      BY SMT
    <3> HIDE DEF group
    <3> QED
      BY <2>4, <3>1, <3>3, <3>4, Zenon
  <2>8. CASE v > i
    <3>1. group(v) = {v + 1}
      BY <1>7, <2>2, <2>5, <2>6, <2>8
    <3>2. v + 1 \in K
      BY <2>2, <2>5, <2>8
    <3>3. Sum([k \in {v + 1} |-> a[k]]) = d * s[v]
      <4>1. Sum([k \in {v + 1} |-> a[k]]) = a[v + 1]
        BY <1>9, <3>2, Zenon
      <4> QED
        BY <1>6, <2>3, <3>2, <4>1, Zenon
    <3>4. \A x \in Nat : d * x <= (3 * d + 1) * x /\ d * x \in Nat
      BY SMT
    <3> HIDE DEF group
    <3> QED
      BY <2>4, <3>1, <3>3, <3>4, Zenon
  <2>9. CASE v = i
    <3>1. group(v) = {v, v + 1}
      BY <1>7, <2>2, <2>5, <2>6, <2>9
    <3>2. v \in K /\ v + 1 \in K /\ v + 1 # v
      BY <2>2, <2>5, <2>9
    <3>3. Sum([k \in {v, v + 1} |-> a[k]]) = (2 * d + 1) * s[v] + d * s[v]
      <4>1. Sum([k \in {v, v + 1} |-> a[k]]) = a[v] + a[v + 1]
        BY <1>9, <3>2, Zenon
      <4> QED
        BY <1>6, <2>3, <3>2, <4>1, Zenon
    <3>4. \A x \in Nat : /\ (2 * d + 1) * x + d * x <= (3 * d + 1) * x
                         /\ (2 * d + 1) * x + d * x \in Nat
      BY SMT
    <3> HIDE DEF group
    <3> QED
      BY <2>4, <3>1, <3>3, <3>4, Zenon
  <2> QED
    BY <2>2, <2>7, <2>8, <2>9
<1>11. 3 * d + 1 \in Nat
  BY SMT
<1>12. Sum(a) \in Nat /\ Sum(s) \in Nat /\ Sum(a) <= (3 * d + 1) * Sum(s)
  <2>1. \A v \in H :
           /\ Sum([j \in {j \in K : p[j] = v} |-> a[j]]) \in Nat
           /\ Sum([j \in {j \in K : p[j] = v} |-> a[j]]) <= (3 * d + 1) * s[v]
    BY <1>10, Zenon
  <2> QED
    <3>1. GroupsWithin(K, a, H, p, 3 * d + 1, s)
      BY <1>8, <1>11, <2>1, Zenon DEF GroupsWithin
    <3> QED
      BY <1>3, <3>1, GroupsBound, Zenon
<1> QED
  BY <1>4, <1>12, Zenon DEF H, K

CurveInv == depth \in Depth /\ coalition \in Seq(BOOLEAN)

\* Padding keeps the path a sequence.
LEMMA CurveTypes == CurveSpec => []CurveInv
<1>1. CurveInit => CurveInv
  BY DEF CurveInit, CurveInv
<1>2. CurveInv /\ [CurveNext]_curve_vars => CurveInv'
  <2> SUFFICES ASSUME CurveInv, [CurveNext]_curve_vars PROVE CurveInv'
    BY Zenon
  <2>1. CASE UNCHANGED curve_vars
    BY <2>1 DEF curve_vars, CurveInv
  <2>2. ASSUME NEW i \in 1..Len(coalition), Pad(i) PROVE CurveInv'
    <3>1. coalition' \in Seq(BOOLEAN)
      BY <2>2, PaddedPath, Zenon DEF Pad, CurveInv
    <3> QED
      BY <2>2, <3>1, Zenon DEF Pad, CurveInv
  <2> QED
    BY <2>1, <2>2, Zenon DEF CurveNext
<1> QED
  BY <1>1, <1>2, PTL DEF CurveSpec

\* evaluate_padding_case: no coalition gains credit by adding identities of its own next
\* to one of its relays, for any depth, any path and any positions of the coalition.
THEOREM PaddingGainsNothing == CurveSpec => PaddingNeverPays
<1> DEFINE m == path_length
           ratio == BudgetRatio(depth, m)
           Fair == credit(depth, m + 1, Held(coalition'))
                     * AlphaTotal(depth, m) * ratio[1]
                   <= credit(depth, m, Held(coalition))
                        * AlphaTotal(depth, m + 1) * ratio[2]
<1>1. CurveInv /\ [CurveNext]_curve_vars => [Fair]_curve_vars
  <2> SUFFICES ASSUME CurveInv, NEW i \in 1..Len(coalition), Pad(i) PROVE Fair
    BY Zenon DEF CurveNext
  <2> DEFINE d == depth
             q == 2 * d + 1
             t == 3 * d + 1
             X == credit(d, m + 1, Held(coalition'))
             C == credit(d, m, Held(coalition))
             A == AlphaTotal(d, m)
             B == AlphaTotal(d, m + 1)
             u == Min({d, m + 1}) * m
             w == Min({d, m}) * (m + 1)
  <2>1. d \in Nat \ {0} /\ coalition \in Seq(BOOLEAN)
    BY CurveAssumption, Zenon DEF CurveInv
  <2>2. m \in Nat \ {0} /\ m = Len(coalition) + 1 /\ m \in Nat
    BY <2>1 DEF path_length
  <2>3. coalition[i] /\ coalition' = SubSeq(coalition, 1, i) \o SubSeq(coalition, i, Len(coalition))
    BY Zenon DEF Pad
  <2>4. ratio[1] = u * q /\ ratio[2] = w * t
    BY DEF BudgetRatio
  <2> HIDE DEF m
  <2>5. X \in Nat /\ C \in Nat /\ X <= t * C
    BY <2>1, <2>2, <2>3, PaddingGain, Zenon
  <2>6. A \in Nat /\ B \in Nat /\ q * A <= B
    BY <2>1, <2>2, TotalFacts, Zenon
  <2>7. u \in Nat /\ w \in Nat /\ u <= w
    <3>1. m + 1 \in Int /\ m \in Int /\ d \in Int
      BY <2>1, <2>2
    <3>2. /\ Min({d, m + 1}) = IF d <= m + 1 THEN d ELSE m + 1
          /\ Min({d, m}) = IF d <= m THEN d ELSE m
      BY <3>1, MinOfTwo, Zenon
    <3>3. CASE d <= m
      <4>1. Min({d, m + 1}) = d /\ Min({d, m}) = d
        BY <2>1, <2>2, <3>2, <3>3
      <4> QED
        BY <2>1, <2>2, <4>1
    <3>4. CASE ~(d <= m)
      <4>1. Min({d, m + 1}) = m + 1 /\ Min({d, m}) = m
        BY <2>1, <2>2, <3>2, <3>4
      <4> QED
        BY <2>2, <4>1
    <3> QED
      BY <3>3, <3>4, Zenon
  <2>8. q \in Nat /\ t \in Nat
    BY <2>1
  <2>9. Fair <=> X * A * (u * q) <= C * B * (w * t)
    BY <2>4, Zenon
  <2> HIDE DEF X, C, A, B, u, w, q, t, Fair
  <2>10. X * A * (u * q) <= C * B * (w * t)
    <3>1. \A k, l, n, o \in Nat : k <= l /\ n <= o => k * n <= l * o /\ k * n \in Nat
      BY SMT
    <3>2. X * u <= (t * C) * w /\ X * u \in Nat
      BY <2>5, <2>7, <2>8, <3>1, SMT
    <3>3. (t * C) * w \in Nat /\ q * A \in Nat
      BY <2>5, <2>6, <2>7, <2>8, <3>1, SMT
    <3>4. (X * u) * (q * A) <= ((t * C) * w) * B
      BY <2>6, <3>1, <3>2, <3>3, Zenon
    <3>5. \A k, l, n, o \in Nat : (k * l) * (n * o) = k * o * (l * n)
      BY SMT
    <3>6. \A k, l, n, o \in Nat : ((k * l) * n) * o = l * o * (n * k)
      BY SMT
    <3>7. (X * u) * (q * A) = X * A * (u * q)
      <4>1. X \in Nat /\ u \in Nat /\ q \in Nat /\ A \in Nat
        BY <2>5, <2>6, <2>7, <2>8, Zenon
      <4> QED
        BY <4>1, SMT
    <3>8. ((t * C) * w) * B = C * B * (w * t)
      <4>1. t \in Nat /\ C \in Nat /\ w \in Nat /\ B \in Nat
        BY <2>5, <2>6, <2>7, <2>8, Zenon
      <4> QED
        BY <4>1, SMT
    <3> QED
      BY <3>4, <3>7, <3>8, Zenon
  <2> QED
    BY <2>9, <2>10, Zenon
<1> QED
  BY <1>1, CurveTypes, PTL DEF CurveSpec, PaddingNeverPays

---------------------------------------------------------------------------------
(* The fixed-point arithmetic. *)

\* FixedPointAssumption, constant by constant.
LEMMA FixedConstants ==
  /\ IsFiniteSet(Validator) /\ Validator # {} /\ None \notin Validator
  /\ effective_balance \in [Validator -> Nat \ {0}]
  /\ SCALE \in Nat \ {0} /\ target_depth \in Nat \ {0} /\ reference_cost \in Nat \ {0}
  /\ beta \in Nat /\ saturation_k \in Nat /\ kappa \in Nat /\ zeta \in Nat
  /\ bonus_cap \in Nat /\ eta \in Nat /\ max_random \in Nat
  /\ U64_MAX \in Nat /\ SCALE <= U64_MAX
  /\ fee_ratio \in 0..SCALE
  /\ Fees \subseteq Nat /\ Costs \subseteq Nat /\ MaxPaths \in Nat \ {0}
  /\ Paths \subseteq Seq(Validator)
  BY FixedPointAssumption, Zenon

\* Division rounds down.
LEMMA DivFacts ==
  ASSUME NEW a \in Nat, NEW b \in Nat \ {0}
  PROVE  a \div b \in Nat /\ b * (a \div b) <= a /\ a < b * (a \div b) + b
  OBVIOUS

\* A larger dividend has no smaller quotient.
LEMMA DivMonotone ==
  ASSUME NEW a \in Nat, NEW c \in Nat, a <= c, NEW b \in Nat \ {0}
  PROVE  a \div b <= c \div b
<1> DEFINE x == a \div b
           y == c \div b
<1>1. x \in Nat /\ b * x <= a
  BY DivFacts, Zenon
<1>2. y \in Nat /\ c < b * y + b
  BY DivFacts, Zenon
<1> HIDE DEF x, y
<1>3. ~(x > y)
  <2> SUFFICES ASSUME x > y PROVE FALSE
    BY Zenon
  <2>1. x >= y + 1
    BY <1>1, <1>2
  <2>2. \A k, l \in Nat : k >= l => b * k >= b * l
    BY SMT
  <2>3. b * x >= b * (y + 1) /\ b * (y + 1) = b * y + b
    BY <1>1, <1>2, <2>1, <2>2, SMT
  <2>4. b * x \in Nat /\ b * y \in Nat
    BY <1>1, <1>2, SMT
  <2> QED
    BY <1>1, <1>2, <2>3, <2>4
<1> QED
  BY <1>1, <1>2, <1>3 DEF x, y

\* A quotient of a number of at most n times the divisor is at most n.
LEMMA DivAtMost ==
  ASSUME NEW a \in Nat, NEW n \in Nat, NEW b \in Nat \ {0}, a <= n * b
  PROVE  a \div b \in Nat /\ a \div b <= n
<1> DEFINE x == a \div b
<1>1. x \in Nat /\ b * x <= a
  BY DivFacts, Zenon
<1> HIDE DEF x
<1>2. ~(x > n)
  <2> SUFFICES ASSUME x > n PROVE FALSE
    BY Zenon
  <2>1. x >= n + 1
    BY <1>1
  <2>2. \A k, l \in Nat : k >= l => b * k >= b * l
    BY SMT
  <2>3. b * x >= b * (n + 1) /\ b * (n + 1) = n * b + b
    BY <1>1, <2>1, <2>2, SMT
  <2>4. b * x \in Nat /\ n * b \in Nat
    BY <1>1, SMT
  <2> QED
    BY <1>1, <2>3, <2>4
<1> QED
  BY <1>1, <1>2 DEF x

\* Saturation keeps the order and changes nothing that fits.
LEMMA CapFacts ==
  ASSUME NEW x \in Nat
  PROVE  /\ Cap(x) \in Nat /\ Cap(x) <= x
         /\ x <= U64_MAX => Cap(x) = x
         /\ \A y \in Nat : x <= y => Cap(x) <= Cap(y)
<1>1. \A y \in Nat : Cap(y) = IF y <= U64_MAX THEN y ELSE U64_MAX
  <2>1. U64_MAX \in Int /\ \A y \in Nat : y \in Int
    BY FixedConstants
  <2> QED
    BY <2>1, MinOfTwo, Zenon DEF Cap
<1>2. U64_MAX \in Nat
  BY FixedConstants, Zenon
<1> QED
  BY <1>1, <1>2

\* scaled_mul_div rounds down and keeps the order.
LEMMA MulDivFacts ==
  ASSUME NEW value \in Nat, NEW multiplier \in Nat, NEW divisor \in Nat
  PROVE  /\ scaled_mul_div(value, multiplier, divisor) \in Nat
         /\ divisor * scaled_mul_div(value, multiplier, divisor) <= value * multiplier
         /\ \A w \in Nat : value <= w =>
              scaled_mul_div(value, multiplier, divisor)
                <= scaled_mul_div(w, multiplier, divisor)
<1>1. \A w \in Nat : w * multiplier \in Nat /\ (value <= w => value * multiplier <= w * multiplier)
  BY SMT
<1>2. CASE divisor = 0
  <2>1. \A w : scaled_mul_div(w, multiplier, divisor) = 0
    BY <1>2, Zenon DEF scaled_mul_div
  <2>2. 0 \in Nat /\ 0 <= 0
    BY SMT
  <2>3. divisor * 0 <= value * multiplier
    BY <1>1, <1>2
  <2> QED
    BY <2>1, <2>2, <2>3, SMT
<1>3. CASE divisor # 0
  <2>1. \A w : scaled_mul_div(w, multiplier, divisor)
                 = Cap((w * multiplier) \div divisor)
    BY <1>3, Zenon DEF scaled_mul_div
  <2>2. divisor \in Nat \ {0}
    BY <1>3, Zenon
  <2> DEFINE x == (value * multiplier) \div divisor
  <2>3. x \in Nat /\ divisor * x <= value * multiplier
    BY <1>1, <2>2, DivFacts, Zenon
  <2>4. Cap(x) \in Nat /\ divisor * Cap(x) <= value * multiplier
    <3> HIDE DEF x
    <3>1. Cap(x) \in Nat /\ Cap(x) <= x
      BY <2>3, CapFacts, Zenon
    <3>2. \A k, l \in Nat : k <= l => divisor * k <= divisor * l
      BY SMT
    <3>3. divisor * Cap(x) <= divisor * x
      BY <2>3, <3>1, <3>2, Zenon
    <3>4. divisor * Cap(x) \in Int /\ divisor * x \in Int /\ value * multiplier \in Int
      BY <1>1, <2>3, <3>1, SMT
    <3> QED
      BY <2>3, <3>1, <3>3, <3>4
  <2>5. ASSUME NEW w \in Nat, value <= w
        PROVE  Cap(x) <= Cap((w * multiplier) \div divisor)
    <3>1. value * multiplier \in Nat /\ w * multiplier \in Nat
          /\ value * multiplier <= w * multiplier
      BY <1>1, <2>5, Zenon
    <3>2. x <= (w * multiplier) \div divisor /\ (w * multiplier) \div divisor \in Nat
      BY <2>2, <3>1, DivMonotone, DivFacts, Zenon
    <3> HIDE DEF x
    <3> QED
      BY <2>3, <3>2, CapFacts, Zenon
  <2> QED
    BY <2>1, <2>4, <2>5, Zenon
<1> QED
  BY <1>2, <1>3, Zenon

\* fixed_pow_scaled of a fraction is a fraction.
LEMMA PowBound ==
  ASSUME NEW base \in Nat, base <= SCALE, NEW n \in Nat
  PROVE  /\ fixed_pow_scaled(base, n) \in Nat
         /\ fixed_pow_scaled(base, n) <= SCALE
         /\ n = 0 => fixed_pow_scaled(base, n) = SCALE
<1> DEFINE Rec(f) == f = [k \in 0..n |-> IF k = 0 THEN SCALE
                                         ELSE (f[k - 1] * base) \div SCALE]
           power == CHOOSE f : Rec(f)
           step == [x \in Nat |-> (x * base) \div SCALE]
<1>1. SCALE \in Nat \ {0} /\ SCALE \in Nat /\ SCALE <= U64_MAX
  BY FixedConstants, Zenon
<1>2. \A x \in Nat : x * base \in Nat /\ (x * base) \div SCALE \in Nat
  <2>1. \A x \in Nat : x * base \in Nat
    BY SMT
  <2> QED
    BY <1>1, <2>1, DivFacts, Zenon
<1>3. step \in [Nat -> Nat]
  BY <1>2, Zenon
<1>4. \E f : Rec(f)
  <2> HIDE DEF step
  <2>1. PICK h \in [0..n -> Nat] : h[0] = SCALE /\ \A k \in 1..n : h[k] = step[h[k - 1]]
    BY <1>1, <1>3, Iterates, Zenon
  <2>2. \A k \in 1..n : h[k - 1] \in Nat
    BY SMT
  <2>3. \A k \in 1..n : h[k] = (h[k - 1] * base) \div SCALE
    BY <2>1, <2>2, Zenon DEF step
  <2>4. \A k \in 0..n : k = 0 \/ k \in 1..n
    BY SMT
  <2>5. \A k \in 0..n : h[k] = IF k = 0 THEN SCALE ELSE (h[k - 1] * base) \div SCALE
    BY <2>1, <2>3, <2>4, Zenon
  <2>6. Rec(h)
    BY <2>5, Zenon
  <2> HIDE DEF Rec
  <2> QED
    BY <2>6, Zenon
<1>5. Rec(power)
  <2> HIDE DEF Rec
  <2> QED
    BY <1>4, Zenon
<1>6. fixed_pow_scaled(base, n) = Cap(power[n])
  BY Zenon DEF fixed_pow_scaled
<1>7. \A k \in 0..n : power[k] = IF k = 0 THEN SCALE ELSE (power[k - 1] * base) \div SCALE
  <2> HIDE DEF power
  <2> QED
    BY <1>5, Zenon
<1> HIDE DEF power
<1> DEFINE S == {k \in Nat : k <= n => power[k] \in Nat /\ power[k] <= SCALE}
<1>8. 0 \in S /\ power[0] = SCALE
  <2>1. 0 \in 0..n /\ 0 \in Nat /\ SCALE <= SCALE
    BY <1>1
  <2> QED
    BY <1>1, <1>7, <2>1, Zenon
<1>9. ASSUME NEW k \in Nat, k < n, k \in S PROVE k + 1 \in S
  <2>1. k + 1 \in 0..n /\ k + 1 # 0 /\ (k + 1) - 1 = k /\ k + 1 \in Nat /\ k <= n
    BY <1>9
  <2>2. power[k] \in Nat /\ power[k] <= SCALE
    BY <1>9, <2>1, Zenon
  <2>3. power[k + 1] = (power[k] * base) \div SCALE
    BY <1>7, <2>1, Zenon
  <2>4. \A x \in Nat : x <= SCALE => x * base <= SCALE * SCALE
    BY <1>1, SMT
  <2>5. power[k + 1] \in Nat /\ power[k + 1] <= SCALE
    <3>1. power[k] * base \in Nat /\ power[k] * base <= SCALE * SCALE
      BY <1>2, <2>2, <2>4, Zenon
    <3> QED
      BY <1>1, <2>3, <3>1, DivAtMost, Zenon
  <2> QED
    BY <2>1, <2>5, Zenon
<1>10. 0..n \subseteq S
  <2> HIDE DEF S
  <2> QED
    BY <1>8, <1>9, BoundedInduction, Zenon
<1>11. n \in 0..n /\ n <= n
  BY SMT
<1>12. power[n] \in Nat /\ power[n] <= SCALE
  BY <1>10, <1>11, Zenon
<1>13. power[n] <= U64_MAX
  BY <1>1, <1>12, FixedConstants
<1>14. fixed_pow_scaled(base, n) = power[n]
  BY <1>6, <1>12, <1>13, CapFacts, Zenon
<1> QED
  BY <1>8, <1>12, <1>14, Zenon

\* A path distributes at most the whole scale.
LEMMA BudgetBound ==
  ASSUME NEW n \in Nat \ {0}
  PROVE  path_budget(n) \in Nat /\ path_budget(n) <= SCALE
<1> DEFINE factor == IF target_depth >= n THEN SCALE ELSE (target_depth * SCALE) \div n
           lambda == ((2 * target_depth + 1) * SCALE) \div (3 * target_depth + 1)
           decay == fixed_pow_scaled(lambda, n - 1)
<1>1. SCALE \in Nat \ {0} /\ SCALE \in Nat /\ target_depth \in Nat \ {0} /\ target_depth \in Nat
  BY FixedConstants, Zenon
<1>2. factor \in Nat /\ factor <= SCALE
  <2>1. CASE target_depth >= n
    BY <1>1, <2>1
  <2>2. CASE ~(target_depth >= n)
    <3>1. target_depth * SCALE \in Nat /\ target_depth * SCALE <= SCALE * n
      <4>1. target_depth <= n
        BY <1>1, <2>2
      <4>2. \A k \in Nat : k <= n => k * SCALE <= SCALE * n /\ k * SCALE \in Nat
        BY <1>1, SMT
      <4> QED
        BY <1>1, <4>1, <4>2, Zenon
    <3>2. (target_depth * SCALE) \div n \in Nat /\ (target_depth * SCALE) \div n <= SCALE
      BY <1>1, <3>1, DivAtMost, Zenon
    <3> QED
      BY <2>2, <3>2, Zenon
  <2> QED
    BY <2>1, <2>2, Zenon
<1>3. lambda \in Nat /\ lambda <= SCALE
  <2> DEFINE a == (2 * target_depth + 1) * SCALE
             b == 3 * target_depth + 1
  <2>1. b \in Nat \ {0} /\ 2 * target_depth + 1 \in Nat /\ 2 * target_depth + 1 <= b
    BY <1>1
  <2>2. a \in Nat /\ a <= SCALE * b
    <3> HIDE DEF b
    <3>1. \A k \in Nat : k <= b => k * SCALE <= SCALE * b /\ k * SCALE \in Nat
      BY <1>1, <2>1, SMT
    <3> QED
      BY <2>1, <3>1, Zenon
  <2> HIDE DEF a, b
  <2>3. a \div b \in Nat /\ a \div b <= SCALE
    BY <1>1, <2>1, <2>2, DivAtMost, Zenon
  <2> QED
    BY <2>3, Zenon DEF a, b
<1>4. path_budget(n) = Cap((factor * decay) \div SCALE)
  BY Zenon DEF path_budget
<1> HIDE DEF factor, lambda
<1>5. decay \in Nat /\ decay <= SCALE
  <2>1. n - 1 \in Nat
    BY SMT
  <2> QED
    BY <1>3, <2>1, PowBound, Zenon
<1> HIDE DEF decay
<1>6. factor * decay \in Nat /\ factor * decay <= SCALE * SCALE
  BY <1>1, <1>2, <1>5, SMT
<1>7. (factor * decay) \div SCALE \in Nat /\ (factor * decay) \div SCALE <= SCALE
  BY <1>1, <1>6, DivAtMost, Zenon
<1> DEFINE x == (factor * decay) \div SCALE
<1> HIDE DEF x
<1>8. Cap(x) \in Nat /\ Cap(x) <= x /\ x \in Nat /\ x <= SCALE
  BY <1>7, CapFacts, Zenon DEF x
<1>9. Cap(x) <= SCALE
  BY <1>1, <1>8
<1> QED
  BY <1>4, <1>8, <1>9, Zenon DEF x

\* The weights of the relays; the first one is not discounted.
LEMMA RelayWeightFacts ==
  ASSUME NEW k \in Nat
  PROVE  RelayWeight(k) \in Nat /\ (k = 0 => RelayWeight(k) = SCALE)
<1> DEFINE a == target_depth * SCALE
           b == 2 * target_depth + 1
<1>1. SCALE \in Nat \ {0} /\ SCALE \in Nat /\ target_depth \in Nat
  BY FixedConstants, Zenon
<1>2. b \in Nat \ {0} /\ target_depth <= b
  BY <1>1
<1>3. a \in Nat /\ a <= SCALE * b
  <2> HIDE DEF b
  <2>1. \A x \in Nat : x <= b => x * SCALE <= SCALE * b /\ x * SCALE \in Nat
    BY <1>1, <1>2, SMT
  <2> QED
    BY <1>1, <1>2, <2>1, Zenon
<1>4. RelayWeight(k) = fixed_pow_scaled(a \div b, k)
  BY Zenon DEF RelayWeight
<1> HIDE DEF a, b
<1>5. a \div b \in Nat /\ a \div b <= SCALE
  BY <1>1, <1>2, <1>3, DivAtMost, Zenon
<1> QED
  BY <1>4, <1>5, PowBound, Zenon

\* Values that are at most a fraction of others add up to at most that fraction.
Fractions(D, f, h, a, b) ==
    /\ IsFiniteSet(D) /\ f \in [D -> Nat] /\ h \in [D -> Nat] /\ a \in Nat /\ b \in Nat
    /\ \A x \in D : a * f[x] <= b * h[x]

\* The sum of such values.
LEMMA SumOfFractions ==
  ASSUME NEW D, NEW f, NEW h, NEW a, NEW b, Fractions(D, f, h, a, b)
  PROVE  a * Sum(f) <= b * Sum(h)
<1> USE DEF Fractions
<1> DEFINE l == [x \in D |-> a * f[x]]
           r == [x \in D |-> b * h[x]]
<1>1. \A n \in Nat : a * n \in Nat /\ b * n \in Nat
  BY SMT
<1>2. \A x \in D : f[x] \in Nat /\ h[x] \in Nat
  BY Zenon
<1>3. l \in [D -> Nat] /\ r \in [D -> Nat]
  BY <1>1, <1>2, Zenon
<1>4. \A x \in D : l[x] = a * f[x] /\ r[x] = b * h[x] /\ l[x] <= r[x]
  BY Zenon
<1> HIDE DEF l, r
<1>5. Sum(l) = a * Sum(f) /\ Sum(r) = b * Sum(h)
  BY <1>3, <1>4, SumOfMultiples, SMT
<1>6. Sum(l) <= Sum(r)
  BY <1>3, <1>4, SumMonotone, Zenon
<1> QED
  BY <1>5, <1>6, Zenon

\* The contributions of the relays of a path are a part of the scale.
LEMMA ContributionsFit ==
  ASSUME NEW path \in Seq(Validator)
  PROVE  LET c == relay_contributions(path)
         IN  /\ DOMAIN c = 1..(Len(path) - 2)
             /\ c \in [1..(Len(path) - 2) -> Nat]
             /\ Sum(c) \in Nat /\ Sum(c) <= SCALE
<1> DEFINE n == Len(path) - 2
           c == relay_contributions(path)
           B == path_budget(n + 1)
           W == weight_sum(n)
           w == [j \in 1..n |-> RelayWeight(j - 1)]
<1>1. SCALE \in Nat \ {0} /\ SCALE \in Nat /\ n \in Int
  BY FixedConstants
<1>2. IsFiniteSet(1..n)
  BY <1>1, FS_Interval
<1>3. c = [j \in 1..n |-> Cap((B * RelayWeight(j - 1)) \div W)]
  BY Zenon DEF relay_contributions
<1>4. W = Sum(w)
  BY Zenon DEF weight_sum
<1> HIDE DEF n, c, B, W
<1>5. w \in [1..n -> Nat] /\ \A j \in 1..n : w[j] = RelayWeight(j - 1) /\ w[j] \in Nat
  <2>1. \A j \in 1..n : j - 1 \in Nat
    BY <1>1
  <2>2. \A j \in 1..n : RelayWeight(j - 1) \in Nat
    BY <2>1, RelayWeightFacts, Zenon
  <2> QED
    BY <2>2, Zenon
<1>6. CASE n < 1
  <2>1. 1..n = {}
    BY <1>1, <1>6
  <2>2. c \in [1..n -> Nat] /\ \A j \in 1..n : c[j] = 0
    BY <1>3, <2>1, Zenon
  <2>3. Sum(c) = 0 /\ DOMAIN c = 1..n
    BY <1>2, <2>2, SumOfZeros, Zenon
  <2>4. 0 \in Nat /\ 0 <= SCALE
    BY <1>1
  <2> QED
    BY <2>2, <2>3, <2>4, Zenon DEF n, c
<1>7. CASE n >= 1
  <2>1. n + 1 \in Nat \ {0} /\ 1 \in 1..n /\ 1 - 1 = 0 /\ 0 \in Nat
    BY <1>1, <1>7
  <2>2. B \in Nat /\ B <= SCALE
    BY <2>1, BudgetBound, Zenon DEF B
  <2>3. w[1] = SCALE
    BY <1>5, <2>1, RelayWeightFacts, Zenon
  <2> HIDE DEF w
  <2>4. W \in Nat /\ SCALE <= W
    BY <1>2, <1>4, <1>5, <2>1, <2>3, SumBounds, SumFacts, Zenon
  <2>5. W \in Nat \ {0}
    BY <1>1, <2>4
  <2>6. ASSUME NEW j \in 1..n
        PROVE  c[j] \in Nat /\ W * c[j] <= B * w[j]
    <3> DEFINE y == B * w[j]
               x == y \div W
    <3>1. c[j] = Cap(x)
      BY <1>3, <1>5, Zenon
    <3>2. y \in Nat
      <4>1. w[j] \in Nat
        BY <1>5, Zenon
      <4> QED
        BY <2>2, <4>1, SMT
    <3> HIDE DEF y
    <3>3. x \in Nat /\ W * x <= y
      BY <2>5, <3>2, DivFacts, Zenon
    <3> HIDE DEF x
    <3>4. Cap(x) \in Nat /\ Cap(x) <= x
      BY <3>3, CapFacts, Zenon
    <3>5. \A k, l \in Nat : k <= l => W * k <= W * l /\ W * k \in Nat /\ W * l \in Nat
      BY <2>4, SMT
    <3>6. W * Cap(x) <= y
      <4>1. /\ W * Cap(x) <= W * x
            /\ W * Cap(x) \in Nat /\ W * x \in Nat
        BY <3>3, <3>4, <3>5, Zenon
      <4> QED
        BY <3>2, <3>3, <4>1
    <3> QED
      BY <3>1, <3>4, <3>6, Zenon DEF y
  <2>7. c \in [1..n -> Nat] /\ DOMAIN c = 1..n
    BY <1>3, <2>6, Zenon
  <2>8. Sum(c) \in Nat
    BY <1>2, <2>7, SumFacts, Zenon
  <2>9. W * Sum(c) <= B * W
    <3>1. Fractions(1..n, c, w, W, B)
      BY <1>2, <1>5, <2>2, <2>4, <2>6, <2>7, Zenon DEF Fractions
    <3>2. W * Sum(c) <= B * Sum(w)
      BY <3>1, SumOfFractions, Zenon
    <3> QED
      BY <1>4, <3>2, Zenon
  <2>10. Sum(c) <= B
    <3>1. \A x \in Nat : x > B => W * x > B * W
      BY <2>2, <2>5, SMT
    <3> QED
      BY <2>2, <2>4, <2>8, <2>9, <3>1, SMT
  <2>11. Sum(c) <= SCALE
    BY <1>1, <2>2, <2>8, <2>10
  <2> QED
    BY <2>7, <2>8, <2>11, Zenon DEF n, c
<1> QED
  BY <1>1, <1>6, <1>7

\* saturating_sub of what does not exceed is the difference.
LEMMA SubFacts ==
  ASSUME NEW x \in Nat, NEW y \in Nat, y <= x
  PROVE  saturating_sub(x, y) = x - y /\ x - y \in Nat
<1> DEFINE z == x - y
<1>1. z \in Nat /\ z >= 0 /\ \A w \in {z, 0} : w >= z /\ w >= 0 => w = z
  OBVIOUS
<1>2. z >= z
  BY <1>1
<1> HIDE DEF z
<1>3. Max({z, 0}) = z
  <2>1. \A w \in {z, 0} : (\A u \in {z, 0} : w >= u) => w = z
    BY <1>1, Zenon
  <2>2. \A u \in {z, 0} : z >= u
    BY <1>1, <1>2, Zenon
  <2> QED
    BY <2>1, <2>2, Zenon DEF Max
<1> QED
  BY <1>1, <1>3, Zenon DEF z, saturating_sub

\* What each v receives of a, the part of j going to p[j].
GroupSums(J, a, V, p) == [v \in V |-> Sum([j \in {j \in J : p[j] = v} |-> a[j]])]

Grouping(J, a, V, p) ==
    IsFiniteSet(J) /\ a \in [J -> Nat] /\ IsFiniteSet(V) /\ p \in [J -> V]

\* What all receive together is the whole sum.
LEMMA GroupSumFacts ==
  ASSUME NEW J, NEW a, NEW V, NEW p, Grouping(J, a, V, p)
  PROVE  /\ GroupSums(J, a, V, p) \in [V -> Nat]
         /\ Sum(GroupSums(J, a, V, p)) = Sum(a)
<1> USE DEF Grouping
<1> DEFINE e == GroupSums(J, a, V, p)
<1>1. ASSUME NEW v \in V PROVE Sum([j \in {j \in J : p[j] = v} |-> a[j]]) \in Nat
  <2> DEFINE K == {j \in J : p[j] = v}
             f == [j \in K |-> a[j]]
  <2>1. K \subseteq J /\ f \in [K -> Nat]
    BY Zenon
  <2> HIDE DEF K, f
  <2>2. IsFiniteSet(K)
    BY <2>1, FS_Subset, Zenon
  <2>3. Sum(f) \in Nat
    BY <2>1, <2>2, SumFacts, Zenon
  <2> QED
    BY <2>3, Zenon DEF f, K
<1>2. e \in [V -> Nat] /\ \A v \in V : e[v] = Sum([j \in {j \in J : p[j] = v} |-> a[j]])
  BY <1>1, Zenon DEF GroupSums
<1> HIDE DEF e
<1>3. Sum(e) = Sum(a)
  BY <1>2, SumOfGroups, SMT
<1> QED
  BY <1>2, <1>3, Zenon DEF e

\* AddToRelays hands out all of the amounts, unless a sum saturates.
LEMMA RelaysAdded ==
  ASSUME NEW path \in Seq(Validator), NEW sums \in [Validator -> Nat],
         NEW amounts \in [1..(Len(path) - 2) -> Nat]
  PROVE  /\ AddToRelays(sums, path, amounts) \in [Validator -> Nat]
         /\ Sum(sums) + Sum(amounts) <= U64_MAX =>
              Sum(AddToRelays(sums, path, amounts)) = Sum(sums) + Sum(amounts)
<1> DEFINE n == Len(path) - 2
           p == [j \in 1..n |-> path[j + 1]]
           e == GroupSums(1..n, amounts, Validator, p)
           both == [v \in Validator |-> sums[v] + e[v]]
           r == AddToRelays(sums, path, amounts)
<1>1. IsFiniteSet(Validator) /\ U64_MAX \in Nat
  BY FixedConstants, Zenon
<1>2. n \in Int
  OBVIOUS
<1>3. IsFiniteSet(1..n)
  <2> HIDE DEF n
  <2> QED
    BY <1>2, FS_Interval
<1>4. p \in [1..n -> Validator] /\ \A j \in 1..n : p[j] = path[j + 1]
  <2>1. \A j \in 1..n : path[j + 1] \in Validator
    OBVIOUS
  <2> QED
    BY <2>1, Zenon
<1>5. amounts \in [1..n -> Nat] /\ DOMAIN amounts = 1..n
  BY Zenon
<1> HIDE DEF n, p
<1>6. e \in [Validator -> Nat] /\ Sum(e) = Sum(amounts)
  <2>1. Grouping(1..n, amounts, Validator, p)
    BY <1>1, <1>3, <1>4, <1>5, Zenon DEF Grouping
  <2> QED
    BY <2>1, GroupSumFacts, SMT
<1>7. ASSUME NEW v \in Validator PROVE r[v] = Cap(sums[v] + e[v])
  <2>1. {j \in DOMAIN amounts : path[j + 1] = v} = {j \in 1..n : p[j] = v}
    BY <1>4, <1>5, Zenon
  <2>2. e[v] = Sum([j \in {j \in 1..n : p[j] = v} |-> amounts[j]])
    BY Zenon DEF GroupSums
  <2>3. r[v] = Cap(sums[v] + Sum([j \in {j \in DOMAIN amounts : path[j + 1] = v}
                                                |-> amounts[j]]))
    BY Zenon DEF AddToRelays, saturating_add
  <2> HIDE DEF e, r
  <2> QED
    BY <2>1, <2>2, <2>3, Zenon
<1>8. r = [v \in Validator |-> r[v]]
  BY Zenon DEF AddToRelays
<1> HIDE DEF e, r
<1>9. both \in [Validator -> Nat] /\ \A v \in Validator : both[v] = sums[v] + e[v]
  <2>1. \A x, y \in Nat : x + y \in Nat
    BY SMT
  <2> QED
    BY <1>6, <2>1, Zenon
<1> HIDE DEF both
<1>10. r \in [Validator -> Nat]
  <2>1. \A v \in Validator : Cap(both[v]) \in Nat
    BY <1>9, CapFacts, Zenon
  <2>2. \A v \in Validator : r[v] \in Nat
    BY <1>7, <1>9, <2>1, Zenon
  <2> QED
    BY <1>8, <2>2, Zenon
<1>11. Sum(both) = Sum(sums) + Sum(amounts)
  <2>1. Sum(both) = Sum(sums) + Sum(e)
    <3>1. Adds(Validator, sums, e, both)
      BY <1>1, <1>6, <1>9, Zenon DEF Adds
    <3> QED
      BY <3>1, SumOfSums, SMT
  <2> QED
    BY <1>6, <2>1, Zenon
<1>12. ASSUME Sum(sums) + Sum(amounts) <= U64_MAX PROVE Sum(r) = Sum(sums) + Sum(amounts)
  <2>1. ASSUME NEW v \in Validator PROVE r[v] = both[v]
    <3>1. both[v] \in Nat /\ both[v] <= Sum(both) /\ Sum(both) \in Nat
      BY <1>1, <1>9, SumBounds, SumFacts, Zenon
    <3>2. both[v] <= U64_MAX
      BY <1>1, <1>11, <1>12, <3>1
    <3> QED
      <4>1. r[v] = Cap(both[v])
        BY <1>7, <1>9, Zenon
      <4>2. Cap(both[v]) = both[v]
        BY <3>1, <3>2, CapFacts, Zenon
      <4> QED
        BY <4>1, <4>2, Zenon
  <2>2. r = both
    BY <1>9, <1>10, <2>1, SMT
  <2> QED
    BY <1>11, <2>2, Zenon
<1> QED
  BY <1>10, <1>12, Zenon DEF r

\* So does the credit of the proposer of a block.
LEMMA ProposerAdded ==
  ASSUME NEW s \in [Validator -> Nat], NEW v \in Validator, NEW x \in Nat,
         Sum(s) + x <= U64_MAX
  PROVE  /\ [s EXCEPT ![v] = saturating_add(s[v], x)] \in [Validator -> Nat]
         /\ Sum([s EXCEPT ![v] = saturating_add(s[v], x)]) = Sum(s) + x
<1> DEFINE r == [s EXCEPT ![v] = saturating_add(s[v], x)]
           one == [u \in Validator |-> IF u = v THEN x ELSE 0]
<1>1. IsFiniteSet(Validator) /\ U64_MAX \in Nat
  BY FixedConstants, Zenon
<1>2. s[v] \in Nat /\ s[v] <= Sum(s) /\ Sum(s) \in Nat
  BY <1>1, SumBounds, SumFacts, Zenon
<1>3. saturating_add(s[v], x) = s[v] + x
  <2>1. s[v] + x \in Nat /\ s[v] + x <= U64_MAX
    BY <1>1, <1>2
  <2> QED
    BY <2>1, CapFacts, Zenon DEF saturating_add
<1>4. one \in [Validator -> Nat] /\ \A u \in Validator : one[u] = IF u = v THEN x ELSE 0
  OBVIOUS
<1>5. r \in [Validator -> Nat] /\ \A u \in Validator : r[u] = s[u] + one[u]
  BY <1>2, <1>3
<1> HIDE DEF one, r
<1>6. Sum(one) = x
  <2>1. OneAmongZeros(Validator, v, x, one)
    BY <1>1, <1>4, Zenon DEF OneAmongZeros
  <2> QED
    BY <2>1, SumOfOne, Zenon
<1>7. Sum(r) = Sum(s) + Sum(one)
  <2>1. Adds(Validator, s, one, r)
    BY <1>1, <1>4, <1>5, Zenon DEF Adds
  <2> QED
    BY <2>1, SumOfSums, SMT
<1> QED
  BY <1>5, <1>6, <1>7, Zenon DEF r

\* What the relays of a path are credited is at most the budget of the relays.
LEMMA AmountsFit ==
  ASSUME NEW path \in Seq(Validator), NEW R \in Nat, NEW c, c = relay_contributions(path),
         NEW am, am = [j \in DOMAIN c |-> scaled_mul_div(R, c[j], SCALE)]
  PROVE  /\ am \in [1..(Len(path) - 2) -> Nat]
         /\ Sum(am) \in Nat /\ Sum(am) <= R
<1> DEFINE J == 1..(Len(path) - 2)
<1>1. SCALE \in Nat \ {0} /\ SCALE \in Nat
  BY FixedConstants, Zenon
<1>2. DOMAIN c = J /\ c \in [J -> Nat] /\ Sum(c) \in Nat /\ Sum(c) <= SCALE
  BY ContributionsFit, Zenon
<1>3. IsFiniteSet(J)
  <2>1. Len(path) - 2 \in Int
    OBVIOUS
  <2> QED
    BY <2>1, FS_Interval
<1> HIDE DEF J
<1>4. \A j \in J : /\ am[j] \in Nat /\ SCALE * am[j] <= R * c[j]
  <2>1. ASSUME NEW j \in J PROVE am[j] \in Nat /\ SCALE * am[j] <= R * c[j]
    <3>1. c[j] \in Nat /\ am[j] = scaled_mul_div(R, c[j], SCALE)
      BY <1>2, Zenon
    <3> QED
      <4>1. /\ scaled_mul_div(R, c[j], SCALE) \in Nat
            /\ SCALE * scaled_mul_div(R, c[j], SCALE) <= R * c[j]
        BY <1>1, <3>1, MulDivFacts, Zenon
      <4> QED
        BY <3>1, <4>1, Zenon
  <2> QED
    BY <2>1, Zenon
<1>5. am \in [J -> Nat]
  BY <1>2, <1>4, Zenon
<1>6. Sum(am) \in Nat
  BY <1>3, <1>5, SumFacts, Zenon
<1>7. SCALE * Sum(am) <= R * Sum(c)
  <2>1. Fractions(J, am, c, SCALE, R)
    BY <1>1, <1>2, <1>3, <1>4, <1>5, Zenon DEF Fractions
  <2> QED
    BY <2>1, SumOfFractions, Zenon
<1>8. Sum(am) <= R
  <2>1. \A x, y \in Nat : y <= SCALE /\ SCALE * x <= R * y => x <= R
    <3> SUFFICES ASSUME NEW x \in Nat, NEW y \in Nat, y <= SCALE, SCALE * x <= R * y
                 PROVE  x <= R
      BY Zenon
    <3>1. R * y <= R * SCALE /\ R * y \in Nat /\ R * SCALE \in Nat
      BY <1>1, SMT
    <3>2. ASSUME x >= R + 1 PROVE FALSE
      <4>1. SCALE * x >= SCALE * (R + 1) /\ SCALE * (R + 1) = R * SCALE + SCALE /\ SCALE * x \in Nat
        BY <1>1, <3>2, SMT
      <4> QED
        BY <1>1, <3>1, <4>1
    <3> QED
      BY <3>2
  <2> QED
    BY <1>2, <1>6, <1>7, <2>1, Zenon
<1> QED
  BY <1>5, <1>6, <1>8, Zenon DEF J

---------------------------------------------------------------------------------
(* FeesConserved. *)

\* A path uses up its part of U64_MAX, so no sum of the epoch saturates.
CreditInv ==
  /\ FeesFit
  /\ proposer_credits \in [Validator -> Nat] /\ relay_credits \in [Validator -> Nat]
  /\ burned_credit \in Nat /\ total_credit_budget \in Nat /\ valid_paths \in 0..MaxPaths
  /\ Sum(proposer_credits) + Sum(relay_credits) + burned_credit = total_credit_budget
  /\ total_credit_budget * MaxPaths <= valid_paths * U64_MAX

\* Without records nothing adds up to anything.
LEMMA NoCredits ==
  ASSUME NEW f, f = Zero
  PROVE  f \in [Validator -> Nat] /\ Sum(f) = 0
<1>1. f \in [Validator -> Nat] /\ \A v \in Validator : f[v] = 0
  BY DEF Zero
<1>2. IsFiniteSet(Validator)
  BY FixedConstants, Zenon
<1> QED
  BY <1>1, <1>2, SumOfZeros, Zenon

\* An epoch without records is balanced.
LEMMA NothingCredited ==
  ASSUME FeesFit, NEW p, NEW r, p = Zero, r = Zero
  PROVE  /\ p \in [Validator -> Nat] /\ r \in [Validator -> Nat]
         /\ 0 \in Nat /\ 0 \in 0..MaxPaths
         /\ Sum(p) + Sum(r) + 0 = 0 /\ 0 * MaxPaths <= 0 * U64_MAX
<1>1. p \in [Validator -> Nat] /\ r \in [Validator -> Nat] /\ Sum(p) = 0 /\ Sum(r) = 0
  BY NoCredits, Zenon
<1>2. MaxPaths \in Nat /\ U64_MAX \in Nat
  BY FixedConstants, Zenon
<1> QED
  BY <1>1, <1>2

\* record_topostake_credit splits the fee: the proposer's part, what the relays get of
\* the rest, and what is burned.
LEMMA RecordConserves ==
  ASSUME CreditInv, NEW path \in Paths, NEW fee \in Fees, NEW cost \in Costs,
         NEW v \in Validator, RecordPath(path, fee, cost, v)
  PROVE  CreditInv'
<1> DEFINE P == scaled_mul_div(fee, fee_ratio, SCALE)
           R == saturating_sub(fee, P)
           c == relay_contributions(path)
           am == [j \in DOMAIN c |-> scaled_mul_div(R, c[j], SCALE)]
           S1 == Sum(proposer_credits)
           S2 == Sum(relay_credits)
           A == Sum(am)
<1>1. /\ path \in Seq(Validator) /\ fee \in Nat /\ fee_ratio \in Nat /\ fee_ratio <= SCALE
      /\ SCALE \in Nat \ {0} /\ SCALE \in Nat /\ U64_MAX \in Nat /\ MaxPaths \in Nat \ {0}
      /\ IsFiniteSet(Validator)
  BY FixedConstants
<1>2. P \in Nat /\ P <= fee
  <2>1. P \in Nat /\ SCALE * P <= fee * fee_ratio
    BY <1>1, MulDivFacts, Zenon
  <2> HIDE DEF P
  <2>2. fee * fee_ratio <= fee * SCALE /\ fee * fee_ratio \in Nat /\ fee * SCALE \in Nat
    BY <1>1, SMT
  <2>3. ASSUME P >= fee + 1 PROVE FALSE
    <3>1. SCALE * P >= SCALE * (fee + 1) /\ SCALE * (fee + 1) = fee * SCALE + SCALE
          /\ SCALE * P \in Nat
      BY <1>1, <2>1, <2>3, SMT
    <3> QED
      BY <1>1, <2>1, <2>2, <3>1
  <2> QED
    BY <1>1, <2>1, <2>3
<1>3. R = fee - P /\ R \in Nat
  <2> HIDE DEF P
  <2> QED
    BY <1>1, <1>2, SubFacts, Zenon
<1>4. am \in [1..(Len(path) - 2) -> Nat] /\ A \in Nat /\ A <= R
  <2> HIDE DEF R
  <2> QED
    BY <1>1, <1>3, AmountsFit, SMT
<1>5. /\ proposer_credits' = [proposer_credits EXCEPT ![v] =
                                saturating_add(proposer_credits[v], P)]
      /\ relay_credits' = AddToRelays(relay_credits, path, am)
      /\ total_credit_budget' = saturating_add(total_credit_budget, fee)
      /\ burned_credit' = saturating_add(burned_credit, saturating_sub(R, Sum(am)))
      /\ valid_paths < MaxPaths /\ valid_paths' = valid_paths + 1
  BY Zenon DEF RecordPath, record_topostake_credit
<1>6. /\ proposer_credits \in [Validator -> Nat] /\ relay_credits \in [Validator -> Nat]
      /\ burned_credit \in Nat /\ total_credit_budget \in Nat /\ valid_paths \in 0..MaxPaths
      /\ S1 + S2 + burned_credit = total_credit_budget
      /\ total_credit_budget * MaxPaths <= valid_paths * U64_MAX
      /\ fee * MaxPaths <= U64_MAX
  BY Zenon DEF CreditInv, FeesFit
<1>7. S1 \in Nat /\ S2 \in Nat
  BY <1>1, <1>6, SumFacts, Zenon
<1> HIDE DEF P, R, c, am, S1, S2, A
<1> DEFINE T == total_credit_budget + fee
<1>8. T \in Nat /\ T * MaxPaths <= (valid_paths + 1) * U64_MAX /\ T <= U64_MAX
  <2>1. T \in Nat /\ T * MaxPaths = total_credit_budget * MaxPaths + fee * MaxPaths
    BY <1>1, <1>6, SMT
  <2>2. (valid_paths + 1) * U64_MAX = valid_paths * U64_MAX + U64_MAX
    BY <1>1, <1>6, SMT
  <2>3. /\ total_credit_budget * MaxPaths \in Nat /\ fee * MaxPaths \in Nat
        /\ valid_paths * U64_MAX \in Nat
    BY <1>1, <1>6, SMT
  <2>4. T * MaxPaths <= (valid_paths + 1) * U64_MAX
    BY <1>1, <1>6, <2>1, <2>2, <2>3
  <2>5. (valid_paths + 1) * U64_MAX <= MaxPaths * U64_MAX
    <3>1. \A k \in Nat : k <= MaxPaths => k * U64_MAX <= MaxPaths * U64_MAX
      BY <1>1, SMT
    <3>2. valid_paths + 1 \in Nat /\ valid_paths + 1 <= MaxPaths
      BY <1>1, <1>5, <1>6
    <3> QED
      BY <3>1, <3>2, Zenon
  <2>6. T * MaxPaths <= MaxPaths * U64_MAX
    <3>1. T * MaxPaths \in Int /\ (valid_paths + 1) * U64_MAX \in Int /\ MaxPaths * U64_MAX \in Int
      BY <1>1, <1>6, <2>1, SMT
    <3> HIDE DEF T
    <3> QED
      BY <2>4, <2>5, <3>1
  <2>7. ASSUME T >= U64_MAX + 1 PROVE FALSE
    <3> HIDE DEF T
    <3>1. /\ T * MaxPaths >= (U64_MAX + 1) * MaxPaths
          /\ (U64_MAX + 1) * MaxPaths = MaxPaths * U64_MAX + MaxPaths
          /\ MaxPaths * U64_MAX \in Nat /\ T * MaxPaths \in Nat
      BY <1>1, <2>1, <2>7, SMT
    <3> QED
      BY <1>1, <2>6, <3>1
  <2> QED
    BY <1>1, <2>1, <2>4, <2>7
<1>9. total_credit_budget' = T
  <2>1. Cap(T) = T
    BY <1>8, CapFacts, Zenon
  <2> QED
    BY <1>5, <2>1, Zenon DEF saturating_add
<1>10. S1 + P <= U64_MAX /\ S2 + A <= U64_MAX /\ R - A \in Nat
       /\ burned_credit + (R - A) \in Nat /\ burned_credit + (R - A) <= U64_MAX
       /\ (S1 + P) + (S2 + A) + (burned_credit + (R - A)) = T
  BY <1>1, <1>2, <1>3, <1>4, <1>6, <1>7, <1>8
<1>11. proposer_credits' \in [Validator -> Nat] /\ Sum(proposer_credits') = S1 + P
  <2> DEFINE r == [proposer_credits EXCEPT ![v] = saturating_add(proposer_credits[v], P)]
  <2>1. proposer_credits \in [Validator -> Nat] /\ Sum(proposer_credits) + P <= U64_MAX
    BY <1>6, <1>10, Zenon DEF S1
  <2>2. r \in [Validator -> Nat] /\ Sum(r) = Sum(proposer_credits) + P
    BY <1>2, <2>1, ProposerAdded, Zenon
  <2> QED
    BY <1>5, <2>2, Zenon DEF S1
<1>12. relay_credits' \in [Validator -> Nat] /\ Sum(relay_credits') = S2 + A
  <2>1. path \in Seq(Validator) /\ relay_credits \in [Validator -> Nat]
        /\ am \in [1..(Len(path) - 2) -> Nat]
    BY <1>1, <1>4, <1>6, Zenon
  <2>2. Sum(relay_credits) + Sum(am) <= U64_MAX
    BY <1>10, Zenon DEF S2, A
  <2>3. /\ AddToRelays(relay_credits, path, am) \in [Validator -> Nat]
        /\ Sum(AddToRelays(relay_credits, path, am)) = Sum(relay_credits) + Sum(am)
    BY <2>1, <2>2, RelaysAdded, Zenon
  <2> QED
    BY <1>5, <2>3, Zenon DEF S2, A
<1>13. burned_credit' = burned_credit + (R - A)
  <2>1. saturating_sub(R, Sum(am)) = R - A
    <3>1. Sum(am) = A
      BY Zenon DEF A
    <3>2. saturating_sub(R, A) = R - A
      BY <1>3, <1>4, SubFacts, Zenon
    <3> QED
      BY <3>1, <3>2, Zenon
  <2>2. Cap(burned_credit + (R - A)) = burned_credit + (R - A)
    BY <1>10, CapFacts, Zenon
  <2> QED
    BY <1>5, <2>1, <2>2, Zenon DEF saturating_add
<1>14. valid_paths' \in 0..MaxPaths
  BY <1>1, <1>5, <1>6
<1>15. Sum(proposer_credits') + Sum(relay_credits') + burned_credit' = total_credit_budget'
  BY <1>9, <1>10, <1>11, <1>12, <1>13, Zenon
<1>16. total_credit_budget' * MaxPaths <= valid_paths' * U64_MAX
  BY <1>5, <1>8, <1>9, Zenon
<1>17. FeesFit' /\ burned_credit' \in Nat /\ total_credit_budget' \in Nat
  BY <1>8, <1>9, <1>10, <1>13, Zenon DEF CreditInv, FeesFit
<1> QED
  BY <1>11, <1>12, <1>14, <1>15, <1>16, <1>17, Zenon DEF CreditInv

\* Every action keeps the books of the epoch balanced.
LEMMA CreditsKept == FixedSpec /\ FeesFit => []CreditInv
<1>1. FixedInit /\ FeesFit => CreditInv
  <2> SUFFICES ASSUME FixedInit, FeesFit PROVE CreditInv
    BY Zenon
  <2>1. /\ proposer_credits = Zero /\ relay_credits = Zero
        /\ total_credit_budget = 0 /\ burned_credit = 0 /\ valid_paths = 0
    BY Zenon DEF FixedInit
  <2> QED
    BY <2>1, NothingCredited, Zenon DEF CreditInv
<1>2. CreditInv /\ [FixedNext]_fixed_vars => CreditInv'
  <2> SUFFICES ASSUME CreditInv, [FixedNext]_fixed_vars PROVE CreditInv'
    BY Zenon
  <2>1. ASSUME NEW path \in Paths, NEW fee \in Fees, NEW cost \in Costs, NEW v \in Validator,
               RecordPath(path, fee, cost, v)
        PROVE  CreditInv'
    BY <2>1, RecordConserves, Zenon
  <2>2. CASE SettleEpoch
    <3>1. /\ proposer_credits' = Zero /\ relay_credits' = Zero
          /\ total_credit_budget' = 0 /\ burned_credit' = 0 /\ valid_paths' = 0
      BY <2>2, Zenon DEF SettleEpoch
    <3>2. FeesFit /\ FeesFit'
      BY Zenon DEF CreditInv, FeesFit
    <3> QED
      BY <3>1, <3>2, NothingCredited, Zenon DEF CreditInv
  <2>3. CASE UNCHANGED record
    BY <2>3, Zenon DEF CreditInv, record, credits, FeesFit
  <2>4. ASSUME NEW v \in Validator, NEW random_value \in 0..max_random,
               TryCandidate(v, random_value)
        PROVE  CreditInv'
    <3>1. UNCHANGED record
      BY <2>4, Zenon DEF TryCandidate
    <3> QED
      BY <2>3, <3>1, Zenon
  <2>5. CASE UNCHANGED fixed_vars
    <3>1. UNCHANGED record
      BY <2>5, Zenon DEF fixed_vars
    <3> QED
      BY <2>3, <3>1, Zenon
  <2> QED
    BY <2>1, <2>2, <2>4, <2>5, Zenon DEF FixedNext
<1> QED
  BY <1>1, <1>2, PTL DEF FixedSpec

\* As long as the fees of an epoch fit into 64 bits, whatever the scale, the ratios and
\* the paths are, what record_topostake_credit hands out and burns adds up to the fees:
\* no division, however it rounds, loses or makes up a wei.
THEOREM FeesAreConserved == FixedSpec /\ FeesFit => []FeesConserved
<1>1. CreditInv => FeesConserved
  BY Zenon DEF CreditInv, FeesConserved
<1> QED
  BY <1>1, CreditsKept, PTL

---------------------------------------------------------------------------------
(* MoreRelayedScoresNoLess. *)

\* The factors of scaled_mul_div may be exchanged.
LEMMA MulDivCommutes ==
  ASSUME NEW a \in Nat, NEW b \in Nat, NEW d
  PROVE  scaled_mul_div(a, b, d) = scaled_mul_div(b, a, d)
<1>1. a * b = b * a
  BY SMT
<1> QED
  BY <1>1, Zenon DEF scaled_mul_div

\* The argument of the series grows with x.
Ratio(x) == (x * SCALE) \div (x + SCALE)

\* It is a natural number and keeps the order.
LEMMA RatioFacts ==
  ASSUME NEW x \in Nat, NEW y \in Nat, x <= y
  PROVE  Ratio(x) \in Nat /\ Ratio(y) \in Nat /\ Ratio(x) <= Ratio(y)
<1> DEFINE q == Ratio(x)
           r == Ratio(y)
<1>1. SCALE \in Nat \ {0} /\ SCALE \in Nat
  BY FixedConstants, Zenon
<1>2. /\ x * SCALE \in Nat /\ y * SCALE \in Nat /\ x + SCALE \in Nat \ {0} /\ y + SCALE \in Nat \ {0}
      /\ x * SCALE <= SCALE * (x + SCALE)
  <2>1. x * SCALE \in Nat /\ y * SCALE \in Nat /\ SCALE * SCALE \in Nat
    BY <1>1, SMT
  <2>2. SCALE * (x + SCALE) = x * SCALE + SCALE * SCALE
    BY <1>1, SMT
  <2>3. x * SCALE <= SCALE * (x + SCALE)
    BY <2>1, <2>2
  <2> QED
    BY <1>1, <2>1, <2>3
<1>3. q \in Nat /\ q * (x + SCALE) <= x * SCALE
  <2>1. q \in Nat /\ (x + SCALE) * q <= x * SCALE
    BY <1>2, DivFacts, Zenon DEF Ratio
  <2> HIDE DEF q
  <2> QED
    BY <1>1, <2>1, SMT
<1>4. q <= SCALE
  BY <1>1, <1>2, DivAtMost, Zenon DEF Ratio
<1>5. r \in Nat /\ y * SCALE < (y + SCALE) * r + (y + SCALE)
  BY <1>2, DivFacts, Zenon DEF Ratio
<1> HIDE DEF q, r
<1>6. q * (y + SCALE) <= y * SCALE
  <2> DEFINE d == y - x
  <2>1. d \in Nat /\ y = x + d
    OBVIOUS
  <2> HIDE DEF d
  <2>2. q * d <= d * SCALE /\ q * d \in Nat /\ d * SCALE \in Nat
    BY <1>1, <1>3, <1>4, <2>1, SMT
  <2>3. q * (y + SCALE) = q * (x + SCALE) + q * d /\ y * SCALE = x * SCALE + d * SCALE
    BY <1>1, <1>3, <2>1, SMT
  <2>4. q * (x + SCALE) \in Nat
    BY <1>1, <1>3, SMT
  <2> QED
    BY <1>2, <1>3, <2>2, <2>3, <2>4
<1>7. ASSUME q >= r + 1 PROVE FALSE
  <2> DEFINE w == y + SCALE
  <2>1. w \in Nat
    BY <1>2, Zenon
  <2>2. y * SCALE < w * r + w /\ q * w <= y * SCALE
    BY <1>5, <1>6, Zenon
  <2> HIDE DEF w
  <2>3. q * w >= (r + 1) * w /\ (r + 1) * w = w * r + w /\ q * w \in Nat /\ w * r \in Nat
    BY <1>3, <1>5, <1>7, <2>1, SMT
  <2> QED
    BY <1>2, <2>1, <2>2, <2>3
<1> QED
  BY <1>3, <1>5, <1>7 DEF q, r

\* The terms of the series before they are divided by their index.
Terms(z, t) ==
  /\ t \in [1..24 -> Nat] /\ t[1] = z
  /\ \A n \in 2..24 : t[n] = (t[n - 1] * z) \div SCALE

\* fixed_ln_1p_scaled adds the terms that its recursion describes.
LEMMA LogarithmIs ==
  ASSUME NEW x \in Nat
  PROVE  \E t : /\ Terms(Ratio(x), t)
                /\ fixed_ln_1p_scaled(x) = Cap(Sum([n \in 1..24 |-> t[n] \div n]))
<1> DEFINE z == Ratio(x)
           Rec(f) == f = [n \in 1..24 |-> IF n = 1 THEN z ELSE (f[n - 1] * z) \div SCALE]
           term == CHOOSE f : Rec(f)
           step == [a \in Nat |-> (a * z) \div SCALE]
<1>1. SCALE \in Nat \ {0}
  BY FixedConstants, Zenon
<1>2. fixed_ln_1p_scaled(x) = Cap(Sum([n \in 1..24 |-> term[n] \div n]))
  BY Zenon DEF fixed_ln_1p_scaled, Ratio
<1>3. z \in Nat
  <2>1. x <= x
    OBVIOUS
  <2> QED
    BY <2>1, RatioFacts, Zenon
<1> HIDE DEF z
<1>4. step \in [Nat -> Nat]
  <2>1. \A a \in Nat : a * z \in Nat
    BY <1>3, SMT
  <2>2. \A a \in Nat : (a * z) \div SCALE \in Nat
    BY <1>1, <2>1, DivFacts, Zenon
  <2> QED
    BY <2>2, Zenon
<1>5. \E f : f \in [1..24 -> Nat] /\ Rec(f)
  <2> HIDE DEF step
  <2>1. 23 \in Nat
    OBVIOUS
  <2>2. PICK h \in [0..23 -> Nat] : h[0] = z /\ \A k \in 1..23 : h[k] = step[h[k - 1]]
    BY <1>3, <1>4, <2>1, Iterates, Zenon
  <2> DEFINE f == [n \in 1..24 |-> h[n - 1]]
  <2>3. \A n \in 1..24 : n - 1 \in 0..23 /\ h[n - 1] \in Nat /\ f[n] = h[n - 1] /\ f[n] \in Nat
    BY SMT
  <2>4. \A n \in 1..24 : n # 1 => n - 1 \in 1..23 /\ n - 1 \in 1..24
    BY SMT
  <2>5. \A n \in 1..24 : n # 1 => f[n] = (f[n - 1] * z) \div SCALE
    <3>1. ASSUME NEW n \in 1..24, n # 1 PROVE f[n] = (f[n - 1] * z) \div SCALE
      <4>1. f[n] = step[h[(n - 1) - 1]]
        BY <2>2, <2>3, <2>4, <3>1, Zenon
      <4>2. f[n - 1] = h[(n - 1) - 1] /\ f[n - 1] \in Nat
        BY <2>3, <2>4, <3>1, Zenon
      <4> HIDE DEF f
      <4>3. f[n] = step[f[n - 1]]
        BY <4>1, <4>2, Zenon
      <4> QED
        BY <4>2, <4>3, Zenon DEF step
    <3> QED
      BY <3>1, Zenon
  <2>6. f \in [1..24 -> Nat] /\ f = [n \in 1..24 |-> f[n]]
    BY <2>3, Zenon
  <2>7. 1 - 1 = 0 /\ 1 \in 1..24
    BY SMT
  <2>8. f[1] = z
    BY <2>2, <2>7, Zenon
  <2> HIDE DEF f
  <2>9. \A n \in 1..24 : f[n] = IF n = 1 THEN z ELSE (f[n - 1] * z) \div SCALE
    BY <2>5, <2>8, Zenon
  <2>10. Rec(f)
    BY <2>6, <2>9, Zenon
  <2> HIDE DEF Rec
  <2> QED
    BY <2>6, <2>10, Zenon
<1>6. Rec(term)
  <2> HIDE DEF Rec
  <2> QED
    BY <1>5, Zenon
<1>7. term = [n \in 1..24 |-> IF n = 1 THEN z ELSE (term[n - 1] * z) \div SCALE]
  <2> HIDE DEF term
  <2> QED
    BY <1>6, Zenon
<1> HIDE DEF term
<1>8. \A n \in 1..24 : term[n] = IF n = 1 THEN z ELSE (term[n - 1] * z) \div SCALE
  BY <1>7, Zenon
<1> DEFINE S == {k \in Nat : k <= 23 => term[k + 1] \in Nat}
<1>9. 0 \in S
  <2>1. 0 \in Nat /\ 0 + 1 = 1 /\ 1 \in 1..24
    BY SMT
  <2> QED
    BY <1>3, <1>8, <2>1, Zenon
<1>10. ASSUME NEW k \in Nat, k < 23, k \in S PROVE k + 1 \in S
  <2>1. (k + 1) + 1 \in 1..24 /\ (k + 1) + 1 # 1 /\ ((k + 1) + 1) - 1 = k + 1 /\ k <= 23 /\ k + 1 \in Nat
    BY <1>10
  <2>2. term[k + 1] \in Nat
    BY <1>10, <2>1, Zenon
  <2>3. term[(k + 1) + 1] = step[term[k + 1]]
    BY <1>8, <2>1, <2>2, Zenon
  <2> HIDE DEF step
  <2>4. term[(k + 1) + 1] \in Nat
    BY <1>4, <2>2, <2>3, Zenon
  <2> QED
    BY <2>1, <2>4, Zenon
<1>11. 0..23 \subseteq S
  <2> HIDE DEF S
  <2>1. 23 \in Nat
    OBVIOUS
  <2> QED
    BY <1>9, <1>10, <2>1, BoundedInduction, Zenon
<1>12. \A n \in 1..24 : term[n] \in Nat
  <2>1. \A n \in 1..24 : n - 1 \in 0..23 /\ n - 1 <= 23 /\ (n - 1) + 1 = n
    BY SMT
  <2> QED
    BY <1>11, <2>1, Zenon
<1>13. term \in [1..24 -> Nat]
  BY <1>7, <1>12, Zenon
<1>14. Terms(z, term)
  <2>1. 1 \in 1..24 /\ \A n \in 2..24 : n \in 1..24 /\ n # 1
    BY SMT
  <2> QED
    BY <1>8, <1>13, <2>1, Zenon DEF Terms
<1> QED
  BY <1>2, <1>14, Zenon DEF z

\* Larger arguments have larger terms.
LEMMA TermsGrow ==
  ASSUME NEW z \in Nat, NEW w \in Nat, z <= w, NEW t, Terms(z, t), NEW u, Terms(w, u)
  PROVE  \A n \in 1..24 : t[n] \in Nat /\ u[n] \in Nat /\ t[n] <= u[n]
<1>1. SCALE \in Nat \ {0}
  BY FixedConstants, Zenon
<1>2. /\ \A n \in 1..24 : t[n] \in Nat /\ u[n] \in Nat
      /\ t[1] = z /\ u[1] = w
      /\ \A n \in 2..24 : t[n] = (t[n - 1] * z) \div SCALE /\ u[n] = (u[n - 1] * w) \div SCALE
  BY Zenon DEF Terms
<1> DEFINE S == {k \in Nat : k <= 23 => t[k + 1] <= u[k + 1]}
<1>3. 0 \in S
  <2>1. 0 \in Nat /\ 0 + 1 = 1
    BY SMT
  <2> QED
    BY <1>2, <2>1, Zenon
<1>4. ASSUME NEW k \in Nat, k < 23, k \in S PROVE k + 1 \in S
  <2>1. /\ (k + 1) + 1 \in 2..24 /\ ((k + 1) + 1) - 1 = k + 1 /\ k <= 23 /\ k + 1 \in Nat
        /\ k + 1 \in 1..24
    BY <1>4
  <2> DEFINE a == t[k + 1]
             b == u[k + 1]
  <2>2. a \in Nat /\ b \in Nat /\ a <= b
    BY <1>2, <1>4, <2>1, Zenon
  <2>3. t[(k + 1) + 1] = (a * z) \div SCALE /\ u[(k + 1) + 1] = (b * w) \div SCALE
    BY <1>2, <2>1, Zenon
  <2> HIDE DEF a, b
  <2>4. a * z \in Nat /\ b * w \in Nat /\ a * z <= b * w
    <3>1. \A i, j, m, n \in Nat : i <= j /\ m <= n => i * m <= j * n /\ i * m \in Nat /\ j * n \in Nat
      BY SMT
    <3> QED
      BY <2>2, <3>1, Zenon
  <2>5. (a * z) \div SCALE <= (b * w) \div SCALE
    BY <1>1, <2>4, DivMonotone, Zenon
  <2> QED
    BY <2>1, <2>3, <2>5, Zenon
<1>5. 0..23 \subseteq S
  <2> HIDE DEF S
  <2>1. 23 \in Nat
    OBVIOUS
  <2> QED
    BY <1>3, <1>4, <2>1, BoundedInduction, Zenon
<1>6. \A n \in 1..24 : n - 1 \in 0..23 /\ n - 1 <= 23 /\ (n - 1) + 1 = n
  BY SMT
<1> QED
  BY <1>2, <1>5, <1>6, Zenon

\* The series, cut off and rounded in every term, still keeps the order.
LEMMA LogarithmGrows ==
  ASSUME NEW x \in Nat, NEW y \in Nat, x <= y
  PROVE  /\ fixed_ln_1p_scaled(x) \in Nat /\ fixed_ln_1p_scaled(y) \in Nat
         /\ fixed_ln_1p_scaled(x) <= fixed_ln_1p_scaled(y)
<1>1. PICK t : /\ Terms(Ratio(x), t)
               /\ fixed_ln_1p_scaled(x) = Cap(Sum([n \in 1..24 |-> t[n] \div n]))
  BY LogarithmIs, Zenon
<1>2. PICK u : /\ Terms(Ratio(y), u)
               /\ fixed_ln_1p_scaled(y) = Cap(Sum([n \in 1..24 |-> u[n] \div n]))
  BY LogarithmIs, Zenon
<1> DEFINE f == [n \in 1..24 |-> t[n] \div n]
           h == [n \in 1..24 |-> u[n] \div n]
<1>3. Ratio(x) \in Nat /\ Ratio(y) \in Nat /\ Ratio(x) <= Ratio(y)
  BY RatioFacts, Zenon
<1>4. \A n \in 1..24 : t[n] \in Nat /\ u[n] \in Nat /\ t[n] <= u[n]
  BY <1>1, <1>2, <1>3, TermsGrow, Zenon
<1>5. \A n \in 1..24 : n \in Nat \ {0}
  BY SMT
<1>6. \A n \in 1..24 : /\ t[n] \div n \in Nat /\ u[n] \div n \in Nat
                       /\ t[n] \div n <= u[n] \div n
  BY <1>4, <1>5, DivFacts, DivMonotone, Zenon
<1>7. f \in [1..24 -> Nat] /\ h \in [1..24 -> Nat] /\ \A n \in 1..24 : f[n] <= h[n]
  BY <1>6, Zenon
<1> HIDE DEF f, h
<1>8. IsFiniteSet(1..24)
  <2>1. 1 \in Int /\ 24 \in Int
    BY SMT
  <2> QED
    BY <2>1, FS_Interval, Zenon
<1>9. Sum(f) \in Nat /\ Sum(h) \in Nat /\ Sum(f) <= Sum(h)
  <2>1. Sum(f) \in Nat /\ Sum(h) \in Nat
    BY <1>7, <1>8, SumFacts, Zenon
  <2>2. Sum(f) <= Sum(h)
    BY <1>7, <1>8, SumMonotone, Zenon
  <2> QED
    BY <2>1, <2>2, Zenon
<1>10. /\ Cap(Sum(f)) \in Nat /\ Cap(Sum(h)) \in Nat
       /\ Cap(Sum(f)) <= Cap(Sum(h))
  BY <1>9, CapFacts, Zenon
<1> QED
  BY <1>1, <1>2, <1>10, Zenon DEF f, h

\* The total balance is positive, so shares of it are defined.
LEMMA ActiveBalance == total_active_balance \in Nat \ {0}
<1>1. /\ IsFiniteSet(Validator) /\ Validator # {}
      /\ effective_balance \in [Validator -> Nat]
      /\ \A v \in Validator : effective_balance[v] \in Nat \ {0}
  BY FixedConstants
<1>2. PICK v \in Validator : TRUE
  BY <1>1, Zenon
<1>3. Sum(effective_balance) \in Nat
  BY <1>1, SumFacts, Zenon
<1>4. effective_balance[v] <= Sum(effective_balance)
  BY <1>1, SumBounds, Zenon
<1>5. Sum(effective_balance) \in Nat \ {0}
  BY <1>1, <1>3, <1>4
<1> QED
  BY <1>5, Zenon DEF total_active_balance

\* With the same balance, a larger contribution saturates to no less.
LEMMA SaturateGrows ==
  ASSUME NEW x \in Nat, NEW y \in Nat, x <= y, NEW held \in Nat
  PROVE  /\ saturate_contribution(x, held) \in Nat
         /\ saturate_contribution(y, held) \in Nat
         /\ saturate_contribution(x, held) <= saturate_contribution(y, held)
<1> DEFINE share == scaled_mul_div(held, SCALE, total_active_balance)
           den == scaled_mul_div(saturation_k, share, SCALE)
           ratio(r) == scaled_mul_div(r, SCALE, den)
           log(r) == fixed_ln_1p_scaled(ratio(r))
           none == share = 0 \/ den = 0
<1>1. SCALE \in Nat /\ saturation_k \in Nat /\ total_active_balance \in Nat
  BY FixedConstants, ActiveBalance, Zenon
<1>2. \A r : saturate_contribution(r, held)
               = IF none THEN 0 ELSE scaled_mul_div(share, log(r), SCALE)
  BY Zenon DEF saturate_contribution
<1>3. share \in Nat
  BY <1>1, MulDivFacts, Zenon
<1> HIDE DEF share
<1>4. den \in Nat
  BY <1>1, <1>3, MulDivFacts, Zenon
<1> HIDE DEF den
<1>5. ratio(x) \in Nat /\ ratio(y) \in Nat /\ ratio(x) <= ratio(y)
  BY <1>1, <1>4, MulDivFacts, Zenon
<1> HIDE DEF ratio
<1>6. log(x) \in Nat /\ log(y) \in Nat /\ log(x) <= log(y)
  BY <1>5, LogarithmGrows, Zenon
<1> HIDE DEF log, none
<1>7. /\ scaled_mul_div(log(x), share, SCALE) \in Nat
      /\ scaled_mul_div(log(y), share, SCALE) \in Nat
      /\ scaled_mul_div(log(x), share, SCALE) <= scaled_mul_div(log(y), share, SCALE)
  BY <1>1, <1>3, <1>6, MulDivFacts, Zenon
<1>8. /\ scaled_mul_div(share, log(x), SCALE) = scaled_mul_div(log(x), share, SCALE)
      /\ scaled_mul_div(share, log(y), SCALE) = scaled_mul_div(log(y), share, SCALE)
  BY <1>3, <1>6, MulDivCommutes, Zenon
<1>9. CASE none
  BY <1>2, <1>9
<1>10. CASE ~none
  <2>1. /\ saturate_contribution(x, held) = scaled_mul_div(log(x), share, SCALE)
        /\ saturate_contribution(y, held) = scaled_mul_div(log(y), share, SCALE)
    BY <1>2, <1>8, <1>10, Zenon
  <2> QED
    BY <1>7, <2>1, Zenon
<1> QED
  BY <1>9, <1>10, Zenon

\* The moving average of SettleEpoch.
NewScore(raw, held, old) ==
  LET b == Min({beta, SCALE})
  IN  saturating_add(
        scaled_mul_div(saturate_contribution(raw, held), b, SCALE),
        scaled_mul_div(old, SCALE - b, SCALE))

\* It keeps the order of contributions and of earlier scores.
LEMMA NewScoreGrows ==
  ASSUME NEW x \in Nat, NEW y \in Nat, x <= y, NEW held \in Nat,
         NEW k \in Nat, NEW l \in Nat, k <= l
  PROVE  /\ NewScore(x, held, k) \in Nat /\ NewScore(y, held, l) \in Nat
         /\ NewScore(x, held, k) <= NewScore(y, held, l)
<1> DEFINE b == Min({beta, SCALE})
           sx == saturate_contribution(x, held)
           sy == saturate_contribution(y, held)
           p == scaled_mul_div(sx, b, SCALE)
           q == scaled_mul_div(sy, b, SCALE)
           r == scaled_mul_div(k, SCALE - b, SCALE)
           s == scaled_mul_div(l, SCALE - b, SCALE)
<1>1. SCALE \in Nat /\ beta \in Nat
  BY FixedConstants, Zenon
<1>2. NewScore(x, held, k) = Cap(p + r) /\ NewScore(y, held, l) = Cap(q + s)
  BY Zenon DEF NewScore, saturating_add
<1>3. b \in Nat /\ SCALE - b \in Nat
  <2>1. b = IF beta <= SCALE THEN beta ELSE SCALE
    <3>1. beta \in Int /\ SCALE \in Int
      BY <1>1
    <3> QED
      BY <3>1, MinOfTwo, Zenon
  <2> HIDE DEF b
  <2> QED
    BY <1>1, <2>1
<1> HIDE DEF b
<1>4. sx \in Nat /\ sy \in Nat /\ sx <= sy
  BY SaturateGrows, Zenon
<1> HIDE DEF sx, sy
<1>5. p \in Nat /\ q \in Nat /\ p <= q
  BY <1>1, <1>3, <1>4, MulDivFacts, Zenon
<1>6. r \in Nat /\ s \in Nat /\ r <= s
  BY <1>1, <1>3, MulDivFacts, Zenon
<1> HIDE DEF p, q, r, s
<1>7. p + r \in Nat /\ q + s \in Nat /\ p + r <= q + s
  BY <1>5, <1>6
<1> QED
  BY <1>2, <1>7, CapFacts, Zenon

ScoreInv ==
  /\ raw_contributions \in [Validator -> Nat] /\ latest_scores \in [Validator -> Nat]
  /\ outdone \subseteq Validator \X Validator
  /\ MoreRelayedScoresNoLess

\* The empty records.
LEMMA ZeroTyped == Zero \in [Validator -> Nat] /\ \A v \in Validator : Zero[v] = 0
  BY DEF Zero

\* Contributions stay natural numbers when a path is recorded.
LEMMA RecordTyped ==
  ASSUME ScoreInv, NEW path \in Paths, NEW fee \in Fees, NEW cost \in Costs,
         NEW v \in Validator, RecordPath(path, fee, cost, v)
  PROVE  ScoreInv'
<1> DEFINE c == relay_contributions(path)
           weight == credit_weight(cost)
           weighted == [j \in DOMAIN c |-> scaled_mul_div(c[j], weight, SCALE)]
<1>1. /\ path \in Seq(Validator) /\ cost \in Nat /\ SCALE \in Nat /\ reference_cost \in Nat
  BY FixedConstants
<1>2. weight \in Nat
  <2> DEFINE x == scaled_mul_div(cost, SCALE, reference_cost)
  <2>1. x \in Nat
    BY <1>1, MulDivFacts, Zenon
  <2>2. weight = IF cost = 0 THEN 0 ELSE Min({x, SCALE})
    BY Zenon DEF credit_weight
  <2> HIDE DEF x, weight
  <2>3. Min({x, SCALE}) = IF x <= SCALE THEN x ELSE SCALE
    <3>1. x \in Int /\ SCALE \in Int
      BY <1>1, <2>1
    <3> QED
      BY <3>1, MinOfTwo, Zenon
  <2> QED
    BY <1>1, <2>1, <2>2, <2>3
<1>3. /\ raw_contributions' = AddToRelays(raw_contributions, path, weighted)
      /\ latest_scores' = latest_scores /\ outdone' = outdone
  BY Zenon DEF RecordPath, settled
<1> HIDE DEF weight
<1>4. DOMAIN c = 1..(Len(path) - 2) /\ c \in [1..(Len(path) - 2) -> Nat]
  BY <1>1, ContributionsFit, Zenon
<1> HIDE DEF c
<1>5. \A j \in DOMAIN c : scaled_mul_div(c[j], weight, SCALE) \in Nat
  <2>1. \A j \in DOMAIN c : c[j] \in Nat
    BY <1>4, Zenon
  <2> QED
    BY <1>1, <1>2, <2>1, MulDivFacts, Zenon
<1>6. weighted \in [1..(Len(path) - 2) -> Nat]
  BY <1>4, <1>5, Zenon
<1> HIDE DEF weighted
<1>7. raw_contributions \in [Validator -> Nat]
  BY Zenon DEF ScoreInv
<1>8. raw_contributions' \in [Validator -> Nat]
  BY <1>1, <1>3, <1>6, <1>7, RelaysAdded, Zenon
<1> QED
  BY <1>3, <1>8, Zenon DEF ScoreInv, MoreRelayedScoresNoLess

\* Settling keeps the order, for the pairs that are still outdone.
LEMMA SettleKeepsOrder ==
  ASSUME ScoreInv, SettleEpoch
  PROVE  ScoreInv'
<1>1. /\ raw_contributions \in [Validator -> Nat] /\ latest_scores \in [Validator -> Nat]
      /\ outdone \subseteq Validator \X Validator
      /\ \A p \in outdone : effective_balance[p[1]] = effective_balance[p[2]]
                              => latest_scores[p[2]] <= latest_scores[p[1]]
  BY Zenon DEF ScoreInv, MoreRelayedScoresNoLess
<1>2. /\ raw_contributions' = Zero
      /\ outdone' = {p \in outdone : raw_contributions[p[2]] <= raw_contributions[p[1]]}
  BY Zenon DEF SettleEpoch
<1>3. latest_scores' = [v \in Validator |->
                          NewScore(raw_contributions[v], effective_balance[v], latest_scores[v])]
  BY Zenon DEF SettleEpoch, NewScore
<1>4. \A v \in Validator : /\ raw_contributions[v] \in Nat /\ latest_scores[v] \in Nat
                           /\ effective_balance[v] \in Nat
  BY <1>1, FixedConstants
<1>5. latest_scores' \in [Validator -> Nat]
  <2>1. \A x \in Nat : x <= x
    BY SMT
  <2>2. \A v \in Validator :
          NewScore(raw_contributions[v], effective_balance[v], latest_scores[v]) \in Nat
    BY <1>4, <2>1, NewScoreGrows, Zenon
  <2> QED
    BY <1>3, <2>2, Zenon
<1>6. ASSUME NEW p \in outdone', effective_balance[p[1]] = effective_balance[p[2]]
      PROVE  latest_scores'[p[2]] <= latest_scores'[p[1]]
  <2> DEFINE a == p[1]
             b == p[2]
  <2>1. a \in Validator /\ b \in Validator
    BY <1>1, <1>2, SMT
  <2>2. raw_contributions[b] <= raw_contributions[a] /\ latest_scores[b] <= latest_scores[a]
    BY <1>1, <1>2, <1>6, Zenon
  <2>3. effective_balance[b] = effective_balance[a]
    BY <1>6, Zenon
  <2> HIDE DEF a, b
  <2>4. NewScore(raw_contributions[b], effective_balance[a], latest_scores[b])
          <= NewScore(raw_contributions[a], effective_balance[a], latest_scores[a])
    BY <1>4, <2>1, <2>2, NewScoreGrows, Zenon
  <2>5. latest_scores'[b] <= latest_scores'[a]
    BY <1>3, <2>1, <2>3, <2>4, Zenon
  <2> QED
    BY <2>5, Zenon DEF a, b
<1>7. MoreRelayedScoresNoLess'
  BY <1>6, Zenon DEF MoreRelayedScoresNoLess
<1>8. outdone' \subseteq Validator \X Validator
  BY <1>1, <1>2, Zenon
<1> QED
  BY <1>2, <1>5, <1>7, <1>8, ZeroTyped, Zenon DEF ScoreInv

\* Every action keeps the order of the scores.
LEMMA ScoresKept == FixedSpec => []ScoreInv
<1>1. FixedInit => ScoreInv
  <2> SUFFICES ASSUME FixedInit PROVE ScoreInv
    BY Zenon
  <2>1. raw_contributions = Zero /\ latest_scores = Zero
        /\ outdone = Validator \X Validator
    BY Zenon DEF FixedInit
  <2>2. \A p \in outdone : p[1] \in Validator /\ p[2] \in Validator
    BY <2>1, SMT
  <2>3. 0 <= 0
    BY SMT
  <2>4. MoreRelayedScoresNoLess
    BY <2>1, <2>2, <2>3, ZeroTyped, Zenon DEF MoreRelayedScoresNoLess
  <2> QED
    BY <2>1, <2>4, ZeroTyped, Zenon DEF ScoreInv
<1>2. ScoreInv /\ [FixedNext]_fixed_vars => ScoreInv'
  <2> SUFFICES ASSUME ScoreInv, [FixedNext]_fixed_vars PROVE ScoreInv'
    BY Zenon
  <2>1. ASSUME NEW path \in Paths, NEW fee \in Fees, NEW cost \in Costs, NEW v \in Validator,
               RecordPath(path, fee, cost, v)
        PROVE  ScoreInv'
    BY <2>1, RecordTyped, Zenon
  <2>2. CASE SettleEpoch
    BY <2>2, SettleKeepsOrder, Zenon
  <2>3. CASE UNCHANGED <<record, settled>>
    BY <2>3, Zenon DEF ScoreInv, record, settled, MoreRelayedScoresNoLess
  <2>4. ASSUME NEW v \in Validator, NEW random_value \in 0..max_random,
               TryCandidate(v, random_value)
        PROVE  ScoreInv'
    <3>1. UNCHANGED <<record, settled>>
      BY <2>4, Zenon DEF TryCandidate
    <3> QED
      BY <2>3, <3>1, Zenon
  <2>5. CASE UNCHANGED fixed_vars
    <3>1. UNCHANGED <<record, settled>>
      BY <2>5, Zenon DEF fixed_vars
    <3> QED
      BY <2>3, <3>1, Zenon
  <2> QED
    BY <2>1, <2>2, <2>4, <2>5, Zenon DEF FixedNext
<1> QED
  BY <1>1, <1>2, PTL DEF FixedSpec

\* Whatever the parameters of the score are, a validator that contributed at least as
\* much as another one of the same stake in every settled epoch never scores less: the
\* logarithm cut off after 24 terms, the divisions and the moving average of
\* topostake_settle_scores_through_epoch all keep the order.
THEOREM ScoresKeepOrder == FixedSpec => []MoreRelayedScoresNoLess
<1>1. ScoreInv => MoreRelayedScoresNoLess
  BY Zenon DEF ScoreInv
<1> QED
  BY <1>1, ScoresKept, PTL

---------------------------------------------------------------------------------
(* ProposerInOneRound. *)

\* Among finitely many numbers is a greatest one.
LEMMA GreatestValue ==
  ASSUME NEW D, IsFiniteSet(D), D # {}, NEW f \in [D -> Nat]
  PROVE  \E x \in D : \A y \in D : f[y] <= f[x]
<1> DEFINE B == Sum(f)
           T == {B - f[y] : y \in D}
<1>1. B \in Nat /\ \A y \in D : f[y] \in Nat /\ f[y] <= B
  BY SumFacts, SumBounds, Zenon
<1> HIDE DEF B
<1>2. T \subseteq Nat /\ T # {}
  BY <1>1
<1>3. PICK m \in T : \A n \in T : m <= n
  <2> HIDE DEF T
  <2> QED
    BY <1>2, LeastNatural, Zenon
<1>4. PICK x \in D : m = B - f[x]
  BY Zenon
<1>5. ASSUME NEW y \in D PROVE f[y] <= f[x]
  <2>1. B - f[x] <= B - f[y]
    BY <1>3, <1>4, Zenon
  <2> QED
    BY <1>1, <2>1
<1> QED
  BY <1>5, Zenon

Weights == [v \in Validator |-> proposer_weight(v)]

\* The bonus is a natural number, with or without a score.
LEMMA BonusTyped ==
  ASSUME latest_scores \in [Validator -> Nat], NEW v \in Validator
  PROVE  bonus_scaled(v) \in Nat
<1> DEFINE all == Cap(Sum(latest_scores))
           den == kappa + all
           score == (latest_scores[v] * SCALE) \div den
           share == (effective_balance[v] * SCALE) \div total_active_balance
           y == Cap((score * SCALE) \div share)
           none == latest_scores[v] = 0 \/ effective_balance[v] = 0 \/ den = 0 \/ share = 0
<1>1. /\ kappa \in Nat /\ SCALE \in Nat /\ zeta \in Nat /\ bonus_cap \in Nat
      /\ latest_scores[v] \in Nat /\ effective_balance[v] \in Nat /\ IsFiniteSet(Validator)
      /\ total_active_balance \in Nat \ {0}
  BY FixedConstants, ActiveBalance
<1>2. bonus_scaled(v) = IF none THEN 0 ELSE concave_bonus(y)
  BY Zenon DEF bonus_scaled
<1>3. all \in Nat
  <2>1. Sum(latest_scores) \in Nat
    BY <1>1, SumFacts, Zenon
  <2>2. Cap(Sum(latest_scores)) \in Nat
    BY <2>1, CapFacts, Zenon
  <2> QED
    BY <2>2, Zenon
<1> HIDE DEF all
<1>4. den \in Nat
  BY <1>1, <1>3
<1> HIDE DEF den
<1>5. \A a, b \in Nat : a * b \in Nat /\ (b # 0 => b \in Nat \ {0}) /\ a + b \in Nat
  BY SMT
<1>6. share \in Nat
  BY <1>1, <1>5, DivFacts, Zenon
<1> HIDE DEF share
<1>7. CASE none
  <2>1. bonus_scaled(v) = 0 /\ 0 \in Nat
    BY <1>2, <1>7
  <2> QED
    BY <2>1
<1>8. CASE ~none
  <2>1. den \in Nat \ {0} /\ share \in Nat \ {0}
    BY <1>4, <1>6, <1>8, Zenon
  <2>2. score \in Nat
    BY <1>1, <1>5, <2>1, DivFacts, Zenon
  <2> HIDE DEF score
  <2>3. score * SCALE \in Nat
    BY <1>1, <1>5, <2>2, Zenon
  <2>4. (score * SCALE) \div share \in Nat
    BY <2>1, <2>3, DivFacts, Zenon
  <2>5. y \in Nat
    BY <2>4, CapFacts, Zenon
  <2>6. bonus_scaled(v) = concave_bonus(y)
    BY <1>2, <1>8, Zenon
  <2> HIDE DEF y
  <2>7. concave_bonus(y) = IF zeta + y = 0 THEN 0
                                 ELSE Cap((bonus_cap * y) \div (zeta + y))
    BY Zenon DEF concave_bonus
  <2>8. CASE zeta + y = 0
    <3>1. concave_bonus(y) = 0 /\ 0 \in Nat
      BY <2>7, <2>8
    <3> QED
      BY <2>6, <3>1
  <2>9. CASE zeta + y # 0
    <3>1. bonus_cap * y \in Nat /\ zeta + y \in Nat \ {0}
      BY <1>1, <1>5, <2>5, <2>9, Zenon
    <3>2. (bonus_cap * y) \div (zeta + y) \in Nat
      BY <3>1, DivFacts, Zenon
    <3>3. Cap((bonus_cap * y) \div (zeta + y)) \in Nat
      BY <3>2, CapFacts, Zenon
    <3> QED
      BY <2>6, <2>7, <2>9, <3>3, Zenon
  <2> QED
    BY <2>8, <2>9, Zenon
<1> QED
  BY <1>7, <1>8, Zenon

\* So are the weights.
LEMMA WeightsTyped ==
  ASSUME latest_scores \in [Validator -> Nat]
  PROVE  Weights \in [Validator -> Nat]
<1>1. ASSUME NEW v \in Validator PROVE proposer_weight(v) \in Nat
  <2> DEFINE bonus == bonus_scaled(v)
             e == Min({eta, SCALE})
             b == Min({bonus, bonus_cap})
             x == (e * b) \div SCALE
  <2>1. /\ eta \in Nat /\ SCALE \in Nat \ {0} /\ SCALE \in Nat /\ bonus_cap \in Nat
        /\ effective_balance[v] \in Nat
    BY FixedConstants
  <2>2. bonus \in Nat
    BY BonusTyped, Zenon
  <2>3. bonus_multiplier(bonus) = Cap(SCALE + x)
    BY Zenon DEF bonus_multiplier
  <2> HIDE DEF bonus
  <2>4. e \in Nat /\ b \in Nat
    <3>1. eta \in Int /\ SCALE \in Int /\ bonus \in Int /\ bonus_cap \in Int
      BY <2>1, <2>2
    <3>2. e = IF eta <= SCALE THEN eta ELSE SCALE
      BY <3>1, MinOfTwo, Zenon
    <3>3. b = IF bonus <= bonus_cap THEN bonus ELSE bonus_cap
      BY <3>1, MinOfTwo, Zenon
    <3> QED
      BY <2>1, <2>2, <3>2, <3>3, Zenon
  <2> HIDE DEF e, b
  <2>5. \A k, l \in Nat : k * l \in Nat /\ k + l \in Nat
    BY SMT
  <2>6. x \in Nat
    BY <2>1, <2>4, <2>5, DivFacts, Zenon
  <2> HIDE DEF x
  <2>7. Cap(SCALE + x) \in Nat
    BY <2>1, <2>5, <2>6, CapFacts, Zenon
  <2> QED
    BY <2>1, <2>3, <2>5, <2>7, Zenon DEF proposer_weight, bonus
<1> QED
  BY <1>1, Zenon DEF Weights

\* The candidates of the greatest weight have their turn still to come.
ElectionInv ==
  /\ latest_scores \in [Validator -> Nat]
  /\ untried \subseteq Validator
  /\ proposer = None =>
       \A v \in Validator : (\A w \in Validator : Weights[w] <= Weights[v]) => v \in untried

\* A candidate of the greatest weight is accepted, whatever the random value is.
LEMMA RejectedIsLighter ==
  ASSUME latest_scores \in [Validator -> Nat], NEW v \in Validator,
         NEW random_value \in 0..max_random,
         ~(proposer_weight(v) * max_random >= max_proposer_weight * random_value)
  PROVE  ~(\A w \in Validator : Weights[w] <= Weights[v])
<1> DEFINE S == {proposer_weight(w) : w \in Validator}
           m == max_proposer_weight
<1>1. Weights \in [Validator -> Nat] /\ \A w \in Validator : Weights[w] = proposer_weight(w)
  BY WeightsTyped, Zenon DEF Weights
<1>2. IsFiniteSet(Validator) /\ Validator # {} /\ max_random \in Nat
  BY FixedConstants, Zenon
<1>3. m \in S
  <2>1. PICK x \in Validator : \A y \in Validator : Weights[y] <= Weights[x]
    BY <1>1, <1>2, GreatestValue, Zenon
  <2>2. \A i, j \in Nat : i <= j => j >= i
    BY SMT
  <2>3. \A y \in Validator : proposer_weight(x) >= proposer_weight(y)
    BY <1>1, <2>1, <2>2, Zenon
  <2>4. \E k \in S : \A l \in S : k >= l
    BY <2>3, Zenon
  <2>5. m = CHOOSE k \in S : \A l \in S : k >= l
    BY Zenon DEF max_proposer_weight, Max
  <2> HIDE DEF S, m
  <2> QED
    BY <2>4, <2>5, Zenon
<1>4. PICK w \in Validator : m = Weights[w]
  BY <1>1, <1>3, Zenon
<1> HIDE DEF m, S
<1>5. SUFFICES ASSUME Weights[w] <= Weights[v] PROVE FALSE
  BY Zenon
<1>6. Weights[v] \in Nat /\ m \in Nat /\ m <= Weights[v]
  BY <1>1, <1>4, <1>5, Zenon
<1>7. \A i, j, k, l \in Nat : i <= j /\ k <= l => j * l >= i * k
  BY SMT
<1>8. random_value \in Nat /\ random_value <= max_random
  BY <1>2
<1>9. Weights[v] * max_random >= m * random_value
  BY <1>2, <1>6, <1>7, <1>8, Zenon
<1> QED
  BY <1>1, <1>9, Zenon DEF m

\* A candidate that is turned down is lighter than another one, which is still untried.
LEMMA TryKeepsGreatest ==
  ASSUME ElectionInv, NEW v \in Validator, NEW random_value \in 0..max_random,
         TryCandidate(v, random_value)
  PROVE  ElectionInv' /\ untried' # Validator
<1>1. /\ proposer = None /\ v \in untried /\ untried \subseteq Validator
      /\ latest_scores \in [Validator -> Nat] /\ latest_scores' = latest_scores
      /\ \A u \in Validator : (\A w \in Validator : Weights[w] <= Weights[u]) => u \in untried
  BY Zenon DEF ElectionInv, TryCandidate, settled
<1>2. Weights' = Weights
  BY <1>1, Zenon DEF Weights, proposer_weight, bonus_scaled
<1>3. CASE proposer_weight(v) * max_random >= max_proposer_weight * random_value
  <2>1. proposer' = v /\ untried' = untried \ {v}
    BY <1>3, Zenon DEF TryCandidate
  <2>2. proposer' # None
    BY <2>1, FixedConstants, Zenon
  <2>3. untried' \subseteq Validator /\ untried' # Validator
    BY <1>1, <2>1, SMT
  <2> QED
    BY <1>1, <2>2, <2>3, Zenon DEF ElectionInv, None
<1>4. CASE ~(proposer_weight(v) * max_random >= max_proposer_weight * random_value)
  <2>1. untried' = IF untried = {v} THEN Validator ELSE untried \ {v}
    BY <1>4, Zenon DEF TryCandidate
  <2>2. ~(\A w \in Validator : Weights[w] <= Weights[v])
    BY <1>1, <1>4, RejectedIsLighter, Zenon
  <2>3. PICK u \in Validator : \A w \in Validator : Weights[w] <= Weights[u]
    <3>1. IsFiniteSet(Validator) /\ Validator # {} /\ Weights \in [Validator -> Nat]
      BY <1>1, FixedConstants, WeightsTyped, Zenon
    <3> QED
      BY <3>1, GreatestValue, Zenon
  <2>4. u \in untried /\ u # v
    BY <1>1, <2>2, <2>3, Zenon
  <2>5. untried' = untried \ {v}
    <3>1. untried # {v}
      BY <2>4, Zenon
    <3> QED
      BY <2>1, <3>1, Zenon
  <2>6. untried' \subseteq Validator /\ untried' # Validator
    BY <1>1, <2>5, SMT
  <2>7. \A x \in Validator : (\A w \in Validator : Weights[w] <= Weights[x]) => x \in untried'
    BY <1>1, <2>2, <2>5, Zenon
  <2> QED
    BY <1>1, <1>2, <2>6, <2>7, Zenon DEF ElectionInv
<1> QED
  BY <1>3, <1>4, Zenon

\* compute_topostake_proposer_index, on weights that do not change while it runs, never
\* comes to a second round: for any stakes, scores and random values, a candidate of the
\* greatest weight is accepted at its turn at the latest.
THEOREM ElectionNeedsOneRound == FixedSpec => ProposerInOneRound
<1>1. FixedInit => ElectionInv
  BY ZeroTyped, Zenon DEF FixedInit, ElectionInv
<1>2. /\ ScoreInv' /\ ElectionInv /\ [FixedNext]_fixed_vars
      => ElectionInv' /\ [untried' # Validator]_(election)
  <2> SUFFICES ASSUME ScoreInv', ElectionInv, [FixedNext]_fixed_vars
               PROVE  ElectionInv' /\ [untried' # Validator]_(election)
    BY Zenon
  <2>1. CASE UNCHANGED <<settled, election>>
    <3>1. latest_scores' = latest_scores /\ untried' = untried /\ proposer' = proposer
      BY <2>1, Zenon DEF settled, election
    <3>2. Weights' = Weights
      BY <3>1, Zenon DEF Weights, proposer_weight, bonus_scaled
    <3> QED
      BY <2>1, <3>1, <3>2, Zenon DEF ElectionInv, None
  <2>2. ASSUME NEW path \in Paths, NEW fee \in Fees, NEW cost \in Costs, NEW v \in Validator,
               RecordPath(path, fee, cost, v)
        PROVE  UNCHANGED <<settled, election>>
    BY <2>2, Zenon DEF RecordPath
  <2>3. CASE SettleEpoch
    <3>1. untried = Validator /\ UNCHANGED election
      BY <2>3, Zenon DEF SettleEpoch
    <3>2. untried' = Validator /\ latest_scores' \in [Validator -> Nat]
      BY <3>1, Zenon DEF election, ScoreInv
    <3> QED
      BY <3>1, <3>2, Zenon DEF ElectionInv
  <2>4. ASSUME NEW v \in Validator, NEW random_value \in 0..max_random,
               TryCandidate(v, random_value)
        PROVE  ElectionInv' /\ untried' # Validator
    BY <2>4, TryKeepsGreatest, Zenon
  <2>5. CASE UNCHANGED fixed_vars
    <3>1. UNCHANGED <<settled, election>>
      BY <2>5, Zenon DEF fixed_vars
    <3> QED
      BY <2>1, <3>1, Zenon
  <2> QED
    BY <2>1, <2>2, <2>3, <2>4, <2>5, Zenon DEF FixedNext
<1> QED
  BY <1>1, <1>2, ScoresKept, PTL DEF FixedSpec, ProposerInOneRound
==================================================================================
