----------------------------- MODULE Settlement_proofs -----------------------------
(* Proofs about Settlement: no chain pays an epoch twice, every client can import   *)
(* the blocks the others build, the nodes together implement Payout, and a client   *)
(* that has answered for an epoch keeps it.                                          *)
EXTENDS Settlement, WellFoundedInduction, TLAPS

-------------------------------------------------------------------------------------
(* Lemmas. *)

\* A nonempty set of naturals has a least element: what PendingSettlementRoot's scan
\* of the queue finds.
LEMMA LeastNatural ==
  ASSUME NEW T, T \subseteq Nat, T # {}
  PROVE  \E x \in T : \A y \in T : x <= y
<1> DEFINE Less == {ss \in Nat \X Nat : ss[1] < ss[2]}
<1>1. IsWellFoundedOn(Less, Nat)
  BY NatLessThanWellFounded, Zenon DEF OpToRel
<1> HIDE DEF Less
<1>2. PICK x \in T : \A y \in T : ~ (<<y, x>> \in Less)
  BY <1>1, WFMin, Zenon
<1>3. ASSUME NEW y \in T, y < x  PROVE FALSE
  <2>1. <<y, x>> \in Nat \X Nat /\ <<y, x>>[1] < <<y, x>>[2]
    BY <1>3, Zenon
  <2>2. <<y, x>> \in Less
    BY <2>1, Zenon DEF Less
  <2> QED
    BY <2>2, <1>2, Zenon
<1>4. \A y \in T : x <= y
  BY <1>3
<1> QED
  BY <1>4, Zenon

\* What is left of a sequence of several elements.
LEMMA TailOfMany ==
  ASSUME NEW S, NEW s \in Seq(S), s # <<>>, Len(s) # 1
  PROVE  Tail(s) \in Seq(S) /\ Tail(s) # <<>>
<1>1. Len(s) \in Nat /\ Len(s) # 0
  OBVIOUS
<1>2. Tail(s) \in Seq(S) /\ Len(Tail(s)) = Len(s) - 1
  BY <1>1
<1>3. Len(Tail(s)) # 0
  BY <1>1, <1>2
<1> QED
  BY <1>2, <1>3

-------------------------------------------------------------------------------------
(* The inductive invariant. *)

Paid(b) == P!PaidEpochs(StateOf(b))

\* Clients are left to ask as long as a submission is under way.
SendOK == \A c \in Beacon : submitting[c] = Idle \/ submitting[c].urls # <<>>

\* Only epochs with records settle.
SettledOK == \A c \in Beacon : \A e \in settled[c] : Credits[c][e] # 0

\* A payload is stored under its own key.
KeysOK ==
  \A n \in Node, e \in Epoch : settlements[n][e] # NoPayload => settlements[n][e].epoch = e

\* A client has marked every epoch that a block it executed has paid.
MarkedOK == \A n \in Node : \A b \in processed[n] : Paid(b) \subseteq executed[n]

\* A header under construction extends an executed block and names no epoch that the
\* chain below it has paid.
BuildOK ==
  \A n \in Node : building[n] # NotBuilding =>
    /\ building[n].parent \in processed[n]
    /\ building[n].root # NoPayload => building[n].root.epoch \notin Paid(building[n].parent)

Before(block) == Collect(StateOf(block.parent), block.fee)

After(block) ==
  IF block.root = NoPayload \/ ~SettlementMutation
    THEN Before(block) ELSE Pay(Before(block), block.records)

\* The state of a block is what its own header and body say, and no client's store.
BlockOK(b) ==
  /\ blocks[b].parent \in 0..(b - 1)
  /\ ~ApplyFails(blocks[b].root, blocks[b].records, Before(blocks[b]))
  /\ StateOf(b) = After(blocks[b])

BlocksOK == \A b \in 1..Len(blocks) : BlockOK(b)

PaidOnceIn(account) ==
  \A i, j \in DOMAIN account.payouts :
    account.payouts[i].epoch = account.payouts[j].epoch => i = j

IInv ==
  /\ TypeOK /\ SendOK /\ SettledOK /\ KeysOK
  /\ MarkedOK /\ BuildOK /\ BlocksOK /\ PaidOnce

-------------------------------------------------------------------------------------
(* The pieces of an account. *)

\* The zero hash is no payload.
LEMMA NoPayloadIsNone == NoPayload \notin Payload
  BY SettlementAssumption DEF NoPayload, Payload

\* The fees of a block enlarge the escrow and pay nothing.
LEMMA CollectType ==
  ASSUME NEW account \in Account, NEW fee \in Fees
  PROVE  /\ Collect(account, fee) \in Account
         /\ Collect(account, fee).payouts = account.payouts
         /\ Collect(account, fee) = P!Collect(account, fee)
  BY SettlementAssumption DEF Collect, Account, P!Collect

\* The total of a payload is a natural number.
LEMMA PayloadTotal ==
  ASSUME NEW payload \in Payload
  PROVE  payload.total \in Nat /\ payload.epoch \in Epoch
  BY SettlementAssumption DEF Payload

\* Paying what the escrow covers leaves an account.
LEMMA PayType ==
  ASSUME NEW account \in Account, NEW payload \in Payload, payload.total <= account.escrow
  PROVE  /\ Pay(account, payload) \in Account
         /\ Pay(account, payload).payouts = Append(account.payouts, payload)
  BY PayloadTotal DEF Pay, Account

\* Paying adds the epoch of the payload to the epochs paid.
LEMMA PaidByPay ==
  ASSUME NEW account \in Account, NEW payload \in Payload
  PROVE  P!PaidEpochs(Pay(account, payload)) = P!PaidEpochs(account) \cup {payload.epoch}
<1> DEFINE s == account.payouts
           t == Append(s, payload)
<1>1. s \in Seq(Payload) /\ Pay(account, payload).payouts = t
  BY Zenon DEF Account, Pay
<1>2. /\ DOMAIN t = DOMAIN s \cup {Len(s) + 1}
      /\ t[Len(s) + 1] = payload
      /\ \A i \in DOMAIN s : t[i] = s[i]
  BY <1>1
<1> HIDE DEF t
<1>3. {t[i].epoch : i \in DOMAIN t} = {s[i].epoch : i \in DOMAIN s} \cup {payload.epoch}
  BY <1>2
<1> QED
  BY <1>1, <1>3, Zenon DEF P!PaidEpochs

\* Paying an epoch that is not paid yet keeps the payouts distinct.
LEMMA PayOnce ==
  ASSUME NEW account \in Account, NEW payload \in Payload, PaidOnceIn(account),
         payload.epoch \notin P!PaidEpochs(account)
  PROVE  PaidOnceIn(Pay(account, payload))
<1> DEFINE s == account.payouts
           t == Append(s, payload)
<1>1. s \in Seq(Payload) /\ Pay(account, payload).payouts = t
  BY Zenon DEF Account, Pay
<1>2. /\ DOMAIN t = DOMAIN s \cup {Len(s) + 1}
      /\ t[Len(s) + 1] = payload
      /\ \A i \in DOMAIN s : t[i] = s[i]
  BY <1>1
<1> HIDE DEF t
<1>3. \A i \in DOMAIN s : s[i].epoch # payload.epoch
  BY Zenon DEF P!PaidEpochs
<1>4. \A i, k \in DOMAIN t : t[i].epoch = t[k].epoch => i = k
  BY <1>2, <1>3, Zenon DEF PaidOnceIn
<1> QED
  BY <1>1, <1>4, Zenon DEF PaidOnceIn

\* A new block leaves the states of the others alone.
LEMMA LedgerGrows ==
  ASSUME TypeOK, NEW account \in Account, NEW block \in Block,
         ledger' = Append(ledger, account), blocks' = Append(blocks, block)
  PROVE  /\ Len(blocks') = Len(blocks) + 1
         /\ blocks' \in Seq(Block) /\ ledger' \in Seq(Account)
         /\ Len(ledger') = Len(blocks') + 1
         /\ \A b \in BlockIds : StateOf(b)' = StateOf(b) /\ Paid(b)' = Paid(b)
         /\ StateOf(Len(blocks))' = account
         /\ \A b \in 1..Len(blocks) : blocks'[b] = blocks[b]
         /\ blocks'[Len(blocks) + 1] = block
<1>1. /\ ledger \in Seq(Account) /\ blocks \in Seq(Block) /\ Len(ledger) = Len(blocks) + 1
      /\ Len(blocks) \in Nat
  BY DEF TypeOK
<1>2. /\ Len(blocks') = Len(blocks) + 1
      /\ blocks' \in Seq(Block) /\ ledger' \in Seq(Account)
      /\ Len(ledger') = Len(blocks') + 1
  BY <1>1
<1>3. \A b \in BlockIds : StateOf(b)' = StateOf(b)
  BY <1>1 DEF BlockIds, StateOf
<1>4. StateOf(Len(blocks))' = account
  BY <1>1 DEF StateOf
<1>5. /\ \A b \in 1..Len(blocks) : blocks'[b] = blocks[b]
      /\ blocks'[Len(blocks) + 1] = block
  BY <1>1
<1>6. \A b \in BlockIds : Paid(b)' = Paid(b)
  BY <1>3, Zenon DEF Paid, P!PaidEpochs
<1> QED
  BY <1>2, <1>3, <1>4, <1>5, <1>6, Zenon

-------------------------------------------------------------------------------------
(* What sealing and importing a block do. *)

\* A block that does not fail and pays something pays the payload of its header.
LEMMA PaysRoot ==
  ASSUME NEW root, NEW records, NEW account, ~ApplyFails(root, records, account),
         root # NoPayload, SettlementMutation
  PROVE  records = root /\ ~(root.total > account.escrow)
  BY Zenon DEF ApplyFails

\* The genesis is block 0, and every block has a state.
LEMMA BlockIdsType ==
  ASSUME TypeOK
  PROVE  /\ Len(blocks) \in Nat /\ 0 \in BlockIds
         /\ \A b \in BlockIds : b \in Nat /\ b + 1 \in DOMAIN ledger /\ StateOf(b) \in Account
  BY DEF TypeOK, BlockIds, StateOf

\* The parts of a block have their types.
LEMMA BlockParts ==
  ASSUME TypeOK, NEW b \in 1..Len(blocks)
  PROVE  /\ blocks[b] \in Block /\ b \in BlockIds
         /\ blocks[b].fee \in Fees
         /\ blocks[b].root \in Payload \cup {NoPayload}
         /\ blocks[b].records \in Payload \cup {NoPayload}
<1>1. blocks \in Seq(Block)
  BY Zenon DEF TypeOK
<1>2. blocks[b] \in Block /\ b \in BlockIds
  BY <1>1 DEF BlockIds
<1> QED
  BY <1>2, Zenon DEF Block

\* The epochs paid after a block are those paid before it and that of its header.
LEMMA PaidAfter ==
  ASSUME TypeOK, BlocksOK, NEW b \in 1..Len(blocks)
  PROVE  Paid(b) = Paid(blocks[b].parent) \cup
           (IF blocks[b].root = NoPayload \/ ~SettlementMutation THEN {}
            ELSE {blocks[b].records.epoch})
<1> DEFINE block == blocks[b]
<1>1. BlockOK(b) /\ block.parent \in BlockIds
  BY BlockIdsType DEF BlocksOK, BlockOK, BlockIds
<1>2. StateOf(block.parent) \in Account /\ block.fee \in Fees
  BY <1>1, BlockIdsType, BlockParts, Zenon
<1>3. /\ Before(block) \in Account
      /\ Before(block).payouts = StateOf(block.parent).payouts
  BY <1>2, CollectType, Zenon DEF Before
<1>4. P!PaidEpochs(Before(block)) = Paid(block.parent)
  BY <1>3, Zenon DEF P!PaidEpochs, Paid
<1>5. CASE block.root = NoPayload \/ ~SettlementMutation
  <2>1. StateOf(b) = Before(block)
    BY <1>1, <1>5, Zenon DEF BlockOK, After
  <2> QED
    BY <2>1, <1>4, <1>5, Zenon DEF Paid
<1>6. CASE ~(block.root = NoPayload \/ ~SettlementMutation)
  <2>1. StateOf(b) = Pay(Before(block), block.records)
    BY <1>1, <1>6, Zenon DEF BlockOK, After
  <2>2. block.records \in Payload
    BY <1>1, <1>6, PaysRoot, BlockParts DEF BlockOK
  <2>3. P!PaidEpochs(Pay(Before(block), block.records))
          = P!PaidEpochs(Before(block)) \cup {block.records.epoch}
    BY <1>3, <2>2, PaidByPay, Zenon
  <2> QED
    BY <2>1, <2>3, <1>4, <1>6, Zenon DEF Paid
<1> QED
  BY <1>5, <1>6, Zenon

-------------------------------------------------------------------------------------
(* The steps. *)

\* Nothing is submitted, queued or paid at the start.
LEMMA InitInv == Init => IInv
<1> SUFFICES ASSUME Init PROVE IInv
  BY Zenon
<1> USE DEF Init
<1>1. Len(blocks) = 0 /\ BlockIds = {0} /\ StateOf(0) = [escrow |-> 0, payouts |-> <<>>]
  BY DEF BlockIds, StateOf
<1>2. TypeOK
  <2>1. Idle \in [payloads : SUBSET Payload, urls : Seq(Node), all : BOOLEAN]
    BY DEF Idle
  <2>2. NotBuilding \in [parent : BlockIds \cup {-1}, root : Payload \cup {NoPayload}]
    BY Zenon DEF NotBuilding
  <2>3. ledger \in Seq(Account) /\ Len(ledger) = 1
    BY DEF Account
  <2>4. \A n \in Node : Len(settlementOrder[n]) <= Capacity
    BY SettlementAssumption
  <2> QED
    BY <1>1, <2>1, <2>2, <2>3, <2>4 DEF TypeOK
<1>3. Paid(0) = {}
  BY <1>1 DEF Paid, P!PaidEpochs
<1>4. SendOK /\ SettledOK /\ KeysOK /\ BuildOK /\ BlocksOK /\ PaidOnce
  BY <1>1 DEF SendOK, SettledOK, KeysOK, BuildOK, BlocksOK, PaidOnce
<1>5. MarkedOK
  BY <1>3, Zenon DEF MarkedOK
<1> QED
  BY <1>2, <1>4, <1>5, Zenon DEF IInv

\* A step that leaves the chain, the marks and the headers alone.
LEMMA FrameInv ==
  ASSUME IInv, UNCHANGED <<executed, building, chain, processed>>
  PROVE  MarkedOK' /\ BuildOK' /\ BlocksOK' /\ PaidOnce'
<1>1. /\ executed' = executed /\ building' = building /\ processed' = processed
      /\ blocks' = blocks /\ ledger' = ledger
  BY Zenon DEF chain
<1>2. \A b : StateOf(b)' = StateOf(b) /\ Paid(b)' = Paid(b)
  BY <1>1, Zenon DEF StateOf, Paid, P!PaidEpochs
<1>3. MarkedOK' /\ BuildOK'
  BY <1>1, <1>2, Zenon DEF IInv, MarkedOK, BuildOK
<1>4. BlocksOK'
  BY <1>1, <1>2, Zenon DEF IInv, BlocksOK, BlockOK, Before, After
<1>5. PaidOnce'
  BY <1>1, <1>2, Zenon DEF IInv, PaidOnce, BlockIds
<1> QED
  BY <1>3, <1>4, <1>5, Zenon

\* A consensus client that starts to submit preserves the invariant.
LEMMA SubmitInv ==
  ASSUME IInv, NEW c \in Beacon, NEW finalized \in 0..MaxFinalized, Submit(c, finalized)
  PROVE  IInv'
<1> DEFINE Send == [payloads : SUBSET Payload, urls : Seq(Node), all : BOOLEAN]
           payloads == {[epoch |-> e, finalized |-> finalized, total |-> Credits[c][e]] :
                          e \in Due(c, finalized)}
           next == IF payloads = {} THEN Idle
                   ELSE [payloads |-> payloads, urls |-> rpc_urls, all |-> TRUE]
<1>1. UNCHANGED <<submitted, settlements, settlementOrder, executed, building, blocks,
                  ledger, processed>>
  BY Zenon DEF Submit, store, chain
<1>2. /\ SettledBy(c, finalized) \subseteq Epoch
      /\ \A e \in SettledBy(c, finalized) : Credits[c][e] # 0
  BY Zenon DEF SettledBy
<1>3. TypeOK /\ SettledOK /\ SendOK
  BY Zenon DEF IInv
<1>4. settled' \in [Beacon -> SUBSET Epoch]
  BY <1>2, <1>3, Zenon DEF TypeOK, Submit
<1>5. SettledOK'
  BY <1>2, <1>3, Zenon DEF TypeOK, Submit, SettledOK
<1>6. Due(c, finalized) \subseteq Epoch /\ \A e \in Due(c, finalized) : Credits[c][e] # 0
  BY <1>2, <1>3, Zenon DEF TypeOK, Due, SettledOK
<1>7. payloads \subseteq Payload
  BY <1>6 DEF Payload
<1>8. submitting' = [submitting EXCEPT ![c] = next]
  BY Zenon DEF Submit
<1> HIDE DEF payloads
<1>9. next \in Send /\ (next = Idle \/ next.urls # <<>>)
  BY <1>7, SettlementAssumption DEF Idle
<1> HIDE DEF next
<1>10. submitting' \in [Beacon -> Send]
  BY <1>3, <1>8, <1>9, Zenon DEF TypeOK
<1>11. SendOK'
  BY <1>3, <1>8, <1>9, Zenon DEF TypeOK, SendOK
<1>12. TypeOK'
  BY <1>1, <1>3, <1>4, <1>10, Zenon DEF TypeOK, BlockIds
<1>13. KeysOK'
  BY <1>1, Zenon DEF IInv, KeysOK
<1> QED
  BY <1>1, <1>5, <1>11, <1>12, <1>13, FrameInv, Zenon DEF IInv, chain

\* SubmitSettlement keeps the queue within its capacity and every payload under its key.
LEMMA SubmitSettlementInv ==
  ASSUME IInv, NEW m \in Node, NEW payload \in Payload, SubmitSettlement(m, payload)
  PROVE  /\ settlements' \in [Node -> [Epoch -> Payload \cup {NoPayload}]]
         /\ settlementOrder' \in [Node -> Seq(Epoch)]
         /\ \A n \in Node : Len(settlementOrder'[n]) <= Capacity
         /\ KeysOK'
<1> DEFINE key == payload.epoch
           order == IF settlements[m][key] = NoPayload
                      THEN Append(settlementOrder[m], key) ELSE settlementOrder[m]
           stored == [settlements[m] EXCEPT ![key] = payload]
           full == Len(order) > Capacity
           forgets == full /\ order[1] \notin executed[m]
           kept == IF full THEN Tail(order) ELSE order
           left == IF forgets THEN [stored EXCEPT ![order[1]] = NoPayload] ELSE stored
<1>1. TypeOK /\ KeysOK /\ key \in Epoch
  BY PayloadTotal, Zenon DEF IInv
<1>2. CASE key \in executed[m]
  BY <1>1, <1>2 DEF SubmitSettlement, TypeOK, KeysOK
<1>3. CASE key \notin executed[m]
  <2>1. /\ settlementOrder' = [settlementOrder EXCEPT ![m] = kept]
        /\ settlements' = [settlements EXCEPT ![m] = left]
    BY <1>3, Zenon DEF SubmitSettlement
  <2>2. settlementOrder[m] \in Seq(Epoch) /\ Len(settlementOrder[m]) <= Capacity
    BY <1>1, Zenon DEF TypeOK
  <2>3. order \in Seq(Epoch) /\ Len(order) <= Capacity + 1
    BY <1>1, <2>2, SettlementAssumption
  <2> HIDE DEF order
  <2>4. kept \in Seq(Epoch) /\ Len(kept) <= Capacity
    BY <2>3, SettlementAssumption
  <2>5. settlements[m] \in [Epoch -> Payload \cup {NoPayload}]
    BY <1>1, Zenon DEF TypeOK
  <2>6. /\ stored \in [Epoch -> Payload \cup {NoPayload}]
        /\ \A e \in Epoch : stored[e] # NoPayload => stored[e].epoch = e
    BY <1>1, <2>5, Zenon DEF KeysOK
  <2> HIDE DEF stored
  <2>7. /\ left \in [Epoch -> Payload \cup {NoPayload}]
        /\ \A e \in Epoch : left[e] # NoPayload => left[e].epoch = e
    BY <2>6, Zenon
  <2> HIDE DEF kept, left
  <2>8. /\ settlements' \in [Node -> [Epoch -> Payload \cup {NoPayload}]]
        /\ settlementOrder' \in [Node -> Seq(Epoch)]
    BY <1>1, <2>1, <2>4, <2>7, Zenon DEF TypeOK
  <2>9. \A n \in Node : Len(settlementOrder'[n]) <= Capacity
    BY <1>1, <2>1, <2>4, Zenon DEF TypeOK
  <2>10. KeysOK'
    BY <1>1, <2>1, <2>7, Zenon DEF TypeOK, KeysOK
  <2> QED
    BY <2>8, <2>9, <2>10, Zenon
<1> QED
  BY <1>2, <1>3, Zenon

\* An RPC, delivered or not and answered or not, preserves the invariant.
LEMMA RpcInv ==
  ASSUME IInv, NEW c \in Beacon, NEW payload \in submitting[c].payloads,
         NEW delivered \in BOOLEAN, NEW answered \in BOOLEAN,
         Rpc(c, payload, delivered, answered)
  PROVE  IInv'
<1> DEFINE Send == [payloads : SUBSET Payload, urls : Seq(Node), all : BOOLEAN]
           send == submitting[c]
           all == AllAnswered(send, answered)
           last == Len(send.urls) = 1
           rest == send.payloads \ {payload}
           next == IF ~last THEN [send EXCEPT !.urls = Tail(@), !.all = all]
                   ELSE IF rest = {} THEN Idle
                   ELSE [payloads |-> rest, urls |-> rpc_urls, all |-> TRUE]
<1>1. UNCHANGED <<settled, executed, building, blocks, ledger, processed>>
  BY Zenon DEF Rpc, chain
<1>2. TypeOK /\ SendOK /\ SettledOK /\ KeysOK
  BY Zenon DEF IInv
<1>3. send \in Send /\ send # Idle
  BY <1>2, Zenon DEF TypeOK, Rpc
<1>4. /\ send.payloads \subseteq Payload /\ payload \in Payload
      /\ send.urls \in Seq(Node) /\ send.urls # <<>> /\ send.all \in BOOLEAN
  BY <1>2, <1>3, Zenon DEF SendOK
<1>5. /\ submitting' = [submitting EXCEPT ![c] = next]
      /\ submitted' = [submitted EXCEPT ![c] =
           IF last /\ all THEN @ \cup {payload.epoch} ELSE @]
  BY Zenon DEF Rpc
<1>6. all \in BOOLEAN /\ Head(send.urls) \in Node
  BY <1>4 DEF AllAnswered
<1>7. next \in Send /\ (next = Idle \/ next.urls # <<>>)
  <2>1. CASE ~last
    <3>1. Tail(send.urls) \in Seq(Node) /\ Tail(send.urls) # <<>>
      BY <1>4, <2>1, TailOfMany, Zenon
    <3> QED
      BY <1>3, <1>6, <2>1, <3>1, Zenon
  <2>2. CASE last
    BY <1>4, <2>2, SettlementAssumption DEF Idle
  <2> QED
    BY <2>1, <2>2, Zenon
<1> HIDE DEF next
<1>8. submitting' \in [Beacon -> Send] /\ SendOK'
  BY <1>2, <1>5, <1>7, Zenon DEF TypeOK, SendOK
<1>9. submitted' \in [Beacon -> SUBSET Epoch]
  BY <1>2, <1>4, <1>5, PayloadTotal DEF TypeOK
<1>10. /\ settlements' \in [Node -> [Epoch -> Payload \cup {NoPayload}]]
       /\ settlementOrder' \in [Node -> Seq(Epoch)]
       /\ \A n \in Node : Len(settlementOrder'[n]) <= Capacity
       /\ KeysOK'
  <2>1. CASE delivered
    <3>1. SubmitSettlement(Head(send.urls), payload)
      BY <2>1, Zenon DEF Rpc
    <3> QED
      BY <1>4, <1>6, <3>1, SubmitSettlementInv, Zenon
  <2>2. CASE ~delivered
    <3>1. UNCHANGED <<settlements, settlementOrder>>
      BY <2>2, Zenon DEF Rpc
    <3> QED
      BY <1>2, <3>1, Zenon DEF TypeOK, KeysOK
  <2> QED
    BY <2>1, <2>2, Zenon
<1>11. TypeOK'
  BY <1>1, <1>2, <1>8, <1>9, <1>10, Zenon DEF TypeOK, BlockIds
<1>12. SettledOK'
  BY <1>1, <1>2, Zenon DEF SettledOK
<1> QED
  BY <1>1, <1>8, <1>10, <1>11, <1>12, FrameInv, Zenon DEF IInv, chain

\* The root of a header names a stored payload of an epoch that is not marked.
LEMMA PendingRoot ==
  ASSUME IInv, NEW n \in Node
  PROVE  /\ PendingSettlementRoot(n) \in Payload \cup {NoPayload}
         /\ PendingSettlementRoot(n) # NoPayload =>
              PendingSettlementRoot(n).epoch \notin executed[n]
<1> DEFINE order == settlementOrder[n]
           pending == {i \in DOMAIN order :
                         order[i] \notin executed[n] /\ settlements[n][order[i]] # NoPayload}
           first == CHOOSE i \in pending : \A j \in pending : i <= j
<1>1. TypeOK /\ KeysOK
  BY Zenon DEF IInv
<1>2. order \in Seq(Epoch) /\ settlements[n] \in [Epoch -> Payload \cup {NoPayload}]
  BY <1>1, Zenon DEF TypeOK
<1>3. CASE pending = {}
  BY <1>3, Zenon DEF PendingSettlementRoot
<1>4. CASE pending # {}
  <2>1. pending \subseteq Nat
    BY <1>2
  <2>2. \E i \in pending : \A j \in pending : i <= j
    BY <1>4, <2>1, LeastNatural, Zenon
  <2>3. first \in pending
    BY <2>2, Zenon
  <2>4. PendingSettlementRoot(n) = settlements[n][order[first]]
    BY <1>4, Zenon DEF PendingSettlementRoot
  <2> HIDE DEF first
  <2>5. order[first] \in Epoch /\ order[first] \notin executed[n]
        /\ settlements[n][order[first]] # NoPayload
    BY <1>2, <2>3
  <2>6. settlements[n][order[first]].epoch = order[first]
    BY <1>1, <2>5, Zenon DEF KeysOK
  <2> QED
    BY <1>2, <2>4, <2>5, <2>6, Zenon
<1> QED
  BY <1>3, <1>4, Zenon

\* Preparing a header preserves the invariant.
LEMMA PrepareInv ==
  ASSUME IInv, NEW n \in Node, NEW parent \in BlockIds, Prepare(n, parent)
  PROVE  IInv'
<1>1. UNCHANGED <<settled, submitted, submitting, settlements, settlementOrder, executed,
                  blocks, ledger, processed>>
  BY Zenon DEF Prepare, consensus, store, chain
<1>2. /\ parent \in processed[n]
      /\ building' = [building EXCEPT ![n] =
           [parent |-> parent, root |-> PendingSettlementRoot(n)]]
  BY Zenon DEF Prepare
<1>3. TypeOK /\ MarkedOK /\ BuildOK
  BY Zenon DEF IInv
<1>4. \A b : StateOf(b)' = StateOf(b) /\ Paid(b)' = Paid(b)
  BY <1>1, Zenon DEF StateOf, Paid, P!PaidEpochs
<1>5. PendingSettlementRoot(n) # NoPayload =>
        PendingSettlementRoot(n).epoch \notin Paid(parent)
  BY <1>2, <1>3, PendingRoot, Zenon DEF MarkedOK
<1>6. building' \in [Node -> [parent : BlockIds \cup {-1}, root : Payload \cup {NoPayload}]]
  BY <1>2, <1>3, PendingRoot, Zenon DEF TypeOK
<1>7. TypeOK'
  BY <1>1, <1>3, <1>6, Zenon DEF TypeOK, BlockIds
<1>8. BuildOK'
  BY <1>1, <1>2, <1>3, <1>4, <1>5, Zenon DEF BuildOK, TypeOK
<1>9. SendOK' /\ SettledOK' /\ KeysOK' /\ MarkedOK'
  BY <1>1, <1>4, Zenon DEF IInv, SendOK, SettledOK, KeysOK, MarkedOK
<1>10. BlocksOK' /\ PaidOnce'
  BY <1>1, <1>4, Zenon DEF IInv, BlocksOK, BlockOK, Before, After, PaidOnce, BlockIds
<1> QED
  BY <1>7, <1>8, <1>9, <1>10, Zenon DEF IInv

\* Sealing a block preserves the invariant.
LEMMA SealInv ==
  ASSUME IInv, NEW n \in Node, NEW fee \in Fees, Seal(n, fee)
  PROVE  /\ IInv'
         /\ P!Next
<1> DEFINE parent == building[n].parent
           root == building[n].root
           records == SettlementRecordsForRoot(n, root)
           account == Collect(StateOf(parent), fee)
           block == [parent |-> parent, fee |-> fee, root |-> root, records |-> records]
           result == IF root = NoPayload \/ ~SettlementMutation
                       THEN account ELSE Pay(account, records)
           new == Len(blocks) + 1
<1>1. /\ UNCHANGED <<settled, submitted, submitting, settlements, settlementOrder, executed,
                     processed>>
      /\ building[n] # NotBuilding
      /\ ~ApplyFails(root, records, account)
      /\ blocks' = Append(blocks, block)
      /\ building' = [building EXCEPT ![n] = NotBuilding]
  BY Zenon DEF Seal, consensus, store
<1>2. ledger' = Append(ledger, result)
  <2>1. ledger' = Append(ledger, ApplyCommittedSettlement(n, root, records, account, FALSE))
    BY Zenon DEF Seal
  <2>2. ApplyCommittedSettlement(n, root, records, account, FALSE) = result
    BY Zenon DEF ApplyCommittedSettlement
  <2> QED
    BY <2>1, <2>2, Zenon
<1>3. TypeOK /\ SendOK /\ SettledOK /\ KeysOK /\ MarkedOK /\ BuildOK /\ BlocksOK /\ PaidOnce
  BY Zenon DEF IInv
<1>4. /\ parent \in processed[n] /\ parent \in BlockIds
      /\ root # NoPayload => root.epoch \notin Paid(parent)
  BY <1>1, <1>3, Zenon DEF BuildOK, TypeOK
<1>5. root \in Payload \cup {NoPayload} /\ records \in Payload \cup {NoPayload}
  BY <1>3, Zenon DEF TypeOK, SettlementRecordsForRoot
<1>6. StateOf(parent) \in Account /\ Len(blocks) \in Nat /\ parent \in Nat
  BY <1>3, <1>4, BlockIdsType, Zenon
<1>7. /\ account \in Account
      /\ account.payouts = StateOf(parent).payouts
      /\ account = P!Collect(StateOf(parent), fee)
  BY <1>6, CollectType, Zenon
<1>8. P!PaidEpochs(account) = Paid(parent)
  BY <1>7, Zenon DEF P!PaidEpochs, Paid
<1>9. PaidOnceIn(account)
  BY <1>3, <1>4, <1>7, Zenon DEF PaidOnce, PaidOnceIn
<1> HIDE DEF account, records
<1>10. ~(root = NoPayload \/ ~SettlementMutation) =>
          /\ records = root /\ records \in Payload
          /\ records.total <= account.escrow
          /\ records.epoch \notin P!PaidEpochs(account)
  <2> SUFFICES ASSUME root # NoPayload, SettlementMutation
               PROVE  /\ records = root /\ records \in Payload
                      /\ records.total <= account.escrow
                      /\ records.epoch \notin P!PaidEpochs(account)
    BY Zenon
  <2>1. records = root /\ ~(root.total > account.escrow)
    BY <1>1, PaysRoot, Zenon
  <2>2. records \in Payload /\ account.escrow \in Nat
    BY <1>5, <1>7, <2>1, Zenon DEF Account
  <2> QED
    BY <1>4, <1>8, <2>1, <2>2, PayloadTotal
<1>11. result \in Account /\ PaidOnceIn(result)
  BY <1>7, <1>9, <1>10, PayType, PayOnce, Zenon
<1>12. block \in Block
  BY <1>5, <1>6, Zenon DEF Block
<1> HIDE DEF result, block
<1>13. /\ Len(blocks') = new
       /\ blocks' \in Seq(Block) /\ ledger' \in Seq(Account)
       /\ Len(ledger') = Len(blocks') + 1
       /\ \A b \in BlockIds : StateOf(b)' = StateOf(b) /\ Paid(b)' = Paid(b)
       /\ StateOf(Len(blocks))' = result
       /\ \A b \in 1..Len(blocks) : blocks'[b] = blocks[b]
       /\ blocks'[new] = block
  BY <1>1, <1>2, <1>3, <1>11, <1>12, LedgerGrows, Zenon
<1>14. BlockIds' = BlockIds \cup {new}
  BY <1>6, <1>13 DEF BlockIds
<1>15. \A b : b = new => StateOf(b)' = result
  BY <1>13, Zenon DEF StateOf
<1>16. TypeOK'
  <2>1. NotBuilding \in [parent : BlockIds' \cup {-1}, root : Payload \cup {NoPayload}]
    BY Zenon DEF NotBuilding
  <2>2. building' \in [Node -> [parent : BlockIds' \cup {-1}, root : Payload \cup {NoPayload}]]
    BY <1>1, <1>3, <1>14, <2>1, Zenon DEF TypeOK
  <2>3. processed' \in [Node -> SUBSET BlockIds']
    BY <1>1, <1>3, <1>14, Zenon DEF TypeOK
  <2> QED
    BY <1>1, <1>3, <1>13, <2>2, <2>3, Zenon DEF TypeOK
<1>17. SendOK' /\ SettledOK' /\ KeysOK'
  BY <1>1, <1>3, Zenon DEF SendOK, SettledOK, KeysOK
<1>18. MarkedOK'
  BY <1>1, <1>3, <1>13 DEF MarkedOK, TypeOK
<1>19. BuildOK'
  BY <1>1, <1>3, <1>13, Zenon DEF BuildOK, TypeOK
<1>20. BlocksOK'
  <2> SUFFICES ASSUME NEW b \in 1..new PROVE BlockOK(b)'
    BY <1>13, Zenon DEF BlocksOK
  <2>1. CASE b \in 1..Len(blocks)
    <3>1. BlockOK(b) /\ b \in BlockIds /\ blocks[b].parent \in BlockIds
      BY <1>3, <1>6, <2>1 DEF BlocksOK, BlockOK, BlockIds
    <3>2. /\ blocks'[b] = blocks[b]
          /\ StateOf(b)' = StateOf(b)
          /\ StateOf(blocks[b].parent)' = StateOf(blocks[b].parent)
      BY <1>13, <2>1, <3>1, Zenon
    <3>3. Before(blocks[b])' = Before(blocks[b])
      BY <3>2, Zenon DEF Before, StateOf
    <3> QED
      BY <3>1, <3>2, <3>3, Zenon DEF BlockOK, After
  <2>2. CASE b = new
    <3>1. /\ block.parent = parent /\ block.fee = fee
          /\ block.root = root /\ block.records = records
      BY Zenon DEF block
    <3>2. blocks'[b] = block /\ ledger'[parent + 1] = StateOf(parent)
      BY <1>4, <1>13, <2>2, Zenon DEF StateOf
    <3>3. Before(blocks[b])' = account
      BY <3>1, <3>2, Zenon DEF Before, account, StateOf
    <3>4. StateOf(b)' = result
      BY <1>15, <2>2, Zenon
    <3>5. parent \in 0..(b - 1)
      BY <1>4, <1>6, <2>2 DEF BlockIds
    <3> QED
      BY <1>1, <3>1, <3>2, <3>3, <3>4, <3>5, Zenon DEF BlockOK, After, result
  <2> QED
    BY <1>6, <2>1, <2>2
<1>21. PaidOnce'
  BY <1>3, <1>11, <1>13, <1>14, <1>15 DEF PaidOnce, PaidOnceIn
<1>22. IInv'
  BY <1>16, <1>17, <1>18, <1>19, <1>20, <1>21, Zenon DEF IInv
<1>23. P!Next
  <2>1. parent + 1 \in DOMAIN ledger /\ account = P!Collect(ledger[parent + 1], fee)
    BY <1>3, <1>4, <1>7, BlockIdsType, Zenon DEF StateOf
  <2>2. Len(ledger') = Len(ledger) + 1
    BY <1>2, <1>3 DEF TypeOK
  <2>3. CASE root = NoPayload \/ ~SettlementMutation
    <3>1. ledger' = Append(ledger, P!Collect(ledger[parent + 1], fee))
      BY <1>2, <2>1, <2>3, Zenon DEF result
    <3> QED
      BY <2>1, <2>2, <3>1, Zenon DEF P!Next, P!Extend
  <2>4. CASE ~(root = NoPayload \/ ~SettlementMutation)
    <3>1. ledger' = Append(ledger, Pay(account, records))
      BY <1>2, <2>4, Zenon DEF result
    <3>2. Pay(account, records) = P!Pay(account, records)
      BY Zenon DEF Pay, P!Pay
    <3>3. /\ records \in Payload
          /\ records.total <= account.escrow
          /\ records.epoch \notin P!PaidEpochs(account)
      BY <1>10, <2>4, Zenon
    <3> QED
      BY <2>1, <2>2, <3>1, <3>2, <3>3, Zenon DEF P!Next, P!ExtendAndPay
  <2> QED
    BY <2>3, <2>4, Zenon
<1> QED
  BY <1>22, <1>23, Zenon

\* So does a block that cannot be sealed.
LEMMA SealFailsInv ==
  ASSUME IInv, NEW n \in Node, NEW fee \in Fees, SealFails(n, fee)
  PROVE  IInv'
<1>1. /\ UNCHANGED <<settled, submitted, submitting, settlements, settlementOrder, executed,
                     blocks, ledger, processed>>
      /\ building' = [building EXCEPT ![n] = NotBuilding]
  BY Zenon DEF SealFails, consensus, store, chain
<1>2. TypeOK /\ BuildOK
  BY Zenon DEF IInv
<1>3. \A b : StateOf(b)' = StateOf(b) /\ Paid(b)' = Paid(b)
  BY <1>1, Zenon DEF StateOf, Paid, P!PaidEpochs
<1>4. NotBuilding \in [parent : BlockIds \cup {-1}, root : Payload \cup {NoPayload}]
  BY Zenon DEF NotBuilding
<1>5. TypeOK'
  BY <1>1, <1>2, <1>4, Zenon DEF TypeOK, BlockIds
<1>6. BuildOK'
  BY <1>1, <1>2, <1>3, Zenon DEF BuildOK, TypeOK
<1>7. SendOK' /\ SettledOK' /\ KeysOK' /\ MarkedOK'
  BY <1>1, <1>3, Zenon DEF IInv, SendOK, SettledOK, KeysOK, MarkedOK
<1>8. BlocksOK' /\ PaidOnce'
  BY <1>1, <1>3, Zenon DEF IInv, BlocksOK, BlockOK, Before, After, PaidOnce, BlockIds
<1> QED
  BY <1>5, <1>6, <1>7, <1>8, Zenon DEF IInv

\* Executing a block marks what it pays.
LEMMA ProcessInv ==
  ASSUME IInv, NEW n \in Node, NEW b \in 1..Len(blocks), Process(n, b)
  PROVE  IInv'
<1> DEFINE block == blocks[b]
           marks == MarkExecuted(n, block.root, block.records)
<1>1. /\ UNCHANGED <<settled, submitted, submitting, settlements, settlementOrder, building,
                     blocks, ledger>>
      /\ block.parent \in processed[n]
      /\ executed' = [executed EXCEPT ![n] = @ \cup marks]
      /\ \/ processed' = [processed EXCEPT ![n] = @ \cup {b}]
         \/ processed' = [processed EXCEPT ![n] = @]
  BY Zenon DEF Process, Importable, consensus, chain
<1>2. TypeOK /\ MarkedOK /\ BuildOK /\ BlocksOK
  BY Zenon DEF IInv
<1>3. \A k : StateOf(k)' = StateOf(k) /\ Paid(k)' = Paid(k)
  BY <1>1, Zenon DEF StateOf, Paid, P!PaidEpochs
<1>4. b \in BlockIds /\ BlockOK(b)
  BY <1>2, BlockParts, Zenon DEF BlocksOK
<1>5. marks \subseteq Epoch
  <2>1. CommittedPayload(n, block.root, block.records) \in Payload \cup {NoPayload}
    BY <1>2, BlockParts, Zenon DEF CommittedPayload, SettlementRecordsForRoot
  <2> QED
    BY <2>1, PayloadTotal, Zenon DEF MarkExecuted
<1>6. Paid(b) \subseteq executed'[n]
  <2>1. Paid(block.parent) \subseteq executed[n]
    BY <1>1, <1>2, Zenon DEF MarkedOK
  <2>2. ~(block.root = NoPayload \/ ~SettlementMutation) => block.records.epoch \in marks
    <3> SUFFICES ASSUME block.root # NoPayload, SettlementMutation
                 PROVE  block.records.epoch \in marks
      BY Zenon
    <3>1. block.records = block.root
      BY <1>4, PaysRoot, Zenon DEF BlockOK
    <3> QED
      BY <3>1, Zenon DEF MarkExecuted, CommittedPayload
  <2>3. executed'[n] = executed[n] \cup marks
    BY <1>1, <1>2, Zenon DEF TypeOK
  <2> QED
    BY <1>2, <2>1, <2>2, <2>3, PaidAfter
<1> HIDE DEF marks
<1>7. TypeOK'
  <2>1. executed' \in [Node -> SUBSET Epoch]
    BY <1>1, <1>2, <1>5, Zenon DEF TypeOK
  <2>2. processed \in [Node -> SUBSET BlockIds] /\ {b} \subseteq BlockIds
    BY <1>2, <1>4, Zenon DEF TypeOK
  <2>3. processed' \in [Node -> SUBSET BlockIds]
    BY <1>1, <2>2, Zenon
  <2> QED
    BY <1>1, <1>2, <2>1, <2>3, Zenon DEF TypeOK, BlockIds
<1>8. MarkedOK'
  <2> SUFFICES ASSUME NEW m \in Node, NEW k \in processed'[m]
               PROVE  Paid(k) \subseteq executed'[m]
    BY <1>3, Zenon DEF MarkedOK
  <2>1. k \in processed[m] \/ (m = n /\ k = b)
    BY <1>1, <1>2 DEF TypeOK
  <2>2. executed[m] \subseteq executed'[m]
    BY <1>1, <1>2, Zenon DEF TypeOK
  <2> QED
    BY <1>2, <1>6, <2>1, <2>2, Zenon DEF MarkedOK
<1>9. \A m \in Node : processed[m] \subseteq processed'[m]
  BY <1>1, <1>2, Zenon DEF TypeOK
<1>10. BuildOK'
  BY <1>1, <1>2, <1>3, <1>9, Zenon DEF BuildOK
<1>11. SendOK' /\ SettledOK' /\ KeysOK'
  BY <1>1, Zenon DEF IInv, SendOK, SettledOK, KeysOK
<1>12. BlocksOK' /\ PaidOnce'
  BY <1>1, <1>3, Zenon DEF IInv, BlocksOK, BlockOK, Before, After, PaidOnce, BlockIds
<1> QED
  BY <1>7, <1>8, <1>10, <1>11, <1>12, Zenon DEF IInv

-------------------------------------------------------------------------------------
(* The theorems. *)

\* So does a step that changes nothing.
LEMMA StutterInv ==
  ASSUME IInv, UNCHANGED vars
  PROVE  IInv'
<1>1. UNCHANGED <<settled, submitted, submitting, settlements, settlementOrder, executed,
                  building, blocks, ledger, processed>>
  BY Zenon DEF vars, consensus, store, chain
<1>2. TypeOK' /\ SendOK' /\ SettledOK' /\ KeysOK'
  BY <1>1, Zenon DEF IInv, TypeOK, BlockIds, SendOK, SettledOK, KeysOK
<1> QED
  BY <1>1, <1>2, FrameInv, Zenon DEF IInv, chain

\* Every step keeps the invariant and is, on the ledger, a step of Payout or none.
LEMMA StepInv ==
  ASSUME IInv, [Next]_vars
  PROVE  IInv' /\ [P!Next]_ledger
<1>1. ASSUME NEW c \in Beacon, NEW finalized \in 0..MaxFinalized, Submit(c, finalized)
      PROVE  IInv' /\ [P!Next]_ledger
  BY <1>1, SubmitInv, Zenon DEF Submit, chain
<1>2. ASSUME NEW c \in Beacon, NEW payload \in submitting[c].payloads,
             NEW delivered \in BOOLEAN, NEW answered \in BOOLEAN,
             Rpc(c, payload, delivered, answered)
      PROVE  IInv' /\ [P!Next]_ledger
  BY <1>2, RpcInv, Zenon DEF Rpc, chain
<1>3. ASSUME NEW n \in Node, NEW parent \in BlockIds, Prepare(n, parent)
      PROVE  IInv' /\ [P!Next]_ledger
  BY <1>3, PrepareInv, Zenon DEF Prepare, chain
<1>4. ASSUME NEW n \in Node, NEW fee \in Fees, Seal(n, fee)
      PROVE  IInv' /\ [P!Next]_ledger
  BY <1>4, SealInv, Zenon
<1>5. ASSUME NEW n \in Node, NEW fee \in Fees, SealFails(n, fee)
      PROVE  IInv' /\ [P!Next]_ledger
  BY <1>5, SealFailsInv, Zenon DEF SealFails, chain
<1>6. ASSUME NEW n \in Node, NEW b \in 1..Len(blocks), Process(n, b)
      PROVE  IInv' /\ [P!Next]_ledger
  BY <1>6, ProcessInv, Zenon DEF Process, chain
<1>7. CASE UNCHANGED vars
  BY <1>7, StutterInv, Zenon DEF vars, chain
<1> QED
  BY <1>1, <1>2, <1>3, <1>4, <1>5, <1>6, <1>7, Zenon DEF Next

\* The inductive invariant holds in every reachable state.
LEMMA Invariance == Spec => []IInv
<1>1. IInv /\ [Next]_vars => IInv'
  BY StepInv, Zenon
<1> QED
  BY InitInv, <1>1, PTL DEF Spec

\* The state of every client and block keeps its type, and no queue grows past its
\* capacity.
THEOREM TypeCorrect == Spec => []TypeOK
<1>1. IInv => TypeOK
  BY Zenon DEF IInv
<1> QED
  BY Invariance, <1>1, PTL

\* On no chain is an evidence epoch paid twice, for any number of clients, epochs and
\* blocks, whatever requests and answers are lost and whoever builds the blocks.
THEOREM NoDoublePayout == Spec => []PaidOnce
<1>1. IInv => PaidOnce
  BY Zenon DEF IInv
<1> QED
  BY Invariance, <1>1, PTL

\* Every block that a client builds can be imported by every other client, whatever
\* that client has stored or executed: the executed marker only matters for a payload
\* the block does not carry, and then the block was never built.
THEOREM BlocksImport == Spec => []BuiltBlocksImport
<1>1. ASSUME IInv PROVE BuiltBlocksImport
  <2> SUFFICES ASSUME NEW n \in Node, NEW b \in 1..Len(blocks)
               PROVE  ~Import(n, b).fails /\ Import(n, b).state = StateOf(b)
    BY Zenon DEF BuiltBlocksImport
  <2>1. BlockOK(b)
    BY <1>1, Zenon DEF IInv, BlocksOK
  <2>2. ~ApplyFails(blocks[b].root, blocks[b].records, Before(blocks[b]))
    BY <2>1, Zenon DEF BlockOK
  <2>3. ApplyCommittedSettlement(n, blocks[b].root, blocks[b].records, Before(blocks[b]), TRUE)
          = After(blocks[b])
    BY <2>2, Zenon DEF After, ApplyFails, ApplyCommittedSettlement, Replayed
  <2> QED
    BY <2>1, <2>2, <2>3, Zenon DEF BlockOK, Import, Before
<1> QED
  BY Invariance, <1>1, PTL

\* The clients, their stores and their messages implement the ledger of Payout.
THEOREM ImplementsPayout == Spec => PaysOnce
<1>1. Init => P!Init
  BY Zenon DEF Init, P!Init, P!Genesis
<1>2. IInv /\ [Next]_vars => [P!Next]_ledger
  BY StepInv, Zenon
<1> QED
  BY Invariance, <1>1, <1>2, PTL DEF Spec, PaysOnce, P!Spec
-------------------------------------------------------------------------------------
(* Acknowledged settlements. *)

\* What AcknowledgedStaysPending says of a client and an epoch.
Kept(m, e) ==
  \/ e \in executed[m]
  \/ /\ settlements[m][e] # NoPayload
     /\ \E i \in DOMAIN settlementOrder[m] : settlementOrder[m][i] = e
  \/ Len(settlementOrder[m]) = Capacity

\* A stored payload is kept; so is the epoch that is being submitted, by the first k
\* clients, if all of them have answered.
StoredKept ==
  \A n \in Node, e \in Epoch : settlements[n][e] # NoPayload => Kept(n, e)

AskedKept(c, k) ==
  submitting[c].all =>
    \A p \in submitting[c].payloads :
      (\A other \in submitting[c].payloads : p.epoch <= other.epoch) =>
        \A i \in 1..k : Kept(rpc_urls[i], p.epoch)

Asked(c, k) ==
  submitting[c].urls = SubSeq(rpc_urls, k + 1, Len(rpc_urls)) /\ AskedKept(c, k)

AnswersOK ==
  \A c \in Beacon : submitting[c] # Idle => \E k \in 0..(Len(rpc_urls) - 1) : Asked(c, k)

AckInv == StoredKept /\ AnswersOK /\ AcknowledgedStaysPending

\* The first of the clients that are left to ask, and the others.
LEMMA NextUrl ==
  ASSUME NEW k \in 0..(Len(rpc_urls) - 1), NEW urls, urls = SubSeq(rpc_urls, k + 1, Len(rpc_urls))
  PROVE  /\ k + 1 \in 1..Len(rpc_urls)
         /\ Head(urls) = rpc_urls[k + 1]
         /\ Len(urls) = Len(rpc_urls) - k
         /\ Tail(urls) = SubSeq(rpc_urls, k + 2, Len(rpc_urls))
<1>1. rpc_urls \in Seq(Node) /\ Len(rpc_urls) \in Nat
  BY SettlementAssumption
<1>2. k + 1 \in 1..Len(rpc_urls) /\ urls \in Seq(Node) /\ Len(urls) = Len(rpc_urls) - k
  BY <1>1
<1>3. Head(urls) = rpc_urls[k + 1]
  BY <1>1, <1>2
<1>4. Tail(urls) = SubSeq(rpc_urls, k + 2, Len(rpc_urls))
  BY <1>1, <1>2
<1> QED
  BY <1>2, <1>3, <1>4, Zenon

\* A submission loses an epoch only from a queue that is full, and keeps its own.
LEMMA SubmissionKeeps ==
  ASSUME IInv, StoredKept, NEW m \in Node, NEW payload \in Payload,
         SubmitSettlement(m, payload), UNCHANGED executed
  PROVE  /\ \A n \in Node, e \in Epoch : Kept(n, e) => Kept(n, e)'
         /\ \A e \in Epoch : e = payload.epoch => Kept(m, e)'
         /\ StoredKept'
<1> DEFINE key == payload.epoch
           old == settlementOrder[m]
           order == IF settlements[m][key] = NoPayload THEN Append(old, key) ELSE old
           stored == [settlements[m] EXCEPT ![key] = payload]
           full == Len(order) > Capacity
           forgets == full /\ order[1] \notin executed[m]
           kept == IF full THEN Tail(order) ELSE order
           left == IF forgets THEN [stored EXCEPT ![order[1]] = NoPayload] ELSE stored
<1>1. TypeOK /\ key \in Epoch
  BY PayloadTotal, Zenon DEF IInv
<1>2. CASE key \in executed[m]
  <2>1. UNCHANGED <<settlements, settlementOrder>>
    BY <1>2, Zenon DEF SubmitSettlement
  <2> QED
    BY <1>2, <2>1, Zenon DEF Kept, StoredKept
<1>3. CASE key \notin executed[m]
  <2>1. /\ settlementOrder' = [settlementOrder EXCEPT ![m] = kept]
        /\ settlements' = [settlements EXCEPT ![m] = left]
    BY <1>3, Zenon DEF SubmitSettlement
  <2>2. old \in Seq(Epoch) /\ Len(old) <= Capacity /\ Len(old) \in Nat /\ Capacity \in Nat \ {0}
    BY <1>1, SettlementAssumption DEF TypeOK
  <2>3. settlements[m] \in [Epoch -> Payload \cup {NoPayload}]
    BY <1>1, Zenon DEF TypeOK
  <2>4. /\ settlementOrder'[m] = kept /\ settlements'[m] = left
        /\ \A n \in Node : n # m => /\ settlementOrder'[n] = settlementOrder[n]
                                    /\ settlements'[n] = settlements[n]
    BY <1>1, <2>1, Zenon DEF TypeOK
  <2>5. \A n \in Node, e \in Epoch : n # m => (Kept(n, e)' <=> Kept(n, e))
    BY <2>4, Zenon DEF Kept
  <2>6. CASE full
    <3>1. Len(order) = Capacity + 1 /\ order \in Seq(Epoch)
      BY <1>1, <2>2, <2>6
    <3> HIDE DEF order
    <3>2. Len(Tail(order)) = Capacity
      BY <2>2, <3>1
    <3>3. \A e \in Epoch : Kept(m, e)'
      BY <2>4, <2>6, <3>2, Zenon DEF Kept
    <3> QED
      BY <1>1, <2>4, <2>5, <3>3, Zenon DEF StoredKept
  <2>7. CASE ~full
    <3>1. kept = order /\ left = stored
      BY <2>7, Zenon
    <3>2. /\ stored[key] # NoPayload
          /\ \A e \in Epoch : e # key => stored[e] = settlements[m][e]
      BY <1>1, <2>3, NoPayloadIsNone, Zenon
    <3>3. Len(old) = Capacity => order = old
      BY <2>2, <2>7
    <3>4. /\ \A i \in DOMAIN old : i \in DOMAIN order /\ order[i] = old[i]
          /\ settlements[m][key] = NoPayload =>
               \E i \in DOMAIN order : order[i] = key
      <4>1. CASE settlements[m][key] # NoPayload
        BY <4>1, Zenon
      <4>2. CASE settlements[m][key] = NoPayload
        <5>1. order = Append(old, key)
          BY <4>2, Zenon
        <5>2. /\ Len(old) + 1 \in DOMAIN Append(old, key)
              /\ Append(old, key)[Len(old) + 1] = key
              /\ \A i \in DOMAIN old : i \in DOMAIN Append(old, key) /\ Append(old, key)[i] = old[i]
          BY <1>1, <2>2
        <5> QED
          BY <5>1, <5>2, Zenon
      <4> QED
        BY <4>1, <4>2, Zenon
    <3> HIDE DEF order, stored, kept, left
    <3>5. \A e \in Epoch : left[e] # NoPayload /\ (\E i \in DOMAIN kept : kept[i] = e)
                           => Kept(m, e)'
      BY <2>4, Zenon DEF Kept
    <3>6. \A e \in Epoch : Kept(m, e) => Kept(m, e)'
      <4> SUFFICES ASSUME NEW e \in Epoch, Kept(m, e) PROVE Kept(m, e)'
        BY Zenon
      <4>1. CASE e \in executed[m]
        BY <4>1, Zenon DEF Kept
      <4>2. CASE Len(old) = Capacity
        BY <2>4, <3>1, <3>3, <4>2, Zenon DEF Kept
      <4>3. CASE settlements[m][e] # NoPayload /\ \E i \in DOMAIN old : old[i] = e
        <5>1. left[e] # NoPayload
          BY <3>1, <3>2, <4>3, Zenon
        <5>2. \E i \in DOMAIN kept : kept[i] = e
          BY <3>1, <3>4, <4>3, Zenon
        <5> QED
          BY <3>5, <5>1, <5>2, Zenon
      <4> QED
        BY <4>1, <4>2, <4>3, Zenon DEF Kept
    <3>7. \A e \in Epoch : e = key => Kept(m, e)'
      <4>1. CASE settlements[m][key] = NoPayload
        <5>1. left[key] # NoPayload /\ \E i \in DOMAIN kept : kept[i] = key
          BY <3>1, <3>2, <3>4, <4>1, Zenon
        <5> QED
          BY <1>1, <3>5, <5>1, Zenon
      <4>2. CASE settlements[m][key] # NoPayload
        BY <1>1, <3>6, <4>2, Zenon DEF StoredKept
      <4> QED
        BY <4>1, <4>2, Zenon
    <3>8. StoredKept'
      BY <1>1, <2>4, <2>5, <3>1, <3>2, <3>6, <3>7 DEF StoredKept
    <3> QED
      BY <2>5, <3>6, <3>7, <3>8, Zenon
  <2> QED
    BY <2>6, <2>7, Zenon
<1> QED
  BY <1>2, <1>3, Zenon

\* A step after which every client has what it had keeps all answers.
LEMMA AnswersStay ==
  ASSUME IInv, AckInv, \A n \in Node, e \in Epoch : Kept(n, e) => Kept(n, e)',
         NEW c \in Beacon, UNCHANGED <<submitting[c], submitted[c]>>
  PROVE  /\ submitting[c]' # Idle => \E k \in 0..(Len(rpc_urls) - 1) : Asked(c, k)'
         /\ \A m \in {rpc_urls[i] : i \in DOMAIN rpc_urls} : \A e \in submitted'[c] : Kept(m, e)'
<1>1. TypeOK /\ rpc_urls \in Seq(Node)
  BY SettlementAssumption, Zenon DEF IInv
<1>2. \A i \in DOMAIN rpc_urls : rpc_urls[i] \in Node
  BY <1>1
<1>3. \A e \in submitted[c] : e \in Epoch
  BY <1>1, Zenon DEF TypeOK
<1>4. \A m \in {rpc_urls[i] : i \in DOMAIN rpc_urls} : \A e \in submitted'[c] : Kept(m, e)'
  BY <1>2, <1>3, Zenon DEF AckInv, AcknowledgedStaysPending, Kept
<1>5. ASSUME submitting[c] # Idle
      PROVE  \E k \in 0..(Len(rpc_urls) - 1) : Asked(c, k)'
  <2>1. PICK k \in 0..(Len(rpc_urls) - 1) : Asked(c, k)
    BY <1>5, Zenon DEF AckInv, AnswersOK
  <2>2. \A p \in submitting[c].payloads : p.epoch \in Epoch
    BY <1>1, PayloadTotal, Zenon DEF TypeOK
  <2>3. \A i \in 1..k : i \in DOMAIN rpc_urls
    BY <1>1
  <2>4. AskedKept(c, k)'
    BY <1>2, <2>1, <2>2, <2>3, Zenon DEF Asked, AskedKept
  <2>5. Asked(c, k)'
    BY <2>1, <2>4, Zenon DEF Asked
  <2> QED
    BY <2>5, Zenon
<1> QED
  BY <1>4, <1>5, Zenon

\* A step that leaves the queues alone and unmarks nothing keeps everything.
LEMMA QueuesStay ==
  ASSUME IInv, AckInv, UNCHANGED <<settlements, settlementOrder>>,
         \A n \in Node : executed[n] \subseteq executed'[n]
  PROVE  /\ \A n \in Node, e \in Epoch : Kept(n, e) => Kept(n, e)'
         /\ StoredKept'
<1>1. \A n \in Node, e \in Epoch : Kept(n, e) => Kept(n, e)'
  BY Zenon DEF Kept
<1> QED
  BY <1>1, Zenon DEF AckInv, StoredKept

\* Before the first client is asked there is nothing to keep.
LEMMA NobodyAsked ==
  ASSUME NEW c \in Beacon, submitting'[c].urls = rpc_urls
  PROVE  \E k \in 0..(Len(rpc_urls) - 1) : Asked(c, k)'
<1>1. rpc_urls \in Seq(Node) /\ Len(rpc_urls) \in Nat \ {0}
  BY SettlementAssumption
<1>2. rpc_urls = SubSeq(rpc_urls, 0 + 1, Len(rpc_urls)) /\ 0 \in 0..(Len(rpc_urls) - 1)
  BY <1>1
<1>3. Asked(c, 0)'
  BY <1>2 DEF Asked, AskedKept
<1> QED
  BY <1>2, <1>3, Zenon

\* The start of a submission keeps what was acknowledged.
LEMMA SubmitAck ==
  ASSUME IInv, AckInv, NEW c \in Beacon, NEW finalized \in 0..MaxFinalized,
         Submit(c, finalized)
  PROVE  AckInv'
<1>1. UNCHANGED <<submitted, settlements, settlementOrder, executed>>
  BY Zenon DEF Submit, store
<1>2. /\ \A n \in Node, e \in Epoch : Kept(n, e) => Kept(n, e)'
      /\ StoredKept'
  BY <1>1, QueuesStay, Zenon
<1>3. submitting'[c] = Idle \/ submitting'[c].urls = rpc_urls
  BY Zenon DEF Submit, IInv, TypeOK
<1>4. \A d \in Beacon : d # c => submitting'[d] = submitting[d]
  BY Zenon DEF Submit, IInv, TypeOK
<1>5. AnswersOK'
  <2> SUFFICES ASSUME NEW d \in Beacon, submitting'[d] # Idle
               PROVE  \E k \in 0..(Len(rpc_urls) - 1) : Asked(d, k)'
    BY Zenon DEF AnswersOK
  <2>1. CASE d = c
    BY <1>3, <2>1, NobodyAsked, Zenon
  <2>2. CASE d # c
    BY <1>1, <1>2, <1>4, <2>2, AnswersStay, Zenon
  <2> QED
    BY <2>1, <2>2, Zenon
<1>6. AcknowledgedStaysPending'
  <2>1. \A m \in {rpc_urls[i] : i \in DOMAIN rpc_urls} : m \in Node
    BY SettlementAssumption
  <2>2. \A d \in Beacon : submitted[d] \subseteq Epoch
    BY Zenon DEF IInv, TypeOK
  <2> QED
    BY <1>1, <1>2, <2>1, <2>2, Zenon DEF AckInv, AcknowledgedStaysPending, Kept
<1> QED
  BY <1>2, <1>5, <1>6, Zenon DEF AckInv

\* An RPC keeps it too: an answer means that the request was carried out.
LEMMA RpcAck ==
  ASSUME IInv, AckInv, NEW c \in Beacon, NEW payload \in submitting[c].payloads,
         NEW delivered \in BOOLEAN, NEW answered \in BOOLEAN,
         Rpc(c, payload, delivered, answered)
  PROVE  AckInv'
<1> DEFINE send == submitting[c]
           last == Len(send.urls) = 1
           rest == send.payloads \ {payload}
           next == IF ~last THEN [send EXCEPT !.urls = Tail(@), !.all = send.all /\ answered]
                   ELSE IF rest = {} THEN Idle
                   ELSE [payloads |-> rest, urls |-> rpc_urls, all |-> TRUE]
<1>1. /\ UNCHANGED executed
      /\ send # Idle
      /\ \A other \in send.payloads : payload.epoch <= other.epoch
      /\ answered => delivered
      /\ delivered => SubmitSettlement(Head(send.urls), payload)
      /\ ~delivered => UNCHANGED <<settlements, settlementOrder>>
      /\ submitting' = [submitting EXCEPT ![c] = next]
      /\ submitted' = [submitted EXCEPT ![c] =
           IF last /\ send.all /\ answered THEN @ \cup {payload.epoch} ELSE @]
  BY Zenon DEF Rpc, AllAnswered
<1>2. TypeOK /\ StoredKept /\ AnswersOK /\ AcknowledgedStaysPending
  BY Zenon DEF IInv, AckInv
<1>3. /\ send \in [payloads : SUBSET Payload, urls : Seq(Node), all : BOOLEAN]
      /\ payload \in Payload /\ payload.epoch \in Epoch
      /\ \A p \in send.payloads : p.epoch \in Epoch
  BY <1>2, PayloadTotal, Zenon DEF TypeOK
<1>4. PICK k \in 0..(Len(rpc_urls) - 1) : Asked(c, k)
  BY <1>1, <1>2, Zenon DEF AnswersOK
<1>5. /\ k + 1 \in 1..Len(rpc_urls) /\ Len(rpc_urls) \in Nat /\ rpc_urls \in Seq(Node)
      /\ Head(send.urls) = rpc_urls[k + 1]
      /\ Len(send.urls) = Len(rpc_urls) - k
      /\ Tail(send.urls) = SubSeq(rpc_urls, k + 2, Len(rpc_urls))
  BY <1>4, NextUrl, SettlementAssumption DEF Asked
<1>6. \A i \in 1..Len(rpc_urls) : i \in DOMAIN rpc_urls /\ rpc_urls[i] \in Node
  BY <1>5
<1>7. /\ \A n \in Node, e \in Epoch : Kept(n, e) => Kept(n, e)'
      /\ StoredKept'
      /\ answered => \A e \in Epoch : e = payload.epoch => Kept(rpc_urls[k + 1], e)'
  <2>1. CASE delivered
    BY <1>1, <1>2, <1>3, <1>5, <1>6, <2>1, SubmissionKeeps, Zenon
  <2>2. CASE ~delivered
    <3>1. \A n \in Node : executed[n] \subseteq executed'[n]
      BY <1>1, Zenon
    <3> QED
      BY <1>1, <2>2, <3>1, QueuesStay, Zenon
  <2> QED
    BY <2>1, <2>2, Zenon
<1>8. send.all /\ answered =>
        \A i \in 1..(k + 1), e \in Epoch : e = payload.epoch => Kept(rpc_urls[i], e)'
  <2> SUFFICES ASSUME send.all, answered, NEW i \in 1..(k + 1), NEW e \in Epoch,
                      e = payload.epoch
               PROVE  Kept(rpc_urls[i], e)'
    BY Zenon
  <2>1. CASE i = k + 1
    BY <1>7, <2>1, Zenon
  <2>2. CASE i # k + 1
    <3>1. i \in 1..k /\ i \in 1..Len(rpc_urls)
      BY <1>5, <2>2
    <3>2. Kept(rpc_urls[i], e)
      BY <1>1, <1>4, <3>1, Zenon DEF Asked, AskedKept
    <3> QED
      BY <1>6, <1>7, <3>1, <3>2, Zenon
  <2> QED
    BY <2>1, <2>2, Zenon
<1>9. \A d \in Beacon : d # c => submitting'[d] = submitting[d] /\ submitted'[d] = submitted[d]
  BY <1>1, <1>2, Zenon DEF TypeOK
<1>10. submitting'[c] = next
  BY <1>1, <1>2, Zenon DEF TypeOK
<1>11. AnswersOK'
  <2> SUFFICES ASSUME NEW d \in Beacon, submitting'[d] # Idle
               PROVE  \E j \in 0..(Len(rpc_urls) - 1) : Asked(d, j)'
    BY Zenon DEF AnswersOK
  <2>1. CASE d # c
    BY <1>7, <1>9, <2>1, AnswersStay, Zenon
  <2>2. CASE d = c /\ last
    <3>1. submitting'[c].urls = rpc_urls
      BY <1>10, <2>2
    <3> QED
      BY <2>2, <3>1, NobodyAsked, Zenon
  <2>3. CASE d = c /\ ~last
    <3>1. /\ submitting'[c].payloads = send.payloads
          /\ submitting'[c].urls = Tail(send.urls)
          /\ submitting'[c].all = (send.all /\ answered)
      BY <1>3, <1>10, <2>3, Zenon
    <3>2. k + 1 \in 0..(Len(rpc_urls) - 1)
      BY <1>5, <2>3
    <3>3. AskedKept(c, k + 1)'
      <4> SUFFICES ASSUME send.all, answered, NEW p \in send.payloads,
                          \A other \in send.payloads : p.epoch <= other.epoch,
                          NEW i \in 1..(k + 1)
                   PROVE  Kept(rpc_urls[i], p.epoch)'
        BY <3>1, Zenon DEF AskedKept
      <4>1. p.epoch = payload.epoch
        <5>1. p.epoch \in Nat /\ payload.epoch \in Nat
          BY <1>3, SettlementAssumption, Zenon
        <5>2. payload.epoch <= p.epoch /\ p.epoch <= payload.epoch
          BY <1>1, Zenon
        <5> QED
          BY <5>1, <5>2
      <4> QED
        BY <1>3, <1>8, <4>1, Zenon
    <3>4. Asked(c, k + 1)'
      BY <1>5, <3>1, <3>3 DEF Asked
    <3> QED
      BY <2>3, <3>2, <3>4, Zenon
  <2> QED
    BY <2>1, <2>2, <2>3, Zenon
<1>12. AcknowledgedStaysPending'
  <2> SUFFICES ASSUME NEW d \in Beacon, NEW i \in DOMAIN rpc_urls, NEW e \in submitted'[d]
               PROVE  Kept(rpc_urls[i], e)'
    BY Zenon DEF AcknowledgedStaysPending, Kept
  <2>1. i \in 1..Len(rpc_urls) /\ rpc_urls[i] \in Node
    BY <1>5
  <2>2. CASE e \in submitted[d]
    <3>1. e \in Epoch
      BY <1>2, <2>2, Zenon DEF TypeOK
    <3>2. Kept(rpc_urls[i], e)
      BY <1>2, <2>2, Zenon DEF AcknowledgedStaysPending, Kept
    <3> QED
      BY <1>7, <2>1, <3>1, <3>2, Zenon
  <2>3. CASE e \notin submitted[d]
    <3>1. last /\ send.all /\ answered /\ e = payload.epoch
      BY <1>1, <1>2, <1>9, <2>3, Zenon DEF TypeOK
    <3>2. i \in 1..(k + 1)
      BY <1>5, <2>1, <3>1, SMTT(30)
    <3> QED
      BY <1>3, <1>8, <3>1, <3>2, Zenon
  <2> QED
    BY <2>2, <2>3, Zenon
<1> QED
  BY <1>7, <1>11, <1>12, Zenon DEF AckInv

\* The steps of the execution clients keep it: they take nothing from the queues.
LEMMA ClientAck ==
  ASSUME IInv, AckInv, UNCHANGED <<submitted, submitting, settlements, settlementOrder>>,
         \A n \in Node : executed[n] \subseteq executed'[n]
  PROVE  AckInv'
<1>1. /\ \A n \in Node, e \in Epoch : Kept(n, e) => Kept(n, e)'
      /\ StoredKept'
  BY QueuesStay, Zenon
<1>2. ASSUME NEW c \in Beacon
      PROVE  /\ submitting[c]' # Idle => \E k \in 0..(Len(rpc_urls) - 1) : Asked(c, k)'
             /\ \A m \in {rpc_urls[i] : i \in DOMAIN rpc_urls} : \A e \in submitted'[c] : Kept(m, e)'
  BY <1>1, AnswersStay, Zenon
<1>3. AnswersOK'
  BY <1>2, Zenon DEF AnswersOK
<1>4. AcknowledgedStaysPending'
  BY <1>2, Zenon DEF AcknowledgedStaysPending, Kept
<1> QED
  BY <1>1, <1>3, <1>4, Zenon DEF AckInv

\* An epoch that every execution client has answered for is paid, queued, or was dropped
\* from a full queue, for any number of clients, lost requests, lost answers and retries.
THEOREM AcknowledgedEpochsKept == Spec => []AcknowledgedStaysPending
<1>1. Init => AckInv
  BY DEF Init, AckInv, StoredKept, AnswersOK, AcknowledgedStaysPending
<1>2. ASSUME IInv, AckInv, [Next]_vars  PROVE AckInv'
  <2>1. CASE \E c \in Beacon, finalized \in 0..MaxFinalized : Submit(c, finalized)
    BY <1>2, <2>1, SubmitAck, Zenon
  <2>2. CASE \E c \in Beacon : \E payload \in submitting[c].payloads, delivered, answered \in BOOLEAN :
               Rpc(c, payload, delivered, answered)
    BY <1>2, <2>2, RpcAck, Zenon
  <2>3. CASE \/ \E n \in Node, parent \in BlockIds : Prepare(n, parent)
             \/ \E n \in Node, fee \in Fees : Seal(n, fee) \/ SealFails(n, fee)
             \/ UNCHANGED vars
    <3>1. UNCHANGED <<submitted, submitting, settlements, settlementOrder, executed>>
      BY <2>3, Zenon DEF Prepare, Seal, SealFails, vars, consensus, store
    <3> QED
      BY <1>2, <3>1, ClientAck, Zenon
  <2>4. CASE \E n \in Node : \E b \in 1..Len(blocks) : Process(n, b)
    <3>1. PICK n \in Node : \E b \in 1..Len(blocks) : Process(n, b)
      BY <2>4, Zenon
    <3>2. PICK b \in 1..Len(blocks) : Process(n, b)
      BY <3>1, Zenon
    <3>3. /\ UNCHANGED <<submitted, submitting, settlements, settlementOrder>>
          /\ \A m \in Node : executed[m] \subseteq executed'[m]
      BY <1>2, <3>2, Zenon DEF Process, consensus, IInv, TypeOK
    <3> QED
      BY <1>2, <3>3, ClientAck, Zenon
  <2> QED
    BY <1>2, <2>1, <2>2, <2>3, <2>4, Zenon DEF Next
<1>3. AckInv => AcknowledgedStaysPending
  BY Zenon DEF AckInv
<1> QED
  BY Invariance, <1>1, <1>2, <1>3, PTL DEF Spec
====================================================================================
