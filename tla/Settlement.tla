-------------------------------- MODULE Settlement --------------------------------
(* Fee settlement between the consensus clients (Lighthouse) and the execution  *)
(* clients (geth).  A consensus client submits the credits of a settled         *)
(* evidence epoch to every execution client by RPC and retries until all of     *)
(* them answer.  An execution client queues the payload, commits its root in    *)
(* the header of a block it builds, puts the records into the body, and pays    *)
(* them out of the fee escrow when a block that carries them is executed.       *)
(* The commitment is a hash of the payload, so a root is the payload here; the  *)
(* two maps from keys to payloads and from keys to roots, and the map from      *)
(* roots to payloads, always hold the same payloads and are one function.       *)
(* The model covers one life of the processes: the store of an execution client *)
(* is in memory only.                                                            *)
EXTENDS Integers, Sequences, FiniteSets

CONSTANTS
  Beacon,             \* the consensus clients
  Node,               \* the execution clients
  rpc_urls,           \* the execution clients, in the order they are submitted to
  Epoch,              \* evidence epochs that have credits
  Credits,            \* the total of an epoch by consensus client; zero without records
  Fees,               \* what the transactions of one block may pay
  RewardDepth,        \* reward_settlement_depth
  Capacity,           \* length of settlementOrder, 128 in the code
  SettlementMutation, \* SettlementMutationEnabled()
  MaxFinalized,       \* bound: finalized epochs
  MaxBlocks,          \* bound: blocks built
  MaxBuilding         \* bound: execution clients building at the same time

ASSUME SettlementAssumption ==
  /\ Epoch \subseteq Nat
  /\ rpc_urls \in Seq(Node) \ {<<>>}
  /\ Credits \in [Beacon -> [Epoch -> Nat]]
  /\ Fees \subseteq Nat
  /\ RewardDepth \in Nat
  /\ Capacity \in Nat \ {0}
  /\ SettlementMutation \in BOOLEAN
  /\ MaxFinalized \in Nat

VARIABLES
  settled,       \* consensus client: the epochs whose credit records are settled
  submitted,     \* consensus client: submitted_topostake_settlement_epochs
  submitting,    \* consensus client: the payloads to send, the oldest of them to the
                 \* clients left in urls, and whether the others answered for it
  settlements,   \* execution client: payload by key
  settlementOrder,
  executed,      \* execution client: executedSettlements
  building,      \* execution client: the header under construction
  blocks,        \* every block built, in the order of sealing; block 0 is the genesis
  ledger,        \* the escrow and the payouts of the state after each block
  processed      \* execution client: the blocks it has executed

consensus == <<settled, submitted, submitting>>
store == <<settlements, settlementOrder, executed>>
chain == <<blocks, ledger>>
vars == <<consensus, store, building, chain, processed>>

Payload == [epoch : Epoch, finalized : 0..MaxFinalized,
            total : {Credits[c][e] : c \in Beacon, e \in Epoch} \ {0}]

\* The zero hash; no payload of a consensus client has a total of zero.
NoPayload == [epoch |-> 0, finalized |-> 0, total |-> 0]

Idle == [payloads |-> {}, urls |-> <<>>, all |-> TRUE]
NotBuilding == [parent |-> -1, root |-> NoPayload]

Block == [parent : Nat, fee : Fees, root : Payload \cup {NoPayload},
          records : Payload \cup {NoPayload}]
Account == [escrow : Nat, payouts : Seq(Payload)]

BlockIds == 0..Len(blocks)
StateOf(b) == ledger[b + 1]

Init ==
  /\ settled = [c \in Beacon |-> {}]
  /\ submitted = [c \in Beacon |-> {}]
  /\ submitting = [c \in Beacon |-> Idle]
  /\ settlements = [n \in Node |-> [e \in Epoch |-> NoPayload]]
  /\ settlementOrder = [n \in Node |-> <<>>]
  /\ executed = [n \in Node |-> {}]
  /\ building = [n \in Node |-> NotBuilding]
  /\ blocks = <<>>
  /\ ledger = <<[escrow |-> 0, payouts |-> <<>>]>>
  /\ processed = [n \in Node |-> {0}]

-------------------------------------------------------------------------------------
(* The consensus client. *)

\* The epochs with credit records that a state with this finalized epoch settles.
SettledBy(c, finalized) == {e \in Epoch : Credits[c][e] # 0 /\ e + RewardDepth <= finalized}

\* The settled epochs that are not marked as submitted.
Due(c, finalized) ==
  {e \in settled[c] \cup SettledBy(c, finalized) : e <= finalized /\ e \notin submitted[c]}

\* update_topostake_finality_dependent_metrics for a block whose state has this
\* finalized epoch: the credits settle, and submit_topostake_finalized_settlements
\* starts.  A block of another branch may bring an older finalized epoch.
Submit(c, finalized) ==
  LET payloads == {[epoch |-> e, finalized |-> finalized, total |-> Credits[c][e]] :
                     e \in Due(c, finalized)}
  IN  /\ submitting[c] = Idle
      /\ settled' = [settled EXCEPT ![c] = @ \cup SettledBy(c, finalized)]
      /\ submitting' = [submitting EXCEPT ![c] =
           IF payloads = {} THEN Idle
           ELSE [payloads |-> payloads, urls |-> rpc_urls, all |-> TRUE]]
      /\ UNCHANGED <<submitted, store, building, chain, processed>>

\* SubmitSettlement on the execution client m, whose key is the epoch alone.
SubmitSettlement(m, payload) ==
  LET key == payload.epoch
      order == IF settlements[m][key] = NoPayload
                 THEN Append(settlementOrder[m], key)
                 ELSE settlementOrder[m]
      full == Len(order) > Capacity
      forgets == full /\ order[1] \notin executed[m]
      stored == [settlements[m] EXCEPT ![key] = payload]
  IN  IF key \in executed[m]
        THEN UNCHANGED <<settlements, settlementOrder>>
        ELSE /\ settlementOrder' = [settlementOrder EXCEPT ![m] =
                  IF full THEN Tail(order) ELSE order]
             /\ settlements' = [settlements EXCEPT ![m] =
                  IF forgets THEN [stored EXCEPT ![order[1]] = NoPayload] ELSE stored]

\* Mutant: the last answer decides.
LastAnswered(send, answered) == answered

\* An epoch counts as submitted when every execution client has answered for it.
AllAnswered(send, answered) == send.all /\ answered

\* One RPC of the loops over the epochs, in ascending order, and over the clients: the
\* request may be lost, and the answer may be lost or come after the two seconds the
\* client waits for it.  After the last RPC of an epoch the epoch is marked if every
\* execution client has answered.
Rpc(c, payload, delivered, answered) ==
  LET send == submitting[c]
      all == AllAnswered(send, answered)
      last == Len(send.urls) = 1
      rest == send.payloads \ {payload}
  IN  /\ send # Idle
      /\ payload \in send.payloads
      /\ \A other \in send.payloads : payload.epoch <= other.epoch
      /\ answered => delivered
      /\ IF delivered
           THEN SubmitSettlement(Head(send.urls), payload)
           ELSE UNCHANGED <<settlements, settlementOrder>>
      /\ submitting' = [submitting EXCEPT ![c] =
           IF ~last THEN [send EXCEPT !.urls = Tail(@), !.all = all]
           ELSE IF rest = {} THEN Idle
           ELSE [payloads |-> rest, urls |-> rpc_urls, all |-> TRUE]]
      /\ submitted' = [submitted EXCEPT ![c] =
           IF last /\ all THEN @ \cup {payload.epoch} ELSE @]
      /\ UNCHANGED <<settled, executed, building, chain, processed>>

-------------------------------------------------------------------------------------
(* The execution client. *)

\* Mutant: executed keys are not skipped.
OldestSettlementRoot(n) ==
  IF settlementOrder[n] = <<>> THEN NoPayload ELSE settlements[n][settlementOrder[n][1]]

\* The oldest queued key that is not executed and has a root, or the zero hash.
PendingSettlementRoot(n) ==
  LET order == settlementOrder[n]
      pending == {i \in DOMAIN order :
                    order[i] \notin executed[n] /\ settlements[n][order[i]] # NoPayload}
      first == CHOOSE i \in pending : \A j \in pending : i <= j
  IN  IF pending = {} THEN NoPayload ELSE settlements[n][order[first]]

SettlementRecordsForRoot(n, root) ==
  IF root # NoPayload /\ settlements[n][root.epoch] = root THEN root ELSE NoPayload

\* The payload that a block commits to: the one it carries or, without mutation, the
\* one this client has stored for the root.
CommittedPayload(n, root, records) ==
  IF records # NoPayload THEN records ELSE SettlementRecordsForRoot(n, root)

\* Mutant: the local executed marker also stops a payload that the block carries.
ReplayedAnyway(n, root, records) ==
  CommittedPayload(n, root, records).epoch \in executed[n]

\* The local executed marker stops only a payload that the block does not carry.
Replayed(n, root, records) ==
  /\ records = NoPayload
  /\ CommittedPayload(n, root, records).epoch \in executed[n]

\* applyCommittedSettlement returns an error and the block fails.
ApplyFails(root, records, account) ==
  /\ root # NoPayload
  /\ \/ records # NoPayload /\ records # root
     \/ SettlementMutation /\ (records = NoPayload \/ records.total > account.escrow)

Collect(account, fee) == [account EXCEPT !.escrow = @ + fee]

Pay(account, payload) ==
  [escrow |-> account.escrow - payload.total, payouts |-> Append(account.payouts, payload)]

\* The state after applyCommittedSettlement; without mutation no balance changes.
ApplyCommittedSettlement(n, root, records, account, markExecuted) ==
  IF root = NoPayload \/ ~SettlementMutation \/ (markExecuted /\ Replayed(n, root, records))
    THEN account
    ELSE Pay(account, records)

\* The keys applyCommittedSettlement marks when it executes a block.
MarkExecuted(n, root, records) ==
  IF root = NoPayload \/ CommittedPayload(n, root, records) = NoPayload
    THEN {}
    ELSE {CommittedPayload(n, root, records).epoch}

\* prepareWork: the parent and the settlement root are fixed here.
Prepare(n, parent) ==
  /\ building[n] = NotBuilding
  /\ Len(blocks) < MaxBlocks
  /\ Cardinality({k \in Node : building[k] # NotBuilding}) < MaxBuilding
  /\ parent \in processed[n]
  /\ building' = [building EXCEPT ![n] = [parent |-> parent, root |-> PendingSettlementRoot(n)]]
  /\ UNCHANGED <<consensus, store, chain, processed>>

\* The rest of generateWork: the transactions, then the records of the root, which the
\* store may have replaced in the meantime, then the payout.
Seal(n, fee) ==
  LET root == building[n].root
      records == SettlementRecordsForRoot(n, root)
      account == Collect(StateOf(building[n].parent), fee)
  IN  /\ building[n] # NotBuilding
      /\ Len(blocks) < MaxBlocks
      /\ ~ApplyFails(root, records, account)
      /\ blocks' = Append(blocks, [parent |-> building[n].parent, fee |-> fee,
                                   root |-> root, records |-> records])
      /\ ledger' = Append(ledger, ApplyCommittedSettlement(n, root, records, account, FALSE))
      /\ building' = [building EXCEPT ![n] = NotBuilding]
      /\ UNCHANGED <<consensus, store, processed>>

\* generateWork returns an error: the records are gone, or the escrow is too small.
SealFails(n, fee) ==
  LET root == building[n].root
  IN  /\ building[n] # NotBuilding
      /\ ApplyFails(root, SettlementRecordsForRoot(n, root),
                    Collect(StateOf(building[n].parent), fee))
      /\ building' = [building EXCEPT ![n] = NotBuilding]
      /\ UNCHANGED <<consensus, store, chain, processed>>

\* What executing block b on this client gives: the error, or the state.
Import(n, b) ==
  LET block == blocks[b]
      account == Collect(StateOf(block.parent), block.fee)
  IN  [fails |-> ApplyFails(block.root, block.records, account),
       state |-> ApplyCommittedSettlement(n, block.root, block.records, account, TRUE)]

Importable(n, b) ==
  /\ b \in 1..Len(blocks)
  /\ b \notin processed[n]
  /\ blocks[b].parent \in processed[n]

\* Process and ValidateState: a block of any branch marks its epoch; a block whose
\* state is not the one of its header is refused after the mark.
Process(n, b) ==
  /\ Importable(n, b)
  /\ ~Import(n, b).fails
  /\ executed' = [executed EXCEPT ![n] = @ \cup MarkExecuted(n, blocks[b].root, blocks[b].records)]
  /\ processed' = [processed EXCEPT ![n] = IF Import(n, b).state = StateOf(b) THEN @ \cup {b} ELSE @]
  /\ UNCHANGED <<consensus, settlements, settlementOrder, building, chain>>

Next ==
  \/ \E c \in Beacon :
       \/ \E finalized \in 0..MaxFinalized : Submit(c, finalized)
       \/ \E payload \in submitting[c].payloads, delivered, answered \in BOOLEAN :
            Rpc(c, payload, delivered, answered)
  \/ \E n \in Node :
       \/ \E parent \in BlockIds : Prepare(n, parent)
       \/ \E fee \in Fees : Seal(n, fee)
       \/ \E fee \in Fees : SealFails(n, fee)
       \/ \E b \in 1..Len(blocks) : Process(n, b)

Spec == Init /\ [][Next]_vars

-------------------------------------------------------------------------------------
(* Properties. *)

TypeOK ==
  /\ settled \in [Beacon -> SUBSET Epoch]
  /\ submitted \in [Beacon -> SUBSET Epoch]
  /\ submitting \in [Beacon -> [payloads : SUBSET Payload, urls : Seq(Node), all : BOOLEAN]]
  /\ settlements \in [Node -> [Epoch -> Payload \cup {NoPayload}]]
  /\ settlementOrder \in [Node -> Seq(Epoch)]
  /\ \A n \in Node : Len(settlementOrder[n]) <= Capacity
  /\ executed \in [Node -> SUBSET Epoch]
  /\ building \in [Node -> [parent : BlockIds \cup {-1}, root : Payload \cup {NoPayload}]]
  /\ blocks \in Seq(Block)
  /\ ledger \in Seq(Account)
  /\ Len(ledger) = Len(blocks) + 1
  /\ processed \in [Node -> SUBSET BlockIds]

\* No chain pays an evidence epoch twice, although every consensus client submits it
\* to every execution client, with its own finalized epoch, and submits it again when
\* an answer is lost; settlementPayloadKey and the executed marker prevent it.
PaidOnce ==
  \A b \in BlockIds : \A i, j \in DOMAIN StateOf(b).payouts :
    StateOf(b).payouts[i].epoch = StateOf(b).payouts[j].epoch => i = j

\* Every client can import every block that another one built: executing it gives the
\* state its header commits to, whatever this client has executed or stored itself.
BuiltBlocksImport ==
  \A n \in Node : \A b \in 1..Len(blocks) :
    Importable(n, b) => ~Import(n, b).fails /\ Import(n, b).state = StateOf(b)

\* Once every execution client has answered for an epoch, each of them has paid it on
\* some branch, still has it queued, or has dropped it from a queue that was full.
AcknowledgedStaysPending ==
  \A c \in Beacon, m \in {rpc_urls[i] : i \in DOMAIN rpc_urls} : \A e \in submitted[c] :
    \/ e \in executed[m]
    \/ /\ settlements[m][e] # NoPayload
       /\ \E i \in DOMAIN settlementOrder[m] : settlementOrder[m][i] = e
    \/ Len(settlementOrder[m]) = Capacity

\* The nodes and their stores implement one ledger that pays every epoch at most once
\* on a chain and never more than the escrow of that chain holds.
P == INSTANCE Payout
PaysOnce == P!Spec
====================================================================================
