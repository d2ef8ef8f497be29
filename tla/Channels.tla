--------------------------------- MODULE Channels ---------------------------------
(* Who waits for whom: the timer task and the receiver task of the world state    *)
(* (WorldState::run, src/network/world_state.rs) share one lock, and the tasks of  *)
(* the nodes (Node::run, src/network/node.rs) and the world state send each other  *)
(* messages over bounded channels.  The timer awaits room in the nodes' channels   *)
(* while it holds the lock; a node awaits room in the world state's channel; the   *)
(* receiver takes a message and then awaits the lock.                              *)
EXTENDS Integers, Sequences, FiniteSets

CONSTANTS
  Node,
  Validator,         \* the nodes asked for a RANDAO seed each slot
  node_capacity,     \* of a node's channel
  world_capacity,    \* of the world state's channel
  MaxLoad,           \* bound: transactions asked for per slot
  MaxBacklog         \* bound: messages unhandled when a slot begins

ChannelsAssumption ==
  /\ Validator \subseteq Node
  /\ node_capacity \in Nat \ {0} /\ world_capacity \in Nat \ {0}
  /\ MaxLoad \in Nat

VARIABLES
  timer,        \* "asleep", or what next_slot is sending
  unsent,       \* the nodes it still has to send that to
  receiver,     \* "idle", or "locking" with a message in its hands
  inbox,        \* the channel of each node
  node,         \* "idle", or "sending" to the world state
  world_inbox,  \* the number of messages in the world state's channel
  load          \* transactions asked for in this slot

vars == <<timer, unsent, receiver, inbox, node, world_inbox, load>>

UpdateSlot == "UpdateSlot"
SendRandaoSeed == "SendRandaoSeed"
UpdateNodeBalance == "UpdateNodeBalance"
GenerateTransactionPaths == "GenerateTransactionPaths"

Init ==
  /\ timer = "asleep" /\ unsent = {} /\ receiver = "idle"
  /\ inbox = [n \in Node |-> <<>>]
  /\ node = [n \in Node |-> "idle"]
  /\ world_inbox = 0 /\ load = 0

\* The messages nobody has handled yet.
Backlog ==
  /\ world_inbox + Cardinality({n \in Node : node[n] = "sending"}) <= MaxBacklog
  /\ \A n \in Node : Len(inbox[n]) <= MaxBacklog

\* The timer takes the lock and enters next_slot.
NextSlot ==
  /\ timer = "asleep" /\ Backlog
  /\ timer' = UpdateSlot /\ unsent' = Node
  /\ load' = 0
  /\ UNCHANGED <<receiver, inbox, node, world_inbox>>

\* Mutant: the room in the channel is not looked at.
SendUnbounded(n) ==
  /\ timer # "asleep" /\ n \in unsent
  /\ inbox' = [inbox EXCEPT ![n] = Append(@, timer)]
  /\ unsent' = unsent \ {n}
  /\ UNCHANGED <<timer, receiver, node, world_inbox, load>>

\* Mutant: a full channel is not waited for; all nodes are sent the message again.
SendAgainToAll(n) ==
  /\ timer # "asleep" /\ n \in unsent
  /\ \/ /\ Len(inbox[n]) < node_capacity
        /\ inbox' = [inbox EXCEPT ![n] = Append(@, timer)]
        /\ unsent' = unsent \ {n}
     \/ /\ Len(inbox[n]) = node_capacity
        /\ unsent' = Node
        /\ UNCHANGED inbox
  /\ UNCHANGED <<timer, receiver, node, world_inbox, load>>

\* next_slot waits until the channel of a node takes the message.
Send(n) ==
  /\ timer # "asleep" /\ n \in unsent
  /\ Len(inbox[n]) < node_capacity
  /\ inbox' = [inbox EXCEPT ![n] = Append(@, timer)]
  /\ unsent' = unsent \ {n}
  /\ UNCHANGED <<timer, receiver, node, world_inbox, load>>

\* UpdateSlot to all nodes comes before SendRandaoSeed to the validators, and both
\* before UpdateNodeBalance to the nodes the block rewards; then next_slot releases
\* the lock.
Proceed ==
  /\ timer # "asleep" /\ unsent = {}
  /\ \/ /\ timer = UpdateSlot
        /\ timer' = SendRandaoSeed /\ unsent' = Validator
     \/ /\ timer = SendRandaoSeed
        /\ timer' = UpdateNodeBalance /\ unsent' \in SUBSET Node
     \/ /\ timer = UpdateNodeBalance
        /\ timer' = "asleep" /\ unsent' = {}
  /\ UNCHANGED <<receiver, inbox, node, world_inbox, load>>

\* The receiver takes a message from the channel, and only then asks for the lock.
Receive ==
  /\ receiver = "idle" /\ world_inbox > 0
  /\ world_inbox' = world_inbox - 1
  /\ receiver' = "locking"
  /\ UNCHANGED <<timer, unsent, inbox, node, load>>

\* It handles the message with the lock, which no node's channel delays.
HandleReceived ==
  /\ receiver = "locking" /\ timer = "asleep"
  /\ receiver' = "idle"
  /\ UNCHANGED <<timer, unsent, inbox, node, world_inbox, load>>

\* The transaction generator asks a node for a transaction if there is room.
EmitTransaction(n) ==
  /\ load < MaxLoad /\ Len(inbox[n]) < node_capacity
  /\ inbox' = [inbox EXCEPT ![n] = Append(@, GenerateTransactionPaths)]
  /\ load' = load + 1
  /\ UNCHANGED <<timer, unsent, receiver, node, world_inbox>>

\* A node takes a message.  A seed, and the balance after paying for a
\* transaction, go to the world state; a node that cannot pay goes on.
Take(n) ==
  /\ node[n] = "idle" /\ inbox[n] # <<>>
  /\ inbox' = [inbox EXCEPT ![n] = Tail(@)]
  /\ \/ /\ Head(inbox[n]) \in {SendRandaoSeed, GenerateTransactionPaths}
        /\ node' = [node EXCEPT ![n] = "sending"]
     \/ /\ Head(inbox[n]) # SendRandaoSeed
        /\ UNCHANGED node
  /\ UNCHANGED <<timer, unsent, receiver, world_inbox, load>>

\* The channel of the world state takes the node's message.
Answer(n) ==
  /\ node[n] = "sending" /\ world_inbox < world_capacity
  /\ world_inbox' = world_inbox + 1
  /\ node' = [node EXCEPT ![n] = "idle"]
  /\ UNCHANGED <<timer, unsent, receiver, inbox, load>>

Next ==
  \/ NextSlot \/ Proceed \/ Receive \/ HandleReceived
  \/ \E n \in Node : Send(n) \/ EmitTransaction(n) \/ Take(n) \/ Answer(n)

Spec == Init /\ [][Next]_vars

\* The runtime polls every task that can go on.
Fairness ==
  /\ WF_vars(Proceed) /\ WF_vars(Receive) /\ WF_vars(HandleReceived)
  /\ \A n \in Node : WF_vars(Send(n)) /\ WF_vars(Take(n)) /\ WF_vars(Answer(n))

FairSpec == Spec /\ Fairness

---------------------------------------------------------------------------------
TypeOK ==
  /\ timer \in {"asleep", UpdateSlot, SendRandaoSeed, UpdateNodeBalance}
  /\ unsent \subseteq Node
  /\ receiver \in {"idle", "locking"}
  /\ inbox \in [Node -> Seq({UpdateSlot, SendRandaoSeed, UpdateNodeBalance,
                             GenerateTransactionPaths})]
  /\ \A n \in Node : Len(inbox[n]) <= node_capacity
  /\ node \in [Node -> {"idle", "sending"}]
  /\ world_inbox \in 0..world_capacity
  /\ load \in 0..MaxLoad

\* Control messages arrive reliably: next_slot gets all of them sent and releases
\* the lock.  It holds while what the nodes send during one slot fits into the
\* world state's channel.  When it does not, a node waits for the receiver, the
\* receiver for the lock, and the timer for room in the node's channel.
SlotAnnounced == timer # "asleep" ~> timer = "asleep"
=================================================================================
