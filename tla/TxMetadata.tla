--------------------------------- MODULE TxMetadata ---------------------------------
(* The path metadata of one transaction in the stores of several execution clients:  *)
(* eth/topostake/metadata.go between the RPC that submits the transaction, the loop   *)
(* that broadcasts what enters the pool, the announcements to peers and the replies   *)
(* to their requests.  A store handles each hash by itself, so one transaction is     *)
(* enough.  Whoever has the transaction without metadata signs it as its origin; a    *)
(* sender signs an edge to the receiver, and the receiver countersigns and keeps the  *)
(* first path that reaches it.                                                        *)
(* All clients run this code, so signatures verify; a connection may delay or reorder *)
(* messages or never deliver them.  The RPC topostake_injectPathEvidence is left out: *)
(* it replaces metadata to prepare experiments.                                       *)
EXTENDS Naturals, Sequences, FiniteSets

CONSTANTS
  Node,
  identified,     \* pairs: the first can tell which relay its peer, the second, is
  sender_hops,    \* the longest path whose metadata fit into maxBytes when sent
  receiver_hops,  \* and when countersigned
  Epoch,          \* the epochs of the head blocks
  Links,          \* the connections that may be made, as sets of two nodes
  Entry,          \* bound: the nodes that the transaction may be submitted to
  Moving          \* bound: the nodes whose head changes its epoch

TxMetadataAssumption == 0 \in Epoch /\ sender_hops \in Nat /\ receiver_hops \in Nat

VARIABLES
  epoch,       \* RelayEpoch of each store
  pool,        \* the nodes whose pool has the transaction
  submitted,   \* the nodes it was submitted to over RPC
  ensuring,    \* calls of EnsureLocalHash at each node: the caller and how far it is
  metadata,    \* of the transaction, in each store
  connected,   \* connections, as sets of two nodes
  known,       \* the peers that know the transaction, as far as each node can tell
  queued,      \* announcements to be sent, as pairs
  messages     \* sent, not yet received

vars == <<epoch, pool, submitted, ensuring, metadata, connected, known, queued, messages>>

NoMetadata == [epoch |-> 0, path |-> <<>>, pending |-> FALSE]
Metadata == [epoch : Epoch, path : Seq(Node), pending : BOOLEAN]
Message == [type : {"announce", "transactions"}, from : Node, to : Node, meta : Metadata]

\* A call of EnsureLocalHash has yet to look at the store, or has signed for an epoch.
Call == [caller : {"rpc", "broadcast"}, signed : BOOLEAN, epoch : Epoch]
Called(caller) == [caller |-> caller, signed |-> FALSE, epoch |-> 0]

Init ==
  /\ epoch = [n \in Node |-> 0]
  /\ pool = {} /\ submitted = {}
  /\ ensuring = [n \in Node |-> {}]
  /\ metadata = [n \in Node |-> NoMetadata]
  /\ connected = {}
  /\ known = [n \in Node |-> {}]
  /\ queued = {} /\ messages = {}

HasMetadata(n) == metadata[n].path # <<>>
Peers(n) == {m \in Node : {n, m} \in connected}

\* UpdateRelayEpochFromBlockTime: the head moves on, or back with a reorganisation.
UpdateRelayEpoch(n, e) ==
  /\ n \in Moving
  /\ epoch' = [epoch EXCEPT ![n] = e]
  /\ UNCHANGED <<pool, submitted, ensuring, metadata, connected, known, queued, messages>>

\* SubmitTransaction: the pool has the transaction, and tells the broadcast loop, before
\* EnsureLocalHash is called.
SubmitTransaction(n) ==
  /\ n \in Entry \ pool
  /\ pool' = pool \cup {n}
  /\ submitted' = submitted \cup {n}
  /\ ensuring' = [ensuring EXCEPT ![n] = @ \cup {Called("rpc"), Called("broadcast")}]
  /\ UNCHANGED <<epoch, metadata, connected, known, queued, messages>>

\* What a finished call leads to: BroadcastTransactions announces to the peers that do
\* not know the transaction.
Finish(n, call) ==
  /\ ensuring' = [ensuring EXCEPT ![n] = @ \ {call}]
  /\ IF call.caller = "broadcast"
       THEN /\ queued' = queued \cup {<<n, m>> : m \in Peers(n) \ known[n]}
            /\ known' = [known EXCEPT ![n] = @ \cup Peers(n)]
       ELSE UNCHANGED <<queued, known>>

\* EnsureLocalHash up to its signature: with metadata in the store there is nothing to do.
SignOrigin(n, call) ==
  /\ call \in ensuring[n] /\ ~call.signed
  /\ \/ /\ HasMetadata(n)
        /\ Finish(n, call)
     \/ /\ ~HasMetadata(n)
        /\ ensuring' = [ensuring EXCEPT ![n] = (@ \ {call}) \cup
                          {[call EXCEPT !.signed = TRUE, !.epoch = epoch[n]]}]
        /\ UNCHANGED <<known, queued>>
  /\ UNCHANGED <<epoch, pool, submitted, metadata, connected, messages>>

\* Mutant: the store is not looked at again after the signature.
StoreOriginAnyway(n, call) ==
  /\ call \in ensuring[n] /\ call.signed
  /\ metadata' = [metadata EXCEPT ![n] = [epoch |-> call.epoch, path |-> <<n>>, pending |-> FALSE]]
  /\ Finish(n, call)
  /\ UNCHANGED <<epoch, pool, submitted, connected, messages>>

\* EnsureLocalHash, under the lock: metadata that arrived in the meantime are kept.
StoreOrigin(n, call) ==
  /\ call \in ensuring[n] /\ call.signed
  /\ metadata' = IF HasMetadata(n) THEN metadata
                 ELSE [metadata EXCEPT ![n] =
                         [epoch |-> call.epoch, path |-> <<n>>, pending |-> FALSE]]
  /\ Finish(n, call)
  /\ UNCHANGED <<epoch, pool, submitted, connected, messages>>

\* A new connection: syncTransactions queues the hashes of the pool on both sides.
Connect(n, m) ==
  /\ {n, m} \in Links \ connected
  /\ connected' = connected \cup {{n, m}}
  /\ queued' = queued \cup {p \in {<<n, m>>, <<m, n>>} : p[1] \in pool}
  /\ known' = [k \in Node |-> IF k \in {n, m} \cap pool THEN known[k] \cup {n, m} ELSE known[k]]
  /\ UNCHANGED <<epoch, pool, submitted, ensuring, metadata, messages>>

Repeats(path) == \E i, j \in DOMAIN path : i # j /\ path[i] = path[j]

\* Mutant: the edge is signed for the current epoch.
OutgoingRebound(n, m) ==
  LET meta == metadata[n]
      path == meta.path
  IN  IF /\ HasMetadata(n) /\ <<n, m>> \in identified
         /\ ~meta.pending
         /\ \A i \in DOMAIN path : path[i] # m
         /\ path[Len(path)] = n
         /\ Len(path) < sender_hops
        THEN [epoch |-> epoch[n], path |-> Append(path, m), pending |-> TRUE]
        ELSE meta

\* withOutgoingEdge and its caller MetadataBatchForPeerAddress: if there can be no edge
\* to the peer, the metadata are sent without one.
OutgoingMetadata(n, m) ==
  LET meta == metadata[n]
      path == meta.path
  IN  IF /\ HasMetadata(n) /\ <<n, m>> \in identified
         /\ ~meta.pending
         /\ \A i \in DOMAIN path : path[i] # m
         /\ path[Len(path)] = n
         /\ Len(path) < sender_hops
        THEN [meta EXCEPT !.path = Append(path, m), !.pending = TRUE]
        ELSE meta

\* announceTransactions and sendPooledTransactionHashes: the metadata are those of the
\* moment of sending.
Announce(n, m) ==
  /\ <<n, m>> \in queued
  /\ queued' = queued \ {<<n, m>>}
  /\ messages' = messages \cup
       {[type |-> "announce", from |-> n, to |-> m, meta |-> OutgoingMetadata(n, m)]}
  /\ UNCHANGED <<epoch, pool, submitted, ensuring, metadata, connected, known>>

\* completeInbound succeeds: there is a last edge, it leads here and lacks only the
\* signature of the receiver.
CompleteInbound(m, meta) ==
  /\ Len(meta.path) \in 2..receiver_hops
  /\ ~Repeats(meta.path)
  /\ meta.path[Len(meta.path)] = m
  /\ meta.pending

\* RecordInbound: the first path that completes is kept.
RecordInbound(m, meta) ==
  metadata' = IF CompleteInbound(m, meta) /\ ~HasMetadata(m)
              THEN [metadata EXCEPT ![m] = [meta EXCEPT !.pending = FALSE]] ELSE metadata

\* handleNewPooledTransactionHashes; the announced transaction may be fetched from now on.
ReceiveAnnouncement(m, msg) ==
  /\ msg \in messages /\ msg.type = "announce" /\ msg.to = m
  /\ messages' = messages \ {msg}
  /\ RecordInbound(m, msg.meta)
  /\ known' = [known EXCEPT ![m] = @ \cup {msg.from}]
  /\ UNCHANGED <<epoch, pool, submitted, ensuring, connected, queued>>

\* The fetcher of m asks a peer that announced the transaction, and the peer n answers
\* with ReplyPooledTransactionsRLP.
Reply(n, m) ==
  /\ m \notin pool /\ n \in known[m] /\ n \in pool
  /\ known' = [known EXCEPT ![n] = @ \cup {m}]
  /\ messages' = messages \cup
       {[type |-> "transactions", from |-> n, to |-> m, meta |-> OutgoingMetadata(n, m)]}
  /\ UNCHANGED <<epoch, pool, submitted, ensuring, metadata, connected, queued>>

\* handlePooledTransactions: the metadata are recorded, then the transaction enters the
\* pool, which tells the broadcast loop if it is new.
ReceiveTransactions(m, msg) ==
  /\ msg \in messages /\ msg.type = "transactions" /\ msg.to = m
  /\ messages' = messages \ {msg}
  /\ RecordInbound(m, msg.meta)
  /\ known' = [known EXCEPT ![m] = @ \cup {msg.from}]
  /\ pool' = pool \cup {m}
  /\ ensuring' = IF m \in pool THEN ensuring
                 ELSE [ensuring EXCEPT ![m] = @ \cup {Called("broadcast")}]
  /\ UNCHANGED <<epoch, submitted, connected, queued>>

Ensure(n) == \E call \in ensuring[n] : SignOrigin(n, call) \/ StoreOrigin(n, call)

Next ==
  \/ \E n \in Node :
       \/ \E e \in Epoch : UpdateRelayEpoch(n, e)
       \/ SubmitTransaction(n) \/ Ensure(n)
       \/ \E m \in Node : Connect(n, m) \/ Announce(n, m) \/ Reply(n, m)
       \/ \E msg \in messages : ReceiveAnnouncement(n, msg) \/ ReceiveTransactions(n, msg)

Spec == Init /\ [][Next]_vars

-------------------------------------------------------------------------------------
(* Properties. *)

TypeOK ==
  /\ epoch \in [Node -> Epoch]
  /\ pool \subseteq Node /\ submitted \subseteq pool
  /\ ensuring \in [Node -> SUBSET Call]
  /\ metadata \in [Node -> Metadata]
  /\ known \in [Node -> SUBSET Node]
  /\ queued \subseteq Node \X Node
  /\ messages \subseteq Message

\* The stored paths form a forest: what a relay stores is what the sender of its last
\* edge stores, and that edge.  So no relay is on two paths with different beginnings,
\* although it may countersign several offers and announcements cross with replies.
RelayForest ==
  \A n \in Node : Len(metadata[n].path) > 1 =>
    \E p \in Node : /\ HasMetadata(p) /\ metadata[p].epoch = metadata[n].epoch
                    /\ metadata[n].path = Append(metadata[p].path, n)

\* "Existing metadata remains bound to the epoch in which it was signed": no new head,
\* second offer or late signature of an origin replaces what a store has.
MetadataKept == [][\A n \in Node : HasMetadata(n) => metadata'[n] = metadata[n]]_vars

\* A path record "starts at the transaction originator": a client the transaction was
\* submitted to.
StartsAtOriginator ==
  \A n \in Node : HasMetadata(n) => metadata[n].path[1] \in submitted
=====================================================================================
