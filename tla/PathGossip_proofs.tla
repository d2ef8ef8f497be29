---------------------------- MODULE PathGossip_proofs ----------------------------
(* Path evidence for any network, any Sybil identities, any loss and delay of      *)
(* messages: first in the simulator, then in the metadata stores of the clients.   *)
EXTENDS PathGossip, FiniteSetTheorems, WellFoundedInduction, TLAPS

\* A set of natural numbers that is not empty has a least element.
LEMMA LeastNatural ==
  ASSUME NEW T, T \subseteq Nat, T # {}
  PROVE  \E x \in T : \A y \in T : x <= y
<1> DEFINE R == OpToRel(<, Nat)
<1>1. IsWellFoundedOn(R, Nat)
  BY NatLessThanWellFounded, Zenon
<1>2. \A i, j \in Nat : i < j => <<i, j>> \in R
  BY Zenon DEF OpToRel
<1> HIDE DEF R
<1>3. PICK x \in T : \A y \in T : ~ (<<y, x>> \in R)
  BY <1>1, WFMin, Zenon
<1>4. ASSUME NEW y \in T PROVE x <= y
  <2>1. ~(y < x)
    BY <1>2, <1>3, Zenon
  <2> QED
    BY <2>1
<1> QED
  BY <1>4, Zenon

\* A set that has 0 and with every number its successor has all of them.
LEMMA SetInduction ==
  ASSUME NEW S, 0 \in S, \A n \in Nat : n \in S => n + 1 \in S
  PROVE  Nat \subseteq S
<1> DEFINE T == Nat \ S
<1> SUFFICES ASSUME T # {} PROVE FALSE
  BY Zenon
<1>1. PICK x \in T : \A y \in T : x <= y
  BY LeastNatural, Zenon
<1>2. x # 0 /\ x - 1 \in Nat /\ x - 1 \notin T /\ (x - 1) + 1 = x
  BY <1>1
<1> QED
  BY <1>1, <1>2, Zenon

\* The same up to a bound.
LEMMA BoundedInduction ==
  ASSUME NEW k \in Nat, NEW S, 0 \in S, \A n \in Nat : n < k /\ n \in S => n + 1 \in S
  PROVE  0..k \subseteq S
<1> DEFINE T == {n \in Nat : n <= k => n \in S}
<1>1. 0 \in T /\ \A n \in Nat : n \in T => n + 1 \in T
  OBVIOUS
<1>2. Nat \subseteq T
  <2> HIDE DEF T
  <2> QED
    BY <1>1, SetInduction, Zenon
<1> QED
  BY <1>2

--------------------------------------------------------------------------------
PathRecord == [tx : Tx, epoch : Nat, nodes : Seq(Identity), pending : BOOLEAN]

\* A hop leads to a neighbour of the operator or stays with the operator.
Hop(a, b) == Owner(a) = Owner(b) \/ b \in neighbors[Owner(a)]

\* What append_outgoing_hop makes of a new record, step by step.
Sound(p) ==
  /\ p \in PathRecord /\ p.nodes # <<>>
  /\ p.nodes[1] = p.tx.from
  /\ IsInjective(p.nodes)
  /\ \A i \in 1..(Len(p.nodes) - 1) : Hop(p.nodes[i], p.nodes[i + 1])

\* The receipt of the i-th node of a path, which commits to everything before it.
ReceiptAt(p, i) ==
  [tx |-> p.tx, epoch |-> p.epoch, receiver |-> p.nodes[i], statement |-> SubSeq(p.nodes, 1, i)]

SignedLen(p) == IF p.pending THEN Len(p.nodes) - 1 ELSE Len(p.nodes)

Receipted(p, cache) == \A i \in 2..SignedLen(p) : ReceiptAt(p, i) \in cache

\* One statement per transaction, epoch and receiver.
Consistent(cache) ==
  \A c, d \in cache :
    c.tx = d.tx /\ c.epoch = d.epoch /\ c.receiver = d.receiver => c.statement = d.statement

\* A message in flight carries a path to its receiver, who has yet to sign it.
Offer(m) ==
  /\ m.from \in Node /\ m.to \in neighbors[m.from]
  /\ Sound(m.paths) /\ m.paths.pending /\ current_tail(m.paths) = m.to

\* The record was made for a generated transaction in an epoch that has begun.
Dated(p) == p.tx \in generated /\ p.epoch <= current_epoch

ClockInv ==
  /\ current_epoch \in 0..MaxEpoch /\ epoch \in [Node -> 0..current_epoch]
  /\ generated \subseteq Tx /\ lost \in 0..MaxLost

MempoolInv ==
  /\ transaction_paths_cache \in [Node -> SUBSET PathRecord]
  /\ \A n \in Node :
       /\ IsFiniteSet(transaction_paths_cache[n])
       /\ \A p \in transaction_paths_cache[n] :
            /\ Sound(p) /\ ~p.pending /\ current_tail(p) = n /\ Dated(p)
            /\ \A q \in transaction_paths_cache[n] : q.tx = p.tx => q = p

FlightInv == \A m \in DOMAIN flying : Offer(m) /\ Dated(m.paths)

ReceiptInv ==
  /\ Consistent(RECEIPT_COMMITMENT_CACHE)
  /\ \A n \in Node : \A p \in transaction_paths_cache[n] : Receipted(p, RECEIPT_COMMITMENT_CACHE)
  /\ \A m \in DOMAIN flying : Receipted(m.paths, RECEIPT_COMMITMENT_CACHE)

\* What a block records of a path that its proposer's operator held.
Credited(b) ==
  /\ b.miner \in Identity
  /\ Cardinality(DOMAIN b.paths) \in 1..max_tx_per_block
  /\ \A tx \in DOMAIN b.paths : \E p \in PathRecord :
       /\ Sound(p) /\ ~p.pending /\ p.tx = tx /\ current_tail(p) = Owner(b.miner)
       /\ b.paths[tx] = from_transaction_paths(p)

BlockInv ==
  /\ \E S : blocks \in Seq(S)
  /\ \A i \in DOMAIN blocks : Credited(blocks[i])
  /\ height \in [Node -> 0..Len(blocks)]

Inv == ClockInv /\ MempoolInv /\ FlightInv /\ ReceiptInv /\ BlockInv

--------------------------------------------------------------------------------
(* Identities and their operators. *)

LEMMA OwnerOfNode == ASSUME NEW n \in Node PROVE Owner(n) = n
  BY Zenon DEF Owner

LEMMA OwnerOfSybil ==
  ASSUME PathAssumption, NEW n \in Node, NEW id \in Sybils(n)
  PROVE  Owner(id) = n /\ id \in Identity
<1>1. id \notin Node
  BY Zenon DEF PathAssumption
<1>2. \A m \in Node : id \in Sybils(m) => m = n
  BY Zenon DEF PathAssumption
<1>3. Owner(id) = CHOOSE m \in Node : id \in Sybils(m)
  BY <1>1, Zenon DEF Owner
<1>4. id \in Identity
  BY Zenon DEF Identity
<1> QED
  BY <1>2, <1>3, <1>4, Zenon

LEMMA OwnerIsNode ==
  ASSUME PathAssumption, NEW id \in Identity
  PROVE  Owner(id) \in Node /\ (id \notin Node => Owner(id) # id)
<1>1. CASE id \in Node
  BY <1>1, OwnerOfNode, Zenon
<1>2. CASE id \notin Node
  <2>1. PICK n \in Node : id \in Sybils(n)
    BY <1>2, Zenon DEF Identity
  <2> QED
    BY <1>2, <2>1, OwnerOfSybil, Zenon
<1> QED
  BY <1>1, <1>2, Zenon

--------------------------------------------------------------------------------
(* Operations on records. *)

LEMMA RecordFields ==
  ASSUME NEW p \in PathRecord, p.nodes # <<>>
  PROVE  /\ p.tx \in Tx /\ p.epoch \in Nat /\ p.nodes \in Seq(Identity) /\ p.pending \in BOOLEAN
         /\ Len(p.nodes) \in Nat \ {0} /\ current_tail(p) = p.nodes[Len(p.nodes)]
         /\ current_tail(p) \in Identity
<1>1. p.tx \in Tx /\ p.epoch \in Nat /\ p.nodes \in Seq(Identity) /\ p.pending \in BOOLEAN
  BY Zenon DEF PathRecord
<1>2. Len(p.nodes) \in Nat \ {0}
  BY <1>1
<1>3. p.nodes[Len(p.nodes)] \in Identity
  BY <1>1, <1>2
<1> QED
  BY <1>1, <1>2, <1>3, Zenon DEF current_tail

\* append_outgoing_hop: a sound path grows by one hop that lacks its receipt.
LEMMA AppendHop ==
  ASSUME PathAssumption, NEW p, Sound(p), NEW to \in Identity, NEW sender,
         can_append_outgoing_hop(p, to, sender), Hop(sender, to)
  PROVE  LET q == append_outgoing_hop(p, to) IN
         /\ Sound(q) /\ q.pending /\ q.tx = p.tx /\ q.epoch = p.epoch
         /\ q.nodes = Append(p.nodes, to) /\ current_tail(q) = to
         /\ \A cache : Receipted(p, cache) => Receipted(q, cache)
<1> DEFINE q == append_outgoing_hop(p, to)
           s == p.nodes
           n == Len(p.nodes)
           r == Append(p.nodes, to)
<1>1. /\ p \in PathRecord /\ p.tx \in Tx /\ p.epoch \in Nat /\ s \in Seq(Identity)
      /\ n \in Nat \ {0} /\ s[1] = p.tx.from /\ IsInjective(s)
      /\ \A i \in 1..(n - 1) : Hop(s[i], s[i + 1])
  BY RecordFields, Zenon DEF Sound
<1>2. ~p.pending /\ s[n] = sender /\ to \notin Range(s)
  BY Zenon DEF can_append_outgoing_hop, current_tail
<1>3. /\ r \in Seq(Identity) /\ Len(r) = n + 1 /\ r[n + 1] = to
      /\ \A i \in 1..n : r[i] = s[i]
  BY <1>1
<1>4. q = [[p EXCEPT !.nodes = r] EXCEPT !.pending = TRUE]
  BY Zenon DEF append_outgoing_hop
<1>5. q \in PathRecord /\ q.nodes = r /\ q.pending = TRUE /\ q.tx = p.tx /\ q.epoch = p.epoch
  <2> HIDE DEF q, r
  <2> QED
    BY <1>1, <1>3, <1>4, Zenon DEF PathRecord
<1>6. current_tail(q) = to
  BY <1>1, <1>3, <1>5, Zenon DEF current_tail
<1>7. IsInjective(r)
  <2> HIDE DEF r, s, n
  <2>1. DOMAIN r = 1..(n + 1) /\ DOMAIN s = 1..n
    BY <1>1, <1>3 DEF n, s
  <2>2. \A i \in 1..n : s[i] # to
    BY <1>2, <2>1, Zenon DEF Range
  <2>3. \A i, j \in 1..n : s[i] = s[j] => i = j
    BY <1>1, <2>1, Zenon DEF IsInjective
  <2>4. \A i \in 1..(n + 1) : i \in 1..n \/ i = n + 1
    BY <1>1
  <2>5. \A i, j \in 1..(n + 1) : r[i] = r[j] => i = j
    BY <1>3, <2>2, <2>3, <2>4, Zenon
  <2> QED
    BY <2>1, <2>5, Zenon DEF IsInjective
<1>8. \A i \in 1..(Len(r) - 1) : Hop(r[i], r[i + 1])
  <2> HIDE DEF r, s, n
  <2> SUFFICES ASSUME NEW i \in 1..n PROVE Hop(r[i], r[i + 1])
    BY <1>1, <1>3
  <2>1. CASE i = n
    BY <1>1, <1>2, <1>3, <2>1, Zenon
  <2>2. CASE i # n
    <3>1. i \in 1..(n - 1) /\ i \in 1..n /\ i + 1 \in 1..n
      BY <1>1, <2>2
    <3> QED
      BY <1>1, <1>3, <3>1, Zenon
  <2> QED
    BY <2>1, <2>2, Zenon
<1>9. Sound(q)
  <2>1. r # <<>> /\ r[1] = p.tx.from
    BY <1>1, <1>3
  <2> HIDE DEF q, r
  <2> QED
    BY <1>5, <1>7, <1>8, <2>1, Zenon DEF Sound
<1>10. ASSUME NEW cache, Receipted(p, cache) PROVE Receipted(q, cache)
  <2>1. SignedLen(q) = n /\ SignedLen(p) = n
    BY <1>1, <1>2, <1>3, <1>5 DEF SignedLen
  <2> HIDE DEF q
  <2> SUFFICES ASSUME NEW i \in 2..n PROVE ReceiptAt(q, i) \in cache
    BY <2>1, Zenon DEF Receipted
  <2>2. SubSeq(r, 1, i) = SubSeq(s, 1, i) /\ r[i] = s[i]
    BY <1>1, <1>3
  <2>3. ReceiptAt(q, i) = ReceiptAt(p, i)
    BY <1>5, <2>2, Zenon DEF ReceiptAt
  <2> QED
    BY <1>10, <2>1, <2>3, Zenon DEF Receipted
<1> HIDE DEF q
<1> QED
  BY <1>5, <1>6, <1>9, <1>10, Zenon DEF q

\* complete_pending_hop: the receiver's receipt completes the path.
LEMMA CompleteHop ==
  ASSUME PathAssumption, NEW q, Sound(q), q.pending, NEW cache, Receipted(q, cache),
         NEW more, cache \subseteq more, receipt(q) \in more
  PROVE  LET r == complete_pending_hop(q) IN
         /\ Sound(r) /\ ~r.pending /\ r.tx = q.tx /\ r.epoch = q.epoch /\ r.nodes = q.nodes
         /\ current_tail(r) = current_tail(q) /\ Receipted(r, more)
<1> DEFINE r == complete_pending_hop(q)
           n == Len(q.nodes)
<1>1. /\ q \in PathRecord /\ q.nodes \in Seq(Identity) /\ n \in Nat \ {0}
      /\ current_tail(q) = q.nodes[n]
  BY RecordFields, Zenon DEF Sound
<1>2. r = [q EXCEPT !.pending = FALSE]
  BY Zenon DEF complete_pending_hop
<1>3. /\ r \in PathRecord /\ ~r.pending /\ r.tx = q.tx /\ r.epoch = q.epoch /\ r.nodes = q.nodes
  BY <1>1, <1>2, Zenon DEF PathRecord
<1> HIDE DEF r
<1>4. Sound(r) /\ current_tail(r) = current_tail(q)
  BY <1>3, Zenon DEF Sound, current_tail
<1>5. Receipted(r, more)
  <2>1. SignedLen(r) = n /\ SignedLen(q) = n - 1
    BY <1>3, Zenon DEF SignedLen
  <2> HIDE DEF n
  <2> SUFFICES ASSUME NEW i \in 2..n PROVE ReceiptAt(r, i) \in more
    BY <2>1, Zenon DEF Receipted
  <2>2. ReceiptAt(r, i) = ReceiptAt(q, i)
    BY <1>3, Zenon DEF ReceiptAt
  <2>3. CASE i = n
    <3>1. SubSeq(q.nodes, 1, n) = q.nodes
      BY <1>1 DEF n
    <3>2. ReceiptAt(q, n) = receipt(q)
      BY <1>1, <3>1, Zenon DEF ReceiptAt, receipt, edge_statement
    <3> QED
      BY <2>2, <2>3, <3>2, Zenon
  <2>4. CASE i # n
    <3>1. i \in 2..(n - 1)
      BY <1>1, <2>4
    <3> QED
      BY <2>1, <2>2, <3>1, Zenon DEF Receipted
  <2> QED
    BY <2>3, <2>4, Zenon
<1> QED
  BY <1>3, <1>4, <1>5, Zenon DEF r

\* A receipt that is not in conflict may be added.
LEMMA AddReceipt ==
  ASSUME NEW cache, Consistent(cache), NEW r, ~receipt_conflict(cache, r)
  PROVE  Consistent(cache \cup {r})
<1>1. \A c \in cache : c.tx = r.tx /\ c.epoch = r.epoch /\ c.receiver = r.receiver =>
                         c.statement = r.statement
  BY Zenon DEF receipt_conflict
<1> SUFFICES ASSUME NEW c \in cache \cup {r}, NEW d \in cache \cup {r},
                    c.tx = d.tx, c.epoch = d.epoch, c.receiver = d.receiver
             PROVE  c.statement = d.statement
  BY Zenon DEF Consistent
<1>2. CASE c \in cache /\ d \in cache
  BY <1>2, Zenon DEF Consistent
<1>3. CASE c = r \/ d = r
  BY <1>1, <1>3, Zenon
<1> QED
  BY <1>2, <1>3, Zenon

LEMMA MoreReceipts ==
  ASSUME NEW p, NEW cache, NEW more, Receipted(p, cache), cache \subseteq more
  PROVE  Receipted(p, more)
  BY Zenon DEF Receipted

\* new_with_epoch: the originator alone.
LEMMA NewPath ==
  ASSUME PathAssumption, NEW tx \in Tx, NEW e \in Nat
  PROVE  LET p == new_with_epoch(tx, e) IN
         /\ Sound(p) /\ ~p.pending /\ p.tx = tx /\ p.epoch = e /\ current_tail(p) = tx.from
         /\ \A cache : Receipted(p, cache)
<1> DEFINE p == new_with_epoch(tx, e)
           s == <<tx.from>>
<1>1. tx.from \in Node /\ tx.from \in Identity
  BY Zenon DEF PathAssumption, Identity
<1>2. s \in Seq(Identity) /\ Len(s) = 1 /\ s[1] = tx.from /\ s # <<>>
  BY <1>1
<1>3. p = [tx |-> tx, epoch |-> e, nodes |-> s, pending |-> FALSE]
  BY Zenon DEF new_with_epoch
<1> HIDE DEF s
<1>4. /\ p \in PathRecord /\ p.tx = tx /\ p.epoch = e /\ p.nodes = s /\ p.pending = FALSE
  BY <1>2, <1>3 DEF PathRecord
<1> HIDE DEF p
<1>5. IsInjective(s)
  <2>1. DOMAIN s = 1..1
    BY <1>2
  <2>2. \A i, j \in 1..1 : i = j
    OBVIOUS
  <2> QED
    BY <2>1, <2>2, Zenon DEF IsInjective
<1>6. \A i \in 1..(Len(s) - 1) : FALSE
  BY <1>2
<1>7. Sound(p)
  BY <1>2, <1>4, <1>5, <1>6, Zenon DEF Sound
<1>8. current_tail(p) = tx.from /\ SignedLen(p) = 1
  BY <1>2, <1>4, Zenon DEF current_tail, SignedLen
<1>9. \A cache : Receipted(p, cache)
  BY <1>8 DEF Receipted
<1> QED
  BY <1>4, <1>7, <1>8, <1>9, Zenon DEF p

--------------------------------------------------------------------------------
(* The Sybil loop. *)

\* What the loop of operator n, started with path p and the given receipts, keeps.
Padding(s, p, n, cache) ==
  /\ s = [paths |-> s.paths, wallet |-> s.wallet, cache |-> s.cache]
  /\ Sound(s.paths) /\ s.paths.tx = p.tx /\ s.paths.epoch = p.epoch
  /\ Owner(s.wallet) = n
  /\ cache \subseteq s.cache /\ Consistent(s.cache) /\ Receipted(s.paths, s.cache)

LEMMA PadWithKeeps ==
  ASSUME PathAssumption, NEW n \in Node, NEW s, NEW p, NEW cache, Padding(s, p, n, cache),
         NEW id \in Sybils(n)
  PROVE  Padding(PadWith(s, id), p, n, cache)
<1> DEFINE q == append_outgoing_hop(s.paths, id)
           t == PadWith(s, id)
<1>1. CASE ~can_append_outgoing_hop(s.paths, id, s.wallet)
  BY <1>1, Zenon DEF PadWith
<1>2. CASE can_append_outgoing_hop(s.paths, id, s.wallet)
  <2>1. Owner(id) = n /\ id \in Identity
    BY OwnerOfSybil, Zenon
  <2>2. Hop(s.wallet, id)
    BY <2>1, Zenon DEF Hop, Padding
  <2>3. /\ Sound(q) /\ q.pending /\ q.tx = s.paths.tx /\ q.epoch = s.paths.epoch
        /\ Receipted(q, s.cache)
    BY <1>2, <2>1, <2>2, AppendHop, Zenon DEF Padding
  <2> HIDE DEF q
  <2>4. CASE receipt_conflict(s.cache, receipt(q))
    <3>1. t = [s EXCEPT !.paths = q]
      BY <1>2, <2>4, Zenon DEF PadWith, q
    <3>2. t = [paths |-> q, wallet |-> s.wallet, cache |-> s.cache]
      BY <3>1, Zenon DEF Padding
    <3>3. t.paths = q /\ t.wallet = s.wallet /\ t.cache = s.cache
      BY <3>2
    <3> HIDE DEF t
    <3>4. Padding(t, p, n, cache)
      BY <2>3, <3>2, <3>3, Zenon DEF Padding
    <3> QED
      BY <3>4, Zenon DEF t
  <2>5. CASE ~receipt_conflict(s.cache, receipt(q))
    <3> DEFINE r == complete_pending_hop(q)
               c == s.cache \cup {receipt(q)}
    <3>1. t = [paths |-> r, wallet |-> id, cache |-> c]
      BY <1>2, <2>5, Zenon DEF PadWith, q
    <3>2. Sound(r) /\ r.tx = q.tx /\ r.epoch = q.epoch /\ Receipted(r, c)
      BY <2>3, CompleteHop
    <3>3. Consistent(c) /\ cache \subseteq c
      BY <2>5, AddReceipt, Zenon DEF Padding
    <3> HIDE DEF r, c
    <3>4. t.paths = r /\ t.wallet = id /\ t.cache = c
      BY <3>1
    <3> HIDE DEF t
    <3>5. Padding(t, p, n, cache)
      BY <2>1, <2>3, <3>1, <3>2, <3>3, <3>4, Zenon DEF Padding
    <3> QED
      BY <3>5 DEF t
  <2> QED
    BY <2>4, <2>5, Zenon
<1> QED
  BY <1>1, <1>2, Zenon

LEMMA PadKeeps ==
  ASSUME PathAssumption, NEW n \in Node, NEW p, Sound(p), NEW cache, Consistent(cache),
         Receipted(p, cache)
  PROVE  Padding(Pad(p, n, cache), p, n, cache)
<1> DEFINE w == sybil_nodes[n]
           k == Len(w)
           first == [paths |-> p, wallet |-> n, cache |-> cache]
           Step(f) == [i \in 0..Len(w) |-> IF i = 0 THEN first ELSE PadWith(f[i - 1], w[i])]
           padded == CHOOSE f : f = Step(f)
<1>1. w \in Seq(Identity) /\ k \in Nat /\ DOMAIN w = 1..k
  BY DEF PathAssumption
<1>2. \A i \in 1..k : w[i] \in Sybils(n)
  BY <1>1, Zenon DEF Sybils
<1>3. Pad(p, n, cache) = padded[k]
  BY Zenon DEF Pad
\* The recursive function exists: it is built up index by index.
<1>4. padded = Step(padded)
  <2> DEFINE Upto(j, f) == f = [i \in 0..j |-> IF i = 0 THEN first ELSE PadWith(f[i - 1], w[i])]
             K == {j \in Nat : \E f : Upto(j, f)}
  <2> HIDE DEF w, first
  <2>1. 0 \in K
    <3>1. Upto(0, [i \in 0..0 |-> first])
      BY \A i \in 0..0 : i = 0, Zenon
    <3> QED
      BY <3>1, Zenon
  <2>2. ASSUME NEW j \in Nat, j \in K PROVE j + 1 \in K
    <3>1. PICK f : Upto(j, f)
      BY <2>2, Zenon
    <3> DEFINE g == [i \in 0..(j + 1) |-> IF i = 0 THEN first ELSE PadWith(f[i - 1], w[i])]
    <3>2. \A i \in 0..j : g[i] = f[i]
      <4>1. \A i \in 0..j : i \in 0..(j + 1)
        OBVIOUS
      <4>2. \A i \in 0..j : f[i] = IF i = 0 THEN first ELSE PadWith(f[i - 1], w[i])
        BY <3>1, Zenon
      <4> QED
        BY <4>1, <4>2, Zenon
    <3>3. \A i \in 0..(j + 1) : i # 0 => i - 1 \in 0..j
      OBVIOUS
    <3>4. \A i \in 0..(j + 1) : i # 0 => g[i - 1] = f[i - 1]
      BY <3>2, <3>3, Zenon
    <3>5. Upto(j + 1, g)
      BY <3>4, Zenon
    <3>6. j + 1 \in Nat
      OBVIOUS
    <3> HIDE DEF g, Upto
    <3> QED
      BY <3>5, <3>6, Zenon
  <2>3. k \in K
    <3> HIDE DEF K
    <3> QED
      BY <1>1, <2>1, <2>2, SetInduction, Zenon
  <2>4. \E f : f = Step(f)
    BY <1>1, <2>3, Zenon
  <2> QED
    BY <2>4, Zenon
<1>5. padded[0] = first /\ \A i \in 1..k : padded[i] = PadWith(padded[i - 1], w[i])
  <2> HIDE DEF first, padded, w, k
  <2>1. \A i \in 1..k : i \in 0..k /\ i # 0
    BY <1>1
  <2> QED
    BY <1>1, <1>4, <2>1 DEF k
<1> DEFINE I == {i \in 0..k : Padding(padded[i], p, n, cache)}
<1> HIDE DEF padded, w, k
<1>6. 0 \in I
  <2>1. 0 \in 0..k /\ Owner(n) = n
    BY <1>1, OwnerOfNode
  <2>2. first.paths = p /\ first.wallet = n /\ first.cache = cache
    BY Zenon
  <2>3. Padding(first, p, n, cache)
    BY <2>1, <2>2, Zenon DEF Padding
  <2> QED
    BY <1>5, <2>1, <2>3, Zenon
<1>7. ASSUME NEW i \in Nat, i < k, i \in I PROVE i + 1 \in I
  <2>1. i + 1 \in 1..k /\ i + 1 \in 0..k /\ (i + 1) - 1 = i
    BY <1>1, <1>7
  <2>2. padded[i + 1] = PadWith(padded[i], w[i + 1])
    BY <1>5, <2>1, Zenon
  <2>3. w[i + 1] \in Sybils(n)
    BY <1>2, <2>1, Zenon
  <2>4. Padding(padded[i + 1], p, n, cache)
    BY <1>7, <2>2, <2>3, PadWithKeeps, Zenon
  <2> QED
    BY <2>1, <2>4, Zenon
<1>8. k \in I
  <2> HIDE DEF I
  <2>1. 0..k \subseteq I
    BY <1>1, <1>6, <1>7, BoundedInduction, Zenon
  <2> QED
    BY <1>1, <2>1
<1> QED
  BY <1>3, <1>8, Zenon

--------------------------------------------------------------------------------
(* Messages in flight. *)

LEMMA Sent ==
  ASSUME NEW B, NEW C
  PROVE  DOMAIN (B (+) C) = DOMAIN B \cup DOMAIN C
  BY Zenon DEF (+)

LEMMA Taken ==
  ASSUME NEW B, NEW m
  PROVE  DOMAIN (B (-) SetToBag({m})) \subseteq DOMAIN B
  BY Zenon DEF (-), SetToBag

\* Every forward offers the path, one hop longer, to a neighbour.
LEMMA ForwardsAreOffers ==
  ASSUME PathAssumption, NEW n \in Node, NEW p, Sound(p), NEW wallet, Owner(wallet) = n,
         NEW receivers \in SUBSET neighbors[n], NEW cache, Receipted(p, cache),
         NEW m \in DOMAIN Forwards(p, wallet, n, receivers)
  PROVE  /\ Offer(m) /\ m.paths.tx = p.tx /\ m.paths.epoch = p.epoch
         /\ Receipted(m.paths, cache)
<1> DEFINE msg(to) == [paths |-> append_outgoing_hop(p, to), from |-> n, to |-> to]
<1>1. DOMAIN Forwards(p, wallet, n, receivers) =
        {msg(to) : to \in {to \in receivers : can_append_outgoing_hop(p, to, wallet)}}
  BY Zenon DEF Forwards, SetToBag
<1>2. PICK to \in receivers : can_append_outgoing_hop(p, to, wallet) /\ m = msg(to)
  BY <1>1, Zenon
<1>3. to \in neighbors[n] /\ to \in Node /\ to \in Identity
  BY Zenon DEF PathAssumption, Identity
<1>4. Hop(wallet, to)
  BY <1>3, Zenon DEF Hop
<1> DEFINE q == append_outgoing_hop(p, to)
<1>5. /\ Sound(q) /\ q.pending /\ q.tx = p.tx /\ q.epoch = p.epoch
      /\ current_tail(q) = to /\ Receipted(q, cache)
  BY <1>2, <1>3, <1>4, AppendHop, Zenon
<1> HIDE DEF q
<1>6. m.paths = q /\ m.from = n /\ m.to = to
  BY <1>2, Zenon DEF q
<1> QED
  BY <1>3, <1>5, <1>6, Zenon DEF Offer

\* A sound path of a transaction the mempool does not hold is stored, and forwarded.
LEMMA StoreAndForwardKeeps ==
  ASSUME PathAssumption, Inv, NEW n \in Node, NEW p, NEW cache, NEW receivers, NEW inflight,
         StoreAndForward(n, p, cache, receivers, inflight),
         Sound(p), ~p.pending, current_tail(p) = n, ~Holds(n, p.tx),
         p.tx \in generated', p.epoch <= current_epoch,
         RECEIPT_COMMITMENT_CACHE \subseteq cache, Consistent(cache), Receipted(p, cache),
         receivers \in SUBSET neighbors[n], DOMAIN inflight \subseteq DOMAIN flying,
         generated \subseteq generated', current_epoch' = current_epoch
  PROVE  MempoolInv' /\ FlightInv' /\ ReceiptInv'
<1> DEFINE s == Pad(p, n, cache)
<1>1. Padding(s, p, n, cache)
  BY PadKeeps, Zenon
<1>2. /\ transaction_paths_cache' = [transaction_paths_cache EXCEPT ![n] = @ \cup {p}]
      /\ RECEIPT_COMMITMENT_CACHE' = s.cache
      /\ flying' = inflight (+) Forwards(s.paths, s.wallet, n, receivers)
  BY Zenon DEF StoreAndForward
<1> HIDE DEF s
<1>3. /\ RECEIPT_COMMITMENT_CACHE \subseteq s.cache /\ Consistent(s.cache)
      /\ cache \subseteq s.cache
  BY <1>1, Zenon DEF Padding
<1>4. \A r : Dated(r) => Dated(r)'
  BY Zenon DEF Dated
<1>5. transaction_paths_cache \in [Node -> SUBSET PathRecord] /\ p \in PathRecord
  BY Zenon DEF Inv, MempoolInv, Sound
<1>6. /\ transaction_paths_cache' \in [Node -> SUBSET PathRecord]
      /\ transaction_paths_cache'[n] = transaction_paths_cache[n] \cup {p}
      /\ \A k \in Node \ {n} : transaction_paths_cache'[k] = transaction_paths_cache[k]
  BY <1>2, <1>5, Zenon
<1>7. MempoolInv'
  <2> SUFFICES ASSUME NEW k \in Node
               PROVE  /\ IsFiniteSet(transaction_paths_cache'[k])
                      /\ \A q \in transaction_paths_cache'[k] :
                           /\ Sound(q) /\ ~q.pending /\ current_tail(q) = k /\ Dated(q)'
                           /\ \A r \in transaction_paths_cache'[k] : r.tx = q.tx => r = q
    BY <1>6, Zenon DEF MempoolInv
  <2>1. /\ IsFiniteSet(transaction_paths_cache[k])
        /\ \A q \in transaction_paths_cache[k] :
             /\ Sound(q) /\ ~q.pending /\ current_tail(q) = k /\ Dated(q)
             /\ \A r \in transaction_paths_cache[k] : r.tx = q.tx => r = q
    BY Zenon DEF Inv, MempoolInv
  <2>2. CASE k # n
    BY <1>4, <1>6, <2>1, <2>2, Zenon
  <2>3. CASE k = n
    <3>1. IsFiniteSet(transaction_paths_cache[n] \cup {p})
      BY <2>1, <2>3, FS_AddElement, Zenon
    <3>2. Dated(p)'
      BY Zenon DEF Dated
    <3>3. \A q \in transaction_paths_cache[n] : q.tx # p.tx
      BY Zenon DEF Holds
    <3>4. ASSUME NEW q \in transaction_paths_cache'[n]
          PROVE  Sound(q) /\ ~q.pending /\ current_tail(q) = n /\ Dated(q)'
      BY <1>4, <1>6, <2>1, <2>3, <3>2, <3>4, Zenon
    <3>5. ASSUME NEW q \in transaction_paths_cache'[n], NEW r \in transaction_paths_cache'[n],
                 r.tx = q.tx
          PROVE  r = q
      BY <1>6, <2>1, <2>3, <3>3, <3>5, Zenon
    <3> QED
      BY <1>6, <2>3, <3>1, <3>4, <3>5, Zenon
  <2> QED
    BY <2>2, <2>3, Zenon
<1>8. ASSUME NEW m \in DOMAIN flying'
      PROVE  Offer(m) /\ Dated(m.paths)' /\ Receipted(m.paths, s.cache)
  <2>1. CASE m \in DOMAIN inflight
    <3>1. Offer(m) /\ Dated(m.paths) /\ Receipted(m.paths, RECEIPT_COMMITMENT_CACHE)
      BY <2>1, Zenon DEF Inv, FlightInv, ReceiptInv
    <3> QED
      BY <1>3, <1>4, <3>1, MoreReceipts, Zenon
  <2>2. CASE m \in DOMAIN Forwards(s.paths, s.wallet, n, receivers)
    <3>1. /\ Offer(m) /\ m.paths.tx = s.paths.tx /\ m.paths.epoch = s.paths.epoch
          /\ Receipted(m.paths, s.cache)
      BY <1>1, <2>2, ForwardsAreOffers, Zenon DEF Padding
    <3>2. m.paths.tx = p.tx /\ m.paths.epoch = p.epoch
      BY <1>1, <3>1, Zenon DEF Padding
    <3> QED
      BY <3>1, <3>2, Zenon DEF Dated
  <2> QED
    <3>1. DOMAIN flying' = DOMAIN inflight \cup DOMAIN Forwards(s.paths, s.wallet, n, receivers)
      BY <1>2, Sent, Zenon
    <3> QED
      BY <1>8, <2>1, <2>2, <3>1, Zenon
<1>9. FlightInv'
  BY <1>8, Zenon DEF FlightInv
<1>10. ReceiptInv'
  <2>1. ASSUME NEW k \in Node, NEW q \in transaction_paths_cache'[k]
        PROVE  Receipted(q, s.cache)
    <3>1. CASE q \in transaction_paths_cache[k]
      BY <1>3, <3>1, MoreReceipts, Zenon DEF Inv, ReceiptInv
    <3>2. CASE q = p
      BY <1>3, <3>2, MoreReceipts, Zenon
    <3> QED
      BY <1>6, <2>1, <3>1, <3>2, Zenon
  <2> QED
    BY <1>2, <1>3, <1>8, <2>1, Zenon DEF ReceiptInv
<1> QED
  BY <1>7, <1>9, <1>10, Zenon

--------------------------------------------------------------------------------
(* The steps. *)

LEMMA InitKeeps ==
  ASSUME PathAssumption, Init
  PROVE  Inv
<1>1. ClockInv
  BY DEF Init, PathAssumption, ClockInv
<1>2. MempoolInv
  <2>1. \A n \in Node : transaction_paths_cache[n] = {}
    BY Zenon DEF Init
  <2>2. transaction_paths_cache \in [Node -> SUBSET PathRecord]
    BY Zenon DEF Init
  <2> QED
    BY <2>1, <2>2, FS_EmptySet, Zenon DEF MempoolInv
<1>3. DOMAIN flying = {}
  BY Zenon DEF Init, EmptyBag, SetToBag
<1>4. FlightInv
  BY <1>3, Zenon DEF FlightInv
<1>5. ReceiptInv
  BY <1>3, Zenon DEF Init, ReceiptInv, Consistent
<1>6. BlockInv
  <2>1. blocks \in Seq({}) /\ Len(blocks) = 0
    BY DEF Init
  <2>2. DOMAIN blocks = {}
    BY DEF Init
  <2>3. height \in [Node -> 0..0]
    BY DEF Init
  <2> QED
    BY <2>1, <2>2, <2>3, Zenon DEF BlockInv
<1> QED
  BY <1>1, <1>2, <1>4, <1>5, <1>6, Zenon DEF Inv

\* Fewer messages, fewer mempool entries and later clocks keep what concerns paths.
LEMMA FewerKeeps ==
  ASSUME PathAssumption, Inv, DOMAIN flying' \subseteq DOMAIN flying,
         transaction_paths_cache' \in [Node -> SUBSET PathRecord],
         \A n \in Node : transaction_paths_cache'[n] \subseteq transaction_paths_cache[n],
         RECEIPT_COMMITMENT_CACHE' = RECEIPT_COMMITMENT_CACHE,
         generated \subseteq generated', current_epoch' \in Nat, current_epoch <= current_epoch'
  PROVE  MempoolInv' /\ FlightInv' /\ ReceiptInv'
<1>1. current_epoch \in Nat
  BY DEF Inv, ClockInv
<1>2. ASSUME NEW p \in PathRecord, Dated(p) PROVE Dated(p)'
  <2>1. p.epoch \in Nat
    BY Zenon DEF PathRecord
  <2> QED
    BY <1>1, <1>2, <2>1 DEF Dated
<1>3. MempoolInv'
  <2> SUFFICES ASSUME NEW k \in Node
               PROVE  /\ IsFiniteSet(transaction_paths_cache'[k])
                      /\ \A q \in transaction_paths_cache'[k] :
                           /\ Sound(q) /\ ~q.pending /\ current_tail(q) = k /\ Dated(q)'
                           /\ \A r \in transaction_paths_cache'[k] : r.tx = q.tx => r = q
    BY Zenon DEF MempoolInv
  <2>1. /\ IsFiniteSet(transaction_paths_cache[k])
        /\ \A q \in transaction_paths_cache[k] :
             /\ Sound(q) /\ ~q.pending /\ current_tail(q) = k /\ Dated(q)
             /\ \A r \in transaction_paths_cache[k] : r.tx = q.tx => r = q
    BY Zenon DEF Inv, MempoolInv
  <2>2. transaction_paths_cache'[k] \subseteq transaction_paths_cache[k]
    BY Zenon
  <2>3. IsFiniteSet(transaction_paths_cache'[k])
    BY <2>1, <2>2, FS_Subset, Zenon
  <2>4. ASSUME NEW q \in transaction_paths_cache'[k]
        PROVE  Sound(q) /\ ~q.pending /\ current_tail(q) = k /\ Dated(q)'
    <3>1. Sound(q) /\ ~q.pending /\ current_tail(q) = k /\ Dated(q)
      BY <2>1, <2>2, <2>4, Zenon
    <3> QED
      BY <1>2, <3>1, Zenon DEF Sound
  <2> QED
    BY <2>1, <2>2, <2>3, <2>4, Zenon
<1>4. FlightInv'
  <2> SUFFICES ASSUME NEW m \in DOMAIN flying' PROVE Offer(m) /\ Dated(m.paths)'
    BY Zenon DEF FlightInv
  <2>1. Offer(m) /\ Dated(m.paths)
    BY Zenon DEF Inv, FlightInv
  <2> QED
    BY <1>2, <2>1, Zenon DEF Offer, Sound
<1>5. ReceiptInv'
  BY Zenon DEF Inv, ReceiptInv
<1> QED
  BY <1>3, <1>4, <1>5, Zenon

LEMMA GenerateKeeps ==
  ASSUME PathAssumption, Inv, NEW n \in Node, NEW tx \in Tx, GenerateTransactionPaths(n, tx)
  PROVE  Inv'
<1>1. /\ tx \notin generated /\ tx.from = n /\ generated' = generated \cup {tx}
      /\ UNCHANGED <<current_epoch, epoch, blocks, height, lost>>
  BY Zenon DEF GenerateTransactionPaths, clock, chain
<1>2. /\ current_epoch \in 0..MaxEpoch /\ epoch \in [Node -> 0..current_epoch]
      /\ generated \subseteq Tx /\ lost \in 0..MaxLost /\ MaxEpoch \in Nat
  BY Zenon DEF Inv, ClockInv, PathAssumption
<1>3. ClockInv'
  BY <1>1, <1>2, Zenon DEF ClockInv
<1>4. BlockInv'
  BY <1>1, Zenon DEF Inv, BlockInv
<1>5. MempoolInv' /\ FlightInv' /\ ReceiptInv'
  <2>1. CASE StoreAndForward(n, new_with_epoch(tx, epoch[n]), RECEIPT_COMMITMENT_CACHE,
                             neighbors[n], flying)
    <3> DEFINE p == new_with_epoch(tx, epoch[n])
    <3>1. epoch[n] \in Nat /\ epoch[n] <= current_epoch
      BY <1>2
    <3>2. /\ Sound(p) /\ ~p.pending /\ p.tx = tx /\ p.epoch = epoch[n] /\ current_tail(p) = n
          /\ Receipted(p, RECEIPT_COMMITMENT_CACHE)
      BY <1>1, <3>1, NewPath, Zenon
    <3>3. ~Holds(n, tx)
      BY <1>1 DEF Inv, MempoolInv, Holds, Dated
    <3>4. Consistent(RECEIPT_COMMITMENT_CACHE)
      BY Zenon DEF Inv, ReceiptInv
    <3> HIDE DEF p
    <3>5. StoreAndForward(n, p, RECEIPT_COMMITMENT_CACHE, neighbors[n], flying)
      BY <2>1, Zenon DEF p
    <3>6. /\ p.tx \in generated' /\ p.epoch <= current_epoch /\ ~Holds(n, p.tx)
          /\ neighbors[n] \in SUBSET neighbors[n] /\ generated \subseteq generated'
          /\ current_epoch' = current_epoch
      BY <1>1, <3>1, <3>2, <3>3, Zenon
    <3> QED
      BY <3>2, <3>4, <3>5, <3>6, StoreAndForwardKeeps, Zenon
  <2>2. CASE UNCHANGED <<mempools, flying>>
    <3>1. UNCHANGED <<transaction_paths_cache, RECEIPT_COMMITMENT_CACHE, flying>>
      BY <2>2, Zenon DEF mempools
    <3>2. transaction_paths_cache \in [Node -> SUBSET PathRecord]
      BY Zenon DEF Inv, MempoolInv
    <3>3. current_epoch \in Nat /\ current_epoch <= current_epoch
      BY <1>2
    <3> QED
      BY <1>1, <3>1, <3>2, <3>3, FewerKeeps, Zenon
  <2> QED
    BY <2>1, <2>2, Zenon DEF GenerateTransactionPaths
<1> QED
  BY <1>3, <1>4, <1>5, Zenon DEF Inv

LEMMA DropKeeps ==
  ASSUME PathAssumption, Inv, NEW m \in BagToSet(flying), Lose(m) \/ Ignore(m)
  PROVE  Inv'
<1>1. /\ flying' = flying (-) SetToBag({m}) /\ lost' \in {lost, lost + 1}
      /\ lost' # lost => lost < MaxLost
      /\ UNCHANGED <<current_epoch, epoch, transaction_paths_cache, RECEIPT_COMMITMENT_CACHE,
                     generated, blocks, height>>
  BY Zenon DEF Lose, Ignore, clock, mempools, chain
<1>2. /\ current_epoch \in 0..MaxEpoch /\ epoch \in [Node -> 0..current_epoch]
      /\ generated \subseteq Tx /\ lost \in 0..MaxLost /\ MaxEpoch \in Nat /\ MaxLost \in Nat
  BY Zenon DEF Inv, ClockInv, PathAssumption
<1>3. ClockInv'
  <2>1. lost' \in 0..MaxLost
    BY <1>1, <1>2
  <2> QED
    BY <1>1, <1>2, <2>1, Zenon DEF ClockInv
<1>4. BlockInv'
  BY <1>1, Zenon DEF Inv, BlockInv
<1>5. MempoolInv' /\ FlightInv' /\ ReceiptInv'
  <2>1. DOMAIN flying' \subseteq DOMAIN flying
    BY <1>1, Taken, Zenon
  <2>2. transaction_paths_cache \in [Node -> SUBSET PathRecord]
    BY Zenon DEF Inv, MempoolInv
  <2>3. current_epoch \in Nat /\ current_epoch <= current_epoch
    BY <1>2
  <2> QED
    BY <1>1, <2>1, <2>2, <2>3, FewerKeeps, Zenon
<1> QED
  BY <1>3, <1>4, <1>5, Zenon DEF Inv

LEMMA AcceptKeeps ==
  ASSUME PathAssumption, Inv, NEW m \in BagToSet(flying), Accept(m)
  PROVE  Inv'
<1> DEFINE q == m.paths
           p == complete_pending_hop(q)
           n == m.to
           cache == RECEIPT_COMMITMENT_CACHE \cup {receipt(q)}
<1>1. /\ ~Holds(n, q.tx) /\ ~receipt_conflict(RECEIPT_COMMITMENT_CACHE, receipt(q))
      /\ \E receivers \in SUBSET neighbors[n] :
           StoreAndForward(n, p, cache, receivers, flying (-) SetToBag({m}))
      /\ UNCHANGED <<current_epoch, epoch, generated, blocks, height, lost>>
  BY Zenon DEF Accept, clock, chain
<1>2. m \in DOMAIN flying
  BY Zenon DEF BagToSet
<1>3. /\ Sound(q) /\ q.pending /\ current_tail(q) = n /\ n \in neighbors[m.from] /\ m.from \in Node
      /\ q.tx \in generated /\ q.epoch <= current_epoch
      /\ Receipted(q, RECEIPT_COMMITMENT_CACHE) /\ Consistent(RECEIPT_COMMITMENT_CACHE)
  BY <1>2, Zenon DEF Inv, FlightInv, ReceiptInv, Offer, Dated
<1>4. n \in Node
  BY <1>3, Zenon DEF PathAssumption
<1> HIDE DEF q, n
<1>5. /\ Sound(p) /\ ~p.pending /\ p.tx = q.tx /\ p.epoch = q.epoch /\ current_tail(p) = n
      /\ Receipted(p, cache)
  BY <1>3, CompleteHop
<1>6. Consistent(cache) /\ RECEIPT_COMMITMENT_CACHE \subseteq cache
  BY <1>1, <1>3, AddReceipt, Zenon
<1>7. PICK receivers \in SUBSET neighbors[n] :
        StoreAndForward(n, p, cache, receivers, flying (-) SetToBag({m}))
  BY <1>1, Zenon
<1>8. DOMAIN (flying (-) SetToBag({m})) \subseteq DOMAIN flying
  BY Taken, Zenon
<1> HIDE DEF p, cache
<1>9. MempoolInv' /\ FlightInv' /\ ReceiptInv'
  <2>1. p.tx \in generated' /\ p.epoch <= current_epoch /\ ~Holds(n, p.tx)
        /\ generated \subseteq generated' /\ current_epoch' = current_epoch
    BY <1>1, <1>3, <1>5, Zenon
  <2> DEFINE inflight == flying (-) SetToBag({m})
  <2> HIDE DEF inflight
  <2>2. StoreAndForward(n, p, cache, receivers, inflight) /\ DOMAIN inflight \subseteq DOMAIN flying
    BY <1>7, <1>8, Zenon DEF inflight
  <2> QED
    BY <1>4, <1>5, <1>6, <2>1, <2>2, StoreAndForwardKeeps, Zenon
<1>10. ClockInv'
  BY <1>1, Zenon DEF Inv, ClockInv
<1>11. BlockInv'
  BY <1>1, Zenon DEF Inv, BlockInv
<1> QED
  BY <1>9, <1>10, <1>11, Zenon DEF Inv

\* A block takes paths the operator of its proposer holds, and not too many.
LEMMA PackedPaths ==
  ASSUME PathAssumption, Inv, NEW id \in Identity, NEW packed \in Packed(id) \ {{}}
  PROVE  /\ packed \subseteq transaction_paths_cache[Owner(id)] /\ Owner(id) \in Node
         /\ Cardinality({p.tx : p \in packed}) \in 1..max_tx_per_block
<1> DEFINE held == transaction_paths_cache[Owner(id)]
           valid == {p \in held : p.tx \notin Canonical}
           txs == {p.tx : p \in packed}
<1>1. Owner(id) \in Node
  BY OwnerIsNode, Zenon
<1>2. packed \subseteq valid /\ packed # {}
      /\ Cardinality(packed) = IF Cardinality(valid) < max_tx_per_block
                               THEN Cardinality(valid) ELSE max_tx_per_block
  BY Zenon DEF Packed
<1>3. IsFiniteSet(held)
  BY <1>1, Zenon DEF Inv, MempoolInv
<1>4. valid \subseteq held
  BY Zenon
<1> HIDE DEF held, valid
<1>5. IsFiniteSet(valid)
  BY <1>3, <1>4, FS_Subset, Zenon
<1>6. IsFiniteSet(packed) /\ Cardinality(valid) \in Nat
  BY <1>2, <1>5, FS_Subset, FS_CardinalityType, Zenon
<1>7. Cardinality(packed) \in Nat /\ Cardinality(packed) <= max_tx_per_block
  BY <1>2, <1>6, FS_CardinalityType DEF PathAssumption
<1>8. IsFiniteSet(txs) /\ Cardinality(txs) <= Cardinality(packed)
  <2> DEFINE f == [p \in packed |-> p.tx]
  <2>1. f \in Surjection(packed, txs)
    BY Zenon DEF Surjection
  <2> HIDE DEF f, txs
  <2> QED
    BY <1>6, <2>1, FS_Surjection, Zenon
<1>9. txs # {}
  BY <1>2, Zenon
<1> HIDE DEF txs
<1>10. Cardinality(txs) \in Nat /\ Cardinality(txs) # 0
  BY <1>8, <1>9, FS_CardinalityType, FS_EmptySet, Zenon
<1>11. Cardinality(txs) \in 1..max_tx_per_block
  BY <1>7, <1>8, <1>10 DEF PathAssumption
<1> QED
  BY <1>1, <1>2, <1>4, <1>11, Zenon DEF held, txs

LEMMA ProduceBlockKeeps ==
  ASSUME PathAssumption, Inv, NEW id \in Identity, ProduceBlock(id)
  PROVE  Inv'
<1>1. PICK packed \in Packed(id) \ {{}} :
        /\ blocks' = Append(blocks,
             [miner |-> id, epoch |-> current_epoch,
              paths |-> [tx \in {p.tx : p \in packed} |->
                           from_transaction_paths(CHOOSE p \in packed : p.tx = tx)]])
        /\ transaction_paths_cache' =
             [transaction_paths_cache EXCEPT ![Owner(id)] = @ \ packed]
  BY Zenon DEF ProduceBlock
<1>2. UNCHANGED <<current_epoch, epoch, flying, RECEIPT_COMMITMENT_CACHE, generated, height, lost>>
  BY Zenon DEF ProduceBlock, clock
<1> DEFINE held == transaction_paths_cache[Owner(id)]
           txs == {p.tx : p \in packed}
           chosen(tx) == CHOOSE p \in packed : p.tx = tx
           paths == [tx \in txs |-> from_transaction_paths(chosen(tx))]
           b == [miner |-> id, epoch |-> current_epoch, paths |-> paths]
<1>3. packed \subseteq held /\ Owner(id) \in Node /\ Cardinality(txs) \in 1..max_tx_per_block
  BY PackedPaths, Zenon
<1>4. transaction_paths_cache \in [Node -> SUBSET PathRecord] /\ held \subseteq PathRecord
  BY <1>3, Zenon DEF Inv, MempoolInv
<1>5. Credited(b)
  <2>1. \A tx \in txs : chosen(tx) \in packed /\ chosen(tx).tx = tx
    BY Zenon
  <2>2. /\ DOMAIN paths = txs /\ \A tx \in txs : paths[tx] = from_transaction_paths(chosen(tx))
    BY Zenon
  <2>3. \A p \in held : Sound(p) /\ ~p.pending /\ current_tail(p) = Owner(id)
    BY <1>3, Zenon DEF Inv, MempoolInv
  <2>4. b.miner = id /\ b.paths = paths
    BY Zenon
  <2> HIDE DEF chosen, txs, held, paths, b
  <2>5. ASSUME NEW tx \in txs
        PROVE  \E p \in PathRecord :
                 /\ Sound(p) /\ ~p.pending /\ p.tx = tx /\ current_tail(p) = Owner(b.miner)
                 /\ b.paths[tx] = from_transaction_paths(p)
    BY <1>3, <1>4, <2>1, <2>2, <2>3, <2>4, Zenon
  <2> QED
    BY <1>3, <2>2, <2>4, <2>5, Zenon DEF Credited
<1>6. blocks' = Append(blocks, b)
  BY <1>1, Zenon
<1> HIDE DEF b
<1>7. BlockInv'
  <2>1. PICK S : blocks \in Seq(S)
    BY Zenon DEF Inv, BlockInv
  <2>2. /\ blocks \in Seq(S \cup {b}) /\ Len(blocks) \in Nat
    BY <2>1
  <2>3. /\ blocks' \in Seq(S \cup {b}) /\ Len(blocks') = Len(blocks) + 1
        /\ DOMAIN blocks = 1..Len(blocks) /\ DOMAIN blocks' = 1..(Len(blocks) + 1)
        /\ \A i \in 1..Len(blocks) : blocks'[i] = blocks[i]
        /\ blocks'[Len(blocks) + 1] = b
    BY <1>6, <2>2
  <2>4. \A i \in 1..(Len(blocks) + 1) : i \in 1..Len(blocks) \/ i = Len(blocks) + 1
    BY <2>2
  <2>5. \A i \in DOMAIN blocks' : Credited(blocks'[i])
    BY <1>5, <2>3, <2>4, Zenon DEF Inv, BlockInv
  <2>6. height' \in [Node -> 0..Len(blocks')]
    <3>1. \A i \in 0..Len(blocks) : i \in 0..(Len(blocks) + 1)
      BY <2>2
    <3> QED
      BY <1>2, <2>3, <3>1, Zenon DEF Inv, BlockInv
  <2> QED
    BY <2>3, <2>5, <2>6, Zenon DEF BlockInv
<1>8. ClockInv'
  BY <1>2, Zenon DEF Inv, ClockInv
<1>9. MempoolInv' /\ FlightInv' /\ ReceiptInv'
  <2>1. /\ transaction_paths_cache' \in [Node -> SUBSET PathRecord]
        /\ \A n \in Node : transaction_paths_cache'[n] \subseteq transaction_paths_cache[n]
    BY <1>1, <1>3, <1>4, Zenon
  <2>2. current_epoch \in Nat /\ current_epoch <= current_epoch
    BY DEF Inv, ClockInv
  <2> QED
    BY <1>2, <2>1, <2>2, FewerKeeps, Zenon
<1> QED
  BY <1>7, <1>8, <1>9, Zenon DEF Inv

LEMMA ReceiveBlocksKeeps ==
  ASSUME PathAssumption, Inv, NEW n \in Node, ReceiveBlocks(n)
  PROVE  Inv'
<1>1. PICK h \in (height[n] + 1)..Len(blocks) :
        /\ height' = [height EXCEPT ![n] = h]
        /\ transaction_paths_cache' = [transaction_paths_cache EXCEPT
             ![n] = {p \in @ : p.tx \notin TransactionIndex(h)}]
  BY Zenon DEF ReceiveBlocks
<1>2. UNCHANGED <<current_epoch, epoch, flying, RECEIPT_COMMITMENT_CACHE, generated, blocks, lost>>
  BY Zenon DEF ReceiveBlocks, clock
<1>3. transaction_paths_cache \in [Node -> SUBSET PathRecord]
  BY Zenon DEF Inv, MempoolInv
<1>4. BlockInv'
  <2>1. height \in [Node -> 0..Len(blocks)]
    BY Zenon DEF Inv, BlockInv
  <2>2. PICK S : blocks \in Seq(S)
    BY Zenon DEF Inv, BlockInv
  <2>3. Len(blocks) \in Nat
    BY <2>2
  <2>4. h \in 0..Len(blocks)
    <3>1. height[n] \in Nat
      BY <2>1, <2>3
    <3> QED
      BY <2>3, <3>1
  <2>5. height' \in [Node -> 0..Len(blocks)]
    BY <1>1, <2>1, <2>4, Zenon
  <2> QED
    BY <1>2, <2>5, Zenon DEF Inv, BlockInv
<1>5. ClockInv'
  BY <1>2, Zenon DEF Inv, ClockInv
<1>6. MempoolInv' /\ FlightInv' /\ ReceiptInv'
  <2> DEFINE kept == {p \in transaction_paths_cache[n] : p.tx \notin TransactionIndex(h)}
  <2>1. transaction_paths_cache' = [transaction_paths_cache EXCEPT ![n] = kept]
    BY <1>1, Zenon
  <2>2. kept \subseteq transaction_paths_cache[n]
    BY Zenon
  <2> HIDE DEF kept
  <2>3. /\ transaction_paths_cache' \in [Node -> SUBSET PathRecord]
        /\ \A k \in Node : transaction_paths_cache'[k] \subseteq transaction_paths_cache[k]
    BY <1>3, <2>1, <2>2, Zenon
  <2>4. current_epoch \in Nat /\ current_epoch <= current_epoch
    BY DEF Inv, ClockInv
  <2> QED
    BY <1>2, <2>3, <2>4, FewerKeeps, Zenon
<1> QED
  BY <1>4, <1>5, <1>6, Zenon DEF Inv

\* NextEpoch, UpdateSlot and stuttering leave the paths alone.
LEMMA TimeKeeps ==
  ASSUME PathAssumption, Inv, NextEpoch \/ (\E n \in Node : UpdateSlot(n)) \/ UNCHANGED vars
  PROVE  Inv'
<1>1. UNCHANGED <<transaction_paths_cache, RECEIPT_COMMITMENT_CACHE, flying, generated,
                  blocks, height, lost>>
  BY Zenon DEF NextEpoch, UpdateSlot, vars, mempools, chain
<1>2. /\ current_epoch \in Nat /\ current_epoch <= MaxEpoch /\ MaxEpoch \in Nat
      /\ epoch \in [Node -> 0..current_epoch]
  BY DEF Inv, ClockInv, PathAssumption
<1>3. /\ current_epoch' \in 0..MaxEpoch /\ current_epoch <= current_epoch'
      /\ epoch' \in [Node -> 0..current_epoch']
  <2>1. CASE NextEpoch
    <3>1. current_epoch' = current_epoch + 1 /\ current_epoch < MaxEpoch /\ epoch' = epoch
      BY <2>1, Zenon DEF NextEpoch
    <3>2. \A e \in 0..current_epoch : e \in 0..(current_epoch + 1)
      BY <1>2
    <3> QED
      BY <1>2, <3>1, <3>2
  <2>2. CASE \E n \in Node : UpdateSlot(n)
    <3>1. PICK n \in Node : /\ epoch[n] < current_epoch /\ current_epoch' = current_epoch
                            /\ epoch' = [epoch EXCEPT ![n] = epoch[n] + 1]
      BY <2>2, Zenon DEF UpdateSlot
    <3>2. epoch[n] + 1 \in 0..current_epoch
      BY <1>2, <3>1
    <3> QED
      BY <1>2, <3>1, <3>2
  <2>3. CASE UNCHANGED vars
    <3>1. current_epoch' = current_epoch /\ epoch' = epoch
      BY <2>3, Zenon DEF vars, clock
    <3> QED
      BY <1>2, <3>1
  <2> QED
    BY <2>1, <2>2, <2>3, Zenon
<1>4. ClockInv'
  BY <1>1, <1>3, Zenon DEF Inv, ClockInv
<1>5. BlockInv'
  BY <1>1, Zenon DEF Inv, BlockInv
<1>6. MempoolInv' /\ FlightInv' /\ ReceiptInv'
  <2>1. transaction_paths_cache \in [Node -> SUBSET PathRecord]
    BY Zenon DEF Inv, MempoolInv
  <2>2. current_epoch' \in Nat /\ current_epoch <= current_epoch'
    BY <1>2, <1>3
  <2> QED
    BY <1>1, <2>1, <2>2, FewerKeeps, Zenon
<1> QED
  BY <1>4, <1>5, <1>6, Zenon DEF Inv

LEMMA StepKeeps ==
  ASSUME PathAssumption, Inv, [Next]_vars
  PROVE  Inv'
<1>1. ASSUME NEW n \in Node, NEW tx \in Tx, GenerateTransactionPaths(n, tx) PROVE Inv'
  BY <1>1, GenerateKeeps, Zenon
<1>2. ASSUME NEW m \in BagToSet(flying), Lose(m) \/ Ignore(m) PROVE Inv'
  BY <1>2, DropKeeps, Zenon
<1>3. ASSUME NEW m \in BagToSet(flying), Accept(m) PROVE Inv'
  BY <1>3, AcceptKeeps, Zenon
<1>4. ASSUME NEW id \in Identity, ProduceBlock(id) PROVE Inv'
  BY <1>4, ProduceBlockKeeps, Zenon
<1>5. ASSUME NEW n \in Node, ReceiveBlocks(n) PROVE Inv'
  BY <1>5, ReceiveBlocksKeeps, Zenon
<1>6. ASSUME NEW n \in Node, UpdateSlot(n) PROVE Inv'
  BY <1>6, TimeKeeps, Zenon
<1>7. CASE NextEpoch \/ UNCHANGED vars
  BY <1>7, TimeKeeps, Zenon
<1> QED
  BY <1>1, <1>2, <1>3, <1>4, <1>5, <1>6, <1>7, Zenon DEF Next

--------------------------------------------------------------------------------
(* What the invariant says of the properties. *)

LEMMA InvTypes ==
  ASSUME PathAssumption, Inv
  PROVE  TypeOK
<1>1. ASSUME NEW n \in Node, NEW p \in transaction_paths_cache[n]
      PROVE  p.tx \in generated /\ p.epoch \in 0..current_epoch /\ p.nodes \in Seq(Identity)
  <2>1. p \in PathRecord /\ p.tx \in generated /\ p.epoch <= current_epoch
    BY <1>1, Zenon DEF Inv, MempoolInv, Dated, Sound
  <2>2. p.epoch \in Nat /\ p.nodes \in Seq(Identity) /\ current_epoch \in Nat
    BY <2>1 DEF PathRecord, Inv, ClockInv
  <2> QED
    BY <2>1, <2>2
<1>2. \A m \in BagToSet(flying) : m.paths.pending /\ m.to \in neighbors[m.from]
  BY Zenon DEF Inv, FlightInv, Offer, BagToSet
<1>3. \A i \in DOMAIN blocks : Cardinality(DOMAIN blocks[i].paths) \in 1..max_tx_per_block
  BY Zenon DEF Inv, BlockInv, Credited
<1>4. /\ current_epoch \in 0..MaxEpoch /\ epoch \in [Node -> 0..current_epoch]
      /\ height \in [Node -> 0..Len(blocks)] /\ lost \in 0..MaxLost
  BY Zenon DEF Inv, BlockInv, ClockInv
<1> QED
  BY <1>1, <1>2, <1>3, <1>4, Zenon DEF TypeOK

LEMMA InvMempool ==
  ASSUME PathAssumption, Inv
  PROVE  MempoolPaths
<1> SUFFICES ASSUME NEW n \in Node, NEW p \in transaction_paths_cache[n]
             PROVE  /\ ~p.pending
                    /\ p.nodes[1] = p.tx.from /\ current_tail(p) = n /\ IsInjective(p.nodes)
                    /\ \A i \in 1..(Len(p.nodes) - 1) : Hop(p.nodes[i], p.nodes[i + 1])
                    /\ \A q \in transaction_paths_cache[n] : q.tx = p.tx => q = p
  BY Zenon DEF MempoolPaths, Hop
<1> QED
  BY Zenon DEF Inv, MempoolInv, Sound

\* Two signed paths of a transaction that meet in a receiver have the same receipt there.
LEMMA InvTree ==
  ASSUME PathAssumption, Inv
  PROVE  PathsFormATree
<1> DEFINE stored == UNION {transaction_paths_cache[n] : n \in Node}
           offered == {m.paths : m \in BagToSet(flying)}
           records == stored \cup offered
           cut(p) == [tx |-> p.tx, epoch |-> p.epoch, nodes |-> Signed(p)]
<1>1. SignedPaths = {cut(p) : p \in records}
  BY Zenon DEF SignedPaths
<1>2. ASSUME NEW p \in records PROVE Sound(p) /\ Receipted(p, RECEIPT_COMMITMENT_CACHE)
  <2>1. CASE p \in stored
    <3>1. PICK n \in Node : p \in transaction_paths_cache[n]
      BY <2>1, Zenon
    <3> QED
      BY <3>1, Zenon DEF Inv, MempoolInv, ReceiptInv
  <2>2. CASE p \in offered
    <3>1. PICK m \in DOMAIN flying : p = m.paths
      BY <2>2, Zenon DEF BagToSet
    <3> QED
      BY <3>1, Zenon DEF Inv, FlightInv, Offer, ReceiptInv
  <2> HIDE DEF stored, offered
  <2> QED
    BY <2>1, <2>2, Zenon
<1> HIDE DEF stored, offered, records
<1>3. ASSUME NEW p \in records
      PROVE  /\ Len(Signed(p)) = SignedLen(p)
             /\ \A i \in 2..SignedLen(p) :
                  /\ Signed(p)[i] = p.nodes[i]
                  /\ SubSeq(Signed(p), 1, i) = SubSeq(p.nodes, 1, i)
  <2>1. /\ p.nodes \in Seq(Identity) /\ p.pending \in BOOLEAN /\ Len(p.nodes) \in Nat \ {0}
    BY <1>2, <1>3, RecordFields, Zenon DEF Sound
  <2>2. CASE ~p.pending
    BY <2>1, <2>2, Zenon DEF Signed, SignedLen
  <2>3. CASE p.pending
    <3> DEFINE k == Len(p.nodes) - 1
               s == SubSeq(p.nodes, 1, k)
    <3>1. Signed(p) = s /\ SignedLen(p) = k /\ k \in Nat /\ k <= Len(p.nodes)
      BY <2>1, <2>3 DEF Signed, SignedLen
    <3> HIDE DEF k
    <3>2. s \in Seq(Identity) /\ Len(s) = k /\ \A i \in 1..k : s[i] = p.nodes[i]
      BY <2>1, <3>1
    <3> HIDE DEF s
    <3>3. ASSUME NEW i \in 2..k PROVE SubSeq(s, 1, i) = SubSeq(p.nodes, 1, i)
      <4>1. i \in Nat /\ i <= k /\ \A j \in 1..i : j \in 1..k
        BY <3>1
      <4>2. SubSeq(s, 1, i) = [j \in 1..i |-> s[j]]
        BY <3>2, <4>1
      <4>3. SubSeq(p.nodes, 1, i) = [j \in 1..i |-> p.nodes[j]]
        BY <2>1, <4>1
      <4> QED
        BY <3>2, <4>1, <4>2, <4>3, Zenon
    <3> QED
      BY <3>1, <3>2, <3>3
  <2> QED
    BY <2>1, <2>2, <2>3, Zenon
<1> SUFFICES ASSUME NEW p \in records, NEW q \in records, p.tx = q.tx, p.epoch = q.epoch,
                    NEW i \in 2..SignedLen(p), NEW j \in 2..SignedLen(q), p.nodes[i] = q.nodes[j]
             PROVE  SubSeq(p.nodes, 1, i) = SubSeq(q.nodes, 1, j)
  <2> SUFFICES ASSUME NEW x \in SignedPaths, NEW y \in SignedPaths, x.tx = y.tx, x.epoch = y.epoch,
                      NEW i \in 2..Len(x.nodes), NEW j \in 2..Len(y.nodes), x.nodes[i] = y.nodes[j]
               PROVE  SubSeq(x.nodes, 1, i) = SubSeq(y.nodes, 1, j)
    BY Zenon DEF PathsFormATree
  <2>1. PICK p \in records, q \in records : x = cut(p) /\ y = cut(q)
    BY <1>1, Zenon
  <2>2. /\ x.tx = p.tx /\ x.epoch = p.epoch /\ x.nodes = Signed(p)
        /\ y.tx = q.tx /\ y.epoch = q.epoch /\ y.nodes = Signed(q)
    BY <2>1, Zenon
  <2>3. i \in 2..SignedLen(p) /\ j \in 2..SignedLen(q)
    BY <1>3, <2>2, Zenon
  <2>4. p.nodes[i] = q.nodes[j]
    BY <1>3, <2>2, <2>3, Zenon
  <2>5. SubSeq(p.nodes, 1, i) = SubSeq(q.nodes, 1, j)
    BY <2>2, <2>3, <2>4, ZenonT(60)
  <2> QED
    BY <1>3, <2>2, <2>3, <2>5, Zenon
<1>4. ReceiptAt(p, i) \in RECEIPT_COMMITMENT_CACHE /\ ReceiptAt(q, j) \in RECEIPT_COMMITMENT_CACHE
  BY <1>2, Zenon DEF Receipted
<1> DEFINE c == ReceiptAt(p, i)
           d == ReceiptAt(q, j)
<1>5. /\ c.tx = p.tx /\ c.epoch = p.epoch /\ c.receiver = p.nodes[i]
      /\ c.statement = SubSeq(p.nodes, 1, i)
      /\ d.tx = q.tx /\ d.epoch = q.epoch /\ d.receiver = q.nodes[j]
      /\ d.statement = SubSeq(q.nodes, 1, j)
  BY Zenon DEF ReceiptAt
<1> HIDE DEF c, d
<1>6. c \in RECEIPT_COMMITMENT_CACHE /\ d \in RECEIPT_COMMITMENT_CACHE
  BY <1>4, Zenon DEF c, d
<1> QED
  BY <1>5, <1>6, Zenon DEF Inv, ReceiptInv, Consistent

\* The record of a path that ends at node n verifies for proposer id of operator n exactly
\* when id is the node.
LEMMA RecordVerifies ==
  ASSUME PathAssumption, NEW p, Sound(p), ~p.pending, NEW id \in Identity,
         current_tail(p) = Owner(id), NEW e
  PROVE  verify_at_epoch(from_transaction_paths(p), p.tx, id, e) <=> p.epoch = e /\ id \in Node
<1> DEFINE rec == from_transaction_paths(p)
           s == p.nodes
           n == Len(p.nodes)
           pre == SubSeq(p.nodes, 1, n - 1)
           full == full_path(rec, id)
<1>1. /\ p.tx \in Tx /\ s \in Seq(Identity) /\ n \in Nat \ {0} /\ s[n] = Owner(id)
      /\ s[1] = p.tx.from /\ IsInjective(s)
  BY RecordFields, Zenon DEF Sound
<1>2. p.tx.from \in Node /\ Owner(id) \in Node /\ (id \notin Node => Owner(id) # id)
      /\ (id \in Node => Owner(id) = id)
  BY <1>1, OwnerIsNode, OwnerOfNode, Zenon DEF PathAssumption
<1>3. /\ rec.epoch = p.epoch /\ rec.paths = pre
      /\ rec.signature = IF n = 1 THEN NoSignature ELSE <<p.tx, p.epoch, s>>
  BY Zenon DEF from_transaction_paths
<1>4. /\ pre \in Seq(Identity) /\ Len(pre) = n - 1
      /\ \A i \in 1..(n - 1) : pre[i] = s[i]
  BY <1>1
<1>5. DOMAIN s = 1..n /\ \A i, j \in 1..n : s[i] = s[j] => i = j
  BY <1>1 DEF IsInjective
<1> HIDE DEF rec, pre, s, n
<1>6. CASE n = 1
  <2>1. rec.paths = <<>> /\ p.tx.from = Owner(id)
    BY <1>1, <1>3, <1>4, <1>6
  <2>2. verify_at_epoch(rec, p.tx, id, e) <=> rec.epoch = e /\ p.tx.from = id
    BY <2>1, Zenon DEF verify_at_epoch
  <2> QED
    BY <1>2, <1>3, <2>1, <2>2, Zenon DEF rec
<1>7. CASE n # 1
  <2>1. n - 1 \in 1..n /\ n \in 1..n /\ n - 1 # n /\ 1 \in 1..(n - 1) /\ n - 1 \in 1..(n - 1)
    BY <1>1, <1>7
  <2>2. pre # <<>> /\ pre[Len(pre)] = s[n - 1] /\ pre[1] = s[1]
    BY <1>1, <1>4, <2>1
  <2>3. rec.signature = <<p.tx, p.epoch, s>> /\ rec.signature # NoSignature
    BY <1>3, <1>7 DEF NoSignature
  <2>4. CASE id \in Node
    <3>1. s[n] = id /\ s[n - 1] # id
      BY <1>1, <1>2, <1>5, <2>1, <2>4, Zenon
    <3>2. full = Append(pre, id)
      BY <1>3, <2>2, <3>1, Zenon DEF full_path
    <3>3. Append(pre, id) \in Seq(Identity) /\ Len(Append(pre, id)) = n
          /\ Append(pre, id)[n] = id /\ \A i \in 1..(n - 1) : Append(pre, id)[i] = s[i]
      BY <1>1, <1>4
    <3>4. \A i \in 1..n : i \in 1..(n - 1) \/ i = n
      BY <1>1
    <3>5. Append(pre, id) = s
      <4>1. Len(s) = n
        BY Zenon DEF s, n
      <4>2. \A i \in 1..n : Append(pre, id)[i] = s[i]
        BY <3>1, <3>3, <3>4, Zenon
      <4> DEFINE t == Append(pre, id)
      <4> HIDE DEF t
      <4>3. t \in Seq(Identity) /\ Len(t) = Len(s) /\ \A i \in 1..Len(s) : t[i] = s[i]
        BY <3>3, <4>1, <4>2, Zenon DEF t
      <4>4. t = s
        BY <1>1, <4>3
      <4> QED
        BY <4>4, Zenon DEF t
    <3>6. full = s
      BY <3>2, <3>5, Zenon
    <3> HIDE DEF full
    <3>7. verify_at_epoch(rec, p.tx, id, e) <=> rec.epoch = e
      <4>1. rec.signature = <<p.tx, rec.epoch, full>> /\ full[1] = p.tx.from /\ IsInjective(full)
        BY <1>1, <1>3, <2>3, <3>6, Zenon
      <4>2. rec.paths # <<>>
        BY <1>3, <2>2, Zenon
      <4> QED
        BY <2>3, <4>1, <4>2, Zenon DEF verify_at_epoch, full
    <3> QED
      BY <1>3, <2>4, <3>7, Zenon DEF rec
  <2>5. CASE id \notin Node
    <3>1. full # s
      <4>1. CASE pre[Len(pre)] = id
        <5>1. full = pre
          BY <1>3, <2>2, <4>1, Zenon DEF full_path
        <5>2. Len(s) = n /\ Len(pre) # n
          BY <1>1, <1>4 DEF s, n
        <5> QED
          BY <5>1, <5>2, Zenon
      <4>2. CASE pre[Len(pre)] # id
        <5>1. full = Append(pre, id)
          BY <1>3, <4>2, Zenon DEF full_path
        <5>2. Append(pre, id)[n] = id
          BY <1>1, <1>4
        <5> QED
          BY <1>1, <1>2, <2>5, <5>1, <5>2, Zenon
      <4> QED
        BY <4>1, <4>2, Zenon
    <3>2. path_length(rec, id) # 0 \/ full[1] # p.tx.from
      <4>1. CASE pre[Len(pre)] = id
        <5>1. full = pre /\ Len(full) = n - 1
          BY <1>3, <1>4, <2>2, <4>1, Zenon DEF full_path
        <5>2. CASE n = 2
          <6>1. full[1] = id
            BY <1>1, <1>4, <4>1, <5>1, <5>2, SMTT(30)
          <6> QED
            BY <1>2, <2>5, <6>1, Zenon
        <5>3. CASE n # 2
          BY <1>1, <1>7, <5>1, <5>3 DEF path_length
        <5> QED
          BY <5>2, <5>3, Zenon
      <4>2. CASE pre[Len(pre)] # id
        <5>1. full = Append(pre, id)
          BY <1>3, <4>2 DEF full_path
        <5>2. Len(Append(pre, id)) = n
          BY <1>1, <1>4
        <5> QED
          BY <1>1, <1>7, <5>1, <5>2 DEF path_length
      <4> QED
        BY <4>1, <4>2, Zenon
    <3>3. rec.signature # <<p.tx, rec.epoch, full>>
      <4> HIDE DEF full
      <4> QED
        BY <2>3, <3>1
    <3>4. rec.paths # <<>>
      BY <1>3, <2>2
    <3>5. ~verify_at_epoch(rec, p.tx, id, e)
      BY <3>2, <3>3, <3>4, Zenon DEF verify_at_epoch
    <3> QED
      BY <2>5, <3>5, Zenon DEF rec
  <2> QED
    BY <2>4, <2>5, Zenon
<1> QED
  BY <1>6, <1>7, Zenon

LEMMA InvEligible ==
  ASSUME PathAssumption, Inv
  PROVE  EligibleEvidence
<1> SUFFICES ASSUME NEW i \in DOMAIN blocks, NEW tx \in DOMAIN blocks[i].paths
             PROVE  verify_at_epoch(blocks[i].paths[tx], tx, blocks[i].miner, blocks[i].epoch)
                      <=> /\ blocks[i].paths[tx].epoch = blocks[i].epoch
                          /\ blocks[i].miner \in Node
  BY Zenon DEF EligibleEvidence
<1>1. blocks[i].miner \in Identity
  BY Zenon DEF Inv, BlockInv, Credited
<1>2. PICK p \in PathRecord :
        /\ Sound(p) /\ ~p.pending /\ p.tx = tx /\ current_tail(p) = Owner(blocks[i].miner)
        /\ blocks[i].paths[tx] = from_transaction_paths(p)
  BY Zenon DEF Inv, BlockInv, Credited
<1>3. from_transaction_paths(p).epoch = p.epoch
  BY Zenon DEF from_transaction_paths
<1> DEFINE id == blocks[i].miner
           e == blocks[i].epoch
<1> HIDE DEF id, e
<1>4. verify_at_epoch(from_transaction_paths(p), p.tx, id, e) <=> p.epoch = e /\ id \in Node
  BY <1>1, <1>2, RecordVerifies, Zenon DEF id
<1> QED
  BY <1>2, <1>3, <1>4, Zenon DEF id, e

--------------------------------------------------------------------------------
(* The theorems. *)

\* The inductive invariant of the simulator's network holds in every reachable state.
THEOREM Invariance == Spec => []Inv
<1> PathAssumption
  BY PathGossipAssumption, Zenon
<1>1. Init => Inv
  BY InitKeeps, Zenon
<1>2. Inv /\ [Next]_vars => Inv'
  BY StepKeeps, Zenon
<1> QED
  BY <1>1, <1>2, PTL DEF Spec

\* Blocks, mempools, clocks and messages have their type; no block exceeds
\* max_tx_per_block (get_transactions).
THEOREM TypeCorrect == Spec => []TypeOK
<1> PathAssumption
  BY PathGossipAssumption
<1>1. Inv => TypeOK
  BY InvTypes, Zenon
<1> QED
  BY Invariance, <1>1, PTL

\* receive_transaction_paths and pad_with_sybils: what a mempool holds is a signed simple
\* path along the links of the network that ends at its node, whatever is lost or late.
THEOREM MempoolsHoldPaths == Spec => []MempoolPaths
<1> PathAssumption
  BY PathGossipAssumption
<1>1. Inv => MempoolPaths
  BY InvMempool, Zenon
<1> QED
  BY Invariance, <1>1, PTL

\* RECEIPT_COMMITMENT_CACHE: the signed paths of a transaction in an epoch form a tree.
THEOREM ReceiptsFormATree == Spec => []PathsFormATree
<1> PathAssumption
  BY PathGossipAssumption
<1>1. Inv => PathsFormATree
  BY InvTree
<1> QED
  BY Invariance, <1>1, PTL

\* verify_at_epoch on what a block records: eligible exactly when it was signed in the
\* epoch of the block and the proposer is a node.
THEOREM BlocksCreditEligible == Spec => []EligibleEvidence
<1> PathAssumption
  BY PathGossipAssumption
<1>1. Inv => EligibleEvidence
  BY InvEligible
<1> QED
  BY Invariance, <1>1, PTL

--------------------------------------------------------------------------------
(* The metadata stores of the execution clients. *)

\* meta is what some store has, and one more edge to n.
Derived(n, meta) ==
  \E p \in Node : /\ Clients!HasMetadata(p) /\ metadata[p].epoch = meta.epoch
                  /\ meta.path = Append(metadata[p].path, n)

\* The inductive invariant: no store keeps a half-signed edge, and an edge on its way
\* extends what a store has.
ClientInv ==
  /\ Clients!TypeOK
  /\ \A n \in Node : ~metadata[n].pending
  /\ \A msg \in messages : msg.meta.pending => Derived(msg.to, msg.meta)
  /\ Clients!RelayForest

\* Stores keep what they have.
Kept == \A n \in Node : Clients!HasMetadata(n) => metadata'[n] = metadata[n]

\* What is new in a store is signed by its own node alone, or complete and derived.
Grown ==
  \A n \in Node : \/ metadata'[n] = metadata[n]
                  \/ ~metadata'[n].pending /\ Len(metadata'[n].path) = 1
                  \/ ~metadata'[n].pending /\ Derived(n, metadata'[n])

\* What is new on a connection is not pending, or derived.
ClientSent ==
  \A msg \in messages' : \/ msg \in messages
                         \/ ~msg.meta.pending
                         \/ Derived(msg.to, msg.meta)


\* withOutgoingEdge: what is sent is not pending, or extends what the sender has.
LEMMA Outgoing ==
  ASSUME ClientInv, NEW n \in Node, NEW m \in Node
  PROVE  /\ Clients!OutgoingMetadata(n, m) \in Clients!Metadata
         /\ Clients!OutgoingMetadata(n, m).pending => Derived(m, Clients!OutgoingMetadata(n, m))
PROOF
<1> DEFINE meta == metadata[n]
           path == Append(meta.path, m)
           out == [meta EXCEPT !.path = path, !.pending = TRUE]
<1>1. meta \in Clients!Metadata /\ ~meta.pending
  BY Zenon DEF ClientInv, Clients!TypeOK
<1>2. path \in Seq(Node)
  BY SMTT(30), <1>1 DEF Clients!Metadata
<1> HIDE DEF path
<1>3. /\ out \in Clients!Metadata /\ out.epoch = meta.epoch
      /\ out.path = path
  BY <1>1, <1>2, Zenon DEF Clients!Metadata
<1>4. CASE Clients!OutgoingMetadata(n, m) = meta
  BY <1>1, <1>4, Zenon
<1>5. CASE Clients!OutgoingMetadata(n, m) = out /\ Clients!HasMetadata(n)
  BY <1>3, <1>5, Zenon DEF Derived, path
<1> QED
  BY <1>4, <1>5, Zenon DEF Clients!OutgoingMetadata, path

\* RecordInbound: a store gets a complete derived path, and only if it has none.
LEMMA Recorded ==
  ASSUME ClientInv, NEW m \in Node, NEW msg \in messages, msg.to = m,
         Clients!RecordInbound(m, msg.meta)
  PROVE  metadata' \in [Node -> Clients!Metadata] /\ Kept /\ Grown
PROOF
<1> DEFINE meta == msg.meta
           new == [meta EXCEPT !.pending = FALSE]
<1>1. metadata \in [Node -> Clients!Metadata] /\ meta \in Clients!Metadata
  BY Zenon DEF ClientInv, Clients!TypeOK, Clients!Message
<1>2. new \in Clients!Metadata /\ new.epoch = meta.epoch /\ new.path = meta.path /\ ~new.pending
  BY <1>1, Zenon DEF Clients!Metadata
<1>3. CASE metadata' = metadata
  BY <1>1, <1>3, Zenon DEF Kept, Grown
<1>4. CASE /\ meta.pending /\ ~Clients!HasMetadata(m)
           /\ metadata' = [metadata EXCEPT ![m] = new]
  <2>1. Derived(m, meta)
    BY <1>4, Zenon DEF ClientInv
  <2>2. Derived(m, new)
    BY <1>2, <2>1, Zenon DEF Derived
  <2> HIDE DEF new
  <2>3. metadata' \in [Node -> Clients!Metadata] /\ metadata'[m] = new
    BY <1>1, <1>2, <1>4, Zenon
  <2>4. \A n \in Node : n # m => metadata'[n] = metadata[n]
    BY <1>1, <1>4, Zenon
  <2>5. Grown
    BY <1>2, <2>2, <2>3, <2>4, Zenon DEF Grown
  <2>6. Kept
    BY <1>4, <2>4, Zenon DEF Kept
  <2> QED
    BY <2>3, <2>5, <2>6, Zenon
<1> QED
  BY <1>3, <1>4, Zenon DEF Clients!RecordInbound, Clients!CompleteInbound

\* Steps that leave the stores alone.
LEMMA StoresUntouched ==
  ASSUME ClientInv, UNCHANGED metadata
  PROVE  metadata' \in [Node -> Clients!Metadata] /\ Kept /\ Grown
PROOF
  BY Zenon DEF ClientInv, Clients!TypeOK, Kept, Grown

\* What a finished call of EnsureLocalHash changes.
LEMMA Finished ==
  ASSUME Clients!TypeOK, NEW n \in Node, NEW call, Clients!Finish(n, call)
  PROVE  /\ ensuring' \in [Node -> SUBSET Clients!Call]
         /\ known' \in [Node -> SUBSET Node]
         /\ queued' \subseteq Node \X Node
PROOF
<1>1. Clients!Peers(n) \subseteq Node
  BY Zenon DEF Clients!Peers
<1>2. ensuring' \in [Node -> SUBSET Clients!Call]
  BY Zenon DEF Clients!TypeOK, Clients!Finish
<1>3. CASE call.caller = "broadcast"
  <2>1. /\ queued' = queued \cup {<<n, m>> : m \in Clients!Peers(n) \ known[n]}
        /\ known' = [known EXCEPT ![n] = @ \cup Clients!Peers(n)]
    BY <1>3, Zenon DEF Clients!Finish
  <2>2. {<<n, m>> : m \in Clients!Peers(n) \ known[n]} \subseteq Node \X Node
    BY <1>1
  <2> QED
    BY <1>1, <1>2, <2>1, <2>2, Zenon DEF Clients!TypeOK
<1>4. CASE call.caller # "broadcast"
  BY <1>2, <1>4, Zenon DEF Clients!TypeOK, Clients!Finish
<1> QED
  BY <1>3, <1>4, Zenon

\* What every step does to the stores and the connections.
LEMMA ClientStep ==
  ASSUME ClientInv, Clients!Next
  PROVE  Clients!TypeOK' /\ Kept /\ Grown /\ ClientSent
PROOF
<1> USE DEF Clients!vars
<1>0. Clients!TypeOK
  BY Zenon DEF ClientInv
<1>1. ASSUME NEW n \in Node, NEW e \in Epoch, Clients!UpdateRelayEpoch(n, e)
      PROVE  Clients!TypeOK' /\ Kept /\ Grown /\ ClientSent
  BY <1>0, <1>1, StoresUntouched, Zenon DEF Clients!UpdateRelayEpoch, Clients!TypeOK, ClientSent
<1>2. ASSUME NEW n \in Node, Clients!SubmitTransaction(n)
      PROVE  Clients!TypeOK' /\ Kept /\ Grown /\ ClientSent
  <2>1. Clients!Called("rpc") \in Clients!Call /\ Clients!Called("broadcast") \in Clients!Call
    BY PathGossipAssumption, Zenon DEF Clients!TxMetadataAssumption, Clients!Called, Clients!Call
  <2> QED
    BY <1>0, <1>2, <2>1, StoresUntouched, Zenon DEF Clients!SubmitTransaction, Clients!TypeOK,
       ClientSent
<1>3. ASSUME NEW n \in Node, NEW call \in ensuring[n], Clients!SignOrigin(n, call)
      PROVE  Clients!TypeOK' /\ Kept /\ Grown /\ ClientSent
  <2>1. call \in Clients!Call /\ relay_epoch[n] \in Epoch
    BY <1>0, Zenon DEF Clients!TypeOK
  <2>2. [call EXCEPT !.signed = TRUE, !.epoch = relay_epoch[n]] \in Clients!Call
    BY <2>1, Zenon DEF Clients!Call
  <2>3. CASE Clients!Finish(n, call)
    BY <1>0, <1>3, <2>3, Finished, StoresUntouched, Zenon DEF Clients!SignOrigin, Clients!TypeOK,
       ClientSent
  <2>4. CASE /\ ensuring' = [ensuring EXCEPT ![n] = (@ \ {call}) \cup
                               {[call EXCEPT !.signed = TRUE, !.epoch = relay_epoch[n]]}]
             /\ UNCHANGED <<known, queued>>
    BY <1>0, <1>3, <2>2, <2>4, StoresUntouched, Zenon DEF Clients!SignOrigin, Clients!TypeOK,
       ClientSent
  <2> QED
    BY <1>3, <2>3, <2>4, Zenon DEF Clients!SignOrigin
<1>4. ASSUME NEW n \in Node, NEW call \in ensuring[n], Clients!StoreOrigin(n, call)
      PROVE  Clients!TypeOK' /\ Kept /\ Grown /\ ClientSent
  <2> DEFINE new == [epoch |-> call.epoch, path |-> <<n>>, pending |-> FALSE]
  <2>1. call.epoch \in Epoch
    BY <1>0 DEF Clients!TypeOK, Clients!Call
  <2>2. new \in Clients!Metadata /\ ~new.pending /\ Len(new.path) = 1
    BY <2>1 DEF Clients!Metadata
  <2>3. /\ Clients!Finish(n, call)
        /\ metadata' = IF Clients!HasMetadata(n) THEN metadata ELSE [metadata EXCEPT ![n] = new]
        /\ UNCHANGED <<relay_epoch, pool, submitted, connected, messages>>
    BY <1>4, Zenon DEF Clients!StoreOrigin
  <2> HIDE DEF new
  <2>4. metadata' \in [Node -> Clients!Metadata] /\ Kept /\ Grown
    BY <1>0, <2>2, <2>3, Zenon DEF Clients!TypeOK, Kept, Grown
  <2> QED
    BY <1>0, <2>3, <2>4, Finished, Zenon DEF Clients!TypeOK, ClientSent
<1>5. ASSUME NEW n \in Node, NEW m \in Node, Clients!Connect(n, m)
      PROVE  Clients!TypeOK' /\ Kept /\ Grown /\ ClientSent
  <2>1. known' \in [Node -> SUBSET Node]
    BY <1>0, <1>5, Zenon DEF Clients!Connect, Clients!TypeOK
  <2>2. queued' \subseteq Node \X Node
    BY <1>0, <1>5 DEF Clients!Connect, Clients!TypeOK
  <2> QED
    BY <1>0, <1>5, <2>1, <2>2, StoresUntouched, Zenon DEF Clients!Connect, Clients!TypeOK, ClientSent
<1>6. ASSUME NEW n \in Node, NEW m \in Node, NEW type \in {"announce", "transactions"},
             messages' = messages \cup
               {[type |-> type, from |-> n, to |-> m, meta |-> Clients!OutgoingMetadata(n, m)]}
      PROVE  messages' \subseteq Clients!Message /\ ClientSent
  <2> DEFINE msg == [type |-> type, from |-> n, to |-> m, meta |-> Clients!OutgoingMetadata(n, m)]
  <2>1. msg \in Clients!Message /\ (~msg.meta.pending \/ Derived(msg.to, msg.meta))
    BY Outgoing, Zenon DEF Clients!Message
  <2> HIDE DEF msg
  <2>2. messages' = messages \cup {msg}
    BY <1>6, Zenon DEF msg
  <2> QED
    BY <1>0, <2>1, <2>2, Zenon DEF Clients!TypeOK, ClientSent
<1>7. ASSUME NEW n \in Node, NEW m \in Node, Clients!Announce(n, m)
      PROVE  Clients!TypeOK' /\ Kept /\ Grown /\ ClientSent
  <2>1. messages' \subseteq Clients!Message /\ ClientSent
    BY <1>6, <1>7, Zenon DEF Clients!Announce
  <2> QED
    BY <1>0, <1>7, <2>1, StoresUntouched, Zenon DEF Clients!Announce, Clients!TypeOK
<1>8. ASSUME NEW n \in Node, NEW m \in Node, Clients!Reply(n, m)
      PROVE  Clients!TypeOK' /\ Kept /\ Grown /\ ClientSent
  <2>1. messages' \subseteq Clients!Message /\ ClientSent
    BY <1>6, <1>8, Zenon DEF Clients!Reply
  <2> QED
    BY <1>0, <1>8, <2>1, StoresUntouched, Zenon DEF Clients!Reply, Clients!TypeOK
<1>9. ASSUME NEW m \in Node, NEW msg \in messages, Clients!ReceiveAnnouncement(m, msg)
      PROVE  Clients!TypeOK' /\ Kept /\ Grown /\ ClientSent
  <2>1. metadata' \in [Node -> Clients!Metadata] /\ Kept /\ Grown
    BY <1>9, Recorded, Zenon DEF Clients!ReceiveAnnouncement
  <2>2. msg.from \in Node
    BY <1>0, Zenon DEF Clients!TypeOK, Clients!Message
  <2> QED
    BY <1>0, <1>9, <2>1, <2>2, Zenon DEF Clients!ReceiveAnnouncement, Clients!TypeOK, ClientSent
<1>10. ASSUME NEW m \in Node, NEW msg \in messages, Clients!ReceiveTransactions(m, msg)
       PROVE  Clients!TypeOK' /\ Kept /\ Grown /\ ClientSent
  <2>1. metadata' \in [Node -> Clients!Metadata] /\ Kept /\ Grown
    BY <1>10, Recorded, Zenon DEF Clients!ReceiveTransactions
  <2>2. msg.from \in Node
    BY <1>0 DEF Clients!TypeOK, Clients!Message
  <2>3. Clients!Called("broadcast") \in Clients!Call
    BY PathGossipAssumption, Zenon DEF Clients!TxMetadataAssumption, Clients!Called, Clients!Call
  <2>4. ensuring' \in [Node -> SUBSET Clients!Call]
    BY <1>0, <1>10, <2>3, Zenon DEF Clients!ReceiveTransactions, Clients!TypeOK
  <2> QED
    BY <1>0, <1>10, <2>1, <2>2, <2>4, ZenonT(60) DEF Clients!ReceiveTransactions, Clients!TypeOK, ClientSent
<1> QED
  BY <1>1, <1>2, <1>3, <1>4, <1>5, <1>7, <1>8, <1>9, <1>10, Zenon DEF Clients!Next, Clients!Ensure

\* What was derived stays derived, as the stores keep what they have.
LEMMA StaysDerived ==
  ASSUME Kept, NEW n, NEW meta, Derived(n, meta)
  PROVE  Derived(n, meta)'
PROOF
  BY Zenon DEF Kept, Derived, Clients!HasMetadata

\* The stores are empty at the start.
LEMMA ClientInitInv == Clients!Init => ClientInv
PROOF
<1> SUFFICES ASSUME Clients!Init PROVE ClientInv
  BY Zenon
<1>1. Clients!NoMetadata \in Clients!Metadata
  BY PathGossipAssumption DEF Clients!TxMetadataAssumption, Clients!NoMetadata, Clients!Metadata
<1>2. Clients!TypeOK
  BY <1>1, PathGossipAssumption, Zenon DEF Clients!TxMetadataAssumption, Clients!Init, Clients!TypeOK
<1> QED
  BY <1>2 DEF Clients!Init, ClientInv, Clients!NoMetadata, Clients!RelayForest

\* Every step preserves the invariant and what the stores have.
LEMMA ClientNextInv == ClientInv /\ [Clients!Next]_(Clients!vars) => ClientInv' /\ Kept
PROOF
<1> SUFFICES ASSUME ClientInv, [Clients!Next]_(Clients!vars) PROVE ClientInv' /\ Kept
  BY Zenon
<1>1. CASE Clients!Next
  <2>1. Clients!TypeOK' /\ Kept /\ Grown /\ ClientSent
    BY <1>1, ClientStep, Zenon
  <2>2. (\A n \in Node : ~metadata[n].pending)'
    BY <2>1, Zenon DEF Grown, ClientInv
  <2>3. ASSUME NEW msg \in messages', msg.meta.pending
        PROVE  Derived(msg.to, msg.meta)'
    <3>1. Derived(msg.to, msg.meta)
      BY <2>1, <2>3, Zenon DEF ClientSent, ClientInv
    <3> DEFINE n == msg.to
               meta == msg.meta
    <3> HIDE DEF n, meta
    <3>2. Derived(n, meta)
      BY <3>1, Zenon DEF n, meta
    <3>3. Derived(n, meta)'
      BY <2>1, <3>2, StaysDerived, Zenon
    <3> QED
      BY <3>3, Zenon DEF n, meta
  <2>4. ASSUME NEW n \in Node, Len(metadata'[n].path) > 1
        PROVE  \E p \in Node : /\ metadata'[p].path # <<>>
                               /\ metadata'[p].epoch = metadata'[n].epoch
                               /\ metadata'[n].path = Append(metadata'[p].path, n)
    <3>1. PICK meta : meta = metadata'[n]
      BY Zenon
    <3>2. Derived(n, meta)
      <4>1. CASE meta = metadata[n]
        BY <2>4, <3>1, <4>1, Zenon DEF ClientInv, Clients!RelayForest, Derived
      <4>2. CASE Len(meta.path) = 1
        BY <2>4, <3>1, <4>2
      <4>3. \/ meta = metadata[n] \/ Len(meta.path) = 1 \/ Derived(n, meta)
        BY <2>1, <3>1, Zenon DEF Grown
      <4> QED
        BY <4>1, <4>2, <4>3, Zenon
    <3>3. PICK p \in Node : /\ metadata[p].path # <<>> /\ metadata[p].epoch = meta.epoch
                            /\ meta.path = Append(metadata[p].path, n)
      BY <3>2, Zenon DEF Derived, Clients!HasMetadata
    <3>4. metadata'[p] = metadata[p]
      BY <2>1, <3>3, Zenon DEF Kept, Clients!HasMetadata
    <3> QED
      BY <3>1, <3>3, <3>4, Zenon
  <2>5. Clients!RelayForest'
    BY <2>4, Zenon DEF Clients!RelayForest, Clients!HasMetadata
  <2> QED
    BY <2>1, <2>2, <2>3, <2>5, Zenon DEF ClientInv
<1>2. CASE UNCHANGED Clients!vars
  BY <1>2, Zenon DEF Clients!vars, ClientInv, Clients!TypeOK, Derived, Clients!HasMetadata,
     Clients!RelayForest, Kept
<1> QED
  BY <1>1, <1>2, Zenon

\* The inductive invariant holds in every reachable state.
THEOREM ClientsInvariance == Clients!Spec => []ClientInv
PROOF
<1>1. ClientInv /\ [Clients!Next]_(Clients!vars) => ClientInv'
  BY ClientNextInv, Zenon
<1> QED
  BY ClientInitInv, <1>1, PTL DEF Clients!Spec

\* The stored metadata, the calls of EnsureLocalHash and the messages have their type.
THEOREM ClientTypes == Clients!Spec => []Clients!TypeOK
PROOF
<1>1. ClientInv => Clients!TypeOK
  BY Zenon DEF ClientInv
<1> QED
  BY ClientsInvariance, <1>1, PTL

\* completeInbound and withOutgoingEdge: the paths stored by all clients form a forest,
\* whatever the connections and the order of the messages.
THEOREM PathsFormForest == Clients!Spec => []RelayForest
PROOF
<1>1. ClientInv => RelayForest
  BY Zenon DEF ClientInv, RelayForest
<1> QED
  BY ClientsInvariance, <1>1, PTL

\* EnsureLocalHash and RecordInbound: a store never replaces what it has.
THEOREM StoresKeepMetadata == Clients!Spec => MetadataKept
PROOF
<1> DEFINE A == \A n \in Node : Clients!HasMetadata(n) => metadata'[n] = metadata[n]
<1>1. ClientInv /\ [Clients!Next]_(Clients!vars) => [A]_(Clients!vars)
  BY ClientNextInv, Zenon DEF Kept
<1> QED
  BY ClientsInvariance, <1>1, PTL DEF Clients!Spec, MetadataKept, Clients!MetadataKept

\* Both programs keep the types of their state.
THEOREM EvidenceTypes == Spec /\ Clients!Spec => []EvidenceTypeOK
<1>1. TypeOK /\ Clients!TypeOK => EvidenceTypeOK
  BY Zenon DEF EvidenceTypeOK
<1> QED
  BY TypeCorrect, ClientTypes, <1>1, PTL
================================================================================
