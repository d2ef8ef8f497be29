---------------------------- MODULE ChainSync_proofs ----------------------------
(* The local chains stay pieces of the canonical chain and their tips never     *)
(* retreat.  The inductive invariant Inv says what every queue and every spawned *)
(* send may hold: blocks and windows of the canonical chain that are not beyond  *)
(* its tip.  Two facts about the order of a channel complete it: a snapshot of   *)
(* the world state reaches at least as far as everything queued before it        *)
(* (SnapshotsAhead), and slot changes name epochs in order (EpochsInOrder).      *)
EXTENDS ChainSync, WellFoundedInduction, TLAPS

\* A set of natural numbers that is not empty has a least element.
LEMMA LeastNatural ==
  ASSUME NEW T, T \subseteq Nat, T # {}
  PROVE  \E x \in T : \A y \in T : x <= y
<1> DEFINE R == OpToRel(<, Nat)
<1>1. IsWellFoundedOn(R, Nat)
  BY NatLessThanWellFounded, Zenon
<1>2. \A i, j \in Nat : i < j => <<i, j>> \in R
  BY Zenon DEF OpToRel
<1> HIDE DEF R
<1>3. PICK x \in T : \A y \in T : ~ (<<y, x>> \in R)
  BY <1>1, WFMin, Zenon
<1>4. ASSUME NEW y \in T PROVE x <= y
  <2>1. ~(y < x)
    BY <1>2, <1>3, Zenon
  <2> QED
    BY <2>1
<1> QED
  BY <1>4, Zenon

\* A set that has 0 and with every number its successor has all of them.
LEMMA SetInduction ==
  ASSUME NEW S, 0 \in S, \A n \in Nat : n \in S => n + 1 \in S
  PROVE  Nat \subseteq S
<1> DEFINE T == Nat \ S
<1> SUFFICES ASSUME T # {} PROVE FALSE
  BY Zenon
<1>1. PICK x \in T : \A y \in T : x <= y
  BY LeastNatural, Zenon
<1>2. x # 0 /\ x - 1 \in Nat /\ x - 1 \notin T /\ (x - 1) + 1 = x
  BY <1>1
<1> QED
  BY <1>1, <1>2, Zenon

\* The same up to a bound.
LEMMA BoundedInduction ==
  ASSUME NEW k \in Nat, NEW S, 0 \in S, \A n \in Nat : n < k /\ n \in S => n + 1 \in S
  PROVE  0..k \subseteq S
<1> DEFINE T == {n \in Nat : n <= k => n \in S}
<1>1. 0 \in T /\ \A n \in Nat : n \in T => n + 1 \in T
  OBVIOUS
<1>2. Nat \subseteq T
  <2> HIDE DEF T
  <2> QED
    BY <1>1, SetInduction, Zenon
<1> QED
  BY <1>2

--------------------------------------------------------------------------------
AllBlocks == {Block(i) : i \in Nat}

\* bc has the blocks a..t in memory, which is not more than memory allows.
Piece(bc, a, t) ==
  /\ bc.blocks = Window(a, t)
  /\ a..t \subseteq bc.transaction_index
  /\ bc.transaction_index \subseteq 0..t

Fits(a, t) == a \in Nat /\ t \in Nat /\ a <= t /\ t - a < max_blocks_in_memory

---------------------------------------------------------------------------------
LEMMA BlockFields ==
  ASSUME NEW i \in Int
  PROVE  /\ Block(i).index = i /\ Block(i).epoch = 0 /\ Block(i).slot = i
         /\ Block(i).hash = i /\ Block(i).parent_hash = i - 1 /\ Block(i).txs = {i}
  BY Zenon DEF Block

LEMMA FunctionIsSequence ==
  ASSUME NEW S, NEW n \in Nat, NEW w \in [1..n -> S]
  PROVE  w \in Seq(S) /\ Len(w) = n
<1>1. w \in Seq(S)
  OBVIOUS
<1> QED
  BY <1>1

LEMMA LeastIsMin ==
  ASSUME NEW S \in SUBSET Nat, NEW x \in S, \A y \in S : x <= y
  PROVE  Min(S) = x
<1>1. Min(S) \in S /\ \A y \in S : Min(S) <= y
  BY Zenon DEF Min
<1>2. Min(S) \in Nat /\ x \in Nat /\ Min(S) <= x /\ x <= Min(S)
  BY <1>1, Zenon
<1> QED
  BY <1>2

LEMMA WindowFacts ==
  ASSUME NEW a \in Nat, NEW t \in Nat, a <= t
  PROVE  /\ Window(a, t) \in Seq(AllBlocks)
         /\ Len(Window(a, t)) = t - a + 1
         /\ \A i \in 1..(t - a + 1) : Window(a, t)[i] = Block(a + i - 1)
         /\ Head(Window(a, t)) = Block(a)
         /\ Window(a, t)[Len(Window(a, t))] = Block(t)
         /\ Window(a, t) # <<>>
<1> DEFINE n == t - a + 1
           w == [i \in 1..n |-> Block(a + i - 1)]
<1>1. n \in Nat /\ n >= 1 /\ a + n - 1 = t /\ a + 1 - 1 = a
  OBVIOUS
<1>2. \A i \in 1..n : Block(a + i - 1) \in AllBlocks
  BY DEF AllBlocks
<1>3. w \in Seq(AllBlocks) /\ Len(w) = n
  <2> HIDE DEF n
  <2>1. w \in [1..n -> AllBlocks]
    BY <1>2, Zenon
  <2> QED
    BY <1>1, <2>1, FunctionIsSequence, Zenon
<1>4. \A i \in 1..n : w[i] = Block(a + i - 1)
  BY Zenon
<1>5. w[1] = Block(a) /\ w[n] = Block(t)
  BY <1>1, <1>4
<1>6. Window(a, t) = w
  BY Zenon DEF Window
<1> HIDE DEF w
<1>7. w # <<>> /\ Head(w) = w[1]
  BY <1>1, <1>3
<1> QED
  BY <1>1, <1>3, <1>4, <1>5, <1>6, <1>7, Zenon

\* Two sequences of blocks are equal when they have the same length and elements.
LEMMA SameSequence ==
  ASSUME NEW S, NEW s \in Seq(S), NEW u \in Seq(S), Len(s) = Len(u),
         \A i \in 1..Len(s) : s[i] = u[i]
  PROVE  s = u
  OBVIOUS

LEMMA AppendToWindow ==
  ASSUME NEW a \in Nat, NEW t \in Nat, a <= t
  PROVE  Append(Window(a, t), Block(t + 1)) = Window(a, t + 1)
<1> DEFINE s == Append(Window(a, t), Block(t + 1))
           u == Window(a, t + 1)
<1>1. /\ Window(a, t) \in Seq(AllBlocks) /\ Len(Window(a, t)) = t - a + 1
      /\ \A i \in 1..(t - a + 1) : Window(a, t)[i] = Block(a + i - 1)
  BY WindowFacts, Zenon
<1>2. /\ u \in Seq(AllBlocks) /\ Len(u) = t - a + 2
      /\ \A i \in 1..(t - a + 2) : u[i] = Block(a + i - 1)
  <2>1. t + 1 \in Nat /\ a <= t + 1 /\ (t + 1) - a + 1 = t - a + 2
    OBVIOUS
  <2> QED
    BY <2>1, WindowFacts
<1>3. Block(t + 1) \in AllBlocks
  BY DEF AllBlocks
<1>4. /\ s \in Seq(AllBlocks) /\ Len(s) = t - a + 2
      /\ \A i \in 1..(t - a + 1) : s[i] = Block(a + i - 1)
      /\ s[t - a + 2] = Block(t + 1)
  <2>1. s \in Seq(AllBlocks) /\ Len(s) = t - a + 2
    BY <1>1, <1>3
  <2>2. \A i \in 1..(t - a + 1) : s[i] = Window(a, t)[i]
    BY <1>1, <1>3
  <2>3. s[t - a + 2] = Block(t + 1)
    BY <1>1, <1>3
  <2> QED
    BY <1>1, <2>1, <2>2, <2>3, Zenon
<1> HIDE DEF s, u
<1>5. \A i \in 1..Len(s) : s[i] = u[i]
  <2>1. a + (t - a + 2) - 1 = t + 1
    OBVIOUS
  <2> QED
    BY <1>2, <1>4, <2>1
<1> QED
  BY <1>2, <1>4, <1>5, SameSequence, Zenon DEF s, u

LEMMA TailOfWindow ==
  ASSUME NEW a \in Nat, NEW t \in Nat, a < t
  PROVE  Tail(Window(a, t)) = Window(a + 1, t)
<1> DEFINE s == Tail(Window(a, t))
           u == Window(a + 1, t)
<1>1. /\ Window(a, t) \in Seq(AllBlocks) /\ Len(Window(a, t)) = t - a + 1
      /\ Window(a, t) # <<>>
      /\ \A i \in 1..(t - a + 1) : Window(a, t)[i] = Block(a + i - 1)
  BY WindowFacts
<1>2. /\ u \in Seq(AllBlocks) /\ Len(u) = t - a
      /\ \A i \in 1..(t - a) : u[i] = Block(a + i)
  <2>1. a + 1 \in Nat /\ a + 1 <= t /\ t - (a + 1) + 1 = t - a
    OBVIOUS
  <2>2. \A i \in 1..(t - a) : a + 1 + i - 1 = a + i
    OBVIOUS
  <2>3. /\ u \in Seq(AllBlocks) /\ Len(u) = t - (a + 1) + 1
        /\ \A i \in 1..(t - (a + 1) + 1) : u[i] = Block(a + 1 + i - 1)
    BY <2>1, WindowFacts, Zenon
  <2> QED
    BY <2>1, <2>2, <2>3, Zenon
<1>3. /\ s \in Seq(AllBlocks) /\ Len(s) = t - a
      /\ \A i \in 1..(t - a) : s[i] = Window(a, t)[i + 1]
  BY <1>1
<1> HIDE DEF s, u
<1>4. \A i \in 1..Len(s) : s[i] = u[i]
  <2>1. \A i \in 1..(t - a) : i + 1 \in 1..(t - a + 1) /\ a + (i + 1) - 1 = a + i
    OBVIOUS
  <2> QED
    BY <1>1, <1>2, <1>3, <2>1, Zenon
<1> QED
  BY <1>2, <1>3, <1>4, SameSequence, Zenon DEF s, u

LEMMA RangeOfWindow ==
  ASSUME NEW a \in Nat, NEW t \in Nat, a <= t
  PROVE  Range(Window(a, t)) = {Block(i) : i \in a..t}
<1> DEFINE w == Window(a, t)
<1>1. /\ w \in Seq(AllBlocks) /\ Len(w) = t - a + 1
      /\ \A i \in 1..(t - a + 1) : w[i] = Block(a + i - 1)
  BY WindowFacts, Zenon
<1> HIDE DEF w
<1>2. DOMAIN w = 1..(t - a + 1)
  BY <1>1
<1>3. \A i \in 1..(t - a + 1) : a + i - 1 \in a..t
  OBVIOUS
<1>4. \A i \in a..t : i - a + 1 \in 1..(t - a + 1) /\ a + (i - a + 1) - 1 = i
  OBVIOUS
<1>5. \A i \in a..t : w[i - a + 1] = Block(i)
  BY <1>1, <1>4, Zenon
<1> QED
  BY <1>1, <1>2, <1>3, <1>4, <1>5, SMTT(30) DEF Range, w

LEMMA SubWindow ==
  ASSUME NEW a \in Nat, NEW t \in Nat, NEW r \in Nat, a <= r, r <= t
  PROVE  SubSeq(Window(a, t), r - a + 1, t - a + 1) = Window(r, t)
<1> DEFINE w == Window(a, t)
           s == SubSeq(w, r - a + 1, t - a + 1)
           u == Window(r, t)
<1>0. a <= t
  OBVIOUS
<1>1. /\ w \in Seq(AllBlocks) /\ Len(w) = t - a + 1
      /\ \A i \in 1..(t - a + 1) : w[i] = Block(a + i - 1)
  BY <1>0, WindowFacts, Zenon
<1>2. /\ u \in Seq(AllBlocks) /\ Len(u) = t - r + 1
      /\ \A i \in 1..(t - r + 1) : u[i] = Block(r + i - 1)
  BY WindowFacts, Zenon
<1> HIDE DEF w, u
<1>3. /\ s \in Seq(AllBlocks) /\ Len(s) = t - r + 1
      /\ \A i \in 1..(t - r + 1) : s[i] = w[r - a + i]
  <2>1. r - a + 1 \in 1..Len(w) /\ t - a + 1 = Len(w)
    BY <1>1
  <2> QED
    BY <1>1, <2>1
<1> HIDE DEF s
<1>4. \A i \in 1..Len(s) : s[i] = u[i]
  <2>1. \A i \in 1..(t - r + 1) : r - a + i \in 1..(t - a + 1) /\ a + (r - a + i) - 1 = r + i - 1
    OBVIOUS
  <2> QED
    BY <1>1, <1>2, <1>3, <2>1, Zenon
<1> QED
  BY <1>2, <1>3, <1>4, SameSequence, Zenon DEF s, u, w

---------------------------------------------------------------------------------
LEMMA PieceTip ==
  ASSUME NEW bc, NEW a, NEW t, Fits(a, t), Piece(bc, a, t)
  PROVE  /\ get_last_block(bc) = Block(t) /\ get_last_index(bc) = t
         /\ Head(bc.blocks) = Block(a) /\ Head(bc.blocks).index = a
         /\ Len(bc.blocks) = t - a + 1 /\ bc.blocks # <<>>
<1>1. a \in Nat /\ t \in Nat /\ a <= t /\ bc.blocks = Window(a, t)
  BY Zenon DEF Fits, Piece
<1>2. /\ Len(bc.blocks) = t - a + 1 /\ Head(bc.blocks) = Block(a)
      /\ bc.blocks[Len(bc.blocks)] = Block(t) /\ bc.blocks # <<>>
  <2>1. /\ Len(Window(a, t)) = t - a + 1 /\ Head(Window(a, t)) = Block(a)
        /\ Window(a, t)[Len(Window(a, t))] = Block(t) /\ Window(a, t) # <<>>
    BY <1>1, WindowFacts, Zenon
  <2> QED
    BY <1>1, <2>1, Zenon
<1>3. Block(t).index = t /\ Block(a).index = a
  BY <1>1, BlockFields
<1> QED
  BY <1>2, <1>3, Zenon DEF get_last_block, get_last_index

\* Which canonical blocks add_block accepts: the next one.
LEMMA AddBlockVerdict ==
  ASSUME NEW bc, NEW a, NEW t, Fits(a, t), Piece(bc, a, t), NEW i \in Nat
  PROVE  add_block_error(bc, Block(i)) =
           IF i <= t THEN "IndexTooSmall" ELSE IF i = t + 1 THEN "Ok" ELSE "ParentHashMismatch"
<1>1. bc.blocks # <<>> /\ get_last_block(bc) = Block(t)
  BY PieceTip, Zenon
<1>2. t \in Nat /\ bc.transaction_index \subseteq 0..t
  BY Zenon DEF Fits, Piece
<1>3. /\ Block(i).index = i /\ Block(i).epoch = 0 /\ Block(i).slot = i
      /\ Block(i).hash = i /\ Block(i).parent_hash = i - 1 /\ Block(i).txs = {i}
      /\ Block(t).index = t /\ Block(t).epoch = 0 /\ Block(t).slot = t /\ Block(t).hash = t
  BY <1>2, BlockFields
<1>4. i = t + 1 => {i} \cap bc.transaction_index = {}
  BY <1>2
<1> QED
  BY <1>1, <1>2, <1>3, <1>4 DEF add_block_error

\* Adding the next block moves the piece, which pruning keeps within memory.
LEMMA AddBlockPiece ==
  ASSUME NEW bc, NEW a, NEW t, Fits(a, t), Piece(bc, a, t)
  PROVE  \E b \in Nat : Fits(b, t + 1) /\ Piece(add_block(bc, Block(t + 1)), b, t + 1)
<1> DEFINE new_bc == add_block(bc, Block(t + 1))
           b == IF t + 1 - a < max_blocks_in_memory THEN a ELSE a + 1
<1>1. /\ a \in Nat /\ t \in Nat /\ a <= t /\ t - a < max_blocks_in_memory
      /\ bc.blocks = Window(a, t) /\ a..t \subseteq bc.transaction_index
      /\ bc.transaction_index \subseteq 0..t /\ max_blocks_in_memory \in Nat \ {0}
  BY MaxBlocksAssumption, Zenon DEF Fits, Piece
<1>2. b \in Nat /\ Fits(b, t + 1) /\ a <= b
  BY <1>1 DEF Fits
<1>3. Append(bc.blocks, Block(t + 1)) = Window(a, t + 1)
  BY <1>1, AppendToWindow, Zenon
<1>4. Len(Window(a, t + 1)) = t + 1 - a + 1
  <2>1. t + 1 \in Nat /\ a <= t + 1
    BY <1>1
  <2> QED
    BY <1>1, <2>1, WindowFacts
<1>5. Tail(Window(a, t + 1)) = Window(a + 1, t + 1)
  <2>1. t + 1 \in Nat /\ a < t + 1
    BY <1>1
  <2> QED
    BY <1>1, <2>1, TailOfWindow, Zenon
<1>6. Prune(Window(a, t + 1)) = Window(b, t + 1)
  <2>1. t + 1 - a + 1 > max_blocks_in_memory <=> b = a + 1
    BY <1>1
  <2>2. b = a \/ b = a + 1
    BY Zenon
  <2> HIDE DEF b
  <2>3. a # a + 1
    BY <1>1
  <2> QED
    BY <1>4, <1>5, <2>1, <2>2, <2>3, Zenon DEF Prune
<1>7. new_bc.blocks = Window(b, t + 1)
  BY <1>3, <1>6, Zenon DEF add_block
<1>8. new_bc.transaction_index = bc.transaction_index \cup {t + 1}
  <2>1. Block(t + 1).txs = {t + 1}
    BY <1>1, BlockFields
  <2> QED
    BY <2>1, Zenon DEF add_block
<1>9. /\ b..(t + 1) \subseteq new_bc.transaction_index
      /\ new_bc.transaction_index \subseteq 0..(t + 1)
  BY <1>1, <1>2, <1>8
<1> HIDE DEF b, new_bc
<1> QED
  BY <1>2, <1>7, <1>9, Zenon DEF Piece, new_bc

\* A chain made of a window has exactly its transactions.
LEMMA SnapshotPiece ==
  ASSUME NEW a, NEW t, Fits(a, t)
  PROVE  Piece(replace_local_chain_with_snapshot(Window(a, t)), a, t)
<1> DEFINE w == Window(a, t)
           bc == replace_local_chain_with_snapshot(w)
<1>1. a \in Nat /\ t \in Nat /\ a <= t
  BY Zenon DEF Fits
<1>3. bc.blocks = w /\ bc.transaction_index = UNION {b.txs : b \in Range(w)}
  BY Zenon DEF replace_local_chain_with_snapshot
<1> HIDE DEF w
<1>4. Range(w) = {Block(i) : i \in a..t}
  BY <1>1, RangeOfWindow, Zenon DEF w
<1>5. \A i \in a..t : Block(i).txs = {i}
  BY <1>1, BlockFields
<1>6. UNION {b.txs : b \in Range(w)} = a..t
  BY <1>4, <1>5
<1>7. a..t \subseteq 0..t
  BY <1>1
<1> QED
  BY <1>3, <1>6, <1>7, Zenon DEF Piece, w

\* AddAll on the blocks that follow the chain adds all of them.
LEMMA AddAllPiece ==
  ASSUME NEW bc, NEW a, NEW t, Fits(a, t), Piece(bc, a, t), NEW h \in Nat, t < h
  PROVE  \E b \in Nat : Fits(b, h) /\ Piece(AddAll(bc, Window(t + 1, h)), b, h)
<1> DEFINE w == Window(t + 1, h)
           n == h - t
           next(acc, b) == IF add_block_error(acc, b) = "Ok" THEN add_block(acc, b) ELSE acc
           Step(f) == [i \in 0..Len(w) |-> IF i = 0 THEN bc ELSE next(f[i - 1], w[i])]
           chain == CHOOSE f : f = Step(f)
<1>1. a \in Nat /\ t \in Nat /\ a <= t /\ n \in Nat /\ t + n = h
  BY DEF Fits
<1>2. Len(w) = n /\ \A i \in 1..n : w[i] = Block(t + i)
  <2>1. t + 1 \in Nat /\ t + 1 <= h /\ h - (t + 1) + 1 = n
    BY <1>1
  <2>2. Len(w) = h - (t + 1) + 1 /\ \A i \in 1..(h - (t + 1) + 1) : w[i] = Block(t + 1 + i - 1)
    BY <2>1, WindowFacts, Zenon
  <2>3. \A i \in 1..n : t + 1 + i - 1 = t + i
    BY <1>1
  <2> QED
    BY <2>1, <2>2, <2>3, Zenon
<1>3. AddAll(bc, w) = chain[Len(w)]
  BY Zenon DEF AddAll
\* The recursive function exists: it is built up index by index.
<1>4. chain = Step(chain)
  <2> DEFINE Upto(k, f) == f = [i \in 0..k |-> IF i = 0 THEN bc ELSE next(f[i - 1], w[i])]
             K == {k \in Nat : \E f : Upto(k, f)}
  <2> HIDE DEF next, w
  <2>1. 0 \in K
    <3>1. Upto(0, [i \in 0..0 |-> bc])
      BY \A i \in 0..0 : i = 0, Zenon
    <3> QED
      BY <3>1, Zenon
  <2>2. ASSUME NEW k \in Nat, k \in K PROVE k + 1 \in K
    <3>1. PICK f : Upto(k, f)
      BY <2>2, Zenon
    <3> DEFINE g == [i \in 0..(k + 1) |-> IF i = 0 THEN bc ELSE next(f[i - 1], w[i])]
    <3>2. \A i \in 0..k : g[i] = f[i]
      <4>1. \A i \in 0..k : i \in 0..(k + 1)
        OBVIOUS
      <4>2. \A i \in 0..k : f[i] = IF i = 0 THEN bc ELSE next(f[i - 1], w[i])
        BY <3>1, Zenon
      <4> QED
        BY <4>1, <4>2, Zenon
    <3>3. \A i \in 0..(k + 1) : i # 0 => i - 1 \in 0..k
      OBVIOUS
    <3>4. \A i \in 0..(k + 1) : i # 0 => g[i - 1] = f[i - 1]
      BY <3>2, <3>3, Zenon
    <3>5. Upto(k + 1, g)
      BY <3>4, Zenon
    <3>6. k + 1 \in Nat
      OBVIOUS
    <3> HIDE DEF g, Upto
    <3> QED
      BY <3>5, <3>6, Zenon
  <2>3. n \in K
    <3> HIDE DEF K
    <3> QED
      BY <1>1, <2>1, <2>2, SetInduction, Zenon
  <2>4. \E f : f = Step(f)
    BY <1>2, <2>3, Zenon
  <2> QED
    BY <2>4, Zenon
<1>5. chain[0] = bc /\ \A i \in 1..n : chain[i] = next(chain[i - 1], Block(t + i))
  <2> HIDE DEF next, chain, w, n
  <2>1. \A i \in 1..n : i \in 0..n /\ i # 0
    BY <1>1
  <2> QED
    BY <1>1, <1>2, <1>4, <2>1
<1> DEFINE I == {i \in 0..n : \E b \in Nat : Fits(b, t + i) /\ Piece(chain[i], b, t + i)}
<1>6. 0 \in I
  <2>1. t + 0 = t /\ 0 \in 0..n
    BY <1>1
  <2> QED
    BY <1>1, <1>5, <2>1, Zenon
<1>7. ASSUME NEW i \in Nat, i < n, i \in I PROVE i + 1 \in I
  <2>1. PICK b \in Nat : Fits(b, t + i) /\ Piece(chain[i], b, t + i)
    BY <1>7, Zenon
  <2>2. /\ i + 1 \in 1..n /\ i + 1 \in 0..n /\ (i + 1) - 1 = i
        /\ t + i \in Nat /\ t + (i + 1) \in Nat /\ t + (i + 1) = (t + i) + 1 /\ ~((t + i) + 1 <= t + i)
    BY <1>1, <1>7
  <2>3. chain[i + 1] = next(chain[i], Block(t + (i + 1)))
    BY <1>5, <2>2
  <2>4. add_block_error(chain[i], Block((t + i) + 1)) = "Ok"
    BY <2>1, <2>2, AddBlockVerdict
  <2>5. chain[i + 1] = add_block(chain[i], Block((t + i) + 1))
    BY <2>2, <2>3, <2>4, Zenon
  <2> HIDE DEF chain, n
  <2>6. \E c \in Nat : Fits(c, (t + i) + 1) /\ Piece(chain[i + 1], c, (t + i) + 1)
    BY <2>1, <2>5, AddBlockPiece, Zenon
  <2> QED
    BY <2>2, <2>6, Zenon
<1>8. n \in I
  <2> HIDE DEF I, n
  <2>1. 0..n \subseteq I
    BY <1>1, <1>6, <1>7, BoundedInduction, Zenon
  <2> QED
    BY <1>1, <2>1
<1> QED
  BY <1>1, <1>2, <1>3, <1>8, Zenon

\* What a neighbour's response that is ahead makes of the chain: its last block is
\* the new tip.  The blocks of both agree where they overlap, so nothing is cut off.
LEMMA ResyncPiece ==
  ASSUME NEW bc, NEW a, NEW t, Fits(a, t), Piece(bc, a, t),
         NEW lo, NEW hi, Fits(lo, hi), t < hi
  PROVE  \E b \in Nat : Fits(b, hi) /\ Piece(Resync(bc, Window(lo, hi)), b, hi)
<1> DEFINE w == Window(lo, hi)
           local(b)   == {l \in Range(bc.blocks) : l.index = b.index}
           diverges(b) == \E l \in local(b) : l.hash # b.hash
           extends(b)  == local(b) = {} /\ b.index > t
           starts == {i \in DOMAIN w : diverges(w[i]) \/ extends(w[i])}
           first == t - lo + 2
<1>1. /\ a \in Nat /\ t \in Nat /\ a <= t /\ lo \in Nat /\ hi \in Nat /\ lo <= hi
      /\ bc.blocks = Window(a, t) /\ get_last_index(bc) = t
  BY PieceTip, Zenon DEF Fits, Piece
<1>2. /\ w \in Seq(AllBlocks) /\ Len(w) = hi - lo + 1 /\ Head(w) = Block(lo)
      /\ \A i \in 1..(hi - lo + 1) : w[i] = Block(lo + i - 1)
  BY <1>1, WindowFacts, Zenon
<1>3. Block(lo).index = lo /\ \A i \in Int : Block(i).index = i /\ Block(i).hash = i
  BY <1>1, BlockFields
<1>4. CASE t + 1 < lo
  <2>1. Resync(bc, w) = replace_local_chain_with_snapshot(w)
    BY <1>1, <1>2, <1>3, <1>4, Zenon DEF Resync
  <2> QED
    BY <1>1, <2>1, SnapshotPiece, Zenon
<1>5. CASE ~(t + 1 < lo)
  <2>1. Range(bc.blocks) = {Block(i) : i \in a..t}
    BY <1>1, RangeOfWindow, Zenon
  <2>2. ASSUME NEW i \in 1..(hi - lo + 1)
        PROVE  ~diverges(w[i]) /\ (extends(w[i]) <=> lo + i - 1 > t)
    <3>1. w[i] = Block(lo + i - 1) /\ w[i].index = lo + i - 1 /\ w[i].hash = lo + i - 1
      <4>1. lo + i - 1 \in Int /\ w[i] = Block(lo + i - 1)
        BY <1>1, <1>2
      <4> HIDE DEF w
      <4> QED
        BY <1>3, <4>1, Zenon
    <3>2. \A l \in Range(bc.blocks) : l.index \in a..t /\ l.hash = l.index
      BY <1>1, <1>3, <2>1
    <3> QED
      BY <1>1, <3>1, <3>2
  <2>3. starts = {i \in 1..(hi - lo + 1) : lo + i - 1 > t}
    <3>1. DOMAIN w = 1..(hi - lo + 1)
      BY <1>2
    <3> HIDE DEF w, diverges, extends
    <3> QED
      BY <2>2, <3>1, Zenon
  <2>4. first \in starts /\ \A i \in starts : first <= i
    BY <1>1, <1>5, <2>3
  <2>5. Min(starts) = first
    <3>1. first \in Nat /\ \A i \in starts : i \in Nat
      BY <1>1, <1>5, <2>3
    <3> HIDE DEF starts, first
    <3> QED
      BY <2>4, <3>1, LeastIsMin, Zenon
  <2>6. ~diverges(w[first])
    BY <2>2, <2>3, <2>4, Zenon
  <2>7. Resync(bc, w) = AddAll(bc, SubSeq(w, first, Len(w)))
    <3>1. starts # {}
      BY <2>4, Zenon
    <3>2. /\ get_last_index(bc) = t
          /\ ~(t + 1 < Head(w).index)
      BY <1>1, <1>2, <1>3, <1>5, Zenon
    <3> QED
      BY <2>5, <2>6, <3>1, <3>2, Zenon DEF Resync
  <2>8. SubSeq(w, first, Len(w)) = Window(t + 1, hi)
    <3>1. t + 1 \in Nat /\ lo <= t + 1 /\ t + 1 <= hi /\ first = (t + 1) - lo + 1
      BY <1>1, <1>5
    <3>2. SubSeq(w, (t + 1) - lo + 1, hi - lo + 1) = Window(t + 1, hi)
      BY <1>1, <3>1, SubWindow, Zenon
    <3> QED
      BY <1>2, <3>1, <3>2, Zenon
  <2>9. \E b \in Nat : Fits(b, hi) /\ Piece(AddAll(bc, Window(t + 1, hi)), b, hi)
    BY <1>1, AddAllPiece, Zenon
  <2> QED
    BY <2>7, <2>8, <2>9, Zenon
<1> QED
  BY <1>4, <1>5, Zenon

---------------------------------------------------------------------------------
(* The inductive invariant. *)

\* The windows of the canonical chain with tip h that fit into memory.
Windows(h) == UNION {{Window(a, t) : a \in {a \in 0..t : Fits(a, t)}} : t \in 0..h}

\* What nodes send each other, and the blocks sent in the name of their miner.
PeerMessage(h) ==
  {SendBlock(Block(i), f) : i \in 0..h, f \in Node}
    \cup {RequestBlockSync(i, f) : i \in Nat, f \in Node}
    \cup {ResponseBlockSync(w, f) : w \in Windows(h), f \in Node}

\* What a channel of a node may hold.
Message(h) ==
  PeerMessage(h) \cup {ResponseBlockSync(w, world_state) : w \in Windows(h)}
    \cup {UpdateSlot(e) : e \in Nat}

Request == {RequestBlockSync(i, f) : i \in Nat, f \in Node}

Sender == Node \cup {world_state}

IsSnapshot(m) == m.type = "ResponseBlockSync" /\ m.from = world_state

\* The tip a message can bring a node to.
Reach(m) ==
  IF m.type = "SendBlock" THEN m.block.index
  ELSE IF m.type = "ResponseBlockSync" THEN m.blocks[Len(m.blocks)].index ELSE 0

\* A snapshot in the queue q of a node with the given tip is behind neither the tip
\* nor anything that precedes it in the queue.
SnapshotsAhead(q, tip) ==
  \A i \in 1..Len(q) : IsSnapshot(q[i]) =>
    tip <= Reach(q[i]) /\ \A j \in 1..Len(q) : j < i => Reach(q[j]) <= Reach(q[i])

\* The slot changes in the queue q of a node in epoch e are in order.
EpochsInOrder(q, e, now) ==
  \A i \in 1..Len(q) : q[i].type = "UpdateSlot" =>
    /\ e <= q[i].current_epoch /\ q[i].current_epoch <= now
    /\ \A j \in 1..Len(q) : j < i /\ q[j].type = "UpdateSlot" =>
         q[j].current_epoch <= q[i].current_epoch

Top == get_last_index(canonical)

WorldInv ==
  /\ slot \in 0..MaxSlot
  /\ \E a \in Nat, h \in Nat : Fits(a, h) /\ Piece(canonical, a, h)

ChainInv ==
  /\ DOMAIN blockchain = Node
  /\ \A n \in Node : \E a \in Nat, t \in Nat :
       Fits(a, t) /\ t <= Top /\ Piece(blockchain[n], a, t)
  /\ sync_in_progress \in [Node -> BOOLEAN]

NetworkInv ==
  /\ inbox \in [Node -> Seq(Message(Top))]
  /\ \A n \in Node : Len(inbox[n]) <= node_capacity
  /\ world_inbox \in Seq(Request) /\ Len(world_inbox) <= world_capacity
  /\ IsABag(tasks) /\ DOMAIN tasks \subseteq Node \X PeerMessage(Top)

OrderInv == \A n \in Node : SnapshotsAhead(inbox[n], Tip(n))

ClockInv ==
  /\ epoch \in [Node -> Nat]
  /\ offline_until_epoch \in [Node -> Int]
  /\ \A n \in Node : offline_until_epoch[n] \in
       {NoEpoch} \cup (IF n \in Unstable THEN {epoch[n] + 1} ELSE {})
  /\ \A n \in Node : EpochsInOrder(inbox[n], epoch[n], EpochOf(slot))
  /\ \A n \in Node : epoch[n] <= EpochOf(slot)

Inv == WorldInv /\ ChainInv /\ NetworkInv /\ OrderInv /\ ClockInv

---------------------------------------------------------------------------------
(* Messages. *)

LEMMA WindowsFacts ==
  ASSUME NEW h \in Nat, NEW w \in Windows(h)
  PROVE  \E a \in Nat, t \in Nat : Fits(a, t) /\ t <= h /\ w = Window(a, t)
  BY DEF Windows

LEMMA WindowIsWindow ==
  ASSUME NEW h \in Nat, NEW a, NEW t, Fits(a, t), t <= h
  PROVE  Window(a, t) \in Windows(h)
<1>1. t \in 0..h /\ a \in {b \in 0..t : Fits(b, t)}
  BY DEF Fits
<1> QED
  BY <1>1 DEF Windows

\* What the type of a message says about the rest of it.
LEMMA MessageCases ==
  ASSUME NEW h \in Nat, NEW m \in Message(h)
  PROVE  /\ m.type = "SendBlock" =>
              \E i \in 0..h, f \in Node : m = SendBlock(Block(i), f)
         /\ m.type = "RequestBlockSync" =>
              m.last_block_index \in Nat /\ m.from \in Node
         /\ m.type = "ResponseBlockSync" =>
              \E a \in Nat, t \in Nat, f \in Sender :
                Fits(a, t) /\ t <= h /\ m = ResponseBlockSync(Window(a, t), f)
         /\ m.type = "UpdateSlot" => m.current_epoch \in Nat
<1>1. CASE \E i \in 0..h, f \in Node : m = SendBlock(Block(i), f)
  BY <1>1 DEF SendBlock
<1>2. CASE \E i \in Nat, f \in Node : m = RequestBlockSync(i, f)
  BY <1>2 DEF RequestBlockSync
<1>3. CASE \E w \in Windows(h), f \in Sender : m = ResponseBlockSync(w, f)
  <2>1. PICK w \in Windows(h), f \in Sender : m = ResponseBlockSync(w, f)
    BY <1>3, Zenon
  <2>2. PICK a \in Nat, t \in Nat : Fits(a, t) /\ t <= h /\ w = Window(a, t)
    BY WindowsFacts, Zenon
  <2>3. m.type = "ResponseBlockSync"
    BY <2>1, Zenon DEF ResponseBlockSync
  <2> QED
    BY <2>1, <2>2, <2>3, Zenon
<1>4. CASE \E e \in Nat : m = UpdateSlot(e)
  BY <1>4 DEF UpdateSlot
<1> QED
  BY <1>1, <1>2, <1>3, <1>4 DEF Message, PeerMessage, Sender

LEMMA ReachOfBlock ==
  ASSUME NEW i \in Nat, NEW f
  PROVE  /\ Reach(SendBlock(Block(i), f)) = i
         /\ ~IsSnapshot(SendBlock(Block(i), f))
         /\ SendBlock(Block(i), f).type = "SendBlock"
         /\ SendBlock(Block(i), f).block = Block(i)
         /\ SendBlock(Block(i), f).from = f
<1>1. Block(i).index = i
  BY BlockFields
<1> QED
  BY <1>1, Zenon DEF Reach, IsSnapshot, SendBlock

LEMMA ReachOfResponse ==
  ASSUME NEW a, NEW t, Fits(a, t), NEW f
  PROVE  LET m == ResponseBlockSync(Window(a, t), f)
         IN  /\ Reach(m) = t /\ m.blocks = Window(a, t)
             /\ m.blocks[Len(m.blocks)].index = t
             /\ m.from = f /\ m.type = "ResponseBlockSync"
<1> DEFINE m == ResponseBlockSync(Window(a, t), f)
<1>1. a \in Nat /\ t \in Nat /\ a <= t
  BY DEF Fits
<1>2. Window(a, t)[Len(Window(a, t))] = Block(t)
  BY <1>1, WindowFacts, Zenon
<1>3. Block(t).index = t
  BY <1>1, BlockFields
<1>4. m.blocks = Window(a, t) /\ m.from = f /\ m.type = "ResponseBlockSync"
  BY Zenon DEF ResponseBlockSync
<1> HIDE DEF m
<1> QED
  BY <1>2, <1>3, <1>4, Zenon DEF Reach, m

\* No message leads beyond the canonical tip.
LEMMA ReachBounded ==
  ASSUME NEW h \in Nat, NEW m \in Message(h)
  PROVE  Reach(m) \in Nat /\ Reach(m) <= h
<1>1. CASE m.type = "SendBlock"
  <2>1. PICK i \in 0..h, f \in Node : m = SendBlock(Block(i), f)
    BY <1>1, MessageCases, Zenon
  <2> QED
    BY <2>1, ReachOfBlock
<1>2. CASE m.type = "ResponseBlockSync"
  <2>1. PICK a \in Nat, t \in Nat, f \in Sender :
          Fits(a, t) /\ t <= h /\ m = ResponseBlockSync(Window(a, t), f)
    BY <1>2, MessageCases, Zenon
  <2>2. Reach(m) = t
    BY <2>1, ReachOfResponse
  <2> QED
    BY <2>1, <2>2, Zenon
<1>3. CASE m.type # "SendBlock" /\ m.type # "ResponseBlockSync"
  BY <1>3 DEF Reach
<1> QED
  BY <1>1, <1>2, <1>3, Zenon

LEMMA MoreMessages ==
  ASSUME NEW h \in Nat
  PROVE  PeerMessage(h) \subseteq PeerMessage(h + 1) /\ Message(h) \subseteq Message(h + 1)
<1>1. 0..h \subseteq 0..(h + 1)
  OBVIOUS
<1>2. Windows(h) \subseteq Windows(h + 1)
  BY <1>1, Zenon DEF Windows
<1>3. PeerMessage(h) \subseteq PeerMessage(h + 1)
  <2>1. ASSUME NEW i \in 0..h, NEW f \in Node
        PROVE  SendBlock(Block(i), f) \in PeerMessage(h + 1)
    BY <1>1 DEF PeerMessage
  <2>2. ASSUME NEW w \in Windows(h), NEW f \in Node
        PROVE  ResponseBlockSync(w, f) \in PeerMessage(h + 1)
    BY <1>2 DEF PeerMessage
  <2>3. ASSUME NEW i \in Nat, NEW f \in Node
        PROVE  RequestBlockSync(i, f) \in PeerMessage(h + 1)
    BY DEF PeerMessage
  <2> QED
    BY <2>1, <2>2, <2>3 DEF PeerMessage
<1> QED
  BY <1>2, <1>3, Zenon DEF Message

LEMMA PeerMessages ==
  ASSUME NEW h, NEW m \in PeerMessage(h)
  PROVE  m \in Message(h) /\ ~IsSnapshot(m) /\ m.type # "UpdateSlot"
<1>1. m \in Message(h)
  BY Zenon DEF Message
<1>2. CASE \E i \in 0..h, f \in Node : m = SendBlock(Block(i), f)
  BY <1>1, <1>2 DEF SendBlock, IsSnapshot
<1>3. CASE \E i \in Nat, f \in Node : m = RequestBlockSync(i, f)
  BY <1>1, <1>3 DEF RequestBlockSync, IsSnapshot
<1>4. CASE \E w \in Windows(h), f \in Node : m = ResponseBlockSync(w, f)
  BY <1>1, <1>4, SenderAssumption DEF ResponseBlockSync, IsSnapshot
<1> QED
  BY <1>1, <1>2, <1>3, <1>4 DEF PeerMessage

---------------------------------------------------------------------------------
(* Queues. *)

LEMMA QueueTail ==
  ASSUME NEW S, NEW q \in Seq(S), q # <<>>
  PROVE  /\ Head(q) = q[1] /\ Head(q) \in S /\ Tail(q) \in Seq(S)
         /\ Len(q) \in Nat \ {0} /\ Len(Tail(q)) = Len(q) - 1
         /\ \A i \in 1..Len(Tail(q)) : i + 1 \in 1..Len(q) /\ Tail(q)[i] = q[i + 1]
  OBVIOUS

LEMMA QueueAppend ==
  ASSUME NEW S, NEW q \in Seq(S), NEW m \in S
  PROVE  /\ Append(q, m) \in Seq(S) /\ Len(q) \in Nat /\ Len(Append(q, m)) = Len(q) + 1
         /\ Append(q, m)[Len(q) + 1] = m
         /\ \A i \in 1..Len(q) : Append(q, m)[i] = q[i]
  OBVIOUS

\* Handling the first message brings the node at most to where that message leads,
\* and a snapshot behind it leads at least as far.
LEMMA SnapshotsTail ==
  ASSUME NEW h \in Nat, NEW q \in Seq(Message(h)), q # <<>>, NEW tip \in Nat, NEW tip2 \in Nat,
         SnapshotsAhead(q, tip), tip2 <= tip \/ tip2 <= Reach(Head(q))
  PROVE  SnapshotsAhead(Tail(q), tip2)
<1> DEFINE r == Tail(q)
<1>1. /\ Head(q) = q[1] /\ Head(q) \in Message(h) /\ Len(q) \in Nat \ {0} /\ Len(r) = Len(q) - 1
      /\ \A i \in 1..Len(r) : i + 1 \in 1..Len(q) /\ r[i] = q[i + 1]
  BY QueueTail, Zenon
<1> SUFFICES ASSUME NEW i \in 1..Len(r), IsSnapshot(r[i])
             PROVE  tip2 <= Reach(r[i]) /\ \A j \in 1..Len(r) : j < i => Reach(r[j]) <= Reach(r[i])
  BY Zenon DEF SnapshotsAhead
<1> HIDE DEF r
<1>2. i + 1 \in 1..Len(q) /\ r[i] = q[i + 1] /\ IsSnapshot(q[i + 1])
  BY <1>1, Zenon
<1>3. tip <= Reach(q[i + 1]) /\ \A j \in 1..Len(q) : j < i + 1 => Reach(q[j]) <= Reach(q[i + 1])
  BY <1>2, Zenon DEF SnapshotsAhead
<1>4. Reach(q[1]) <= Reach(q[i + 1])
  BY <1>1, <1>3
<1>5. Reach(q[1]) \in Nat /\ Reach(q[i + 1]) \in Nat
  <2>1. q[1] \in Message(h) /\ q[i + 1] \in Message(h)
    BY <1>1, <1>2
  <2> QED
    BY <2>1, ReachBounded, Zenon
<1>6. tip2 <= Reach(r[i])
  BY <1>1, <1>2, <1>3, <1>4, <1>5
<1>7. \A j \in 1..Len(r) : j < i => j + 1 \in 1..Len(q) /\ j + 1 < i + 1 /\ r[j] = q[j + 1]
  BY <1>1
<1> QED
  BY <1>2, <1>3, <1>6, <1>7, Zenon

\* A message queued last may be a snapshot if it leads at least as far as all others.
LEMMA SnapshotsAppend ==
  ASSUME NEW h \in Nat, NEW q \in Seq(Message(h)), NEW m \in Message(h), NEW tip \in Nat,
         SnapshotsAhead(q, tip),
         IsSnapshot(m) => tip <= h /\ Reach(m) = h
  PROVE  SnapshotsAhead(Append(q, m), tip)
<1> DEFINE r == Append(q, m)
<1>1. /\ Len(q) \in Nat /\ Len(r) = Len(q) + 1 /\ r[Len(q) + 1] = m
      /\ \A i \in 1..Len(q) : r[i] = q[i]
  BY QueueAppend
<1> SUFFICES ASSUME NEW i \in 1..Len(r), IsSnapshot(r[i])
             PROVE  tip <= Reach(r[i]) /\ \A j \in 1..Len(r) : j < i => Reach(r[j]) <= Reach(r[i])
  BY Zenon DEF SnapshotsAhead
<1> HIDE DEF r
<1>2. \A j \in 1..Len(r) : j < i => j \in 1..Len(q) /\ r[j] = q[j]
  BY <1>1
<1>3. CASE i \in 1..Len(q)
  <2>1. IsSnapshot(q[i]) /\ r[i] = q[i]
    BY <1>1, <1>3, Zenon
  <2>2. tip <= Reach(q[i]) /\ \A j \in 1..Len(q) : j < i => Reach(q[j]) <= Reach(q[i])
    BY <1>3, <2>1, Zenon DEF SnapshotsAhead
  <2> QED
    BY <1>2, <2>1, <2>2, Zenon
<1>4. CASE i = Len(q) + 1
  <2>1. r[i] = m /\ tip <= h /\ Reach(m) = h
    BY <1>1, <1>4, Zenon
  <2>2. \A j \in 1..Len(q) : Reach(q[j]) <= h
    <3>1. \A j \in 1..Len(q) : q[j] \in Message(h)
      OBVIOUS
    <3> QED
      BY <3>1, ReachBounded, Zenon
  <2> QED
    BY <1>2, <2>1, <2>2, Zenon
<1> QED
  BY <1>1, <1>3, <1>4

LEMMA EpochsTail ==
  ASSUME NEW h \in Nat, NEW q \in Seq(Message(h)), q # <<>>, NEW e, NEW e2, NEW now,
         EpochsInOrder(q, e, now),
         e2 = e \/ (Head(q).type = "UpdateSlot" /\ e2 = Head(q).current_epoch)
  PROVE  EpochsInOrder(Tail(q), e2, now)
<1> DEFINE r == Tail(q)
<1>1. /\ Head(q) = q[1] /\ Len(q) \in Nat \ {0} /\ Len(r) = Len(q) - 1
      /\ \A i \in 1..Len(r) : i + 1 \in 1..Len(q) /\ r[i] = q[i + 1]
  BY QueueTail, Zenon
<1> SUFFICES ASSUME NEW i \in 1..Len(r), r[i].type = "UpdateSlot"
             PROVE  /\ e2 <= r[i].current_epoch /\ r[i].current_epoch <= now
                    /\ \A j \in 1..Len(r) : j < i /\ r[j].type = "UpdateSlot" =>
                         r[j].current_epoch <= r[i].current_epoch
  BY Zenon DEF EpochsInOrder
<1> HIDE DEF r
<1>2. i + 1 \in 1..Len(q) /\ r[i] = q[i + 1] /\ 1 < i + 1 /\ 1 \in 1..Len(q)
  BY <1>1
<1>3. /\ e <= q[i + 1].current_epoch /\ q[i + 1].current_epoch <= now
      /\ \A j \in 1..Len(q) : j < i + 1 /\ q[j].type = "UpdateSlot" =>
           q[j].current_epoch <= q[i + 1].current_epoch
  BY <1>2, Zenon DEF EpochsInOrder
<1>4. e2 <= q[i + 1].current_epoch
  BY <1>1, <1>2, <1>3, Zenon
<1>5. \A j \in 1..Len(r) : j < i => j + 1 \in 1..Len(q) /\ j + 1 < i + 1 /\ r[j] = q[j + 1]
  BY <1>1
<1> QED
  BY <1>2, <1>3, <1>4, <1>5, Zenon

LEMMA EpochsAppend ==
  ASSUME NEW h \in Nat, NEW q \in Seq(Message(h)), NEW m \in Message(h), NEW e, NEW now,
         EpochsInOrder(q, e, now),
         m.type = "UpdateSlot" => m.current_epoch = now /\ e <= now /\ now \in Nat
  PROVE  EpochsInOrder(Append(q, m), e, now)
<1> DEFINE r == Append(q, m)
<1>1. /\ Len(q) \in Nat /\ Len(r) = Len(q) + 1 /\ r[Len(q) + 1] = m
      /\ \A i \in 1..Len(q) : r[i] = q[i]
  BY QueueAppend
<1> SUFFICES ASSUME NEW i \in 1..Len(r), r[i].type = "UpdateSlot"
             PROVE  /\ e <= r[i].current_epoch /\ r[i].current_epoch <= now
                    /\ \A j \in 1..Len(r) : j < i /\ r[j].type = "UpdateSlot" =>
                         r[j].current_epoch <= r[i].current_epoch
  BY Zenon DEF EpochsInOrder
<1> HIDE DEF r
<1>2. \A j \in 1..Len(r) : j < i => j \in 1..Len(q) /\ r[j] = q[j]
  BY <1>1
<1>3. CASE i \in 1..Len(q)
  <2>1. q[i].type = "UpdateSlot" /\ r[i] = q[i]
    BY <1>1, <1>3, Zenon
  <2>2. /\ e <= q[i].current_epoch /\ q[i].current_epoch <= now
        /\ \A j \in 1..Len(q) : j < i /\ q[j].type = "UpdateSlot" =>
             q[j].current_epoch <= q[i].current_epoch
    BY <1>3, <2>1, Zenon DEF EpochsInOrder
  <2> QED
    BY <1>2, <2>1, <2>2, Zenon
<1>4. CASE i = Len(q) + 1
  <2>1. r[i] = m /\ m.current_epoch = now /\ e <= now /\ now \in Nat
    BY <1>1, <1>4, Zenon
  <2>2. \A j \in 1..Len(q) : q[j].type = "UpdateSlot" => q[j].current_epoch <= now
    BY Zenon DEF EpochsInOrder
  <2> QED
    BY <1>2, <2>1, <2>2
<1> QED
  BY <1>1, <1>3, <1>4

LEMMA EpochsAdvance ==
  ASSUME NEW s \in Nat
  PROVE  EpochOf(s) \in Nat /\ EpochOf(s + 1) \in Nat /\ EpochOf(s) <= EpochOf(s + 1)
<1>1. slot_per_epoch \in Nat \ {0}
  BY SyncAssumption, Zenon
<1>2. \A k \in Nat \ {0} : s \div k \in Nat /\ (s + 1) \div k \in Nat /\ s \div k <= (s + 1) \div k
  OBVIOUS
<1> QED
  BY <1>1, <1>2, Zenon DEF EpochOf

\* The present may move on.
LEMMA EpochsLater ==
  ASSUME NEW h \in Nat, NEW q \in Seq(Message(h)), NEW e, NEW now \in Nat, NEW then \in Nat,
         EpochsInOrder(q, e, now), now <= then
  PROVE  EpochsInOrder(q, e, then)
<1> SUFFICES ASSUME NEW i \in 1..Len(q), q[i].type = "UpdateSlot"
             PROVE  q[i].current_epoch <= then
  BY Zenon DEF EpochsInOrder
<1>1. q[i] \in Message(h)
  OBVIOUS
<1>2. q[i].current_epoch \in Nat
  BY <1>1, MessageCases, Zenon
<1>3. q[i].current_epoch <= now
  BY Zenon DEF EpochsInOrder
<1> QED
  BY <1>2, <1>3

\* A queue as try_send leaves it.
LEMMA TrySend ==
  ASSUME NEW S, NEW q \in Seq(S), NEW m \in S, NEW c \in Nat, Len(q) <= c
  PROVE  /\ try_send(q, c, m) \in Seq(S) /\ Len(try_send(q, c, m)) <= c
         /\ try_send(q, c, m) = q \/ try_send(q, c, m) = Append(q, m)
<1>1. Append(q, m) \in Seq(S) /\ Len(Append(q, m)) = Len(q) + 1 /\ Len(q) \in Nat
  BY QueueAppend, Zenon
<1> QED
  BY <1>1 DEF try_send

---------------------------------------------------------------------------------
(* Bags of spawned sends. *)

LEMMA BagSum ==
  ASSUME NEW B, NEW C, IsABag(B), IsABag(C), NEW S, DOMAIN B \subseteq S, DOMAIN C \subseteq S
  PROVE  IsABag(B (+) C) /\ DOMAIN (B (+) C) \subseteq S
<1> DEFINE D == B (+) C
<1>1. DOMAIN D = DOMAIN B \cup DOMAIN C /\ D = [x \in DOMAIN D |-> D[x]]
  BY Zenon DEF (+)
<1>2. \A x \in DOMAIN B : Copies(B, x) \in Nat \ {0}
  BY Zenon DEF IsABag, Copies
<1>3. \A x \in DOMAIN C : Copies(C, x) \in Nat \ {0}
  BY Zenon DEF IsABag, Copies
<1>4. \A x : Copies(B, x) \in Nat /\ Copies(C, x) \in Nat
  BY <1>2, <1>3, Zenon DEF Copies
<1>5. \A x \in DOMAIN D : D[x] \in Nat \ {0}
  BY <1>2, <1>3, <1>4 DEF (+)
<1> HIDE DEF D
<1>6. IsABag(D) /\ DOMAIN D \subseteq S
  BY <1>1, <1>5, Zenon DEF IsABag
<1> QED
  BY <1>6, Zenon DEF D

LEMMA BagDifference ==
  ASSUME NEW B, IsABag(B), NEW t
  PROVE  IsABag(B (-) SetToBag({t})) /\ DOMAIN (B (-) SetToBag({t})) \subseteq DOMAIN B
<1> DEFINE D == B (-) SetToBag({t})
<1>1. \A x : Copies(SetToBag({t}), x) \in Nat
  BY Zenon DEF Copies, SetToBag
<1>2. \A x \in DOMAIN B : B[x] \in Nat /\ Copies(B, x) = B[x]
  BY Zenon DEF IsABag, Copies
<1>3. /\ DOMAIN D \subseteq DOMAIN B /\ D = [x \in DOMAIN D |-> D[x]]
      /\ \A x \in DOMAIN D : /\ D[x] = B[x] - Copies(SetToBag({t}), x)
                             /\ Copies(B, x) > Copies(SetToBag({t}), x)
  BY Zenon DEF (-)
<1> HIDE DEF D
<1>4. \A x \in DOMAIN D : D[x] \in Nat \ {0}
  BY <1>1, <1>2, <1>3
<1>5. IsABag(D)
  BY <1>3, <1>4, Zenon DEF IsABag
<1> QED
  BY <1>3, <1>5, Zenon DEF D

LEMMA SpawnedBag ==
  ASSUME NEW N, NEW m
  PROVE  IsABag(SpawnAll(N, m)) /\ DOMAIN SpawnAll(N, m) = {<<n, m>> : n \in N}
  BY DEF SpawnAll, SetToBag, IsABag

LEMMA EmptyIsBag == IsABag(EmptyBag) /\ DOMAIN EmptyBag = {}
<1>1. DOMAIN EmptyBag = {} /\ EmptyBag = [x \in {} |-> 1]
  BY Zenon DEF EmptyBag, SetToBag
<1>2. [x \in {} |-> 1] \in [{} -> Nat \ {0}]
  BY Zenon
<1>3. EmptyBag \in [DOMAIN EmptyBag -> Nat \ {0}]
  BY <1>1, <1>2, Zenon
<1> QED
  BY <1>1, <1>3, Zenon DEF IsABag

\* Spawning more sends of peer messages.
LEMMA Spawned ==
  ASSUME NEW h, NEW B, IsABag(B), DOMAIN B \subseteq Node \X PeerMessage(h),
         NEW N \in SUBSET Node, NEW m \in PeerMessage(h)
  PROVE  /\ IsABag(B (+) SpawnAll(N, m))
         /\ DOMAIN (B (+) SpawnAll(N, m)) \subseteq Node \X PeerMessage(h)
<1>1. IsABag(SpawnAll(N, m)) /\ DOMAIN SpawnAll(N, m) \subseteq Node \X PeerMessage(h)
  <2>1. IsABag(SpawnAll(N, m)) /\ DOMAIN SpawnAll(N, m) = {<<n, m>> : n \in N}
    BY SpawnedBag, Zenon
  <2>2. \A n \in N : n \in Node
    BY Zenon
  <2>3. {<<n, m>> : n \in N} \subseteq Node \X PeerMessage(h)
    BY <2>2
  <2> QED
    BY <2>1, <2>3, Zenon
<1> QED
  BY <1>1, BagSum, Zenon

---------------------------------------------------------------------------------
(* The invariant is inductive. *)

\* The canonical tip as a number.
LEMMA TopFacts ==
  ASSUME WorldInv
  PROVE  /\ Top \in Nat
         /\ \E a \in Nat : Fits(a, Top) /\ Piece(canonical, a, Top)
<1>1. PICK a \in Nat, h \in Nat : Fits(a, h) /\ Piece(canonical, a, h)
  BY Zenon DEF WorldInv
<1>2. get_last_index(canonical) = h
  BY <1>1, PieceTip, Zenon
<1> QED
  BY <1>1, <1>2, Zenon DEF Top

LEMMA TipFacts ==
  ASSUME ChainInv, NEW n \in Node
  PROVE  /\ Tip(n) \in Nat /\ Tip(n) <= Top
         /\ \E a \in Nat : Fits(a, Tip(n)) /\ Piece(blockchain[n], a, Tip(n))
<1>1. PICK a \in Nat, t \in Nat : Fits(a, t) /\ t <= Top /\ Piece(blockchain[n], a, t)
  BY Zenon DEF ChainInv
<1>2. get_last_index(blockchain[n]) = t
  BY <1>1, PieceTip, Zenon
<1> QED
  BY <1>1, <1>2, Zenon DEF Tip

LEMMA InitInv == Init => Inv
<1> SUFFICES ASSUME Init PROVE Inv
  BY Zenon
<1> USE MaxBlocksAssumption, SyncAssumption
<1>1. Fits(0, 0)
  BY DEF Fits
<1>2. Piece(new(Block(0)), 0, 0)
  <2>1. Block(0).txs = {0}
    BY BlockFields
  <2>2. Window(0, 0) = <<Block(0)>>
    <3>1. /\ Window(0, 0) \in Seq(AllBlocks) /\ Len(Window(0, 0)) = 0 - 0 + 1
          /\ Head(Window(0, 0)) = Block(0)
      <4>1. 0 \in Nat /\ 0 <= 0
        OBVIOUS
      <4> QED
        BY <4>1, WindowFacts, Zenon
    <3>2. /\ <<Block(0)>> \in Seq(AllBlocks) /\ Len(<<Block(0)>>) = 1
          /\ <<Block(0)>>[1] = Block(0)
      BY DEF AllBlocks
    <3>3. Window(0, 0)[1] = Block(0) /\ Len(Window(0, 0)) = 1
      BY <3>1
    <3> QED
      BY <3>1, <3>2, <3>3, SameSequence
  <2> QED
    BY <2>1, <2>2 DEF Piece, new
<1>3. WorldInv
  BY <1>1, <1>2 DEF Init, WorldInv
<1>4. Top \in Nat
  BY <1>3, TopFacts, Zenon
<1>5. ChainInv
  <2>1. \A n \in Node : blockchain[n] = new(Block(0))
    BY Zenon DEF Init
  <2> QED
    BY <1>1, <1>2, <1>4, <2>1 DEF Init, ChainInv
<1>6. NetworkInv
  <2>1. inbox \in [Node -> Seq(Message(Top))] /\ \A n \in Node : Len(inbox[n]) <= node_capacity
    BY DEF Init
  <2>2. world_inbox \in Seq(Request) /\ Len(world_inbox) <= world_capacity
    BY DEF Init
  <2>3. IsABag(tasks) /\ DOMAIN tasks \subseteq Node \X PeerMessage(Top)
    BY EmptyIsBag, Zenon DEF Init
  <2> QED
    BY <2>1, <2>2, <2>3, Zenon DEF NetworkInv
<1>7. \A n \in Node : Len(inbox[n]) = 0
  BY Zenon DEF Init
<1>8. OrderInv
  BY <1>7 DEF OrderInv, SnapshotsAhead
<1>9. ClockInv
  <2>1. EpochOf(slot) \in Nat
    BY EpochsAdvance, Zenon DEF Init
  <2> QED
    BY <1>7, <2>1 DEF Init, ClockInv, EpochsInOrder, NoEpoch
<1> QED
  BY <1>3, <1>5, <1>6, <1>8, <1>9, Zenon DEF Inv

\* What follows when a node takes the first message of its channel, whatever it does
\* with it.
LEMMA TakeMessage ==
  ASSUME Inv, NEW n \in Node, inbox[n] # <<>>,
         inbox' = [inbox EXCEPT ![n] = Tail(@)]
  PROVE  /\ inbox' \in [Node -> Seq(Message(Top))]
         /\ \A k \in Node : Len(inbox'[k]) <= node_capacity
         /\ \A k \in Node \ {n} : inbox'[k] = inbox[k]
         /\ inbox'[n] = Tail(inbox[n])
         /\ Head(inbox[n]) \in Message(Top)
<1>1. inbox \in [Node -> Seq(Message(Top))] /\ \A k \in Node : Len(inbox[k]) <= node_capacity
  BY Zenon DEF Inv, NetworkInv
<1>2. /\ Head(inbox[n]) \in Message(Top) /\ Tail(inbox[n]) \in Seq(Message(Top))
      /\ Len(inbox[n]) \in Nat \ {0} /\ Len(Tail(inbox[n])) = Len(inbox[n]) - 1
  BY <1>1, QueueTail, Zenon
<1>3. /\ inbox' \in [Node -> Seq(Message(Top))] /\ inbox'[n] = Tail(inbox[n])
      /\ \A k \in Node \ {n} : inbox'[k] = inbox[k]
  BY <1>1, <1>2, Zenon
<1>4. Len(Tail(inbox[n])) <= node_capacity
  BY <1>1, <1>2, SyncAssumption
<1> QED
  BY <1>1, <1>2, <1>3, <1>4, Zenon

\* The order of the queues when n takes a message and comes to the given tip.
LEMMA OrderAfterTake ==
  ASSUME Inv, NEW n \in Node, inbox[n] # <<>>,
         inbox' = [inbox EXCEPT ![n] = Tail(@)],
         \A k \in Node \ {n} : blockchain'[k] = blockchain[k],
         Tip(n)' \in Nat, Tip(n)' <= Tip(n) \/ Tip(n)' <= Reach(Head(inbox[n]))
  PROVE  OrderInv'
<1>1. /\ inbox'[n] = Tail(inbox[n]) /\ \A k \in Node \ {n} : inbox'[k] = inbox[k]
  BY TakeMessage, Zenon
<1>2. Top \in Nat /\ Tip(n) \in Nat
  BY TopFacts, TipFacts, Zenon DEF Inv
<1>3. inbox[n] \in Seq(Message(Top)) /\ SnapshotsAhead(inbox[n], Tip(n))
  BY Zenon DEF Inv, NetworkInv, OrderInv
<1>4. SnapshotsAhead(Tail(inbox[n]), Tip(n)')
  BY <1>2, <1>3, SnapshotsTail, Zenon
<1>5. ASSUME NEW k \in Node \ {n} PROVE SnapshotsAhead(inbox'[k], Tip(k)')
  <2>1. Tip(k)' = Tip(k)
    BY Zenon DEF Tip
  <2> QED
    BY <1>1, <2>1, Zenon DEF Inv, OrderInv
<1>6. \A k \in Node : SnapshotsAhead(inbox'[k], Tip(k)')
  BY <1>1, <1>4, <1>5, Zenon
<1> QED
  BY <1>6, Zenon DEF OrderInv

\* The clocks of the nodes when n takes a message that is no slot change.
LEMMA ClockAfterTake ==
  ASSUME Inv, NEW n \in Node, inbox[n] # <<>>,
         inbox' = [inbox EXCEPT ![n] = Tail(@)],
         UNCHANGED <<slot, epoch, offline_until_epoch>>
  PROVE  ClockInv'
<1>1. /\ inbox'[n] = Tail(inbox[n]) /\ \A k \in Node \ {n} : inbox'[k] = inbox[k]
  BY TakeMessage, Zenon
<1>2. Top \in Nat /\ inbox[n] \in Seq(Message(Top))
  BY TopFacts, Zenon DEF Inv, NetworkInv
<1>3. \A k \in Node : EpochsInOrder(inbox[k], epoch[k], EpochOf(slot))
  BY Zenon DEF Inv, ClockInv
<1>4. EpochsInOrder(Tail(inbox[n]), epoch[n], EpochOf(slot))
  BY <1>2, <1>3, EpochsTail, Zenon
<1>5. \A k \in Node : EpochsInOrder(inbox'[k], epoch[k], EpochOf(slot))
  BY <1>1, <1>3, <1>4, Zenon
<1>6. EpochOf(slot)' = EpochOf(slot)
  BY Zenon DEF EpochOf
<1> QED
  BY <1>5, <1>6, Zenon DEF Inv, ClockInv

---------------------------------------------------------------------------------
\* next_slot: only the chain of the world state grows, by its next block.
LEMMA NextSlotKeeps ==
  ASSUME Inv, NextSlot
  PROVE  Inv'
<1> USE SyncAssumption
<1> DEFINE h == Top
           u == UpdateSlot(EpochOf(slot + 1))
           block == Block(h + 1)
<1>1. /\ h \in Nat /\ inbox \in [Node -> Seq(Message(h))]
      /\ \A n \in Node : Len(inbox[n]) <= node_capacity /\ Len(inbox[n]) < node_capacity
      /\ slot \in Nat /\ slot' = slot + 1 /\ slot' \in 0..MaxSlot
      /\ UNCHANGED <<blockchain, sync_in_progress, epoch, offline_until_epoch,
                     world_inbox, tasks>>
  BY TopFacts DEF Inv, WorldInv, NetworkInv, NextSlot, availability
<1>2. /\ Top' \in Nat /\ Top' \in {h, h + 1} /\ h <= Top'
      /\ \E a \in Nat : Fits(a, Top') /\ Piece(canonical', a, Top')
      /\ Message(h) \subseteq Message(Top') /\ PeerMessage(h) \subseteq PeerMessage(Top')
      /\ \/ inbox' = [n \in Node |-> Append(inbox[n], u)]
         \/ \E miner \in Node :
              /\ SendBlock(block, miner) \in Message(Top')
              /\ inbox' = [n \in Node |-> try_send(Append(inbox[n], u), node_capacity,
                                                   SendBlock(block, miner))]
  <2>1. PICK a \in Nat : Fits(a, h) /\ Piece(canonical, a, h)
    BY TopFacts, Zenon DEF Inv
  <2>2. CASE canonical' = canonical /\ inbox' = [n \in Node |-> Append(inbox[n], u)]
    <3>1. Top' = h
      BY <2>2, Zenon DEF Top
    <3> HIDE DEF h, u
    <3> QED
      BY <1>1, <2>1, <2>2, <3>1
  <2>3. CASE \E miner \in Node :
               /\ canonical' = add_block(canonical, block)
               /\ inbox' = [n \in Node |-> try_send(Append(inbox[n], u), node_capacity,
                                                    SendBlock(block, miner))]
    <3>1. PICK miner \in Node :
            /\ canonical' = add_block(canonical, block)
            /\ inbox' = [n \in Node |-> try_send(Append(inbox[n], u), node_capacity,
                                                 SendBlock(block, miner))]
      BY <2>3, Zenon
    <3>2. PICK b \in Nat : Fits(b, h + 1) /\ Piece(canonical', b, h + 1)
      BY <2>1, <3>1, AddBlockPiece, Zenon
    <3>3. Top' = h + 1
      <4>1. get_last_index(canonical') = h + 1
        BY <3>2, PieceTip, Zenon
      <4> QED
        BY <4>1, Zenon DEF Top
    <3>4. Message(h) \subseteq Message(h + 1) /\ PeerMessage(h) \subseteq PeerMessage(h + 1)
      BY <1>1, MoreMessages, Zenon
    <3>5. SendBlock(block, miner) \in Message(h + 1)
      <4>1. h + 1 \in 0..(h + 1)
        BY <1>1
      <4> QED
        BY <4>1 DEF Message, PeerMessage
    <3> HIDE DEF h, u, block
    <3>6. h + 1 \in Nat /\ h <= h + 1
      BY <1>1
    <3> QED
      BY <3>1, <3>2, <3>3, <3>4, <3>5, <3>6, Zenon
  <2> QED
    BY <2>2, <2>3, Zenon DEF NextSlot, Top
<1> HIDE DEF h
<1>3. /\ EpochOf(slot) \in Nat /\ EpochOf(slot + 1) \in Nat
      /\ EpochOf(slot) <= EpochOf(slot + 1) /\ EpochOf(slot)' = EpochOf(slot + 1)
  <2>1. EpochOf(slot)' = EpochOf(slot + 1)
    BY <1>1, Zenon DEF EpochOf
  <2> QED
    BY <1>1, <2>1, EpochsAdvance, Zenon
<1>4. u \in Message(Top') /\ u.type = "UpdateSlot" /\ u.current_epoch = EpochOf(slot + 1)
      /\ ~IsSnapshot(u)
  <2>1. u \in Message(Top')
    BY <1>3, Zenon DEF Message
  <2> QED
    BY <2>1, Zenon DEF UpdateSlot, IsSnapshot
<1>5. \A b, f : SendBlock(b, f).type = "SendBlock" /\ ~IsSnapshot(SendBlock(b, f))
  BY Zenon DEF SendBlock, IsSnapshot
<1> HIDE DEF u
<1>6. ASSUME NEW n \in Node
      PROVE  /\ inbox'[n] \in Seq(Message(Top')) /\ Len(inbox'[n]) <= node_capacity
             /\ SnapshotsAhead(inbox'[n], Tip(n))
             /\ EpochsInOrder(inbox'[n], epoch[n], EpochOf(slot + 1))
  <2> DEFINE q == inbox[n]
             r == Append(q, u)
  <2>1. q \in Seq(Message(Top')) /\ Len(q) < node_capacity
    <3>1. \A s \in Seq(Message(h)) : s \in Seq(Message(Top'))
      BY <1>2
    <3> QED
      BY <1>1, <3>1, Zenon
  <2>2. Tip(n) \in Nat /\ epoch[n] \in Nat
    BY TipFacts, Zenon DEF Inv, ClockInv
  <2>3. SnapshotsAhead(q, Tip(n))
    BY Zenon DEF Inv, OrderInv
  <2>4. EpochsInOrder(q, epoch[n], EpochOf(slot + 1)) /\ epoch[n] <= EpochOf(slot + 1)
    <3>1. EpochsInOrder(q, epoch[n], EpochOf(slot)) /\ epoch[n] <= EpochOf(slot)
      BY Zenon DEF Inv, ClockInv
    <3> HIDE DEF q
    <3> QED
      BY <1>2, <1>3, <2>1, <2>2, <3>1, EpochsLater, SMTT(30)
  <2>5. r \in Seq(Message(Top')) /\ Len(r) <= node_capacity
    BY <1>4, <2>1, QueueAppend
  <2>6. SnapshotsAhead(r, Tip(n))
    BY <1>2, <1>4, <2>1, <2>2, <2>3, SnapshotsAppend, Zenon
  <2>7. EpochsInOrder(r, epoch[n], EpochOf(slot + 1))
    BY <1>2, <1>3, <1>4, <2>1, <2>4, EpochsAppend, Zenon
  <2> HIDE DEF r
  <2>8. CASE inbox'[n] = r
    BY <2>5, <2>6, <2>7, <2>8, Zenon
  <2>9. ASSUME NEW miner \in Node, SendBlock(block, miner) \in Message(Top'),
               inbox'[n] = try_send(r, node_capacity, SendBlock(block, miner))
        PROVE  /\ inbox'[n] \in Seq(Message(Top')) /\ Len(inbox'[n]) <= node_capacity
               /\ SnapshotsAhead(inbox'[n], Tip(n))
               /\ EpochsInOrder(inbox'[n], epoch[n], EpochOf(slot + 1))
    <3> DEFINE m == SendBlock(block, miner)
    <3>1. m.type = "SendBlock" /\ ~IsSnapshot(m)
      BY <1>5, Zenon
    <3> HIDE DEF m
    <3>2. m \in Message(Top') /\ inbox'[n] = try_send(r, node_capacity, m)
      BY <2>9, Zenon DEF m
    <3>3. node_capacity \in Nat
      BY Zenon
    <3>4. /\ inbox'[n] \in Seq(Message(Top')) /\ Len(inbox'[n]) <= node_capacity
          /\ inbox'[n] = r \/ inbox'[n] = Append(r, m)
      BY <2>5, <3>2, <3>3, TrySend
    <3>5. SnapshotsAhead(Append(r, m), Tip(n))
      BY <1>2, <2>2, <2>5, <2>6, <3>1, <3>2, SnapshotsAppend, Zenon
    <3>6. EpochsInOrder(Append(r, m), epoch[n], EpochOf(slot + 1))
      BY <1>2, <2>5, <2>7, <3>1, <3>2, EpochsAppend, Zenon
    <3> QED
      BY <2>6, <2>7, <3>4, <3>5, <3>6, Zenon
  <2> QED
    BY <1>2, <2>8, <2>9, Zenon DEF r
<1>7. WorldInv'
  BY <1>1, <1>2, Zenon DEF WorldInv
<1>8. ChainInv'
  <2>1. \A n \in Node : Tip(n) \in Nat /\ Tip(n) <= Top /\
          \E a \in Nat : Fits(a, Tip(n)) /\ Piece(blockchain[n], a, Tip(n))
    BY TipFacts, Zenon DEF Inv
  <2>2. \A n \in Node : Tip(n) <= Top'
    BY <1>1, <1>2, <2>1 DEF h
  <2> QED
    BY <1>1, <2>1, <2>2, Zenon DEF Inv, ChainInv
<1>9. NetworkInv'
  <2>1. inbox' = [n \in Node |-> inbox'[n]]
    BY <1>2, Zenon
  <2>2. inbox' \in [Node -> Seq(Message(Top'))] /\ \A n \in Node : Len(inbox'[n]) <= node_capacity
    BY <1>6, <2>1, Zenon
  <2>3. DOMAIN tasks \subseteq Node \X PeerMessage(Top')
    BY <1>2, Zenon DEF Inv, NetworkInv, h
  <2> QED
    BY <1>1, <2>2, <2>3, Zenon DEF Inv, NetworkInv
<1>10. OrderInv'
  <2>1. \A n \in Node : Tip(n)' = Tip(n)
    BY <1>1, Zenon DEF Tip
  <2> QED
    BY <1>6, <2>1, Zenon DEF OrderInv
<1>11. ClockInv'
  <2>1. \A n \in Node : epoch[n] \in Nat /\ epoch[n] <= EpochOf(slot + 1)
    BY <1>3 DEF Inv, ClockInv
  <2> QED
    BY <1>1, <1>3, <1>6, <2>1, Zenon DEF Inv, ClockInv
<1> QED
  BY <1>7, <1>8, <1>9, <1>10, <1>11, ZenonT(60) DEF Inv

\* The world state answers with its own chain, which no queue is ahead of.
LEMMA WorldReceivesRequestKeeps ==
  ASSUME Inv, WorldReceivesRequest
  PROVE  Inv'
<1> USE SyncAssumption
<1> DEFINE h == Top
           to == Head(world_inbox).from
           m == ResponseBlockSync(canonical.blocks, world_state)
<1>1. /\ h \in Nat /\ inbox \in [Node -> Seq(Message(h))]
      /\ \A n \in Node : Len(inbox[n]) <= node_capacity
      /\ world_inbox \in Seq(Request) /\ world_inbox # <<>> /\ world_inbox' = Tail(world_inbox)
      /\ Len(world_inbox) <= world_capacity
      /\ inbox' = [inbox EXCEPT ![to] = try_send(inbox[to], node_capacity, m)]
      /\ UNCHANGED <<slot, canonical, blockchain, sync_in_progress, epoch,
                     offline_until_epoch, tasks>>
  BY TopFacts, Zenon DEF Inv, NetworkInv, WorldReceivesRequest, world, availability
<1>2. /\ Head(world_inbox) \in Request /\ Tail(world_inbox) \in Seq(Request)
      /\ Len(world_inbox) \in Nat /\ Len(Tail(world_inbox)) = Len(world_inbox) - 1
  BY <1>1, QueueTail, Zenon
<1>3. to \in Node
  BY <1>2 DEF Request, RequestBlockSync
<1>4. m \in Message(h) /\ IsSnapshot(m) /\ Reach(m) = h /\ m.type # "UpdateSlot"
  <2>1. PICK a \in Nat : Fits(a, h) /\ Piece(canonical, a, h)
    BY TopFacts DEF Inv
  <2>2. canonical.blocks = Window(a, h) /\ Window(a, h) \in Windows(h)
    <3>1. h <= h
      BY <1>1, SMTT(30)
    <3> QED
      BY <1>1, <2>1, <3>1, WindowIsWindow, Zenon DEF Piece
  <2>3. Reach(m) = h /\ m.type = "ResponseBlockSync" /\ m.from = world_state
    BY <2>1, <2>2, ReachOfResponse
  <2>4. m \in Message(h)
    BY <2>2, Zenon DEF Message
  <2> HIDE DEF m
  <2> QED
    BY <2>3, <2>4, Zenon DEF IsSnapshot
<1>5. Top' = h /\ \A n \in Node : Tip(n)' = Tip(n)
  BY <1>1, Zenon DEF Top, Tip
<1> DEFINE q == inbox[to]
           r == try_send(q, node_capacity, m)
<1>6. \A n \in Node : inbox'[n] = IF n = to THEN r ELSE inbox[n]
  BY <1>1, <1>3, Zenon
<1>7. q \in Seq(Message(h)) /\ Len(q) <= node_capacity /\ node_capacity \in Nat
  BY <1>1, <1>3, Zenon
<1> HIDE DEF h, m, to, q
<1>8. r \in Seq(Message(h)) /\ Len(r) <= node_capacity /\ (r = q \/ r = Append(q, m))
  BY <1>4, <1>7, TrySend
<1>9. SnapshotsAhead(r, Tip(to))
  <2>1. Tip(to) \in Nat /\ Tip(to) <= h
    BY <1>3, TipFacts, Zenon DEF Inv, h
  <2>2. SnapshotsAhead(q, Tip(to))
    BY <1>3, Zenon DEF Inv, OrderInv, q
  <2>3. SnapshotsAhead(Append(q, m), Tip(to))
    BY <1>1, <1>4, <1>7, <2>1, <2>2, SnapshotsAppend, Zenon
  <2> HIDE DEF r
  <2> QED
    BY <1>8, <2>2, <2>3, Zenon
<1>10. EpochsInOrder(r, epoch[to], EpochOf(slot))
  <2>1. EpochsInOrder(q, epoch[to], EpochOf(slot))
    BY <1>3, Zenon DEF Inv, ClockInv, q
  <2>2. EpochsInOrder(Append(q, m), epoch[to], EpochOf(slot))
    BY <1>1, <1>4, <1>7, <2>1, EpochsAppend, Zenon
  <2> HIDE DEF r
  <2> QED
    BY <1>8, <2>1, <2>2, Zenon
<1> HIDE DEF r
<1>11. WorldInv'
  BY <1>1, Zenon DEF Inv, WorldInv
<1>12. ChainInv'
  BY <1>1, <1>5, Zenon DEF Inv, ChainInv, h
<1>13. NetworkInv'
  <2>1. inbox' \in [Node -> Seq(Message(h))] /\ \A n \in Node : Len(inbox'[n]) <= node_capacity
    <3>1. inbox' = [n \in Node |-> inbox'[n]]
      BY <1>1, Zenon
    <3> QED
      BY <1>1, <1>6, <1>8, <3>1, Zenon
  <2>2. Len(world_inbox') <= world_capacity
    BY <1>1, <1>2
  <2> QED
    BY <1>1, <1>2, <1>5, <2>1, <2>2, Zenon DEF Inv, NetworkInv, h
<1>14. OrderInv'
  <2>1. \A n \in Node : SnapshotsAhead(inbox'[n], Tip(n))
    BY <1>6, <1>9, Zenon DEF Inv, OrderInv
  <2> QED
    BY <1>5, <2>1, Zenon DEF OrderInv
<1>15. ClockInv'
  <2>1. \A n \in Node : EpochsInOrder(inbox'[n], epoch[n], EpochOf(slot))
    BY <1>6, <1>10, Zenon DEF Inv, ClockInv
  <2>2. EpochOf(slot)' = EpochOf(slot)
    BY <1>1, Zenon DEF EpochOf
  <2> QED
    BY <1>1, <2>1, <2>2, Zenon DEF Inv, ClockInv
<1> QED
  BY <1>11, <1>12, <1>13, <1>14, <1>15 DEF Inv

\* A message of another node is no snapshot and no slot change.
LEMMA DeliverKeeps ==
  ASSUME Inv, NEW n \in Node, Deliver(n)
  PROVE  Inv'
<1> USE SyncAssumption
<1> DEFINE h == Top
           q == inbox[n]
<1>1. /\ h \in Nat /\ inbox \in [Node -> Seq(Message(h))]
      /\ IsABag(tasks) /\ DOMAIN tasks \subseteq Node \X PeerMessage(h)
      /\ Len(q) < node_capacity
      /\ UNCHANGED <<slot, canonical, blockchain, sync_in_progress, epoch,
                     offline_until_epoch, world_inbox>>
  BY TopFacts, Zenon DEF Inv, NetworkInv, Deliver, world, availability
<1>2. PICK t \in DOMAIN tasks :
        /\ inbox' = [inbox EXCEPT ![n] = Append(q, t[2])]
        /\ tasks' = tasks (-) SetToBag({t})
  BY Zenon DEF Deliver, BagToSet
<1> DEFINE m == t[2]
           r == Append(q, m)
<1>3. m \in PeerMessage(h)
  BY <1>1, Zenon
<1> HIDE DEF m
<1>4. m \in Message(h) /\ ~IsSnapshot(m) /\ m.type # "UpdateSlot"
  BY <1>3, PeerMessages, Zenon
<1>5. q \in Seq(Message(h)) /\ r \in Seq(Message(h)) /\ Len(r) <= node_capacity
  BY <1>1, <1>4, QueueAppend
<1>6. \A k \in Node : inbox'[k] = IF k = n THEN r ELSE inbox[k]
  BY <1>1, <1>2, Zenon DEF m
<1>7. Top' = h /\ \A k \in Node : Tip(k)' = Tip(k)
  BY <1>1, Zenon DEF Top, Tip
<1> HIDE DEF h, q
<1>8. SnapshotsAhead(r, Tip(n))
  <2>1. Tip(n) \in Nat /\ SnapshotsAhead(q, Tip(n))
    BY TipFacts, Zenon DEF Inv, OrderInv, q
  <2> QED
    BY <1>1, <1>4, <1>5, <2>1, SnapshotsAppend, Zenon
<1>9. EpochsInOrder(r, epoch[n], EpochOf(slot))
  <2>1. EpochsInOrder(q, epoch[n], EpochOf(slot))
    BY Zenon DEF Inv, ClockInv, q
  <2> QED
    BY <1>1, <1>4, <1>5, <2>1, EpochsAppend, Zenon
<1> HIDE DEF r
<1>10. WorldInv'
  BY <1>1, Zenon DEF Inv, WorldInv
<1>11. ChainInv'
  BY <1>1, <1>7, Zenon DEF Inv, ChainInv, h
<1>12. NetworkInv'
  <2>1. inbox' \in [Node -> Seq(Message(h))] /\ \A k \in Node : Len(inbox'[k]) <= node_capacity
    <3>1. inbox' = [k \in Node |-> inbox'[k]]
      BY <1>1, <1>2, Zenon
    <3>2. \A k \in Node : Len(inbox[k]) <= node_capacity
      BY Zenon DEF Inv, NetworkInv
    <3> QED
      BY <1>1, <1>5, <1>6, <3>1, <3>2, Zenon
  <2>2. IsABag(tasks') /\ DOMAIN tasks' \subseteq DOMAIN tasks
    BY <1>1, <1>2, BagDifference, Zenon
  <2> QED
    BY <1>1, <1>7, <2>1, <2>2, Zenon DEF Inv, NetworkInv
<1>13. OrderInv'
  <2>1. \A k \in Node : SnapshotsAhead(inbox'[k], Tip(k))
    BY <1>6, <1>8, Zenon DEF Inv, OrderInv
  <2> QED
    BY <1>7, <2>1, Zenon DEF OrderInv
<1>14. ClockInv'
  <2>1. \A k \in Node : EpochsInOrder(inbox'[k], epoch[k], EpochOf(slot))
    BY <1>6, <1>9, Zenon DEF Inv, ClockInv
  <2>2. EpochOf(slot)' = EpochOf(slot)
    BY <1>1, Zenon DEF EpochOf
  <2> QED
    BY <1>1, <2>1, <2>2, Zenon DEF Inv, ClockInv
<1> QED
  BY <1>10, <1>11, <1>12, <1>13, <1>14, Zenon DEF Inv

\* A handler of node n keeps the invariant if the chain it leaves is a piece of the
\* canonical chain, its tip is the old one or one the message leads to, and the sends
\* it spawns and the request it makes are of their types.
LEMMA HandlerKeeps ==
  ASSUME Inv, NEW n \in Node, inbox[n] # <<>>, inbox' = [inbox EXCEPT ![n] = Tail(@)],
         UNCHANGED <<slot, canonical>>,
         DOMAIN blockchain' = Node, \A k \in Node \ {n} : blockchain'[k] = blockchain[k],
         NEW a \in Nat, NEW t \in Nat, Fits(a, t), t <= Top, Piece(blockchain'[n], a, t),
         t <= Tip(n) \/ t <= Reach(Head(inbox[n])),
         sync_in_progress' \in [Node -> BOOLEAN],
         world_inbox' \in Seq(Request), Len(world_inbox') <= world_capacity,
         IsABag(tasks'), DOMAIN tasks' \subseteq Node \X PeerMessage(Top),
         ClockInv'
  PROVE  Inv'
<1>1. Top' = Top
  BY Zenon DEF Top
<1>2. Tip(n)' = t
  <2>1. get_last_index(blockchain'[n]) = t
    BY PieceTip, Zenon
  <2> QED
    BY <2>1, Zenon DEF Tip
<1>3. WorldInv'
  BY Zenon DEF Inv, WorldInv
<1>4. ChainInv'
  <2>1. \A k \in Node : \E b \in Nat, s \in Nat :
          Fits(b, s) /\ s <= Top /\ Piece(blockchain'[k], b, s)
    BY Zenon DEF Inv, ChainInv
  <2> QED
    BY <1>1, <2>1, Zenon DEF ChainInv
<1>5. NetworkInv'
  <2>1. inbox' \in [Node -> Seq(Message(Top))] /\ \A k \in Node : Len(inbox'[k]) <= node_capacity
    BY TakeMessage, Zenon
  <2> QED
    BY <1>1, <2>1, Zenon DEF NetworkInv
<1>6. OrderInv'
  BY <1>2, OrderAfterTake, Zenon
<1> QED
  BY <1>3, <1>4, <1>5, <1>6, Zenon DEF Inv

LEMMA SkipKeeps ==
  ASSUME Inv, NEW n \in Node, Skip(n)
  PROVE  Inv'
<1>1. /\ inbox[n] # <<>> /\ inbox' = [inbox EXCEPT ![n] = Tail(@)]
      /\ UNCHANGED <<slot, canonical, blockchain, sync_in_progress, epoch,
                     offline_until_epoch, world_inbox, tasks>>
  BY Zenon DEF Skip, world, availability
<1>2. ClockInv'
  BY <1>1, ClockAfterTake, Zenon
<1>3. /\ Tip(n) \in Nat /\ Tip(n) <= Top
      /\ \E a \in Nat : Fits(a, Tip(n)) /\ Piece(blockchain[n], a, Tip(n))
  BY TipFacts, Zenon DEF Inv
<1>4. PICK a \in Nat : Fits(a, Tip(n)) /\ Piece(blockchain[n], a, Tip(n))
  BY <1>3, Zenon
<1>5. /\ DOMAIN blockchain' = Node /\ \A k \in Node \ {n} : blockchain'[k] = blockchain[k]
      /\ sync_in_progress' \in [Node -> BOOLEAN]
      /\ world_inbox' \in Seq(Request) /\ Len(world_inbox') <= world_capacity
      /\ IsABag(tasks') /\ DOMAIN tasks' \subseteq Node \X PeerMessage(Top)
  BY <1>1, Zenon DEF Inv, ChainInv, NetworkInv
<1>6. Piece(blockchain'[n], a, Tip(n)) /\ Tip(n) <= Tip(n)
  BY <1>1, <1>3, <1>4
<1> QED
  BY <1>1, <1>2, <1>3, <1>4, <1>5, <1>6, HandlerKeeps, Zenon

LEMMA ReceiveBlockKeeps ==
  ASSUME Inv, NEW n \in Node, ReceiveBlock(n)
  PROVE  Inv' /\ Tip(n) <= Tip(n)' /\ \A k \in Node \ {n} : Tip(k)' = Tip(k)
<1> USE SyncAssumption
<1> DEFINE m == Head(inbox[n])
           error == add_block_error(blockchain[n], m.block)
<1>1. /\ inbox[n] # <<>> /\ inbox' = [inbox EXCEPT ![n] = Tail(@)] /\ m.type = "SendBlock"
      /\ \/ /\ error = "Ok"
            /\ blockchain' = [blockchain EXCEPT ![n] = add_block(blockchain[n], m.block)]
            /\ tasks' = tasks (+) SpawnAll(neighbors[n] \ {m.from}, SendBlock(m.block, n))
            /\ UNCHANGED <<sync_in_progress, world_inbox>>
         \/ /\ sync_in_progress' = [sync_in_progress EXCEPT ![n] = TRUE]
            /\ world_inbox' = try_send(world_inbox, world_capacity,
                                RequestBlockSync(get_last_index(blockchain[n]), n))
            /\ UNCHANGED <<blockchain, tasks>>
         \/ UNCHANGED <<blockchain, sync_in_progress, world_inbox, tasks>>
      /\ UNCHANGED <<slot, canonical, epoch, offline_until_epoch>>
  BY Zenon DEF ReceiveBlock, Receives, world, availability
<1>2. Top \in Nat /\ m \in Message(Top)
  BY <1>1, TakeMessage, TopFacts, Zenon DEF Inv
<1>3. /\ Tip(n) \in Nat /\ Tip(n) <= Top
      /\ \E a \in Nat : Fits(a, Tip(n)) /\ Piece(blockchain[n], a, Tip(n))
  BY TipFacts, Zenon DEF Inv
<1>4. PICK a \in Nat : Fits(a, Tip(n)) /\ Piece(blockchain[n], a, Tip(n))
  BY <1>3, Zenon
<1>5. /\ DOMAIN blockchain = Node /\ sync_in_progress \in [Node -> BOOLEAN]
      /\ world_inbox \in Seq(Request) /\ Len(world_inbox) <= world_capacity
      /\ IsABag(tasks) /\ DOMAIN tasks \subseteq Node \X PeerMessage(Top)
  BY Zenon DEF Inv, ChainInv, NetworkInv
<1>6. ClockInv'
  BY <1>1, ClockAfterTake, Zenon
<1>7. PICK i \in 0..Top, f \in Node : m = SendBlock(Block(i), f)
  BY <1>1, <1>2, MessageCases, Zenon
<1>8. m.block = Block(i) /\ Reach(m) = i /\ m.from = f /\ i \in Nat /\ i <= Top
  BY <1>2, <1>7, ReachOfBlock
<1> HIDE DEF m
<1>9. CASE /\ error = "Ok"
           /\ blockchain' = [blockchain EXCEPT ![n] = add_block(blockchain[n], m.block)]
           /\ tasks' = tasks (+) SpawnAll(neighbors[n] \ {m.from}, SendBlock(m.block, n))
           /\ UNCHANGED <<sync_in_progress, world_inbox>>
  <2>1. i = Tip(n) + 1
    <3>1. add_block_error(blockchain[n], Block(i)) =
            IF i <= Tip(n) THEN "IndexTooSmall"
            ELSE IF i = Tip(n) + 1 THEN "Ok" ELSE "ParentHashMismatch"
      BY <1>4, <1>8, AddBlockVerdict, Zenon
    <3> QED
      BY <1>8, <1>9, <3>1, Zenon
  <2>2. PICK b \in Nat : /\ Fits(b, i)
                         /\ Piece(add_block(blockchain[n], Block(i)), b, i)
    BY <1>4, <2>1, AddBlockPiece, Zenon
  <2>3. /\ DOMAIN blockchain' = Node /\ \A k \in Node \ {n} : blockchain'[k] = blockchain[k]
        /\ blockchain'[n] = add_block(blockchain[n], Block(i))
    BY <1>5, <1>8, <1>9, Zenon
  <2>4. IsABag(tasks') /\ DOMAIN tasks' \subseteq Node \X PeerMessage(Top)
    <3>1. SendBlock(Block(i), n) \in PeerMessage(Top)
      BY DEF PeerMessage
    <3>2. neighbors[n] \ {m.from} \in SUBSET Node
      BY Zenon
    <3> QED
      BY <1>5, <1>8, <1>9, <3>1, <3>2, Spawned, Zenon
  <2>5. Inv'
    <3>1. /\ Fits(b, i) /\ i <= Top /\ Piece(blockchain'[n], b, i)
          /\ i <= Reach(Head(inbox[n]))
      <4>1. i <= Reach(m)
        BY <1>8
      <4>2. Piece(blockchain'[n], b, i)
        BY <2>2, <2>3, Zenon
      <4> QED
        BY <1>8, <2>2, <4>1, <4>2, Zenon DEF m
    <3>2. /\ sync_in_progress' \in [Node -> BOOLEAN]
          /\ world_inbox' \in Seq(Request) /\ Len(world_inbox') <= world_capacity
      BY <1>5, <1>9, Zenon
    <3> QED
      BY <1>1, <1>6, <1>8, <2>3, <2>4, <3>1, <3>2, HandlerKeeps, Zenon
  <2>6. Tip(n)' = i /\ \A k \in Node \ {n} : Tip(k)' = Tip(k)
    <3>1. get_last_index(blockchain'[n]) = i
      BY <2>2, <2>3, PieceTip, Zenon
    <3> QED
      BY <2>3, <3>1, Zenon DEF Tip
  <2> QED
    BY <1>3, <2>1, <2>5, <2>6
<1>10. CASE /\ blockchain' = blockchain /\ tasks' = tasks
            /\ sync_in_progress' \in [Node -> BOOLEAN]
            /\ world_inbox' \in Seq(Request) /\ Len(world_inbox') <= world_capacity
  <2>1. Piece(blockchain'[n], a, Tip(n)) /\ Tip(n) <= Tip(n)
    BY <1>3, <1>4, <1>10
  <2>2. /\ DOMAIN blockchain' = Node /\ \A k \in Node \ {n} : blockchain'[k] = blockchain[k]
        /\ IsABag(tasks') /\ DOMAIN tasks' \subseteq Node \X PeerMessage(Top)
    BY <1>5, <1>10, Zenon
  <2>3. Inv'
    BY <1>1, <1>3, <1>4, <1>6, <1>10, <2>1, <2>2, HandlerKeeps, Zenon
  <2>4. \A k \in Node : Tip(k)' = Tip(k)
    BY <1>10, Zenon DEF Tip
  <2> QED
    BY <1>3, <2>3, <2>4
<1>11. ASSUME world_inbox' = try_send(world_inbox, world_capacity,
                               RequestBlockSync(get_last_index(blockchain[n]), n))
       PROVE  world_inbox' \in Seq(Request) /\ Len(world_inbox') <= world_capacity
  <2>1. RequestBlockSync(get_last_index(blockchain[n]), n) \in Request
    BY <1>3 DEF Request, Tip
  <2>2. world_capacity \in Nat
    BY Zenon
  <2> QED
    BY <1>5, <1>11, <2>1, <2>2, TrySend, Zenon
<1>12. ASSUME sync_in_progress' = [sync_in_progress EXCEPT ![n] = TRUE]
       PROVE  sync_in_progress' \in [Node -> BOOLEAN]
  BY <1>5, <1>12, Zenon
<1> QED
  BY <1>1, <1>5, <1>9, <1>10, <1>11, <1>12, Zenon

\* The blocks a node sends to a neighbour are a window of the canonical chain.
LEMMA SyncBlocksWindow ==
  ASSUME NEW bc, NEW a, NEW t, Fits(a, t), Piece(bc, a, t), NEW h \in Nat, t <= h,
         NEW r \in Nat, SyncBlocks(bc, r) # <<>>
  PROVE  SyncBlocks(bc, r) \in Windows(h)
<1>1. /\ a \in Nat /\ t \in Nat /\ a <= t /\ t - a < max_blocks_in_memory
      /\ bc.blocks = Window(a, t) /\ Head(bc.blocks).index = a /\ Len(bc.blocks) = t - a + 1
  BY PieceTip, Zenon DEF Fits, Piece
<1>2. CASE ~(r >= a)
  BY <1>1, <1>2, WindowIsWindow, Zenon DEF SyncBlocks
<1>3. CASE r >= a
  <2>1. SyncBlocks(bc, r) = SubSeq(Window(a, t), r - a + 1, t - a + 1)
    BY <1>1, <1>3, Zenon DEF SyncBlocks
  <2>2. r <= t
    <3> SUFFICES ASSUME r > t PROVE FALSE
      BY <1>1
    <3>1. r - a + 1 > t - a + 1 /\ r - a + 1 \in Int /\ t - a + 1 \in Int
      BY <1>1
    <3>2. Window(a, t) \in Seq(AllBlocks)
      BY <1>1, WindowFacts, Zenon
    <3>3. SubSeq(Window(a, t), r - a + 1, t - a + 1) = <<>>
      BY <3>1, <3>2
    <3> QED
      BY <2>1, <3>3, Zenon
  <2>3. SyncBlocks(bc, r) = Window(r, t)
    BY <1>1, <1>3, <2>1, <2>2, SubWindow, Zenon
  <2>4. Fits(r, t)
    BY <1>1, <1>3, <2>2, MaxBlocksAssumption DEF Fits
  <2> QED
    BY <2>3, <2>4, WindowIsWindow, Zenon
<1> QED
  BY <1>2, <1>3, Zenon

LEMMA ReceiveRequestKeeps ==
  ASSUME Inv, NEW n \in Node, ReceiveRequest(n)
  PROVE  Inv'
<1> USE SyncAssumption
<1> DEFINE m == Head(inbox[n])
           sync_blocks == SyncBlocks(blockchain[n], m.last_block_index)
<1>1. /\ inbox[n] # <<>> /\ inbox' = [inbox EXCEPT ![n] = Tail(@)]
      /\ m.type = "RequestBlockSync"
      /\ tasks' = tasks \/
           /\ sync_blocks # <<>>
           /\ tasks' = tasks (+) SpawnAll({m.from}, ResponseBlockSync(sync_blocks, n))
      /\ UNCHANGED <<slot, canonical, blockchain, sync_in_progress, epoch,
                     offline_until_epoch, world_inbox>>
  BY Zenon DEF ReceiveRequest, Receives, world, availability
<1>2. Top \in Nat /\ m \in Message(Top)
  BY <1>1, TakeMessage, TopFacts, Zenon DEF Inv
<1>3. /\ Tip(n) \in Nat /\ Tip(n) <= Top
      /\ \E a \in Nat : Fits(a, Tip(n)) /\ Piece(blockchain[n], a, Tip(n))
  BY TipFacts DEF Inv
<1>4. PICK a \in Nat : Fits(a, Tip(n)) /\ Piece(blockchain[n], a, Tip(n))
  BY <1>3
<1>5. m.last_block_index \in Nat /\ m.from \in Node
  BY <1>1, <1>2, MessageCases, Zenon
<1>6. ClockInv'
  BY <1>1, ClockAfterTake, Zenon
<1>7. /\ DOMAIN blockchain' = Node /\ \A k \in Node \ {n} : blockchain'[k] = blockchain[k]
      /\ sync_in_progress' \in [Node -> BOOLEAN]
      /\ world_inbox' \in Seq(Request) /\ Len(world_inbox') <= world_capacity
      /\ IsABag(tasks) /\ DOMAIN tasks \subseteq Node \X PeerMessage(Top)
  BY <1>1, Zenon DEF Inv, ChainInv, NetworkInv
<1>8. IsABag(tasks') /\ DOMAIN tasks' \subseteq Node \X PeerMessage(Top)
  <2>1. CASE tasks' = tasks
    BY <1>7, <2>1, Zenon
  <2>2. CASE /\ sync_blocks # <<>>
             /\ tasks' = tasks (+) SpawnAll({m.from}, ResponseBlockSync(sync_blocks, n))
    <3>1. sync_blocks \in Windows(Top)
      BY <1>2, <1>3, <1>4, <1>5, <2>2, SyncBlocksWindow, Zenon
    <3> HIDE DEF sync_blocks
    <3>2. ResponseBlockSync(sync_blocks, n) \in PeerMessage(Top)
      BY <3>1 DEF PeerMessage
    <3>3. {m.from} \in SUBSET Node
      BY <1>5, Zenon
    <3> QED
      BY <1>7, <2>2, <3>2, <3>3, Spawned, Zenon
  <2> QED
    BY <1>1, <2>1, <2>2, Zenon
<1>9. Piece(blockchain'[n], a, Tip(n)) /\ Tip(n) <= Tip(n)
  BY <1>1, <1>3, <1>4
<1> QED
  BY <1>1, <1>3, <1>4, <1>6, <1>7, <1>8, <1>9, HandlerKeeps, Zenon

\* A snapshot is not behind the local chain, and a neighbour's response is applied only
\* if it is ahead.
LEMMA ReceiveResponseKeeps ==
  ASSUME Inv, NEW n \in Node, ReceiveResponse(n)
  PROVE  Inv' /\ Tip(n) <= Tip(n)' /\ \A k \in Node \ {n} : Tip(k)' = Tip(k)
<1> DEFINE m == Head(inbox[n])
<1>1. /\ inbox[n] # <<>> /\ inbox' = [inbox EXCEPT ![n] = Tail(@)]
      /\ m.type = "ResponseBlockSync"
      /\ \/ /\ m.from = world_state
            /\ blockchain' = [blockchain EXCEPT ![n] =
                                replace_local_chain_with_snapshot(m.blocks)]
            /\ sync_in_progress' = [sync_in_progress EXCEPT ![n] = FALSE]
         \/ /\ get_last_index(blockchain[n]) < m.blocks[Len(m.blocks)].index
            /\ blockchain' = [blockchain EXCEPT ![n] = Resync(blockchain[n], m.blocks)]
            /\ sync_in_progress' = [sync_in_progress EXCEPT ![n] = FALSE]
         \/ UNCHANGED <<blockchain, sync_in_progress>>
      /\ UNCHANGED <<slot, canonical, epoch, offline_until_epoch, world_inbox, tasks>>
  BY Zenon DEF ReceiveResponse, Receives, world, availability
<1>2. Top \in Nat /\ m \in Message(Top)
  BY <1>1, TakeMessage, TopFacts, Zenon DEF Inv
<1>3. /\ Tip(n) \in Nat /\ Tip(n) <= Top
      /\ \E a \in Nat : Fits(a, Tip(n)) /\ Piece(blockchain[n], a, Tip(n))
  BY TipFacts DEF Inv
<1>4. PICK a \in Nat : Fits(a, Tip(n)) /\ Piece(blockchain[n], a, Tip(n))
  BY <1>3
<1>5. PICK lo \in Nat, hi \in Nat, f \in Sender :
        Fits(lo, hi) /\ hi <= Top /\ m = ResponseBlockSync(Window(lo, hi), f)
  BY <1>1, <1>2, MessageCases, Zenon
<1>6. m.blocks = Window(lo, hi) /\ m.blocks[Len(m.blocks)].index = hi /\ Reach(m) = hi
  <2> DEFINE w == ResponseBlockSync(Window(lo, hi), f)
  <2>1. w.blocks = Window(lo, hi) /\ w.blocks[Len(w.blocks)].index = hi /\ Reach(w) = hi
    <3>1. Fits(lo, hi)
      BY <1>5, Zenon
    <3> QED
      BY <3>1, ReachOfResponse
  <2>2. m = w
    BY <1>5, Zenon
  <2> HIDE DEF w, m
  <2> QED
    BY <2>1, <2>2, Zenon
<1>7. ClockInv'
  BY <1>1, ClockAfterTake, Zenon
<1>8. /\ DOMAIN blockchain = Node /\ sync_in_progress \in [Node -> BOOLEAN]
      /\ world_inbox' \in Seq(Request) /\ Len(world_inbox') <= world_capacity
      /\ IsABag(tasks') /\ DOMAIN tasks' \subseteq Node \X PeerMessage(Top)
  BY <1>1, Zenon DEF Inv, ChainInv, NetworkInv
<1> HIDE DEF m
<1>9. ASSUME NEW bc, NEW b \in Nat, NEW t \in Nat, Fits(b, t), t <= Top, Piece(bc, b, t),
             Tip(n) <= t, t <= Tip(n) \/ t <= hi,
             blockchain' = [blockchain EXCEPT ![n] = bc] \/ (blockchain' = blockchain /\ bc = blockchain[n]),
             sync_in_progress' = [sync_in_progress EXCEPT ![n] = FALSE] \/ UNCHANGED sync_in_progress
      PROVE  Inv' /\ Tip(n) <= Tip(n)' /\ \A k \in Node \ {n} : Tip(k)' = Tip(k)
  <2>1. /\ DOMAIN blockchain' = Node /\ \A k \in Node \ {n} : blockchain'[k] = blockchain[k]
        /\ blockchain'[n] = bc
    BY <1>8, <1>9, Zenon
  <2>2. sync_in_progress' \in [Node -> BOOLEAN]
    BY <1>8, <1>9, Zenon
  <2>3. Piece(blockchain'[n], b, t) /\ (t <= Tip(n) \/ t <= Reach(Head(inbox[n])))
    BY <1>6, <1>9, <2>1, Zenon DEF m
  <2>4. Inv'
    BY <1>1, <1>7, <1>8, <1>9, <2>1, <2>2, <2>3, HandlerKeeps, Zenon
  <2>5. Tip(n)' = t /\ \A k \in Node \ {n} : Tip(k)' = Tip(k)
    <3>1. get_last_index(blockchain'[n]) = t
      BY <1>9, <2>3, PieceTip, Zenon
    <3> QED
      BY <2>1, <3>1, Zenon DEF Tip
  <2> QED
    BY <1>9, <2>4, <2>5, Zenon
<1>10. CASE /\ m.from = world_state
            /\ blockchain' = [blockchain EXCEPT ![n] =
                                replace_local_chain_with_snapshot(m.blocks)]
            /\ sync_in_progress' = [sync_in_progress EXCEPT ![n] = FALSE]
  <2>1. Piece(replace_local_chain_with_snapshot(m.blocks), lo, hi)
    BY <1>5, <1>6, SnapshotPiece, Zenon
  <2>2. Tip(n) <= hi
    <3>1. SnapshotsAhead(inbox[n], Tip(n)) /\ inbox[n] \in Seq(Message(Top))
      BY Zenon DEF Inv, OrderInv, NetworkInv
    <3>2. m = inbox[n][1] /\ 1 \in 1..Len(inbox[n])
      BY <1>1, <3>1, QueueTail DEF m
    <3>3. IsSnapshot(inbox[n][1])
      BY <1>1, <1>10, <3>2, Zenon DEF IsSnapshot, m
    <3> QED
      BY <1>6, <3>1, <3>2, <3>3, Zenon DEF SnapshotsAhead
  <2>3. hi <= hi
    OBVIOUS
  <2> QED
    BY <1>5, <1>9, <1>10, <2>1, <2>2, <2>3, Zenon
<1>11. CASE /\ get_last_index(blockchain[n]) < m.blocks[Len(m.blocks)].index
            /\ blockchain' = [blockchain EXCEPT ![n] = Resync(blockchain[n], m.blocks)]
            /\ sync_in_progress' = [sync_in_progress EXCEPT ![n] = FALSE]
  <2>1. Tip(n) < hi
    BY <1>6, <1>11, Zenon DEF Tip
  <2>2. PICK b \in Nat : Fits(b, hi) /\ Piece(Resync(blockchain[n], m.blocks), b, hi)
    BY <1>4, <1>5, <1>6, <2>1, ResyncPiece, Zenon
  <2>3. Tip(n) <= hi /\ hi <= hi
    BY <1>3, <2>1
  <2> QED
    BY <1>5, <1>9, <1>11, <2>2, <2>3, Zenon
<1>12. CASE UNCHANGED <<blockchain, sync_in_progress>>
  <2>1. Tip(n) <= Tip(n)
    BY <1>3
  <2> QED
    BY <1>3, <1>4, <1>9, <1>12, <2>1, Zenon
<1> QED
  BY <1>1, <1>10, <1>11, <1>12, Zenon DEF m

\* A node hears of the epochs in order, so an absence that has not ended when a slot
\* change arrives was announced in the epoch of that slot.
LEMMA ReceiveUpdateSlotKeeps ==
  ASSUME Inv, NEW n \in Node, ReceiveUpdateSlot(n)
  PROVE  Inv'
<1> USE SyncAssumption
<1> DEFINE m == Head(inbox[n])
           ask == RequestBlockSync(Len(blockchain[n].blocks) - 1, n)
           returns == n \in Unstable /\ offline_until_epoch[n] # NoEpoch
                        /\ m.current_epoch >= offline_until_epoch[n]
<1>1. /\ inbox[n] # <<>> /\ inbox' = [inbox EXCEPT ![n] = Tail(@)]
      /\ m.type = "UpdateSlot"
      /\ epoch' = [epoch EXCEPT ![n] = m.current_epoch]
      /\ \E b, c \in BOOLEAN :
           tasks' = tasks (+) (IF b THEN RecoveryRequest(n) ELSE EmptyBag)
                          (+) (IF c THEN RecoveryRequest(n) ELSE EmptyBag)
      /\ \/ offline_until_epoch' = [offline_until_epoch EXCEPT ![n] =
                                      IF returns THEN NoEpoch ELSE offline_until_epoch[n]]
         \/ /\ n \in Unstable
            /\ offline_until_epoch' = [offline_until_epoch EXCEPT ![n] = m.current_epoch + 1]
      /\ UNCHANGED <<slot, canonical, blockchain, sync_in_progress, world_inbox>>
  <2>1. PICK mm \in Range(inbox[n]) :
          /\ Receives(n, mm, "UpdateSlot")
          /\ epoch' = [epoch EXCEPT ![n] = mm.current_epoch]
          /\ LET recovers == scheduled_online(n) /\ ~scheduled_online_last_slot[n]
                 back  == n \in Unstable /\ ~is_online(n)
                               /\ mm.current_epoch >= offline_until_epoch[n]
                 requests(b) == IF b THEN RecoveryRequest(n) ELSE EmptyBag
             IN /\ tasks' = tasks (+) requests(recovers) (+) requests(back)
                /\ \/ offline_until_epoch' = [offline_until_epoch EXCEPT ![n] =
                                                IF back THEN NoEpoch ELSE @]
                   \/ /\ n \in Unstable /\ (is_online(n) \/ back)
                      /\ mm.current_epoch # epoch[n]
                      /\ offline_until_epoch' =
                           [offline_until_epoch EXCEPT ![n] = mm.current_epoch + 1]
    BY Zenon DEF ReceiveUpdateSlot
  <2>2. /\ mm = m /\ inbox[n] # <<>> /\ m.type = "UpdateSlot"
        /\ inbox' = [inbox EXCEPT ![n] = Tail(@)]
    BY <2>1, Zenon DEF Receives
  <2>3. \E b, c \in BOOLEAN :
           tasks' = tasks (+) (IF b THEN RecoveryRequest(n) ELSE EmptyBag)
                          (+) (IF c THEN RecoveryRequest(n) ELSE EmptyBag)
    <3> DEFINE b == scheduled_online(n) /\ ~scheduled_online_last_slot[n]
               c == n \in Unstable /\ ~is_online(n) /\ mm.current_epoch >= offline_until_epoch[n]
    <3>1. tasks' = tasks (+) (IF b THEN RecoveryRequest(n) ELSE EmptyBag)
                          (+) (IF c THEN RecoveryRequest(n) ELSE EmptyBag)
      BY <2>1, Zenon
    <3>2. b \in BOOLEAN /\ c \in BOOLEAN
      BY Zenon
    <3> HIDE DEF b, c
    <3> QED
      BY <3>1, <3>2, Zenon
  <2>4. /\ \/ offline_until_epoch' = [offline_until_epoch EXCEPT ![n] =
                                      IF returns THEN NoEpoch ELSE offline_until_epoch[n]]
           \/ /\ n \in Unstable
              /\ offline_until_epoch' = [offline_until_epoch EXCEPT ![n] = m.current_epoch + 1]
    BY <2>1, <2>2, Zenon DEF is_online
  <2>5. UNCHANGED <<slot, canonical, blockchain, sync_in_progress, world_inbox>>
    BY Zenon DEF ReceiveUpdateSlot, world
  <2> QED
    BY <2>1, <2>2, <2>3, <2>4, <2>5, Zenon
<1>2. Top \in Nat /\ m \in Message(Top)
  BY <1>1, TakeMessage, TopFacts, Zenon DEF Inv
<1>3. /\ Tip(n) \in Nat /\ Tip(n) <= Top
      /\ \E a \in Nat : Fits(a, Tip(n)) /\ Piece(blockchain[n], a, Tip(n))
  BY TipFacts DEF Inv
<1>4. PICK a \in Nat : Fits(a, Tip(n)) /\ Piece(blockchain[n], a, Tip(n))
  BY <1>3
<1>5. /\ DOMAIN blockchain' = Node /\ \A k \in Node \ {n} : blockchain'[k] = blockchain[k]
      /\ sync_in_progress' \in [Node -> BOOLEAN]
      /\ world_inbox' \in Seq(Request) /\ Len(world_inbox') <= world_capacity
      /\ IsABag(tasks) /\ DOMAIN tasks \subseteq Node \X PeerMessage(Top)
  BY <1>1, Zenon DEF Inv, ChainInv, NetworkInv
<1>6. IsABag(tasks') /\ DOMAIN tasks' \subseteq Node \X PeerMessage(Top)
  <2>1. ask \in PeerMessage(Top)
    <3>1. Len(blockchain[n].blocks) = Tip(n) - a + 1 /\ a <= Tip(n)
      BY <1>4, PieceTip, Zenon DEF Fits
    <3>2. Len(blockchain[n].blocks) - 1 \in Nat
      BY <1>3, <1>4, <3>1
    <3>3. \A k \in Nat : RequestBlockSync(k, n) \in PeerMessage(Top)
      BY DEF PeerMessage
    <3> QED
      BY <3>2, <3>3, Zenon
  <2> HIDE DEF ask
  <2>2. neighbors[n] \in SUBSET Node
    BY Zenon
  <2>3. ASSUME NEW B, IsABag(B), DOMAIN B \subseteq Node \X PeerMessage(Top), NEW b \in BOOLEAN
        PROVE  LET C == B (+) (IF b THEN RecoveryRequest(n) ELSE EmptyBag)
               IN  IsABag(C) /\ DOMAIN C \subseteq Node \X PeerMessage(Top)
    <3>1. CASE b
      <4>1. RecoveryRequest(n) = SpawnAll(neighbors[n], ask)
        BY Zenon DEF RecoveryRequest, ask
      <4>2. /\ IsABag(B (+) SpawnAll(neighbors[n], ask))
            /\ DOMAIN (B (+) SpawnAll(neighbors[n], ask)) \subseteq Node \X PeerMessage(Top)
        BY <2>1, <2>2, <2>3, Spawned, Zenon
      <4> QED
        BY <3>1, <4>1, <4>2, Zenon
    <3>2. CASE ~b
      <4>1. /\ IsABag(B (+) EmptyBag)
            /\ DOMAIN (B (+) EmptyBag) \subseteq Node \X PeerMessage(Top)
        BY <2>3, EmptyIsBag, BagSum, Zenon
      <4> QED
        BY <3>2, <4>1, Zenon
    <3> QED
      BY <3>1, <3>2, Zenon
  <2>4. PICK b, c \in BOOLEAN :
           tasks' = tasks (+) (IF b THEN RecoveryRequest(n) ELSE EmptyBag)
                          (+) (IF c THEN RecoveryRequest(n) ELSE EmptyBag)
    BY <1>1, Zenon
  <2> DEFINE B == tasks (+) (IF b THEN RecoveryRequest(n) ELSE EmptyBag)
  <2>5. IsABag(B) /\ DOMAIN B \subseteq Node \X PeerMessage(Top)
    BY <1>5, <2>3, Zenon
  <2>6. tasks' = B (+) (IF c THEN RecoveryRequest(n) ELSE EmptyBag)
    BY <2>4, Zenon
  <2> HIDE DEF B
  <2> QED
    BY <2>3, <2>5, <2>6, Zenon
<1>7. ClockInv'
  <2>1. /\ epoch \in [Node -> Nat] /\ offline_until_epoch \in [Node -> Int]
        /\ offline_until_epoch[n] \in {NoEpoch} \cup (IF n \in Unstable THEN {epoch[n] + 1} ELSE {})
        /\ EpochsInOrder(inbox[n], epoch[n], EpochOf(slot))
        /\ inbox[n] \in Seq(Message(Top))
    BY Zenon DEF Inv, ClockInv, NetworkInv
  <2>2. m = inbox[n][1] /\ 1 \in 1..Len(inbox[n])
    BY <1>1, <2>1, QueueTail
  <2>3. m.current_epoch \in Nat /\ epoch[n] <= m.current_epoch /\ m.current_epoch <= EpochOf(slot)
    <3>1. m.current_epoch \in Nat
      BY <1>1, <1>2, MessageCases, Zenon
    <3>2. inbox[n][1].type = "UpdateSlot"
      BY <1>1, <2>2, Zenon
    <3>3. epoch[n] <= inbox[n][1].current_epoch /\ inbox[n][1].current_epoch <= EpochOf(slot)
      BY <2>1, <2>2, <3>2, Zenon DEF EpochsInOrder
    <3> QED
      BY <2>2, <3>1, <3>3, Zenon
  <2>4. EpochsInOrder(Tail(inbox[n]), m.current_epoch, EpochOf(slot))
    BY <1>1, <1>2, <2>1, EpochsTail, Zenon
  <2>5. /\ inbox'[n] = Tail(inbox[n]) /\ \A k \in Node \ {n} : inbox'[k] = inbox[k]
    BY <1>1, TakeMessage, Zenon
  <2>6. EpochOf(slot)' = EpochOf(slot)
    BY <1>1, Zenon DEF EpochOf
  <2>7. epoch' \in [Node -> Nat] /\ epoch'[n] = m.current_epoch
        /\ \A k \in Node \ {n} : epoch'[k] = epoch[k]
    BY <1>1, <2>1, <2>3, Zenon
  <2> HIDE DEF m
  <2>8. /\ offline_until_epoch' \in [Node -> Int]
        /\ \A k \in Node \ {n} : offline_until_epoch'[k] = offline_until_epoch[k]
        /\ offline_until_epoch'[n] \in
             {NoEpoch} \cup (IF n \in Unstable THEN {m.current_epoch + 1} ELSE {})
    <3>1. CASE /\ n \in Unstable
               /\ offline_until_epoch' = [offline_until_epoch EXCEPT ![n] = m.current_epoch + 1]
      BY <2>1, <2>3, <3>1
    <3>2. CASE offline_until_epoch' = [offline_until_epoch EXCEPT ![n] =
                                      IF returns THEN NoEpoch ELSE offline_until_epoch[n]]
      <4>1. CASE returns
        BY <2>1, <3>2, <4>1 DEF NoEpoch
      <4>2. CASE ~returns
        <5>1. offline_until_epoch' = offline_until_epoch
          BY <2>1, <3>2, <4>2, Zenon
        <5>2. CASE offline_until_epoch[n] = NoEpoch
          BY <2>1, <5>1, <5>2, Zenon
        <5>3. CASE offline_until_epoch[n] # NoEpoch
          <6>1. n \in Unstable /\ offline_until_epoch[n] = epoch[n] + 1
            BY <2>1, <5>3, Zenon
          <6>2. ~(m.current_epoch >= epoch[n] + 1)
            BY <4>2, <5>3, <6>1, Zenon
          <6>3. epoch[n] \in Nat
            BY <2>1, Zenon
          <6>4. m.current_epoch = epoch[n]
            BY <2>3, <6>2, <6>3
          <6> QED
            BY <2>1, <5>1, <6>1, <6>4, Zenon
        <5> QED
          BY <5>2, <5>3, Zenon
      <4> QED
        BY <4>1, <4>2, Zenon
    <3> QED
      BY <1>1, <3>1, <3>2, Zenon DEF m
  <2>9. \A k \in Node : EpochsInOrder(inbox[k], epoch[k], EpochOf(slot)) /\ epoch[k] <= EpochOf(slot)
          /\ offline_until_epoch[k] \in {NoEpoch} \cup (IF k \in Unstable THEN {epoch[k] + 1} ELSE {})
    BY Zenon DEF Inv, ClockInv
  <2>10. \A k \in Node : EpochsInOrder(inbox'[k], epoch'[k], EpochOf(slot))
    BY <2>4, <2>5, <2>7, <2>9, Zenon
  <2>11. \A k \in Node : epoch'[k] <= EpochOf(slot)
    BY <2>3, <2>7, <2>9, Zenon
  <2>12. \A k \in Node : offline_until_epoch'[k] \in
           {NoEpoch} \cup (IF k \in Unstable THEN {epoch'[k] + 1} ELSE {})
    BY <2>7, <2>8, <2>9, Zenon
  <2> QED
    BY <2>6, <2>7, <2>8, <2>10, <2>11, <2>12, Zenon DEF ClockInv, NoEpoch
<1>8. Piece(blockchain'[n], a, Tip(n)) /\ Tip(n) <= Tip(n)
  BY <1>1, <1>3, <1>4
<1> QED
  BY <1>1, <1>3, <1>4, <1>5, <1>6, <1>7, <1>8, HandlerKeeps, Zenon

---------------------------------------------------------------------------------
(* The theorems. *)

LEMMA StutterKeeps ==
  ASSUME Inv, UNCHANGED vars
  PROVE  Inv' /\ \A n \in Node : Tip(n)' = Tip(n)
<1>1. UNCHANGED <<slot, canonical, blockchain, sync_in_progress, epoch, offline_until_epoch,
                  inbox, world_inbox, tasks>>
  BY Zenon DEF vars, world, availability, network
<1>2. Top' = Top /\ \A n \in Node : Tip(n)' = Tip(n)
  BY <1>1, Zenon DEF Top, Tip
<1>3. WorldInv'
  BY <1>1, Zenon DEF Inv, WorldInv
<1>4. ChainInv'
  BY <1>1, <1>2, Zenon DEF Inv, ChainInv
<1>5. NetworkInv'
  BY <1>1, <1>2, Zenon DEF Inv, NetworkInv
<1>6. OrderInv'
  BY <1>1, <1>2, Zenon DEF Inv, OrderInv
<1>7. ClockInv'
  <2>1. EpochOf(slot)' = EpochOf(slot)
    BY <1>1, Zenon DEF EpochOf
  <2> QED
    BY <1>1, <2>1, Zenon DEF Inv, ClockInv
<1> QED
  BY <1>2, <1>3, <1>4, <1>5, <1>6, <1>7, Zenon DEF Inv

LEMMA StepKeeps ==
  ASSUME Inv, [Next]_vars
  PROVE  Inv' /\ \A n \in Node : Tip(n)' >= Tip(n)
<1>1. \A n \in Node : Tip(n) \in Nat
  BY TipFacts, Zenon DEF Inv
<1>2. ASSUME UNCHANGED blockchain PROVE \A n \in Node : Tip(n)' >= Tip(n)
  BY <1>1, <1>2 DEF Tip
<1>3. CASE NextSlot
  BY <1>2, <1>3, NextSlotKeeps, Zenon DEF NextSlot
<1>4. CASE WorldReceivesRequest
  BY <1>2, <1>4, WorldReceivesRequestKeeps, Zenon DEF WorldReceivesRequest
<1>5. ASSUME NEW n \in Node, Deliver(n) PROVE Inv' /\ \A k \in Node : Tip(k)' >= Tip(k)
  <2>1. UNCHANGED blockchain
    BY <1>5, Zenon DEF Deliver
  <2> QED
    BY <1>2, <1>5, <2>1, DeliverKeeps, Zenon
<1>6. ASSUME NEW n \in Node, Handle(n) PROVE Inv' /\ \A k \in Node : Tip(k)' >= Tip(k)
  <2>1. CASE Skip(n)
    <3>1. UNCHANGED blockchain
      BY <2>1, Zenon DEF Skip
    <3> QED
      BY <1>2, <2>1, <3>1, SkipKeeps
  <2>2. ASSUME Inv', Tip(n) <= Tip(n)', \A k \in Node \ {n} : Tip(k)' = Tip(k)
        PROVE  Inv' /\ \A k \in Node : Tip(k)' >= Tip(k)
    <3>1. Tip(n)' \in Nat
      <4>1. PICK a \in Nat, t \in Nat : Fits(a, t) /\ Piece(blockchain'[n], a, t)
        BY <2>2, Zenon DEF Inv, ChainInv
      <4>2. get_last_index(blockchain'[n]) = t
        BY <4>1, PieceTip, Zenon
      <4> QED
        BY <4>2, Zenon DEF Tip
    <3> QED
      BY <1>1, <2>2, <3>1
  <2>3. CASE ReceiveBlock(n)
    BY <2>2, <2>3, ReceiveBlockKeeps, Zenon
  <2>4. CASE ReceiveRequest(n)
    <3>1. UNCHANGED blockchain
      BY <2>4, Zenon DEF ReceiveRequest
    <3> QED
      BY <1>2, <2>4, <3>1, ReceiveRequestKeeps
  <2>5. CASE ReceiveResponse(n)
    BY <2>2, <2>5, ReceiveResponseKeeps, Zenon
  <2>6. CASE ReceiveUpdateSlot(n)
    <3>1. UNCHANGED blockchain
      BY <2>6, Zenon DEF ReceiveUpdateSlot
    <3> QED
      BY <1>2, <2>6, <3>1, ReceiveUpdateSlotKeeps
  <2> QED
    BY <1>6, <2>1, <2>3, <2>4, <2>5, <2>6, Zenon DEF Handle
<1>7. CASE UNCHANGED vars
  BY <1>1, <1>7, StutterKeeps
<1> QED
  BY <1>3, <1>4, <1>5, <1>6, <1>7, Zenon DEF Next

\* The inductive invariant holds in every reachable state.
THEOREM Invariance == Spec => []Inv
<1>1. Inv /\ [Next]_vars => Inv'
  BY StepKeeps, Zenon
<1> QED
  BY InitInv, <1>1, PTL DEF Spec

\* However broadcasts, forwards, answers and snapshots interleave in the handlers of
\* SendBlock and ResponseBlockSync, every local chain is a gap-free piece of the
\* canonical chain that is not ahead of it, and its transaction index fits its blocks.
THEOREM ChainsCanonical == Spec => []LocalChainsCanonical
<1>1. Inv => LocalChainsCanonical
  <2> SUFFICES ASSUME Inv, NEW n \in Node
               PROVE  LET bc == blockchain[n] IN
                      /\ Tip(n) <= get_last_index(canonical)
                      /\ bc.blocks = Window(Head(bc.blocks).index, Tip(n))
                      /\ UNION {b.txs : b \in Range(bc.blocks)} \subseteq bc.transaction_index
                      /\ bc.transaction_index \subseteq 0..Tip(n)
    BY Zenon DEF LocalChainsCanonical
  <2> DEFINE bc == blockchain[n]
  <2>1. /\ Tip(n) \in Nat /\ Tip(n) <= Top
        /\ \E a \in Nat : Fits(a, Tip(n)) /\ Piece(blockchain[n], a, Tip(n))
    BY TipFacts, Zenon DEF Inv
  <2>2. PICK a \in Nat : Fits(a, Tip(n)) /\ Piece(bc, a, Tip(n))
    BY <2>1, Zenon
  <2>3. /\ Head(bc.blocks).index = a /\ bc.blocks = Window(a, Tip(n)) /\ a <= Tip(n)
        /\ a..Tip(n) \subseteq bc.transaction_index /\ bc.transaction_index \subseteq 0..Tip(n)
    BY <2>2, PieceTip, Zenon DEF Piece, Fits
  <2>4. Range(bc.blocks) = {Block(i) : i \in a..Tip(n)}
    BY <2>1, <2>3, RangeOfWindow, Zenon
  <2>5. \A i \in a..Tip(n) : Block(i).txs = {i}
    BY Zenon DEF Block
  <2> HIDE DEF bc
  <2>6. UNION {b.txs : b \in Range(bc.blocks)} \subseteq bc.transaction_index
    <3> SUFFICES ASSUME NEW b \in Range(bc.blocks), NEW x \in b.txs
                 PROVE  x \in bc.transaction_index
      BY Zenon
    <3>1. PICK i \in a..Tip(n) : b = Block(i)
      BY <2>4, Zenon
    <3>2. x = i
      BY <2>5, <3>1, Zenon
    <3> QED
      BY <2>3, <3>2, Zenon
  <2> QED
    BY <2>1, <2>3, <2>6, Zenon DEF Top, bc
<1> QED
  BY <1>1, Invariance, PTL

\* No step moves a tip back, although replace_local_chain_with_snapshot does not compare
\* the snapshot to the local chain.
THEOREM TipsAdvance == Spec => TipsNeverRetreat
<1>1. Inv /\ [Next]_vars => [\A n \in Node : Tip(n)' >= Tip(n)]_vars
  BY StepKeeps, Zenon
<1> QED
  BY <1>1, Invariance, PTL DEF Spec, TipsNeverRetreat

\* Chains stay within max_blocks_in_memory, channels within their capacity, and only an
\* unstable node is away on its own account, until the epoch after the one it has heard of.
THEOREM SyncTypes == Spec => []TypeOK
<1>1. Inv => TypeOK
  <2> SUFFICES ASSUME Inv PROVE TypeOK
    BY Zenon
  <2>1. ASSUME NEW bc, NEW a, NEW t, Fits(a, t), Piece(bc, a, t)
        PROVE  Len(bc.blocks) \in 1..max_blocks_in_memory /\ bc.transaction_index \subseteq Nat
    <3>1. Len(bc.blocks) = t - a + 1 /\ a \in Nat /\ t \in Nat /\ a <= t
          /\ t - a < max_blocks_in_memory
      BY <2>1, PieceTip, Zenon DEF Fits
    <3>2. Len(bc.blocks) \in 1..max_blocks_in_memory
      BY <3>1, MaxBlocksAssumption
    <3>3. bc.transaction_index \subseteq 0..t
      BY <2>1, Zenon DEF Piece
    <3> QED
      BY <3>1, <3>2, <3>3
  <2>2. /\ Len(canonical.blocks) \in 1..max_blocks_in_memory
        /\ canonical.transaction_index \subseteq Nat
    BY <2>1, Zenon DEF Inv, WorldInv
  <2>3. \A n \in Node : /\ Len(blockchain[n].blocks) \in 1..max_blocks_in_memory
                        /\ blockchain[n].transaction_index \subseteq Nat
    BY <2>1, Zenon DEF Inv, ChainInv
  <2>4. \A bc \in {canonical} \cup {blockchain[n] : n \in Node} :
       Len(bc.blocks) \in 1..max_blocks_in_memory /\ bc.transaction_index \subseteq Nat
    BY <2>2, <2>3, Zenon
  <2> QED
    BY <2>4, Zenon DEF TypeOK, Inv, WorldInv, ChainInv, NetworkInv, ClockInv
<1> QED
  BY <1>1, Invariance, PTL
=================================================================================
