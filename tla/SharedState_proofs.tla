----------------------------- MODULE SharedState_proofs -----------------------------
(* What threads and tasks share, for any network, any outage, any lists of          *)
(* validators and any number of threads: the chunks of validators that mining       *)
(* threads work on, PowConsensus, and the outage window.  OnsetDrain is not         *)
(* inductive: a forward that has passed its check is counted later, and a counted   *)
(* forward is sampled later.  Drain therefore bounds, from the sample of the last   *)
(* online epoch on, what was sampled plus what was counted since plus what has      *)
(* passed its check, and says that the flag is off all that time.                   *)
EXTENDS SharedState, TLAPS

\* The smaller of two numbers, as Mining takes it.
LEMMA MinOfTwo ==
  ASSUME NEW a \in Int, NEW b \in Int
  PROVE  Min({a, b}) \in Int /\ Min({a, b}) \in {a, b} /\ Min({a, b}) <= a /\ Min({a, b}) <= b
<1>1. \E x \in {a, b} : \A y \in {a, b} : x <= y
  <2>1. CASE a <= b
    BY <2>1
  <2>2. CASE b <= a
    BY <2>2
  <2> QED
    BY <2>1, <2>2
<1> QED
  BY <1>1, Zenon DEF Min

\* A chunk is never empty: the length of the chunks is positive.
LEMMA StepPositive ==
  ASSUME max_threads \in Nat, NEW n \in Nat
  PROVE  ThreadStep(n) \in Nat \ {0}
<1> DEFINE k == Min({n, max_threads})
<1>1. k \in Int /\ k <= n
  BY MinOfTwo
<1>2. CASE k > 0
  <2>1. \A a \in Nat, d \in Nat \ {0} : a >= d => a \div d \in Nat \ {0}
    OBVIOUS
  <2>2. n + k - 1 \in Nat /\ k \in Nat \ {0} /\ n + k - 1 >= k
    BY <1>1, <1>2
  <2> HIDE DEF k
  <2>3. (n + k - 1) \div k \in Nat \ {0}
    BY <2>1, <2>2, Zenon
  <2> QED
    BY <1>2, <2>3, Zenon DEF ThreadStep, k
<1>3. CASE ~(k > 0)
  BY <1>3 DEF ThreadStep
<1> QED
  BY <1>2, <1>3, Zenon

\* The validators of chunk t are those of the list from one multiple of the chunk
\* length to the next.
LEMMA ChunkOfList ==
  ASSUME max_threads \in Nat, NEW S, NEW vs \in Seq(S), NEW t \in Threads(vs)
  PROVE  LET size == ThreadStep(Len(vs)) IN
         /\ size \in Nat \ {0} /\ t \in Nat \ {0}
         /\ Chunk(vs, t) \in Seq(S)
         /\ \A i \in 1..Len(Chunk(vs, t)) :
              /\ i <= size
              /\ (t - 1) * size + i \in 1..Len(vs)
              /\ Chunk(vs, t)[i] = vs[(t - 1) * size + i]
<1> DEFINE size == ThreadStep(Len(vs))
           lo == (t - 1) * size + 1
           hi == Min({t * size, Len(vs)})
<1>1. size \in Nat \ {0}
  BY StepPositive
<1>2. t \in Nat \ {0}
  <2> HIDE DEF size
  <2> QED
    BY <1>1 DEF Threads, size
<1>3. Chunk(vs, t) = SubSeq(vs, lo, hi)
  BY Zenon DEF Chunk
<1> HIDE DEF size
<1>4. (t - 1) * size \in Nat /\ t * size = (t - 1) * size + size
  BY <1>1, <1>2
<1>5. lo \in Nat \ {0} /\ hi \in Int /\ hi <= Len(vs) /\ hi <= (t - 1) * size + size
  <2>1. lo \in Nat \ {0}
    BY <1>4
  <2>2. Len(vs) \in Int /\ t * size \in Int
    BY <1>1, <1>4
  <2> QED
    BY <1>4, <2>1, <2>2, MinOfTwo, Zenon
<1>6. lo = (t - 1) * size + 1
  BY Zenon
<1>7. ASSUME NEW k \in Nat, k = (t - 1) * size
      PROVE  /\ SubSeq(vs, lo, hi) \in Seq(S)
             /\ \A i \in 1..Len(SubSeq(vs, lo, hi)) :
                  /\ i <= size /\ k + i \in 1..Len(vs)
                  /\ SubSeq(vs, lo, hi)[i] = vs[k + i]
  <2>1. lo = k + 1 /\ hi <= k + size
    BY <1>5, <1>7, Zenon
  <2> HIDE DEF lo, hi
  <2> QED
    BY <1>1, <1>5, <2>1
<1> QED
  BY <1>1, <1>2, <1>3, <1>4, <1>7, Zenon DEF size

\* No validator is in two chunks.
LEMMA ChunksDisjoint ==
  ASSUME max_threads \in Nat, NEW S, NEW vs \in Seq(S), IsInjective(vs),
         NEW t \in Threads(vs), NEW u \in Threads(vs),
         NEW v, v \in Range(Chunk(vs, t)), v \in Range(Chunk(vs, u))
  PROVE  t = u
<1> DEFINE size == ThreadStep(Len(vs))
<1>1. size \in Nat \ {0} /\ t \in Nat \ {0} /\ u \in Nat \ {0}
  BY ChunkOfList, Zenon
<1>2. PICK i \in 1..Len(Chunk(vs, t)) : Chunk(vs, t)[i] = v
  <2>1. Chunk(vs, t) \in Seq(S)
    BY ChunkOfList, Zenon
  <2> QED
    BY <2>1 DEF Range
<1>3. PICK j \in 1..Len(Chunk(vs, u)) : Chunk(vs, u)[j] = v
  <2>1. Chunk(vs, u) \in Seq(S)
    BY ChunkOfList, Zenon
  <2> QED
    BY <2>1 DEF Range
<1>4. i <= size /\ (t - 1) * size + i \in 1..Len(vs) /\ vs[(t - 1) * size + i] = v
  BY <1>2, ChunkOfList, Zenon
<1>5. j <= size /\ (u - 1) * size + j \in 1..Len(vs) /\ vs[(u - 1) * size + j] = v
  BY <1>3, ChunkOfList, Zenon
<1>6. i \in Nat \ {0} /\ j \in Nat \ {0}
  <2>1. Chunk(vs, t) \in Seq(S) /\ Chunk(vs, u) \in Seq(S)
    BY ChunkOfList, Zenon
  <2> QED
    BY <1>2, <1>3, <2>1
<1> HIDE DEF size
<1>7. (t - 1) * size + i = (u - 1) * size + j
  BY <1>4, <1>5 DEF IsInjective
<1>8. \A a, b \in Nat : a < b => a * size + size <= b * size
  <2> SUFFICES ASSUME NEW a \in Nat, NEW b \in Nat, a < b
               PROVE  (a + 1) * size <= b * size
    BY <1>1
  <2> QED
    BY <1>1
<1>9. ASSUME NEW a \in Nat, NEW b \in Nat, a * size + i = b * size + j
      PROVE  a = b
  BY <1>1, <1>4, <1>5, <1>6, <1>8, <1>9, SMTT(30)
<1> QED
  BY <1>1, <1>7, <1>9

\* The chunks of Pow are those of Mining, and no validator is in two of them.
LEMMA PowChunks ==
  ASSUME max_threads \in Nat, NEW S, NEW vs \in Seq(S), Pow!IsInjective(vs),
         NEW t \in Pow!Threads(vs)
  PROVE  /\ Pow!Chunk(vs, t) \in Seq(S)
         /\ \A u \in Pow!Threads(vs) : \A v \in Pow!Range(Pow!Chunk(vs, t)) :
              v \in Pow!Range(Pow!Chunk(vs, u)) => t = u
<1>1. /\ Pow!Threads(vs) = Threads(vs)
      /\ \A u : Pow!Chunk(vs, u) = Chunk(vs, u)
      /\ \A s : Pow!Range(s) = Range(s)
      /\ IsInjective(vs)
  BY Zenon DEF Pow!Threads, Pow!Chunk, Pow!ThreadStep, Pow!Min, Pow!Range, Pow!IsInjective,
     Threads, Chunk, ThreadStep, Min, Range, IsInjective
<1>2. t \in Threads(vs) /\ Chunk(vs, t) \in Seq(S)
  BY <1>1, ChunkOfList, Zenon
<1>3. ASSUME NEW u \in Threads(vs), NEW v \in Range(Chunk(vs, t)), v \in Range(Chunk(vs, u))
      PROVE  t = u
  BY <1>1, <1>2, <1>3, ChunksDisjoint, Zenon
<1> QED
  BY <1>1, <1>2, <1>3, Zenon

--------------------------------------------------------------------------------
Hashing(t) == at[t] \in {"hash", "found", "record"}

\* Where the threads stand: a thread that mines is at a validator of its chunk, and
\* all threads have ended when select_proposer reads the result.
ThreadsOK ==
  /\ validators \in ValidatorLists \cup {<<>>}
  /\ DOMAIN position = DOMAIN at
  /\ main # "idle" => DOMAIN at = Pow!Threads(validators)
  /\ \A t \in DOMAIN at :
       /\ position[t] \in Nat \ {0}
       /\ Hashing(t) => position[t] <= Len(Pow!Chunk(validators, t))
       /\ at[t] \in {"found", "record"} => Pow!Mined(t) \in found
  /\ main \in {"decide", "idle"} => \A t \in DOMAIN at : at[t] = "done"

\* Who holds the mutex: the poll, or the one thread that records its hash.
MutexOK ==
  /\ lock \in {Pow!Free, Pow!Main, Pow!Worker}
  /\ lock = Pow!Main <=> main = "guard"
  /\ lock = Pow!Worker <=> \E t \in DOMAIN at : at[t] = "record"
  /\ \A t, u \in DOMAIN at : at[t] = "record" /\ at[u] = "record" => t = u

\* What became of a hash: it met the poll, it is about to be recorded, or there is a
\* winner already.
HashesOK ==
  /\ winner # Pow!None => winner \in found
  /\ \A v \in found \ polled :
       \/ winner # Pow!None
       \/ lock = Pow!Worker
       \/ \E t \in DOMAIN at : at[t] = "found" /\ Pow!Mined(t) = v

PowInv == ThreadsOK /\ MutexOK /\ HashesOK /\ Pow!SelectedIsWinner /\ Pow!FinderWinsUnlessPolled

\* A thread that mines has a validator of its own, and select_proposer has not
\* returned.
LEMMA MinedIsValidator ==
  ASSUME Pow!PowAssumption, ThreadsOK, NEW t \in DOMAIN at, Hashing(t)
  PROVE  /\ Pow!Mined(t) \in Pow!Range(validators) \ {Pow!None}
         /\ main \notin {"idle", "decide"}
         /\ \A u \in DOMAIN at : Hashing(u) /\ Pow!Mined(u) = Pow!Mined(t) => u = t
<1>1. main \notin {"idle", "decide"}
  BY Zenon DEF ThreadsOK, Hashing
<1>2. DOMAIN at = Pow!Threads(validators) /\ max_threads \in Nat
  BY <1>1, Zenon DEF ThreadsOK, Pow!PowAssumption
<1>3. validators \in Seq(Pow!Range(validators) \ {Pow!None}) /\ Pow!IsInjective(validators)
  <2>1. CASE validators \in ValidatorLists
    BY <2>1, Zenon DEF Pow!PowAssumption
  <2>2. CASE validators = <<>>
    BY <2>2 DEF Pow!IsInjective
  <2> QED
    BY <2>1, <2>2, Zenon DEF ThreadsOK
<1>4. ASSUME NEW u \in DOMAIN at, Hashing(u)
      PROVE  Pow!Mined(u) \in Pow!Range(Pow!Chunk(validators, u)) \cap (Pow!Range(validators) \ {Pow!None})
  <2>1. Pow!Chunk(validators, u) \in Seq(Pow!Range(validators) \ {Pow!None})
    BY <1>2, <1>3, PowChunks, Zenon
  <2>2. position[u] \in Nat \ {0} /\ position[u] <= Len(Pow!Chunk(validators, u))
    BY <1>4, Zenon DEF ThreadsOK
  <2>3. position[u] \in DOMAIN Pow!Chunk(validators, u)
    BY <2>1, <2>2
  <2> QED
    BY <2>1, <2>3 DEF Pow!Mined, Pow!Range
<1>5. ASSUME NEW u \in DOMAIN at, Hashing(u), Pow!Mined(u) = Pow!Mined(t)
      PROVE  u = t
  BY <1>2, <1>3, <1>4, <1>5, PowChunks, Zenon
<1> QED
  BY <1>1, <1>4, <1>5, Zenon

\* The invariant holds initially, and when a selection starts.
LEMMA PowInitInv == Pow!Init => PowInv
  BY DEF Pow!Init, PowInv, ThreadsOK, MutexOK, HashesOK, Pow!SelectedIsWinner,
     Pow!FinderWinsUnlessPolled,
     Pow!None, Pow!Free, Pow!Main, Pow!Worker

LEMMA PowSelectInv ==
  ASSUME NEW vs \in ValidatorLists, Pow!Select(vs)
  PROVE  PowInv'
<1>1. CASE Len(vs) < 2 /\ main' = "idle" /\ at' = <<>> /\ position' = <<>>
  BY <1>1 DEF Pow!Select, PowInv, ThreadsOK, MutexOK, HashesOK, Pow!SelectedIsWinner,
     Pow!FinderWinsUnlessPolled, Pow!None, Pow!Free, Pow!Main, Pow!Worker
<1>2. CASE /\ main' = "now" /\ at' = [t \in Pow!Threads(vs) |-> "check"]
           /\ position' = [t \in Pow!Threads(vs) |-> 1]
  BY <1>2 DEF Pow!Select, PowInv, ThreadsOK, Hashing, MutexOK, HashesOK, Pow!SelectedIsWinner,
     Pow!FinderWinsUnlessPolled, Pow!None, Pow!Free, Pow!Main, Pow!Worker
<1> QED
  BY <1>1, <1>2, Zenon DEF Pow!Select

\* A thread that looks at the stop flag preserves the invariant.
LEMMA PowCheckStopInv ==
  ASSUME Pow!PowAssumption, PowInv, NEW t \in DOMAIN at, Pow!CheckStop(t)
  PROVE  PowInv'
<1>1. /\ UNCHANGED <<validators, selected, main, winner, lock, found, polled>>
      /\ at[t] = "check"
      /\ DOMAIN at' = DOMAIN at /\ DOMAIN position' = DOMAIN at
      /\ at'[t] \in {"check", "hash", "done"}
      /\ position'[t] \in Nat \ {0}
      /\ at'[t] = "hash" => position'[t] <= Len(Pow!Chunk(validators, t))
      /\ \A u \in DOMAIN at : u # t => at'[u] = at[u] /\ position'[u] = position[u]
  BY DEF Pow!CheckStop, PowInv, ThreadsOK, Pow!mutex
<1>2. \A u \in DOMAIN at : u # t => Pow!Mined(u)' = Pow!Mined(u)
  BY <1>1, Zenon DEF Pow!Mined
<1>3. main \notin {"decide", "idle"}
  BY <1>1, Zenon DEF PowInv, ThreadsOK
<1>4. ThreadsOK'
  BY <1>1, <1>2, <1>3, Zenon DEF PowInv, ThreadsOK, Hashing
<1>5. MutexOK'
  BY <1>1, Zenon DEF PowInv, MutexOK
<1>6. HashesOK'
  BY <1>1, <1>2 DEF PowInv, HashesOK
<1> QED
  BY <1>1, <1>3, <1>4, <1>5, <1>6, Zenon DEF PowInv, Pow!SelectedIsWinner, Pow!FinderWinsUnlessPolled

\* A batch of hashes preserves the invariant.
LEMMA PowHashInv ==
  ASSUME Pow!PowAssumption, PowInv, NEW t \in DOMAIN at, Pow!Hash(t)
  PROVE  PowInv'
<1>1. /\ UNCHANGED <<validators, selected, main, winner, lock, polled>>
      /\ at[t] = "hash" /\ at'[t] \in {"found", "check"}
      /\ DOMAIN at' = DOMAIN at /\ DOMAIN position' = DOMAIN at
      /\ position'[t] \in Nat \ {0}
      /\ at'[t] = "found" => found' = found \cup {Pow!Mined(t)} /\ position' = position
      /\ at'[t] = "check" => found' = found
      /\ \A u \in DOMAIN at : u # t => at'[u] = at[u] /\ position'[u] = position[u]
  BY DEF Pow!Hash, PowInv, ThreadsOK, Pow!mutex
<1>2. \A u \in DOMAIN at : u # t => Pow!Mined(u)' = Pow!Mined(u)
  BY <1>1, Zenon DEF Pow!Mined
<1>3. at'[t] = "found" => Pow!Mined(t)' = Pow!Mined(t)
  BY <1>1, Zenon DEF Pow!Mined
<1>4. main \notin {"decide", "idle"}
  BY <1>1, Zenon DEF PowInv, ThreadsOK
<1>5. ThreadsOK'
  BY <1>1, <1>2, <1>3, <1>4, Zenon DEF PowInv, ThreadsOK, Hashing
<1>6. MutexOK'
  BY <1>1, Zenon DEF PowInv, MutexOK
<1>7. HashesOK'
  BY <1>1, <1>2, <1>3 DEF PowInv, HashesOK
<1> QED
  BY <1>1, <1>4, <1>5, <1>6, <1>7, Zenon DEF PowInv, Pow!SelectedIsWinner, Pow!FinderWinsUnlessPolled

\* The worker's try_lock preserves the invariant: if it fails, the poll holds the
\* mutex, or another thread does and is about to record its hash.
LEMMA PowTryRecordInv ==
  ASSUME Pow!PowAssumption, PowInv, NEW t \in DOMAIN at, Pow!TryRecord(t)
  PROVE  PowInv'
<1>1. /\ UNCHANGED <<validators, selected, main, winner, position, found>>
      /\ at[t] = "found"
      /\ DOMAIN at' = DOMAIN at
      /\ \A u \in DOMAIN at : u # t => at'[u] = at[u]
      /\ lock = Pow!Free => lock' = Pow!Worker /\ at'[t] = "record"
      /\ lock # Pow!Free => lock' = lock /\ at'[t] = "done"
      /\ polled' = IF lock = Pow!Main THEN polled \cup {Pow!Mined(t)} ELSE polled
  BY Zenon DEF Pow!TryRecord
<1>2. \A u \in DOMAIN at : Pow!Mined(u)' = Pow!Mined(u)
  BY <1>1, Zenon DEF Pow!Mined
<1>3. main \notin {"decide", "idle"}
  BY <1>1, Zenon DEF PowInv, ThreadsOK
<1>4. ThreadsOK'
  BY <1>1, <1>2, <1>3, Zenon DEF PowInv, ThreadsOK, Hashing
<1>5. MutexOK'
  BY <1>1, Zenon DEF PowInv, MutexOK, Pow!Free, Pow!Main, Pow!Worker
<1>6. HashesOK'
  <2> SUFFICES ASSUME NEW v \in found \ polled', winner = Pow!None, lock' # Pow!Worker
               PROVE  \E u \in DOMAIN at : at'[u] = "found" /\ Pow!Mined(u) = v
    BY <1>1, <1>2 DEF PowInv, HashesOK
  <2>1. lock = Pow!Main
    BY <1>1, Zenon DEF PowInv, MutexOK, Pow!Free, Pow!Main, Pow!Worker
  <2>2. v # Pow!Mined(t) /\ v \in found \ polled
    BY <1>1, <2>1, Zenon
  <2>3. PICK u \in DOMAIN at : at[u] = "found" /\ Pow!Mined(u) = v
    BY <2>1, <2>2, Zenon DEF PowInv, HashesOK, Pow!Main, Pow!Worker
  <2> QED
    BY <1>1, <2>2, <2>3, Zenon
<1> QED
  BY <1>1, <1>3, <1>4, <1>5, <1>6, Zenon DEF PowInv, Pow!SelectedIsWinner, Pow!FinderWinsUnlessPolled

\* Recording a hash preserves the invariant: afterwards there is a winner.
LEMMA PowRecordInv ==
  ASSUME Pow!PowAssumption, PowInv, NEW t \in DOMAIN at, Pow!Record(t)
  PROVE  PowInv'
<1>1. /\ UNCHANGED <<validators, selected, main, position, found, polled>>
      /\ at[t] = "record" /\ at'[t] = "done"
      /\ DOMAIN at' = DOMAIN at
      /\ \A u \in DOMAIN at : u # t => at'[u] = at[u]
      /\ winner' = IF winner = Pow!None THEN Pow!Mined(t) ELSE winner
      /\ lock' = Pow!Free
  BY Zenon DEF Pow!Record
<1>2. \A u \in DOMAIN at : Pow!Mined(u)' = Pow!Mined(u)
  BY <1>1, Zenon DEF Pow!Mined
<1>3. Pow!Mined(t) # Pow!None /\ Pow!Mined(t) \in found /\ main \notin {"decide", "idle"}
  BY <1>1, MinedIsValidator, Zenon DEF PowInv, ThreadsOK, Hashing
<1>4. ThreadsOK'
  BY <1>1, <1>2, <1>3, Zenon DEF PowInv, ThreadsOK, Hashing
<1>5. MutexOK'
  BY <1>1, Zenon DEF PowInv, MutexOK, Pow!Free, Pow!Main, Pow!Worker
<1>6. HashesOK'
  BY <1>1, <1>3, Zenon DEF PowInv, HashesOK
<1> QED
  BY <1>1, <1>3, <1>4, <1>5, <1>6, Zenon DEF PowInv, Pow!SelectedIsWinner, Pow!FinderWinsUnlessPolled

---------------------------------------------------------------------------------
\* The steps of the poll, which leave threads and hashes alone, preserve it.
LEMMA PowPollInv ==
  ASSUME PowInv,
         Pow!Expire \/ Pow!ReadTime \/ Pow!TryPoll \/ Pow!Poll \/ Pow!TimeOut \/ Pow!Join
  PROVE  PowInv'
<1>1. /\ UNCHANGED <<validators, selected, winner, at, position, found, polled>>
      /\ main # "idle" /\ main' # "idle"
      /\ main' = "decide" => \A t \in Pow!Threads(validators) : at[t] = "done"
      /\ \/ lock' = lock /\ main # "guard" /\ main' # "guard"
         \/ UNCHANGED <<lock, main>>
         \/ lock = Pow!Free /\ lock' = Pow!Main /\ main' = "guard"
         \/ main = "guard" /\ lock' = Pow!Free /\ main' # "guard"
  <2>1. CASE Pow!Expire
    BY <2>1, Zenon DEF Pow!Expire, Pow!mutex, Pow!workers, PowInv, ThreadsOK
  <2>2. CASE Pow!ReadTime \/ Pow!TimeOut \/ Pow!Join
    BY <2>2, Zenon DEF Pow!ReadTime, Pow!TimeOut, Pow!Join, Pow!mutex, Pow!workers
  <2>3. CASE Pow!TryPoll
    BY <2>3, Zenon DEF Pow!TryPoll, Pow!workers
  <2>4. CASE Pow!Poll
    BY <2>4, Zenon DEF Pow!Poll, Pow!workers
  <2> QED
    BY <2>1, <2>2, <2>3, <2>4, Zenon
<1>2. \A t \in DOMAIN at : Pow!Mined(t)' = Pow!Mined(t)
  BY <1>1, Zenon DEF Pow!Mined
<1>3. ThreadsOK'
  BY <1>1, <1>2, Zenon DEF PowInv, ThreadsOK, Hashing
<1>4. MutexOK'
  BY <1>1, Zenon DEF PowInv, MutexOK, Pow!Free, Pow!Main, Pow!Worker
<1>5. HashesOK'
  BY <1>1, <1>2, Zenon DEF PowInv, HashesOK, MutexOK, Pow!Free, Pow!Main, Pow!Worker
<1> QED
  BY <1>1, <1>3, <1>4, <1>5, Zenon DEF PowInv, Pow!SelectedIsWinner, Pow!FinderWinsUnlessPolled

\* The end of a selection: no thread is left that could hold the mutex, so the last
\* try_lock succeeds, and a hash that did not meet the poll has made a winner.
LEMMA PowDecideInv ==
  ASSUME PowInv, Pow!Decide
  PROVE  PowInv'
<1>1. /\ UNCHANGED <<validators, winner, lock, at, position, found, polled>>
      /\ main = "decide" /\ main' = "idle"
      /\ \/ selected' = winner
         \/ lock # Pow!Free \/ winner = Pow!None
  BY Zenon DEF Pow!Decide, Pow!mutex, Pow!workers
<1>2. \A t \in DOMAIN at : at[t] = "done" /\ Pow!Mined(t)' = Pow!Mined(t)
  BY <1>1, Zenon DEF PowInv, ThreadsOK, Pow!Mined
<1>3. lock = Pow!Free
  BY <1>1, <1>2, Zenon DEF PowInv, MutexOK
<1>4. ThreadsOK' /\ MutexOK' /\ HashesOK'
  BY <1>1, <1>2, <1>3, Zenon DEF PowInv, ThreadsOK, Hashing, MutexOK, HashesOK, Pow!Free, Pow!Main,
     Pow!Worker
<1>5. \A v \in found \ polled : winner # Pow!None
  BY <1>2, <1>3, Zenon DEF PowInv, HashesOK, Pow!Free, Pow!Worker
<1>6. Pow!SelectedIsWinner' /\ Pow!FinderWinsUnlessPolled'
  BY <1>1, <1>3, <1>5, Zenon DEF PowInv, HashesOK, Pow!SelectedIsWinner, Pow!FinderWinsUnlessPolled
<1> QED
  BY <1>4, <1>6, Zenon DEF PowInv

\* A change of the difficulty, and a step that changes nothing, preserve it.
LEMMA PowOutsideInv ==
  ASSUME PowInv, Pow!on_epoch_end \/ UNCHANGED Pow!vars
  PROVE  PowInv'
<1>1. UNCHANGED <<validators, selected, main, winner, lock, at, position, found, polled>>
  BY Zenon DEF Pow!on_epoch_end, Pow!vars, Pow!mutex, Pow!workers
<1>2. \A t : Pow!Mined(t)' = Pow!Mined(t)
  BY <1>1, Zenon DEF Pow!Mined
<1> QED
  BY <1>1, <1>2, Zenon DEF PowInv, ThreadsOK, Hashing, MutexOK, HashesOK, Pow!SelectedIsWinner,
     Pow!FinderWinsUnlessPolled

\* Every behaviour of PowConsensus keeps the invariant.
THEOREM PowInvariance == Pow!Spec => []PowInv
<1> Pow!PowAssumption
  BY SharedStateAssumption, Zenon
<1>1. PowInv /\ [Pow!Next]_(Pow!vars) => PowInv'
  BY PowSelectInv, PowCheckStopInv, PowHashInv, PowTryRecordInv, PowRecordInv, PowPollInv,
     PowDecideInv,
     PowOutsideInv, Zenon DEF Pow!Next, Pow!Thread
<1> QED
  BY PowInitInv, <1>1, PTL DEF Pow!Spec

\* select_proposer returns the recorded winner whenever there is one, however threads,
\* poll and timeout interleave.
THEOREM WinnerIsSelected == Pow!Spec => []SelectedIsWinner
<1> Pow!PowAssumption
  BY SharedStateAssumption
<1>1. PowInv => SelectedIsWinner
  BY Zenon DEF PowInv, SelectedIsWinner
<1> QED
  BY PowInvariance, <1>1, PTL

\* When a hash did not meet the poll at the mutex, a validator that found a hash is
\* selected.
THEOREM OnlyPollWastes == Pow!Spec => []FinderWinsUnlessPolled
<1> Pow!PowAssumption
  BY SharedStateAssumption
<1>1. PowInv => FinderWinsUnlessPolled
  BY Zenon DEF PowInv, FinderWinsUnlessPolled
<1> QED
  BY PowInvariance, <1>1, PTL

---------------------------------------------------------------------------------
\* The types, and why a validator never mines a batch too many: a thread looks at the
\* number of batches before it hashes, and no other thread mines for its validator.
PowTypesOK ==
  /\ Pow!TypeOK
  /\ DOMAIN any_running = DOMAIN at
  /\ batches \in [Pow!Range(validators) -> 0..max_batches]
  /\ \A t \in DOMAIN at : at[t] = "hash" => batches[Pow!Mined(t)] < max_batches

\* What saturating_sub does to the difficulty.
LEMMA SaturatingSub ==
  ASSUME NEW d \in Nat
  PROVE  Pow!saturating_sub(d) \in 0..d
<1>1. \E x \in {d - 1, 0} : \A y \in {d - 1, 0} : x >= y
  <2>1. CASE d = 0
    BY <2>1
  <2>2. CASE d > 0
    BY <2>2
  <2> QED
    BY <2>1, <2>2
<1>2. Pow!Max({d - 1, 0}) \in {d - 1, 0} /\ Pow!Max({d - 1, 0}) >= 0
  BY <1>1, Zenon DEF Pow!Max
<1> QED
  BY <1>2 DEF Pow!saturating_sub

\* The types hold initially, and a selection starts with them.
LEMMA PowInitTypes == Pow!PowAssumption /\ Pow!Init => PowTypesOK
<1> SUFFICES ASSUME Pow!PowAssumption, Pow!Init PROVE PowTypesOK
  BY Zenon
<1>1. difficulty \in 0..MaxDifficulty
  BY DEF Pow!Init, Pow!PowAssumption
<1>2. /\ validators = <<>> /\ at = <<>> /\ any_running = <<>> /\ batches = <<>>
      /\ found = {} /\ polled = {} /\ winner = Pow!None /\ selected = Pow!None /\ lock = Pow!Free
      /\ main = "idle" /\ late = FALSE /\ expired = FALSE /\ should_stop = FALSE
  BY Zenon DEF Pow!Init
<1>3. Pow!Range(validators) = {} /\ DOMAIN at = {} /\ DOMAIN any_running = {}
  BY <1>2 DEF Pow!Range
<1>4. batches \in [{} -> 0..max_batches]
  BY <1>2
<1>5. Pow!TypeOK
  BY <1>1, <1>2, <1>3, Zenon DEF Pow!TypeOK
<1> QED
  BY <1>3, <1>4, <1>5, Zenon DEF PowTypesOK

LEMMA PowSelectTypes ==
  ASSUME Pow!PowAssumption, PowInv, PowTypesOK, NEW vs \in ValidatorLists, Pow!Select(vs)
  PROVE  PowTypesOK'
<1>1. /\ validators' = vs /\ difficulty' = difficulty /\ winner' = Pow!None /\ lock' = Pow!Free
      /\ should_stop' = FALSE /\ late' = FALSE /\ expired' = FALSE
      /\ found' = {} /\ polled' = {} /\ batches' = [v \in Pow!Range(vs) |-> 0]
      /\ main' \in {"idle", "now"}
      /\ selected' \in {Pow!None, Pow!NOValidatorError} \/ (vs # <<>> /\ selected' = vs[1])
      /\ DOMAIN any_running' = DOMAIN at' /\ DOMAIN at' \subseteq Pow!Threads(vs)
      /\ \A t \in DOMAIN at' : at'[t] = "check" /\ position'[t] = 1 /\ any_running'[t] = FALSE
  BY DEF Pow!Select
<1>2. /\ vs \in Seq(Pow!Range(vs) \ {Pow!None}) /\ Pow!IsInjective(vs)
      /\ max_batches \in Nat /\ max_threads \in Nat
  BY Zenon DEF Pow!PowAssumption
<1>3. selected' \in Pow!Validators \cup {Pow!None, Pow!NOValidatorError}
  <2>1. vs # <<>> => vs[1] \in Pow!Range(vs)
    BY <1>2
  <2> QED
    BY <1>1, <2>1, Zenon DEF Pow!Validators
<1>4. \A t \in DOMAIN at' : position'[t] \in 1..(Len(Pow!Chunk(vs, t)) + 1)
  <2> SUFFICES ASSUME NEW t \in Pow!Threads(vs)
               PROVE  Len(Pow!Chunk(vs, t)) \in Nat
    BY <1>1
  <2>1. Pow!Chunk(vs, t) \in Seq(Pow!Range(vs) \ {Pow!None})
    BY <1>2, PowChunks, Zenon
  <2> QED
    BY <2>1
<1>5. difficulty \in 0..MaxDifficulty
  BY Zenon DEF PowTypesOK, Pow!TypeOK
<1>6. /\ batches' \in [Pow!Range(vs) -> 0..max_batches]
      /\ \A v \in Pow!Range(vs) : batches'[v] \in 0..max_batches
  <2>1. batches' = [v \in Pow!Range(vs) |-> 0] /\ 0 \in 0..max_batches
    BY <1>1, <1>2
  <2> QED
    BY <2>1, Zenon
<1>7. Pow!TypeOK'
  BY <1>1, <1>3, <1>4, <1>5, <1>6, Zenon DEF Pow!TypeOK
<1> QED
  BY <1>1, <1>6, <1>7, Zenon DEF PowTypesOK

\* The steps of a thread keep the types.
LEMMA PowThreadTypes ==
  ASSUME Pow!PowAssumption, PowInv, PowTypesOK, NEW t \in DOMAIN at, Pow!Thread(t)
  PROVE  PowTypesOK'
<1>1. /\ UNCHANGED <<difficulty, validators, selected, main, late, expired>>
      /\ DOMAIN at' = DOMAIN at
      /\ \A u \in DOMAIN at : u # t =>
           at'[u] = at[u] /\ position'[u] = position[u] /\ any_running'[u] = any_running[u]
      /\ at'[t] \in {"check", "hash", "found", "record", "done"}
      /\ DOMAIN any_running' = DOMAIN any_running /\ any_running'[t] \in BOOLEAN
      /\ should_stop' \in BOOLEAN /\ lock' \in {Pow!Free, Pow!Main, Pow!Worker}
      /\ winner' \in {winner, Pow!Mined(t)}
  <2>1. CASE Pow!CheckStop(t)
    BY <2>1, Zenon DEF Pow!CheckStop, Pow!mutex, PowTypesOK, Pow!TypeOK, PowInv, ThreadsOK
  <2>2. CASE Pow!Hash(t)
    BY <2>2, Zenon DEF Pow!Hash, Pow!mutex, PowTypesOK, Pow!TypeOK, PowInv, ThreadsOK
  <2>3. CASE Pow!TryRecord(t)
    BY <2>3, Zenon DEF Pow!TryRecord, PowTypesOK, Pow!TypeOK, PowInv, ThreadsOK
  <2>4. CASE Pow!Record(t)
    BY <2>4, Zenon DEF Pow!Record, PowTypesOK, Pow!TypeOK, PowInv, ThreadsOK
  <2> QED
    BY <2>1, <2>2, <2>3, <2>4, Zenon DEF Pow!Thread
<1>2. \A u \in DOMAIN at : u # t => Pow!Mined(u)' = Pow!Mined(u)
  BY <1>1, Zenon DEF Pow!Mined
<1>3. Hashing(t) => Pow!Mined(t) \in Pow!Range(validators)
  BY MinedIsValidator, Zenon DEF PowInv
<1>4. /\ winner' \in Pow!Range(validators) \cup {Pow!None}
      /\ polled' \subseteq found' /\ found' \subseteq Pow!Range(validators)
  <2>1. CASE Pow!CheckStop(t)
    BY <2>1, Zenon DEF Pow!CheckStop, Pow!mutex, PowTypesOK, Pow!TypeOK
  <2>2. CASE Pow!Hash(t)
    BY <1>3, <2>2, Zenon DEF Pow!Hash, Hashing, Pow!mutex, PowTypesOK, Pow!TypeOK
  <2>3. CASE Pow!TryRecord(t)
    BY <2>3, Zenon DEF Pow!TryRecord, PowTypesOK, Pow!TypeOK, PowInv, ThreadsOK
  <2>4. CASE Pow!Record(t)
    BY <1>3, <2>4, Zenon DEF Pow!Record, Hashing, PowTypesOK, Pow!TypeOK
  <2> QED
    BY <2>1, <2>2, <2>3, <2>4, Zenon DEF Pow!Thread
<1>5. position'[t] \in 1..(Len(Pow!Chunk(validators, t)) + 1)
  <2>1. position[t] \in 1..(Len(Pow!Chunk(validators, t)) + 1) /\ position[t] \in Nat
    BY Zenon DEF PowTypesOK, Pow!TypeOK, PowInv, ThreadsOK
  <2>2. CASE Pow!CheckStop(t)
    BY <2>1, <2>2 DEF Pow!CheckStop, PowInv, ThreadsOK
  <2>3. CASE Pow!Hash(t)
    BY <2>1, <2>3 DEF Pow!Hash, Hashing, PowInv, ThreadsOK
  <2>4. CASE Pow!TryRecord(t) \/ Pow!Record(t)
    BY <2>1, <2>4, Zenon DEF Pow!TryRecord, Pow!Record
  <2> QED
    BY <2>2, <2>3, <2>4, Zenon DEF Pow!Thread
<1>6. /\ batches' \in [Pow!Range(validators) -> 0..max_batches]
      /\ \A u \in DOMAIN at : at'[u] = "hash" => batches'[Pow!Mined(u)'] < max_batches
  <2>1. CASE Pow!CheckStop(t)
    <3>1. /\ batches' = batches
          /\ at'[t] = "hash" => batches[Pow!Mined(t)] < max_batches /\ position' = position
      BY <2>1, Zenon DEF Pow!CheckStop
    <3>2. at'[t] = "hash" => Pow!Mined(t)' = Pow!Mined(t)
      BY <1>1, <3>1, Zenon DEF Pow!Mined
    <3> QED
      BY <1>1, <1>2, <3>1, <3>2, Zenon DEF PowTypesOK
  <2>2. CASE Pow!Hash(t) /\ at'[t] = "found"
    BY <1>1, <1>2, <2>2, Zenon DEF Pow!Hash, PowTypesOK
  <2>3. CASE Pow!Hash(t) /\ at'[t] # "found"
    <3>1. /\ batches' = [batches EXCEPT ![Pow!Mined(t)] = @ + 1]
          /\ at[t] = "hash" /\ at'[t] = "check"
      BY <2>3, Zenon DEF Pow!Hash
    <3>2. batches[Pow!Mined(t)] < max_batches /\ Pow!Mined(t) \in Pow!Range(validators)
      BY <1>3, <3>1, Zenon DEF PowTypesOK, Hashing
    <3>3. batches' \in [Pow!Range(validators) -> 0..max_batches]
      BY <3>1, <3>2 DEF PowTypesOK, Pow!PowAssumption
    <3>4. ASSUME NEW u \in DOMAIN at, at'[u] = "hash"
          PROVE  batches'[Pow!Mined(u)'] < max_batches
      <4>1. u # t /\ at[u] = "hash" /\ Pow!Mined(u)' = Pow!Mined(u)
        BY <1>1, <1>2, <3>1, <3>4, Zenon
      <4>2. Pow!Mined(u) \in Pow!Range(validators) /\ Pow!Mined(u) # Pow!Mined(t)
        BY <3>1, <4>1, MinedIsValidator, Zenon DEF PowInv, Hashing
      <4>3. batches'[Pow!Mined(u)] = batches[Pow!Mined(u)]
        BY <3>1, <4>2, Zenon DEF PowTypesOK
      <4> QED
        BY <4>1, <4>3, Zenon DEF PowTypesOK
    <3> QED
      BY <3>3, <3>4, Zenon
  <2>4. CASE Pow!TryRecord(t) \/ Pow!Record(t)
    BY <1>1, <1>2, <2>4, Zenon DEF Pow!TryRecord, Pow!Record, PowTypesOK
  <2> QED
    BY <2>1, <2>2, <2>3, <2>4, Zenon DEF Pow!Thread
<1>7. Pow!TypeOK'
  BY <1>1, <1>4, <1>5, <1>6, Zenon DEF PowTypesOK, Pow!TypeOK
<1> QED
  BY <1>1, <1>6, <1>7, Zenon DEF PowTypesOK

\* The other steps keep the types.
LEMMA PowOtherTypes ==
  ASSUME Pow!PowAssumption, PowInv, PowTypesOK,
         Pow!Expire \/ Pow!ReadTime \/ Pow!TryPoll \/ Pow!Poll \/ Pow!TimeOut \/ Pow!Join \/ Pow!Decide
           \/ Pow!on_epoch_end \/ UNCHANGED Pow!vars
  PROVE  PowTypesOK'
<1>1. /\ UNCHANGED <<validators, winner, at, position, any_running, batches, found, polled>>
      /\ main' \in {"idle", "now", "try", "guard", "timeout", "join", "decide"}
      /\ late' \in BOOLEAN /\ expired' \in BOOLEAN /\ should_stop' \in BOOLEAN
      /\ lock' \in {Pow!Free, Pow!Main, Pow!Worker}
  <2>1. CASE Pow!Expire \/ Pow!ReadTime \/ Pow!TimeOut \/ Pow!Join \/ Pow!Decide
    BY <2>1, Zenon DEF Pow!Expire, Pow!ReadTime, Pow!TimeOut, Pow!Join, Pow!Decide, Pow!mutex,
       Pow!workers, PowTypesOK, Pow!TypeOK
  <2>2. CASE Pow!TryPoll \/ Pow!Poll
    BY <2>2, Zenon DEF Pow!TryPoll, Pow!Poll, Pow!workers, PowTypesOK, Pow!TypeOK
  <2>3. CASE Pow!on_epoch_end \/ UNCHANGED Pow!vars
    BY <2>3, Zenon DEF Pow!on_epoch_end, Pow!vars, Pow!mutex, Pow!workers, PowTypesOK, Pow!TypeOK
  <2> QED
    BY <2>1, <2>2, <2>3, Zenon
<1>2. difficulty' \in 0..MaxDifficulty
  <2>1. difficulty \in 0..MaxDifficulty /\ MaxDifficulty \in Nat
    BY Zenon DEF PowTypesOK, Pow!TypeOK, Pow!PowAssumption
  <2>2. Pow!saturating_sub(difficulty) \in 0..MaxDifficulty
    BY <2>1, SaturatingSub
  <2>3. difficulty' \in {difficulty, Pow!saturating_sub(difficulty)}
        \/ (difficulty < MaxDifficulty /\ difficulty' = difficulty + 1)
    BY Zenon DEF Pow!Expire, Pow!ReadTime, Pow!TryPoll, Pow!Poll, Pow!TimeOut, Pow!Join,
       Pow!Decide, Pow!on_epoch_end, Pow!vars
  <2> QED
    BY <2>1, <2>2, <2>3
<1>3. selected' \in Pow!Validators \cup {Pow!None, Pow!NOValidatorError}
  <2>1. selected' \in {selected, winner} \cup Pow!Range(validators)
    BY Zenon DEF Pow!Expire, Pow!ReadTime, Pow!TryPoll, Pow!Poll, Pow!TimeOut, Pow!Join,
       Pow!Decide, Pow!on_epoch_end, Pow!vars
  <2>2. Pow!Range(validators) \subseteq Pow!Validators
    <3>1. CASE validators \in ValidatorLists
      BY <3>1, Zenon DEF Pow!Validators
    <3>2. CASE validators = <<>>
      BY <3>2 DEF Pow!Range
    <3> QED
      BY <3>1, <3>2, Zenon DEF PowTypesOK, Pow!TypeOK
  <2> QED
    BY <2>1, <2>2, Zenon DEF PowTypesOK, Pow!TypeOK
<1>4. \A t \in DOMAIN at : Pow!Mined(t)' = Pow!Mined(t)
  BY <1>1, Zenon DEF Pow!Mined
<1>5. Pow!TypeOK'
  BY <1>1, <1>2, <1>3, Zenon DEF PowTypesOK, Pow!TypeOK
<1> QED
  BY <1>1, <1>4, <1>5, Zenon DEF PowTypesOK

\* Every behaviour of PowConsensus is type correct; no validator mines more batches
\* than it has nonces for.
THEOREM PowTypes == Pow!Spec => []Pow!TypeOK
<1> Pow!PowAssumption
  BY SharedStateAssumption
<1>1. PowInv /\ PowTypesOK /\ [Pow!Next]_(Pow!vars) => PowTypesOK'
  BY PowSelectTypes, PowThreadTypes, PowOtherTypes, Zenon DEF Pow!Next
<1>2. PowTypesOK => Pow!TypeOK
  BY Zenon DEF PowTypesOK
<1> QED
  BY PowInitTypes, PowInvariance, <1>1, <1>2, PTL DEF Pow!Spec

--------------------------------------------------------------------------------
\* The constants of the outage, as its assumption states them.
LEMMA OutageConstants ==
  /\ degree \in [Node -> Nat]
  /\ outage_nodes \subseteq Node
  /\ outage_start_epoch \in Nat \ {0} /\ outage_duration_epochs \in Nat
  /\ MaxEpoch \in Nat /\ MaxForwards \in Nat
  BY SharedStateAssumption, Zenon DEF Outage!OutageAssumption

Active(e) == Outage!scheduled_outage_active(e)

\* The time from the last sample before the onset to the end of the outage.
Closing == Active(current_epoch) \/ (step = "reopen" /\ Active(current_epoch + 1))

InFlight(n) == IF handler[n] = "checked" THEN 1 ELSE 0

Drain ==
  \A n \in outage_nodes :
    /\ outage_relay_attempts[n] <= 1
    /\ current_epoch < outage_start_epoch => outage_relay_attempts[n] = 0
    /\ step # "slot" /\ Active(current_epoch + 1) => ~scheduled_online[n]
    /\ Closing =>
         /\ ~scheduled_online[n]
         /\ outage_relay_attempts[n]
              + (relay_forward_attempts[n] - last_relay_forward_attempts[n])
              + InFlight(n) <= 1

\* A running handler forwards at most once to each neighbour it has left.
Budget ==
  \A n \in Node : handler[n] # "idle" =>
    relay_forward_attempts[n] + left[n] <= MaxForwards + degree[n]

OutageInv == Outage!TypeOK /\ Budget /\ Drain

\* An outage that is not active now but in the next epoch has not begun: an outage
\* is one interval of epochs.
LEMMA OnsetAhead ==
  ASSUME NEW e \in Nat, ~Active(e), Active(e + 1)
  PROVE  e < outage_start_epoch
  BY OutageConstants DEF Active, Outage!scheduled_outage_active

\* An active outage has begun.
LEMMA ActiveBegun ==
  ASSUME NEW e \in Nat, Active(e)
  PROVE  e >= outage_start_epoch
  BY OutageConstants, Zenon DEF Active, Outage!scheduled_outage_active

\* During the outage update_scheduled_availability turns off the flags of the
\* nodes that are out.
LEMMA ActiveCloses ==
  ASSUME NEW e \in Nat, Active(e), NEW n \in outage_nodes
  PROVE  Outage!Availability(e)[n] = FALSE
  BY OutageConstants, Zenon DEF Active, Outage!Availability

LEMMA AvailabilityType ==
  ASSUME NEW e
  PROVE  Outage!Availability(e) \in [Node -> BOOLEAN]
  BY Zenon DEF Outage!Availability

LEMMA OutageInitInv == Outage!Init => OutageInv
  <1> SUFFICES ASSUME Outage!Init PROVE OutageInv
    BY Zenon
  <1>1. Outage!TypeOK /\ Budget
    BY OutageConstants DEF Outage!Init, Outage!TypeOK, Budget
  <1>2. ~Closing
    BY OutageConstants DEF Outage!Init, Closing, Active, Outage!scheduled_outage_active
  <1>3. step = "slot" /\ \A n \in outage_nodes : outage_relay_attempts[n] = 0
    BY OutageConstants, Zenon DEF Outage!Init
  <1>4. Drain
    BY <1>2, <1>3 DEF Drain
  <1> QED
    BY <1>1, <1>4, Zenon DEF OutageInv

LEMMA NextSlotInv == OutageInv /\ Outage!NextSlot => OutageInv'
  <1> SUFFICES ASSUME OutageInv, Outage!NextSlot PROVE OutageInv'
    BY Zenon
  <1> USE DEF Outage!NextSlot, Outage!world
  <1>1. (Outage!TypeOK /\ Budget)'
    BY AvailabilityType, Zenon DEF OutageInv, Outage!TypeOK, Budget
  <1>2. Closing' = Closing
    BY Zenon DEF Closing, Active, Outage!scheduled_outage_active
  <1>3. ASSUME NEW n \in outage_nodes, Closing
        PROVE  ~scheduled_online'[n]
    <2>1. Active(current_epoch)
      BY <1>3, Zenon DEF Closing
    <2> QED
      BY <2>1, ActiveCloses, Zenon DEF OutageInv, Outage!TypeOK
  <1>4. Drain'
    BY <1>2, <1>3, Zenon DEF OutageInv, Drain, InFlight
  <1> QED
    BY <1>1, <1>4, Zenon DEF OutageInv

LEMMA BeginInv == OutageInv /\ Outage!BeginNextEpoch => OutageInv'
  <1> SUFFICES ASSUME OutageInv, Outage!BeginNextEpoch PROVE OutageInv'
    OBVIOUS
  <1> USE DEF Outage!BeginNextEpoch
  <1>1. (Outage!TypeOK /\ Budget)'
    BY AvailabilityType, Zenon DEF OutageInv, Outage!TypeOK, Budget
  <1>2. Closing' = Closing
    BY Zenon DEF Closing, Active, Outage!scheduled_outage_active
  <1> DEFINE next == current_epoch + 1
  <1>3. ASSUME NEW n \in outage_nodes, Active(next)
        PROVE  ~scheduled_online'[n]
    <2>1. next \in Nat
      BY DEF OutageInv, Outage!TypeOK
    <2>2. scheduled_online' = Outage!Availability(next)
      BY <1>3, Zenon DEF Active
    <2> HIDE DEF next
    <2> QED
      BY <1>3, <2>1, <2>2, ActiveCloses, Zenon
  <1>4. ASSUME NEW n \in outage_nodes, Closing
        PROVE  ~scheduled_online'[n]
    <2>1. CASE Active(next)
      BY <2>1, <1>3, Zenon
    <2>2. CASE ~Active(next)
      BY <2>2, <1>4, Zenon DEF OutageInv, Drain, Active
    <2> QED
      BY <2>1, <2>2, Zenon
  <1>5. Drain'
    BY <1>2, <1>3, <1>4, Zenon DEF OutageInv, Drain, InFlight, Active
  <1> QED
    BY <1>1, <1>5, Zenon DEF OutageInv

LEMMA SampleInv == OutageInv /\ Outage!collect_epoch_metrics => OutageInv'
  <1> SUFFICES ASSUME OutageInv, Outage!collect_epoch_metrics PROVE OutageInv'
    OBVIOUS
  <1> USE DEF Outage!collect_epoch_metrics
  <1>1. (Outage!TypeOK /\ Budget)'
    BY DEF OutageInv, Outage!TypeOK, Budget
  <1>2. ASSUME NEW n \in outage_nodes
        PROVE  /\ outage_relay_attempts'[n] <= 1
               /\ current_epoch < outage_start_epoch => outage_relay_attempts'[n] = 0
               /\ Closing' => /\ ~scheduled_online[n]
                              /\ outage_relay_attempts'[n] + InFlight(n) <= 1
    <2> n \in Node
      BY OutageConstants, Zenon
    <2> /\ relay_forward_attempts[n] \in Nat
        /\ last_relay_forward_attempts[n] \in Nat
        /\ last_relay_forward_attempts[n] <= relay_forward_attempts[n]
        /\ outage_relay_attempts[n] \in Nat
        /\ current_epoch \in Nat
      BY Zenon DEF OutageInv, Outage!TypeOK
    <2> InFlight(n) \in 0..1
      BY DEF InFlight
    <2>1. CASE Active(current_epoch)
      <3>1. outage_relay_attempts'[n] = outage_relay_attempts[n]
              + (relay_forward_attempts[n] - last_relay_forward_attempts[n])
        BY <2>1, Zenon DEF Active
      <3>2. ~(current_epoch < outage_start_epoch)
        BY <2>1, ActiveBegun, OutageConstants
      <3> QED
        BY <2>1, <3>1, <3>2 DEF OutageInv, Drain, Closing
    <2>2. CASE ~Active(current_epoch)
      <3>1. outage_relay_attempts'[n] = outage_relay_attempts[n]
        BY <2>2, Zenon DEF Active
      <3>2. Closing' => Active(current_epoch + 1)
        BY <2>2, Zenon DEF Closing, Active, Outage!scheduled_outage_active
      <3>3. Closing' => current_epoch < outage_start_epoch
        BY <2>2, <3>2, OnsetAhead, Zenon
      <3> QED
        BY SMTT(30), <3>1, <3>2, <3>3 DEF OutageInv, Drain
    <2> QED
      BY <2>1, <2>2, Zenon
  <1>3. ASSUME NEW n \in outage_nodes
        PROVE  relay_forward_attempts'[n] - last_relay_forward_attempts'[n] = 0
    BY OutageConstants DEF OutageInv, Outage!TypeOK
  <1>4. ASSUME NEW n \in outage_nodes
        PROVE  outage_relay_attempts'[n] + 0 + InFlight(n) = outage_relay_attempts'[n] + InFlight(n)
    BY <1>1, OutageConstants DEF Outage!TypeOK, InFlight
  <1>5. Drain'
    BY <1>2, <1>3, <1>4 DEF OutageInv, Drain, Active, Outage!scheduled_outage_active, InFlight
  <1> QED
    BY <1>1, <1>5, Zenon DEF OutageInv

LEMMA FinishInv == OutageInv /\ Outage!FinishNextEpoch => OutageInv'
  <1> SUFFICES ASSUME OutageInv, Outage!FinishNextEpoch PROVE OutageInv'
    OBVIOUS
  <1> USE DEF Outage!FinishNextEpoch
  <1>1. (Outage!TypeOK /\ Budget)'
    BY AvailabilityType DEF OutageInv, Outage!TypeOK, Budget
  <1>2. Closing' => Active(current_epoch + 1)
    BY Zenon DEF Closing, Active, Outage!scheduled_outage_active
  <1>3. Closing' => Closing
    BY <1>2, Zenon DEF Closing
  <1>4. Closing' => scheduled_online' = scheduled_online
    BY <1>2, Zenon DEF Active
  <1>5. current_epoch' < outage_start_epoch => current_epoch < outage_start_epoch
    BY OutageConstants DEF OutageInv, Outage!TypeOK
  <1>6. Drain'
    BY <1>3, <1>4, <1>5, Zenon DEF OutageInv, Drain, InFlight
  <1> QED
    BY <1>1, <1>6, Zenon DEF OutageInv

\* A handler's step leaves the world state and the flags alone.
LEMMA HandlerInv ==
  ASSUME NEW n \in Node
  PROVE  OutageInv /\ (Outage!Receive(n) \/ Outage!CheckFlag(n) \/ Outage!Forward(n)) => OutageInv'
  <1> SUFFICES ASSUME OutageInv, Outage!Receive(n) \/ Outage!CheckFlag(n) \/ Outage!Forward(n)
               PROVE  OutageInv'
    BY Zenon
  <1> \A m \in Node : degree[m] \in Nat /\ left[m] \in Nat /\ relay_forward_attempts[m] \in Nat
    BY OutageConstants, Zenon DEF OutageInv, Outage!TypeOK
  <1>1. Budget'
    <2> SUFFICES ASSUME NEW m \in Node, handler'[m] # "idle"
                 PROVE  relay_forward_attempts'[m] + left'[m] <= MaxForwards + degree[m]
      BY Zenon DEF Budget
    <2>1. CASE Outage!Receive(n)
      <3>1. CASE m = n
        <4>1. relay_forward_attempts'[m] < MaxForwards /\ left'[m] = degree[m]
          BY <2>1, <3>1, Zenon DEF Outage!Receive, OutageInv, Outage!TypeOK
        <4> QED
          BY <4>1, <2>1, OutageConstants DEF Outage!Receive
      <3>2. CASE m # n
        BY <2>1, <3>2, Zenon DEF Outage!Receive, OutageInv, Outage!TypeOK, Budget
      <3> QED
        BY <3>1, <3>2, Zenon
    <2>2. CASE Outage!CheckFlag(n)
      BY <2>2, Zenon DEF Outage!CheckFlag, OutageInv, Outage!TypeOK, Budget
    <2>3. CASE Outage!Forward(n)
      <3>1. relay_forward_attempts[m] + left[m] <= MaxForwards + degree[m]
        BY <2>3, Zenon DEF Outage!Forward, OutageInv, Outage!TypeOK, Budget
      <3>2. CASE m = n
        <4>1. /\ left'[m] = left[m] - 1
              /\ relay_forward_attempts'[m] \in {relay_forward_attempts[m], relay_forward_attempts[m] + 1}
          BY <2>3, <3>2, Zenon DEF Outage!Forward, OutageInv, Outage!TypeOK
        <4> QED
          BY <4>1, <3>1, OutageConstants
      <3>3. CASE m # n
        BY <2>3, <3>1, <3>3, Zenon DEF Outage!Forward, OutageInv, Outage!TypeOK
      <3> QED
        BY <3>2, <3>3
    <2> QED
      BY <2>1, <2>2, <2>3, Zenon
  <1>2. Outage!TypeOK'
    <2>1. CASE Outage!Receive(n)
      BY <2>1, OutageConstants, Zenon DEF Outage!Receive, OutageInv, Outage!TypeOK, Outage!world
    <2>2. CASE Outage!CheckFlag(n)
      BY <2>2, Zenon DEF Outage!CheckFlag, OutageInv, Outage!TypeOK, Outage!world
    <2>3. CASE Outage!Forward(n)
      <3>1. /\ left' \in [Node -> Nat]
            /\ handler' \in [Node -> {"idle", "loop", "checked"}]
            /\ relay_forward_attempts' \in [Node -> Nat]
        BY <2>3 DEF Outage!Forward, OutageInv, Outage!TypeOK
      <3>2. ASSUME NEW m \in Node
            PROVE  /\ last_relay_forward_attempts[m] <= relay_forward_attempts'[m]
                   /\ relay_forward_attempts'[m] <= MaxForwards + degree[m]
                   /\ handler'[m] = "checked" => left'[m] > 0
        <4>1. CASE m = n
          <5>1. handler'[m] = "loop"
            BY <2>3, <4>1, Zenon DEF Outage!Forward, OutageInv, Outage!TypeOK
          <5>2. relay_forward_attempts'[m] + left'[m] <= MaxForwards + degree[m]
            BY <5>1, <1>1, Zenon DEF Budget
          <5>3. relay_forward_attempts'[m] >= relay_forward_attempts[m]
            BY <2>3, <4>1 DEF Outage!Forward, OutageInv, Outage!TypeOK
          <5>4. /\ last_relay_forward_attempts[m] \in Nat
                /\ last_relay_forward_attempts[m] <= relay_forward_attempts[m]
                /\ {left'[m], relay_forward_attempts'[m]} \subseteq Nat
            BY <3>1 DEF OutageInv, Outage!TypeOK
          <5> QED
            BY <5>1, <5>2, <5>3, <5>4, OutageConstants
        <4>2. CASE m # n
          BY <2>3, <4>2, Zenon DEF Outage!Forward, OutageInv, Outage!TypeOK
        <4> QED
          BY <4>1, <4>2, Zenon
      <3> QED
        BY <2>3, <3>1, <3>2, Zenon DEF Outage!Forward, OutageInv, Outage!TypeOK, Outage!world
    <2> QED
      BY <2>1, <2>2, <2>3, Zenon
  <1>3. /\ UNCHANGED <<current_epoch, step, last_relay_forward_attempts,
                       outage_relay_attempts, scheduled_online>>
        /\ Closing' = Closing
    BY Zenon DEF Outage!Receive, Outage!CheckFlag, Outage!Forward, Outage!world, Closing, Active,
       Outage!scheduled_outage_active
  <1>4. ASSUME NEW m \in outage_nodes, ~scheduled_online[m]
        PROVE  relay_forward_attempts'[m] + InFlight(m)' <=
                 relay_forward_attempts[m] + InFlight(m)
    <2> m \in Node
      BY OutageConstants, Zenon
    <2>1. CASE Outage!Receive(n)
      BY <2>1 DEF Outage!Receive, InFlight, OutageInv, Outage!TypeOK
    <2>2. CASE Outage!CheckFlag(n)
      BY <2>2, <1>4 DEF Outage!CheckFlag, InFlight, OutageInv, Outage!TypeOK
    <2>3. CASE Outage!Forward(n)
      BY <2>3 DEF Outage!Forward, InFlight, OutageInv, Outage!TypeOK
    <2> QED
      BY <2>1, <2>2, <2>3, Zenon
  <1>5. Drain'
    <2> SUFFICES ASSUME NEW m \in outage_nodes, Closing
                 PROVE  outage_relay_attempts[m]
                          + (relay_forward_attempts'[m] - last_relay_forward_attempts[m])
                          + InFlight(m)' <= 1
      BY <1>3, Zenon DEF OutageInv, Drain, Active, Outage!scheduled_outage_active
    <2>1. ~scheduled_online[m]
      BY Zenon DEF OutageInv, Drain
    <2>2. outage_relay_attempts[m]
            + (relay_forward_attempts[m] - last_relay_forward_attempts[m])
            + InFlight(m) <= 1
      BY Zenon DEF OutageInv, Drain
    <2>3. /\ {relay_forward_attempts[m], relay_forward_attempts'[m],
              last_relay_forward_attempts[m], outage_relay_attempts[m]} \subseteq Nat
          /\ {InFlight(m), InFlight(m)'} \subseteq Nat
      BY <1>2, OutageConstants DEF OutageInv, Outage!TypeOK, InFlight
    <2>4. relay_forward_attempts'[m] + InFlight(m)' <=
            relay_forward_attempts[m] + InFlight(m)
      BY <2>1, <1>4, Zenon
    <2> HIDE DEF InFlight
    <2> QED
      BY <2>2, <2>3, <2>4
  <1> QED
    BY <1>2, <1>1, <1>5, Zenon DEF OutageInv

LEMMA StutterInv == OutageInv /\ UNCHANGED Outage!vars => OutageInv'
  BY Zenon DEF OutageInv, Outage!TypeOK, Budget, Drain, Closing, InFlight, Active,
         Outage!scheduled_outage_active, Outage!vars, Outage!world

\* The inductive invariant holds throughout.
THEOREM OutageInvariance == Outage!Spec => []OutageInv
  <1>1. OutageInv /\ [Outage!Next]_(Outage!vars) => OutageInv'
    BY NextSlotInv, BeginInv, SampleInv, FinishInv, HandlerInv, StutterInv, Zenon DEF Outage!Next
  <1> QED
    BY OutageInitInv, <1>1, PTL DEF Outage!Spec

\* Counters, flags and handlers keep their types, samples never run ahead of the
\* counters, and a handler forwards at most once per neighbour.
THEOREM OutageTypes == Outage!Spec => []Outage!TypeOK
  <1>1. OutageInv => Outage!TypeOK
    BY Zenon DEF OutageInv
  <1> QED
    BY <1>1, OutageInvariance, PTL

\* In every network and for every outage, the epochs of the outage report at most
\* one forward of a node that is out, in spite of handlers that are running at
\* its onset and of forwarding that resumes at its end.
THEOREM AtMostOneLeaks == Outage!Spec => []OnsetDrain
  <1>1. OutageInv => OnsetDrain
    BY Zenon DEF OutageInv, Drain, OnsetDrain, Outage!OnsetDrain
  <1> QED
    BY <1>1, OutageInvariance, PTL
===================================================================================
