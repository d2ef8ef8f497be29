----------------------------------- MODULE Pow -----------------------------------
(* PowConsensus (src/consensus/pow.rs): one slot after another, select_proposer  *)
(* starts threads that mine for the validators of their chunk, and polls for a   *)
(* winner until ten slot durations have passed.  Workers and poll use try_lock   *)
(* on the winner's mutex.  A hash either meets the difficulty or not; a batch of *)
(* hashes is one step.                                                           *)
EXTENDS Mining

CONSTANTS
  ValidatorLists,      \* the sequences of validators a slot may start from
  initial_difficulty,
  max_batches,         \* batches a validator mines before it gives up
  HashBits,            \* leading zeros no hash exceeds
  MaxDifficulty        \* bound: of the difficulty

\* No winner, the states of the mutex, and the error of select_proposer.
None == "none"
Free == "free"
Main == "main"
Worker == "worker"
NOValidatorError == "NOValidatorError"

PowAssumption ==
  /\ max_threads \in Nat /\ initial_difficulty \in Nat
  /\ max_batches \in Nat /\ HashBits \in Nat
  /\ MaxDifficulty \in Nat /\ initial_difficulty <= MaxDifficulty
  /\ \A vs \in ValidatorLists : vs \in Seq(Range(vs) \ {None}) /\ IsInjective(vs)

VARIABLES
  difficulty,
  validators,     \* the argument of the current or the last selection
  selected,       \* its result
  main,           \* where select_proposer stands
  late,           \* the poll read a time after the timeout
  expired,        \* the timeout has passed
  winner, lock,   \* the mutex: its value and its holder
  should_stop,
  at,             \* where each thread stands
  position,       \* the validator of its chunk a thread is at
  any_running,
  batches,        \* mined for each validator
  found,          \* validators whose hash met the difficulty
  polled          \* those among them that met the poll holding the mutex

mutex == <<winner, lock>>
workers == <<at, position, any_running, batches, found, polled>>
vars == <<difficulty, validators, selected, main, late, expired, mutex,
          should_stop, workers>>

saturating_sub(d) == Max({d - 1, 0})

Mined(t) == Chunk(validators, t)[position[t]]

Init ==
  /\ difficulty = initial_difficulty
  /\ validators = <<>> /\ selected = None
  /\ main = "idle" /\ late = FALSE /\ expired = FALSE
  /\ winner = None /\ lock = Free /\ should_stop = FALSE
  /\ at = <<>> /\ position = <<>> /\ any_running = <<>> /\ batches = <<>>
  /\ found = {} /\ polled = {}

\* select_proposer up to the spawned threads; nothing is mined for fewer than two.
\* Validators register and never leave.
Select(vs) ==
  /\ main = "idle" /\ Range(validators) \subseteq Range(vs)
  /\ validators' = vs
  /\ winner' = None /\ lock' = Free /\ should_stop' = FALSE
  /\ late' = FALSE /\ expired' = FALSE /\ found' = {} /\ polled' = {}
  /\ batches' = [v \in Range(vs) |-> 0]
  /\ \/ /\ Len(vs) < 2
        /\ selected' = IF vs = <<>> THEN NOValidatorError ELSE vs[1]
        /\ main' = "idle" /\ at' = <<>> /\ position' = <<>> /\ any_running' = <<>>
     \/ /\ Len(vs) >= 2
        /\ selected' = None /\ main' = "now"
        /\ at' = [t \in Threads(vs) |-> "check"]
        /\ position' = [t \in Threads(vs) |-> 1]
        /\ any_running' = [t \in Threads(vs) |-> FALSE]
  /\ UNCHANGED difficulty

\* Slot durations pass.
Expire ==
  /\ main # "idle" /\ ~expired
  /\ expired' = TRUE
  /\ UNCHANGED <<difficulty, validators, selected, main, late, mutex, should_stop, workers>>

---------------------------------------------------------------------------------
\* A worker looks at should_stop and goes on to the next validator that has
\* nonces left, or ends when none has.
CheckStop(t) ==
  /\ at[t] = "check"
  /\ \/ /\ should_stop
        /\ at' = [at EXCEPT ![t] = "done"]
        /\ UNCHANGED <<position, any_running>>
     \/ /\ ~should_stop /\ position[t] <= Len(Chunk(validators, t))
        /\ batches[Mined(t)] < max_batches
        /\ at' = [at EXCEPT ![t] = "hash"]
        /\ any_running' = [any_running EXCEPT ![t] = TRUE]
        /\ UNCHANGED position
     \/ /\ ~should_stop /\ position[t] <= Len(Chunk(validators, t))
        /\ batches[Mined(t)] >= max_batches
        /\ position' = [position EXCEPT ![t] = @ + 1]
        /\ UNCHANGED <<at, any_running>>
     \/ /\ ~should_stop /\ position[t] > Len(Chunk(validators, t))
        /\ at' = [at EXCEPT ![t] = IF any_running[t] THEN "check" ELSE "done"]
        /\ any_running' = [any_running EXCEPT ![t] = FALSE]
        /\ position' = [position EXCEPT ![t] = 1]
  /\ UNCHANGED <<difficulty, validators, selected, main, late, expired, mutex,
                 should_stop, batches, found, polled>>

\* One batch: the first hash that meets the difficulty ends the mining.
Hash(t) ==
  /\ at[t] = "hash"
  /\ \/ /\ difficulty <= HashBits
        /\ found' = found \cup {Mined(t)}
        /\ at' = [at EXCEPT ![t] = "found"]
        /\ UNCHANGED <<position, batches>>
     \/ /\ difficulty > 0
        /\ batches' = [batches EXCEPT ![Mined(t)] = @ + 1]
        /\ position' = [position EXCEPT ![t] = @ + 1]
        /\ at' = [at EXCEPT ![t] = "check"]
        /\ UNCHANGED found
  /\ UNCHANGED <<difficulty, validators, selected, main, late, expired, mutex,
                 should_stop, any_running, polled>>

\* Mutant: a worker that has found a hash gives up once it is told to stop.
TryRecordUnlessStopped(t) ==
  /\ at[t] = "found"
  /\ IF lock = Free /\ ~should_stop
     THEN /\ lock' = Worker /\ at' = [at EXCEPT ![t] = "record"]
     ELSE /\ at' = [at EXCEPT ![t] = "done"] /\ UNCHANGED lock
  /\ polled' = IF lock = Main THEN polled \cup {Mined(t)} ELSE polled
  /\ UNCHANGED <<difficulty, validators, selected, main, late, expired, winner,
                 should_stop, position, any_running, batches, found>>

\* The worker's try_lock; when the mutex is held, the thread ends.
TryRecord(t) ==
  /\ at[t] = "found"
  /\ IF lock = Free
     THEN /\ lock' = Worker /\ at' = [at EXCEPT ![t] = "record"]
     ELSE /\ at' = [at EXCEPT ![t] = "done"] /\ UNCHANGED lock
  /\ polled' = IF lock = Main THEN polled \cup {Mined(t)} ELSE polled
  /\ UNCHANGED <<difficulty, validators, selected, main, late, expired, winner,
                 should_stop, position, any_running, batches, found>>

\* The worker holds the mutex.
Record(t) ==
  /\ at[t] = "record"
  /\ IF winner = None
     THEN winner' = Mined(t) /\ should_stop' = TRUE
     ELSE UNCHANGED <<winner, should_stop>>
  /\ lock' = Free
  /\ at' = [at EXCEPT ![t] = "done"]
  /\ UNCHANGED <<difficulty, validators, selected, main, late, expired, position,
                 any_running, batches, found, polled>>

---------------------------------------------------------------------------------
\* The poll reads the time,
ReadTime ==
  /\ main = "now"
  /\ late' = expired
  /\ main' = "try"
  /\ UNCHANGED <<difficulty, validators, selected, expired, mutex, should_stop, workers>>

\* tries the mutex,
TryPoll ==
  /\ main = "try"
  /\ \/ lock = Free /\ lock' = Main /\ main' = "guard"
     \/ lock # Free /\ main' = "timeout" /\ UNCHANGED lock
  /\ UNCHANGED <<difficulty, validators, selected, late, expired, winner,
                 should_stop, workers>>

\* looks for a winner and releases the mutex,
Poll ==
  /\ main = "guard"
  /\ lock' = Free
  /\ main' = IF winner # None THEN "join" ELSE "timeout"
  /\ UNCHANGED <<difficulty, validators, selected, late, expired, winner,
                 should_stop, workers>>

\* Mutant: the poll has no timeout.
NeverTimeOut ==
  /\ main = "timeout" /\ main' = "now"
  /\ UNCHANGED <<difficulty, validators, selected, late, expired, mutex,
                 should_stop, workers>>

\* and compares the time it read with the timeout.
TimeOut ==
  /\ main = "timeout"
  /\ \/ late /\ should_stop' = TRUE /\ main' = "join"
     \/ ~late /\ main' = "now" /\ UNCHANGED should_stop
  /\ UNCHANGED <<difficulty, validators, selected, late, expired, mutex, workers>>

\* All threads are waited for.
Join ==
  /\ main = "join"
  /\ \A t \in Threads(validators) : at[t] = "done"
  /\ main' = "decide"
  /\ UNCHANGED <<difficulty, validators, selected, late, expired, mutex,
                 should_stop, workers>>

\* Mutant: a poll that timed out looks for no winner any more.
DecideByTime ==
  /\ main = "decide"
  /\ \/ /\ ~late /\ winner # None
        /\ selected' = winner
        /\ UNCHANGED difficulty
     \/ /\ late \/ winner = None
        /\ \E v \in Range(validators) : selected' = v
        /\ difficulty' = saturating_sub(difficulty)
  /\ main' = "idle"
  /\ UNCHANGED <<validators, late, expired, mutex, should_stop, workers>>

\* The winner, or a validator drawn from the seed and an easier next slot.
Decide ==
  /\ main = "decide"
  /\ \/ /\ lock = Free /\ winner # None
        /\ selected' = winner
        /\ UNCHANGED difficulty
     \/ /\ lock # Free \/ winner = None
        /\ \E v \in Range(validators) : selected' = v
        /\ difficulty' = saturating_sub(difficulty)
  /\ main' = "idle"
  /\ UNCHANGED <<validators, late, expired, mutex, should_stop, workers>>

\* adjust_difficulty: down when the blocks of the epoch took longer than a slot
\* on average, up otherwise, and no change for an epoch without blocks.
on_epoch_end ==
  /\ main = "idle"
  /\ \/ difficulty' = saturating_sub(difficulty)
     \/ difficulty < MaxDifficulty /\ difficulty' = difficulty + 1
  /\ UNCHANGED <<validators, selected, main, late, expired, mutex, should_stop, workers>>

Thread(t) == CheckStop(t) \/ Hash(t) \/ TryRecord(t) \/ Record(t)
Selection == ReadTime \/ TryPoll \/ Poll \/ TimeOut \/ Join \/ Decide

Next ==
  \/ \E vs \in ValidatorLists : Select(vs)
  \/ Expire
  \/ \E t \in DOMAIN at : Thread(t)
  \/ ReadTime \/ TryPoll \/ Poll \/ TimeOut \/ Join \/ Decide
  \/ on_epoch_end

Spec == Init /\ [][Next]_vars

\* Time passes, and the system schedules every thread that can run.
MaxThread == Max({Cardinality(Threads(vs)) : vs \in ValidatorLists})

Fairness ==
  /\ WF_vars(Expire) /\ WF_vars(Selection)
  /\ \A t \in 1..MaxThread : WF_vars(t \in DOMAIN at /\ Thread(t))

FairSpec == Spec /\ Fairness

---------------------------------------------------------------------------------
Validators == UNION {Range(vs) : vs \in ValidatorLists}

TypeOK ==
  /\ difficulty \in 0..MaxDifficulty
  /\ validators \in ValidatorLists \cup {<<>>}
  /\ selected \in Validators \cup {None, NOValidatorError}
  /\ main \in {"idle", "now", "try", "guard", "timeout", "join", "decide"}
  /\ late \in BOOLEAN /\ expired \in BOOLEAN /\ should_stop \in BOOLEAN
  /\ winner \in Range(validators) \cup {None}
  /\ lock \in {Free, Main, Worker}
  /\ \A t \in DOMAIN at :
       /\ at[t] \in {"check", "hash", "found", "record", "done"}
       /\ position[t] \in 1..(Len(Chunk(validators, t)) + 1)
       /\ any_running[t] \in BOOLEAN
  /\ \A v \in Range(validators) : batches[v] \in 0..max_batches
  /\ polled \subseteq found /\ found \subseteq Range(validators)

\* select_proposer returns the recorded winner whenever there is one, also one
\* recorded after the poll gave up: its last try_lock cannot fail.
SelectedIsWinner ==
  main = "idle" /\ winner # None => selected = winner

\* The validators compete in parallel and the first to find a hash wins.  A finder
\* that meets the poll at the mutex loses its hash; only the poll can do this: when
\* another validator found one, the selected validator found one as well.
FinderWinsUnlessPolled ==
  main = "idle" /\ found \ polled # {} => selected \in found

\* Every selection returns, also when all hashes go to waste.
SelectReturns == main # "idle" ~> main = "idle"
=================================================================================
