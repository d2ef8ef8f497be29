---------------------------------- MODULE Mining ----------------------------------
(* How PowConsensus and MinotaurConsensus (src/consensus/pow.rs, minotaur.rs)      *)
(* divide a list of validators into chunks, one for each mining thread.            *)
EXTENDS Integers, Sequences, FiniteSetsExt, Functions

CONSTANTS max_threads

\* The length of a chunk of n validators.
ThreadStep(n) ==
  LET num_threads == Min({n, max_threads})
  IN  IF num_threads > 0 THEN (n + num_threads - 1) \div num_threads ELSE 1

\* The threads, and the validators that thread t mines for.
Threads(vs) ==
  LET step == ThreadStep(Len(vs)) IN 1..((Len(vs) + step - 1) \div step)

Chunk(vs, t) ==
  LET step == ThreadStep(Len(vs))
  IN  SubSeq(vs, (t - 1) * step + 1, Min({t * step, Len(vs)}))
=================================================================================
