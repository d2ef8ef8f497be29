--------------------------------- MODULE MCTasks ----------------------------------
(* What the tasks and threads of one process share, with the initial state choosing *)
(* what is followed: the availability flags and counters that the timer task and    *)
(* the nodes share around an outage; the lock and the channels between them in      *)
(* every slot; or the threads of one of the two consensus objects that mine.  One   *)
(* of two nodes is in the outage and is the validator; up to three validators mine  *)
(* on two threads.                                                                  *)
EXTENDS Tasks

VARIABLE followed

MCNode == {"n1", "n2"}
MCDegree == [n1 |-> 2, n2 |-> 1]
MCLists == {<<>>, <<"v1">>, <<"v1", "v2">>, <<"v1", "v2", "v3">>}
MCMiners == {<<>>, <<"v1">>, <<"v1", "v2", "v3">>}
MCStake == [v \in {"v1", "v2", "v3"} |-> IF v = "v2" THEN 0 ELSE 1]

outage == <<current_epoch, step, scheduled_online, relay_forward_attempts,
            last_relay_forward_attempts, handler, left, outage_relay_attempts>>
channels == <<timer, unsent, receiver, inbox, node, world_inbox, load>>
pow == <<difficulty, validators, selected, main, late, expired, winner, lock,
         should_stop, at, position, any_running, batches, found, polled>>
all == <<followed, vars, pow, outage, channels>>

MCInit ==
  /\ followed \in {"outage", "channels", "POW", "MINOTAUR"}
  /\ Init /\ Pow!Init /\ Outage!Init /\ Channels!Init

MCNext ==
  \/ /\ followed = "outage" /\ Outage!Next
     /\ UNCHANGED <<followed, vars, pow, channels>>
  \/ /\ followed = "channels" /\ Channels!Next
     /\ UNCHANGED <<followed, vars, pow, outage>>
  \/ /\ followed = "POW" /\ Pow!Next
     /\ UNCHANGED <<followed, vars, outage, channels>>
  \/ /\ followed = "MINOTAUR" /\ Next
     /\ UNCHANGED <<followed, pow, outage, channels>>

MCSpec ==
  /\ MCInit /\ [][MCNext]_all
  /\ Channels!Fairness /\ Pow!Fairness /\ Fairness
=================================================================================
