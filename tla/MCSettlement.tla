------------------------------- MODULE MCSettlement -------------------------------
(* Two execution clients, with queues that have room for one of two epochs.  Either *)
(* the first of two consensus clients runs alone and submits both epochs, or both   *)
(* run, which have different credits for the first epoch, and submit that.           *)
EXTENDS Settlement, TLC

CONSTANTS c1, c2, n1, n2

VARIABLE alone

MCUrls == <<n1, n2>>
MCCredits == c1 :> (0 :> 1 @@ 1 :> 2) @@ c2 :> (0 :> 2 @@ 1 :> 0)

Alone == INSTANCE Settlement WITH Beacon <- {c1}
Both == INSTANCE Settlement WITH Epoch <- {0}, MaxFinalized <- 1

MCInit == Init /\ alone \in BOOLEAN

MCNext ==
  \/ alone /\ Alone!Next /\ UNCHANGED alone
  \/ ~alone /\ Both!Next /\ UNCHANGED alone

MCSpec == MCInit /\ [][MCNext]_<<vars, alone>>
====================================================================================
