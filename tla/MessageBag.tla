------------------------------- MODULE MessageBag -------------------------------
(* The bag of messages in flight: a spawned tokio task per send, which may be any *)
(* of them next, and two of which may carry the same message.  These are the      *)
(* operators of the standard module Bags that the network models need.  That      *)
(* module brings all theorems about finite sets and sequences into every proof.   *)
EXTENDS Naturals

IsABag(B) == B \in [DOMAIN B -> Nat \ {0}]

Copies(B, m) == IF m \in DOMAIN B THEN B[m] ELSE 0

BagToSet(B) == DOMAIN B

SetToBag(S) == [m \in S |-> 1]

EmptyBag == SetToBag({})

\* The messages of B and those of C.
B (+) C == [m \in DOMAIN B \cup DOMAIN C |-> Copies(B, m) + Copies(C, m)]

\* What is left of B without the messages of C.
B (-) C ==
  [m \in {m \in DOMAIN B : Copies(B, m) > Copies(C, m)} |-> B[m] - Copies(C, m)]
=================================================================================
