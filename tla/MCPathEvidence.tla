----------------------------- MODULE MCPathEvidence -----------------------------
(* Path evidence in a triangle: in the simulator, where one operator has a Sybil   *)
(* identity, or in the execution clients.  The initial state chooses one of them.  *)
EXTENDS PathGossip

CONSTANTS n1, n2, n3, s1

VARIABLE program

MCTriangle == {n1, n2, n3}
MCTriangleNeighbors == [n \in MCTriangle |-> MCTriangle \ {n}]
MCSybilNodes == [n \in MCTriangle |-> IF n = n2 THEN <<s1>> ELSE <<>>]
MCTwoTx == {[id |-> 1, from |-> n1], [id |-> 2, from |-> n3]}

MCLinks == {{n1, n2}, {n2, n3}, {n1, n3}}
MCAllIdentified == MCTriangle \X MCTriangle
MCOneUnknown == MCAllIdentified \ {<<n1, n3>>}

clients == <<relay_epoch, pool, submitted, ensuring, metadata, connected, known, queued,
             messages>>

MCInit == program \in {"simulator", "clients"} /\ Init /\ Clients!Init

MCNext ==
  \/ program = "simulator" /\ Next /\ UNCHANGED <<program, clients>>
  \/ program = "clients" /\ Clients!Next /\ UNCHANGED <<program, vars>>

MCSpec == MCInit /\ [][MCNext]_<<program, vars, clients>>
=================================================================================
