---------------------------- MODULE MCEvidenceRuntime ----------------------------
(* Blocks with no evidence, with one valid path of two, with stale evidence      *)
(* beside it, and with evidence from a later epoch, which invalidates the whole  *)
(* block.                                                                        *)
EXTENDS EvidenceRuntime

CONSTANTS t1, t2

R(t, tag) == [tx |-> t, tag |-> tag, path |-> "valid"]

MCBodies ==
  {[records |-> r, verified |-> TRUE] :
     r \in {{}, {R(t1, "fresh"), [tx |-> t2, tag |-> "fresh", path |-> "invalid"]},
            {R(t1, "stale"), R(t2, "fresh")},
            {R(t1, "fresh"), R(t2, "future")}}}
====================================================================================
