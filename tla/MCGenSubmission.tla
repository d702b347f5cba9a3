--------------------------- MODULE MCGenSubmission ---------------------------
(* Small instances of GenSubmission: agents a1 and a2 share a PC (a2 is    *)
(* the restart of a1), b1 runs on another PC with the same account.        *)
EXTENDS GenSubmission, TLC

CONSTANTS a1, a2, b1, pc1, pc2, s1, s2, s3, r1, r2, j1, j2

MCDeviceOf == [a \in Agents |-> IF a = b1 THEN pc2 ELSE pc1]

(* s1 works for a1; s2 for its restart when there is one; s3 for b1.       *)
MCAgentOf == [s \in Slots |->
  IF s = s3 THEN b1 ELSE IF s = s2 /\ a2 \in Agents THEN a2 ELSE a1]

MCUnlike == [r \in Requests |-> {r}]
MCAlike == [r \in Requests |-> Requests]

(* The provider's job ids are interchangeable.                             *)
JobSymmetry == Permutations(Jobs)
==============================================================================
