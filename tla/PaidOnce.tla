------------------------------ MODULE PaidOnce ------------------------------
(***************************************************************************)
(* What two-stage submission promises its users: the paid operation is     *)
(* performed at most once for a request, and once more only after a person *)
(* has stated that nothing was submitted.                                  *)
(***************************************************************************)
EXTENDS Naturals

CONSTANT Requests

VARIABLES
  paid,       \* payments for the request since its last confirmation
  confirmed   \* how often a person has asked for another try

vars == <<paid, confirmed>>

Init ==
  /\ paid = [r \in Requests |-> 0]
  /\ confirmed = [r \in Requests |-> 0]

Pay(r) ==
  /\ paid[r] = 0
  /\ paid' = [paid EXCEPT ![r] = 1]
  /\ UNCHANGED confirmed

Confirm(r) ==
  /\ paid' = [paid EXCEPT ![r] = 0]
  /\ confirmed' = [confirmed EXCEPT ![r] = @ + 1]

Next == \E r \in Requests : Pay(r) \/ Confirm(r)

Spec == Init /\ [][Next]_vars
=============================================================================
