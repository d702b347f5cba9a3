----------------------------- MODULE CardPlace ------------------------------
(***************************************************************************)
(* What the trash promises the owner of a card: the card is in one place   *)
(* at a time, going to the trash and coming back keep what it holds, it    *)
(* disappears only when it is purged (or is merged with its other copy),   *)
(* and only then may a list of remote jobs bring its job back.             *)
(***************************************************************************)
EXTENDS Integers

CONSTANTS Cards, Contents

VARIABLE place    \* where each card is, and what it holds

Lost == [at : {"purged", "merged", "listed"}, is : {0}]
Places == [at : {"live", "trash"}, is : Contents] \cup Lost

Init == place \in [Cards -> [at : {"live", "trash"}, is : {0}]]

Move(c, from, to) ==
  /\ place[c].at = from
  /\ place' = [place EXCEPT ![c].at = to]

Change(c, is) ==
  /\ place[c].at \in {"live", "trash"}
  /\ place' = [place EXCEPT ![c].is = is]

Lose(c, from, to) ==
  /\ place[c].at = from
  /\ place' = [place EXCEPT ![c] = [at |-> to, is |-> 0]]

Next ==
  \E c \in Cards :
    \/ Move(c, "live", "trash")
    \/ Move(c, "trash", "live")
    \/ \E is \in Contents : Change(c, is)
    \/ Lose(c, "trash", "purged")
    \/ Lose(c, "live", "merged")
    \/ Lose(c, "purged", "listed")

Spec == Init /\ [][Next]_place
=============================================================================
