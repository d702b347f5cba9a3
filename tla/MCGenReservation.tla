-------------------------- MODULE MCGenReservation --------------------------
(* Small instances of GenReservation: k1 is an idempotency key, k2 an      *)
(* attempt of the canvas; c1 creates a card, a copies and adjusts one, f   *)
(* finishes a draft.  Either both keys ask for the draft, or k1 is used    *)
(* for two different things while the canvas makes an adjusted copy.       *)
EXTENDS GenReservation, TLC

CONSTANTS k1, k2, g1, g2, g3, c1, a, f

MCCanvasGen == [k \in {k2} |-> g3]
MCOffers == {[k \in Keys |-> {f}],
             [k \in Keys |-> IF k = k1 THEN {c1, a} ELSE {a}]}
HandlerSymmetry == Permutations(Handlers) \cup Permutations({g1, g2})
=============================================================================
