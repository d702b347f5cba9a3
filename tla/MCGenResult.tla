---------------------------- MODULE MCGenResult ----------------------------
(* Small instances of GenResult: the calls in flight are interchangeable.  *)
EXTENDS GenResult, TLC

HandlerSymmetry == Permutations(Handlers)
=============================================================================
