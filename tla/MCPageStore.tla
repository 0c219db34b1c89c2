---------------------------- MODULE MCPageStore ----------------------------
(* Instances of PageStore for TLC: the sessions are interchangeable. *)
EXTENDS PageStore, TLC

SessionSymmetry == Permutations(Session)
=============================================================================
