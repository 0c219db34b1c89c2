--------------------------- MODULE MCDisciplines ---------------------------
(* Instances of Disciplines for TLC: the sessions are interchangeable. *)
EXTENDS Disciplines, TLC

SessionSymmetry == Permutations(Session)
=============================================================================
