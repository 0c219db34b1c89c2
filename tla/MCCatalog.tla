----------------------------- MODULE MCCatalog -----------------------------
(* Instances of Catalog for TLC: the tables are interchangeable.             *)
EXTENDS Catalog, TLC

Symmetry == Permutations(Table)
=============================================================================
