----------------------------- MODULE MCCatalog -----------------------------
(* An instance of Catalog for TLC: two problems, one favourite. *)
EXTENDS Catalog

CONSTANTS t1, t2, r, a, b

MCMaxId == [problem |-> 2, fav |-> 1]
MCAlgos == {<<>>, <<a>>}
MCLists == {<<b>>, <<a, b>>, <<b, a>>}
Symmetry == Permutations(Writers)
=============================================================================
