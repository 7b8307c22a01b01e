------------------------------ MODULE MCCatalog ------------------------------
(* Values for the constants of Catalog and the symmetry of its run. *)
EXTENDS Catalog, TLC

CONSTANTS letter, brand, t1, t2, a1, a2

LetterAndBrand == {letter, brand}
LetterOrText ==
  {[type |-> "FILE", required |-> TRUE], [type |-> "TEXT", required |-> TRUE]}
TwoTemplates == {t1, t2}
TwoAdmins == {a1, a2}
\* A page that party A signs, and one that shows the brand but lacks the slot.
SomePages ==
  {[uses |-> {}, signed |-> TRUE], [uses |-> {brand}, signed |-> FALSE]}

Symmetry == Permutations({a1, a2})
=============================================================================
