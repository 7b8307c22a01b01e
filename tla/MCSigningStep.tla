---------------------------- MODULE MCSigningStep ----------------------------
(* Values for the constants of SigningStep and the symmetry of its runs. *)
EXTENDS SigningStep, TLC

CONSTANTS a, b

TwoSeals == {a, b}
\* The end of the slider, and a size that makes a slot's rest odd.
FarRight == {100}
Sizes == {73}

\* The seed's slot on the first page, an odd one in a table, one on a page that
\* only a break in a paragraph announces, and one that need not be signed.
SlotNode(id, n, left, size, must) ==
  [type |-> "signatureSlot", slotId |-> id, page |-> n, x |-> left, width |-> size,
   required |-> must]

ThreePages ==
  <<[type |-> "heading", children |-> <<[type |-> "text"]>>],
    SlotNode("party-a", 1, 360, 120, TRUE),
    [type |-> "paragraph",
     children |-> <<[type |-> "pageBreak"], SlotNode("copy", 1, 10, 50, FALSE)>>],
    [type |-> "pageBreak"],
    [type |-> "table", children |-> <<SlotNode("narrow", 2, 0, 7, TRUE)>>],
    SlotNode("appendix", 3, 400, 90, TRUE)>>

Symmetry == Permutations({a, b})
=============================================================================
