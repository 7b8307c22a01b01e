--------------------------- MODULE MCCaseWorkflow ---------------------------
(* Values for the constants of CaseWorkflow and the symmetries of its runs. *)
EXTENDS CaseWorkflow, TLC

CONSTANTS i1, i2, v1, v2, none, f1, f2, w1, w2, s1, s2, r1, nobody

Nobody == {}
OneItem == {i1}
TwoItems == {i1, i2}
OneValue == {v1}
OneFile == {f1}
FilesOfFirstItem == [f \in Files |-> i1]
OneWindow == {w1}
TwoWindows == {w1, w2}
OneClerk == {s1}
OneReviewer == {r1}

Symmetry == Permutations({w1, w2}) \cup Permutations({s1, s2})
=============================================================================
