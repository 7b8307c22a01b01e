----------------------------- MODULE MCSessions -----------------------------
(* Values for the constants of Sessions and the symmetries of its run. *)
EXTENDS Sessions, TLC

CONSTANTS r1, r2, clerk, manager, write, none

TwoRequests == {r1, r2}
TwoRoles == {clerk, manager}
OneAbility == {write}

\* Both roles, then one, then none.
Demoted == <<{clerk, manager}, {clerk}, {}>>

Off == [enabled |-> FALSE, capabilities |-> {write}, dataScope |-> 2]
Own == [enabled |-> TRUE, capabilities |-> {write}, dataScope |-> 0]
Wide == [enabled |-> TRUE, capabilities |-> {}, dataScope |-> 2]
ThreeMappings == {Off, Own, Wide}

Symmetry == Permutations(Requests)
=============================================================================
