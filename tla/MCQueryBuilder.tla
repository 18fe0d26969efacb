--------------------------- MODULE MCQueryBuilder ---------------------------
(* QueryBuilder with two comparators and two settings.                     *)
EXTENDS QueryBuilder, TLC

CONSTANTS c1, c2, s1, s2, none

TwoComparators == {c1, c2}
TwoSettings    == {s1, s2}
Names == Permutations(TwoComparators) \cup Permutations(TwoSettings)
=============================================================================
