------------------------------ MODULE MCContext ------------------------------
(* The instance of Context for TLC: one record, one message or request of    *)
(* work, and five context messages and summaries.                            *)
EXTENDS Context, TLC

CONSTANTS a, o1, e1, c1, c2, c3, c4, c5

OneRecord == {a}
OneResult == {o1}
OneEvent == {e1}
FiveActivities == {c1, c2, c3, c4, c5}
Written == [r \in Records |-> {r}]
TwoEach == [r \in Records |-> 2]
=============================================================================
