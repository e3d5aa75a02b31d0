----------------------------- MODULE MCRetention -----------------------------
(* The instance of Retention for TLC: a record and one derived from it.      *)
EXTENDS Retention, TLC

CONSTANTS a, m, o1, x1

TwoRecords == {a, m}
OneResult == {o1}
OneExport == {x1}
Written == [r \in Records |-> {a, r}]
Revisions == [r \in Records |-> IF r = a THEN 1 ELSE 2]
=============================================================================
