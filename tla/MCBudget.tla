------------------------------ MODULE MCBudget ------------------------------
(* Instances of Budget for TLC: a run, the child run it requested, and the *)
(* calls they make; a compaction window or a study below the first run.    *)
EXTENDS Budget, TLC

CONSTANTS root, home1, home2, window, case, r1, r2, c1, c2, c3

Chain(up) ==
    LET above[a \in DOMAIN up \cup {root}] ==
            {a} \cup (IF a = root THEN {} ELSE above[up[a]])
    IN  above
Budget(n, t) == [calls |-> n, tokens |-> t]

BothRuns == {r1, r2}
TheirHomes == (r1 :> home1) @@ (r2 :> home2)
OneRun == {r1}
OneHome == (r1 :> home1)

\* A run and the child run it requested: one call of a worker, one of an
\* external transport.
TreeUp == (home1 :> root) @@ (home2 :> home1)
TreeAccounts == {root, home1, home2}
TreeAbove == Chain(TreeUp)
TreeCeiling == (root :> Budget(2, 3)) @@ (home1 :> Budget(2, 3)) @@ (home2 :> Budget(1, 2))
TreeCalls == {c1, c3}
TreeBy == (c1 :> r1) @@ (c3 :> r2)
TreePays == (c1 :> home1) @@ (c3 :> home2)
TreeAsked == (c1 :> 2) @@ (c3 :> 2)
OuterCall == {c3}

\* A study below a run: a case of the study, a compaction of the run and a
\* call of a transport that knows no call ids.
StudyUp == (home1 :> root) @@ (window :> home1) @@ (case :> home1)
StudyAccounts == {root, home1, window, case}
StudyAbove == Chain(StudyUp)
StudyCeiling == (root :> Budget(2, 4)) @@ (home1 :> Budget(2, 4))
                @@ (window :> Budget(2, 4)) @@ (case :> Budget(1, 2))
StudyCalls == {c1, c2, c3}
StudyBy == [c \in StudyCalls |-> r1]
StudyPays == (c1 :> case) @@ (c2 :> window) @@ (c3 :> home1)
StudyAsked == (c1 :> 2) @@ (c2 :> 2) @@ (c3 :> 1)
CaseCall == {c1}
WindowCall == {c2}
OldCall == {c3}
=============================================================================
