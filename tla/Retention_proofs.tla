-------------------------- MODULE Retention_proofs ---------------------------
(***************************************************************************)
(* Theorems of Retention: what a reader may open carries nothing withdrawn *)
(* and a completed deletion left nothing, for any records, batches, faults *)
(* and interleavings.                                                      *)
(***************************************************************************)
EXTENDS Retention, Sums, TLAPS

-----------------------------------------------------------------------------
\* Reach.

Iteration(S, R, step) ==
    step = [i \in Nat |-> IF i = 0 THEN S ELSE step[i - 1] \cup Image(step[i - 1], R)]

LEMMA ReachIteration ==
    ASSUME NEW S, NEW R
    PROVE  Reach(S, R) = (CHOOSE step : Iteration(S, R, step))[Cardinality(Node)]
BY DEF Reach, Iteration

\* The recursion of Reach has a solution: after i steps, what a chain of at most i
\* pairs leads to.
LEMMA IterationExists ==
    ASSUME NEW S \in SUBSET Node, NEW R \in SUBSET (Node \X Node)
    PROVE  \E step : Iteration(S, R, step)
<1> DEFINE Chain(p, i, n) == /\ p \in [0..i -> Node] /\ p[0] \in S /\ p[i] = n
                             /\ \A j \in 0..(i - 1) : p[j + 1] = p[j] \/ <<p[j], p[j + 1]>> \in R
           step == [i \in Nat |-> {n \in Node : \E p : Chain(p, i, n)}]
<1>1. ASSUME NEW i \in Nat, NEW n, n \in step[i] PROVE n \in Node /\ \E p : Chain(p, i, n)
  BY <1>1
<1>2. ASSUME NEW i \in Nat, NEW n, NEW p, Chain(p, i, n) PROVE n \in step[i]
  BY <1>2
<1>3. step[0] = S
  <2>1. ASSUME NEW n \in step[0] PROVE n \in S
    BY <1>1
  <2>2. ASSUME NEW n \in S PROVE n \in step[0]
    <3>1. Chain([j \in 0..0 |-> n], 0, n) BY <2>2
    <3> QED BY <3>1, <1>2
  <2> QED BY <2>1, <2>2
<1>4. ASSUME NEW i \in Nat, i # 0
      PROVE  step[i] = step[i - 1] \cup Image(step[i - 1], R)
  <2>0. i - 1 \in Nat BY <1>4
  <2>1. ASSUME NEW n \in step[i] PROVE n \in step[i - 1] \cup Image(step[i - 1], R)
    <3>1. PICK p : Chain(p, i, n) BY <1>1
    <3> DEFINE q == [j \in 0..(i - 1) |-> p[j]]
    <3>2. Chain(q, i - 1, p[i - 1]) BY <3>1, <2>0
    <3>3. p[i] = n /\ (p[(i - 1) + 1] = p[i - 1] \/ <<p[i - 1], p[(i - 1) + 1]>> \in R) /\ (i - 1) + 1 = i
      BY <3>1, <2>0
    <3>4. n = p[i - 1] \/ <<p[i - 1], n>> \in R BY <3>3
    <3> HIDE DEF step, Chain, q
    <3>5. p[i - 1] \in step[i - 1] BY <3>2, <2>0, <1>2
    <3> QED BY <3>4, <3>5 DEF Image
  <2>2. ASSUME NEW m \in step[i - 1], NEW n \in Node, n = m \/ <<m, n>> \in R
        PROVE  n \in step[i]
    <3>1. PICK p : Chain(p, i - 1, m) BY <2>0, <1>1
    <3> DEFINE q == [j \in 0..i |-> IF j = i THEN n ELSE p[j]]
    <3>2. q \in [0..i -> Node] /\ q[0] \in S /\ q[i] = n BY <3>1, <2>0
    <3>3. ASSUME NEW j \in 0..(i - 1) PROVE q[j + 1] = q[j] \/ <<q[j], q[j + 1]>> \in R
      <4>1. q[j] = p[j] BY <2>0
      <4>2. CASE j = i - 1
        <5>1. q[j + 1] = n BY <4>2, <2>0
        <5>2. q[j] = m BY <4>1, <4>2, <3>1
        <5> QED BY <5>1, <5>2, <2>2
      <4>3. CASE j # i - 1
        <5>1. j \in 0..(i - 1 - 1) /\ j + 1 \in 0..(i - 1) BY <4>3, <2>0
        <5>2. q[j + 1] = p[j + 1] BY <5>1, <2>0
        <5> QED BY <5>1, <5>2, <4>1, <3>1
      <4> QED BY <4>2, <4>3
    <3>4. Chain(q, i, n) BY <3>2, <3>3
    <3> QED BY <3>4, <1>2
  <2>3. step[i - 1] \subseteq Node BY <2>0
  <2> HIDE DEF step
  <2>4. ASSUME NEW n \in step[i - 1] \cup Image(step[i - 1], R) PROVE n \in step[i]
    <3>1. PICK m \in step[i - 1] : n = m \/ <<m, n>> \in R BY <2>4 DEF Image
    <3>2. n \in Node BY <3>1, <2>3
    <3> QED BY <3>1, <3>2, <2>2
  <2> QED BY <2>1, <2>4
<1>5. step = [i \in Nat |-> step[i]] OBVIOUS
<1> HIDE DEF step
<1>6. step = [i \in Nat |-> IF i = 0 THEN S ELSE step[i - 1] \cup Image(step[i - 1], R)]
  BY <1>3, <1>4, <1>5
<1> QED BY <1>6 DEF Iteration

\* Reach is the last of Cardinality(Node) steps.
LEMMA ReachSteps ==
    ASSUME NEW S \in SUBSET Node, NEW R \in SUBSET (Node \X Node)
    PROVE  \E step : /\ Reach(S, R) = step[Cardinality(Node)]
                     /\ step[0] = S
                     /\ \A i \in Nat : step[i + 1] = step[i] \cup Image(step[i], R)
<1> DEFINE step == CHOOSE f : Iteration(S, R, f)
<1>1. Iteration(S, R, step) BY IterationExists
<1>2. Reach(S, R) = step[Cardinality(Node)] BY ReachIteration
<1> HIDE DEF step
<1>3. step[0] = S BY <1>1 DEF Iteration
<1>4. ASSUME NEW i \in Nat PROVE step[i + 1] = step[i] \cup Image(step[i], R)
  <2>1. i + 1 \in Nat /\ i + 1 # 0 /\ (i + 1) - 1 = i OBVIOUS
  <2>2. step[i + 1] = IF i + 1 = 0 THEN S ELSE step[(i + 1) - 1] \cup Image(step[(i + 1) - 1], R)
    BY <1>1, <2>1 DEF Iteration
  <2> QED BY <2>1, <2>2
<1> QED BY <1>2, <1>3, <1>4

\* S is in Reach, which adds nothing that a set closed under R does not have.
LEMMA ReachLeast ==
    ASSUME NEW S \in SUBSET Node, NEW R \in SUBSET (Node \X Node),
           NEW T, S \subseteq T, \A e \in R : e[1] \in T => e[2] \in T
    PROVE  S \subseteq Reach(S, R) /\ Reach(S, R) \subseteq T
<1>1. PICK step : /\ Reach(S, R) = step[Cardinality(Node)]
                  /\ step[0] = S
                  /\ \A i \in Nat : step[i + 1] = step[i] \cup Image(step[i], R)
  BY ReachSteps
<1> DEFINE U == {i \in Nat : S \subseteq step[i] /\ step[i] \subseteq T}
<1>2. 0 \in U BY <1>1
<1>3. ASSUME NEW i \in Nat, i \in U PROVE i + 1 \in U
  <2>1. Image(step[i], R) \subseteq T BY <1>3 DEF Image
  <2> QED BY <2>1, <1>1, <1>3
<1>4. \A i \in Nat : i \in U
  <2> HIDE DEF U
  <2> QED BY <1>2, <1>3, AllNumbers
<1>5. Cardinality(Node) \in Nat BY FS_CardinalityType, RetentionAssumption DEF RetentionAssumption
<1> QED BY <1>1, <1>4, <1>5

\* Reach is itself closed: as many steps as there are nodes are enough.
LEMMA ReachClosed ==
    ASSUME NEW S \in SUBSET Node, NEW R \in SUBSET (Node \X Node)
    PROVE  /\ S \subseteq Reach(S, R) /\ Reach(S, R) \subseteq Node
           /\ \A e \in R : e[1] \in Reach(S, R) => e[2] \in Reach(S, R)
<1>1. PICK step : /\ Reach(S, R) = step[Cardinality(Node)]
                  /\ step[0] = S
                  /\ \A i \in Nat : step[i + 1] = step[i] \cup Image(step[i], R)
  BY ReachSteps, Zenon
<1>0. IsFiniteSet(Node) /\ Cardinality(Node) \in Nat
  BY FS_CardinalityType, RetentionAssumption DEF RetentionAssumption
<1>2. S \subseteq Reach(S, R) /\ Reach(S, R) \subseteq Node
  BY ReachLeast
<1>3. \A i \in Nat : step[i] \in SUBSET Node
  <2> DEFINE U == {i \in Nat : step[i] \in SUBSET Node}
  <2>1. 0 \in U BY <1>1
  <2>2. ASSUME NEW i \in Nat, i \in U PROVE i + 1 \in U
    <3>1. Image(step[i], R) \subseteq Node BY DEF Image
    <3> QED BY <3>1, <2>2, <1>1
  <2>3. \A i \in Nat : i \in U
    <3> HIDE DEF U
    <3> QED BY <2>1, <2>2, AllNumbers
  <2> QED BY <2>3
\* A step that adds nothing is followed by steps that add nothing.
<1>4. ASSUME NEW k \in Nat, step[k + 1] = step[k]
      PROVE  \A i \in Nat : step[k + i] = step[k]
  <2> DEFINE U == {i \in Nat : step[k + i] = step[k]}
  <2>1. 0 \in U OBVIOUS
  <2>2. ASSUME NEW i \in Nat, i \in U PROVE i + 1 \in U
    <3>1. k + i \in Nat /\ k + (i + 1) = (k + i) + 1 OBVIOUS
    <3>2. step[(k + i) + 1] = step[k + i] \cup Image(step[k + i], R) BY <1>1, <3>1
    <3>3. step[k + 1] = step[k] \cup Image(step[k], R) BY <1>1
    <3> QED BY <3>1, <3>2, <3>3, <2>2, <1>4, SMTT(30)
  <2>3. \A i \in Nat : i \in U
    <3> HIDE DEF U
    <3> QED BY <2>1, <2>2, AllNumbers
  <2> QED BY <2>3
\* The steps before the first that adds nothing make the set larger.
<1>5. ASSUME NEW x \in Nat, \A k \in Nat : k < x => step[k + 1] # step[k]
      PROVE  x <= Cardinality(Node)
  <2> DEFINE U == {i \in Nat : i <= x => i <= Cardinality(step[i])}
  <2>1. \A i \in Nat : /\ IsFiniteSet(step[i]) /\ Cardinality(step[i]) \in Nat
                       /\ Cardinality(step[i]) <= Cardinality(Node)
    BY <1>0, <1>3, FS_Subset, FS_CardinalityType
  <2>2. 0 \in U BY <2>1
  <2>3. ASSUME NEW i \in Nat, i \in U PROVE i + 1 \in U
    <3> SUFFICES ASSUME i + 1 <= x PROVE i + 1 <= Cardinality(step[i + 1]) OBVIOUS
    <3>1. step[i] \in SUBSET step[i + 1] BY <1>1
    <3>2. step[i + 1] # step[i] BY <1>5
    <3>3. Cardinality(step[i]) <= Cardinality(step[i + 1])
          /\ Cardinality(step[i + 1]) # Cardinality(step[i])
      BY <2>1, <3>1, <3>2, FS_Subset
    <3> QED BY <3>3, <2>1, <2>3
  <2>4. \A i \in Nat : i \in U
    <3> HIDE DEF U
    <3> QED BY <2>2, <2>3, AllNumbers
  <2>5. x <= Cardinality(step[x]) BY <2>4
  <2> QED BY <2>5, <2>1, <1>0
<1> DEFINE K == {k \in Nat : step[k + 1] = step[k]}
<1>6. K # {}
  <2> SUFFICES ASSUME K = {} PROVE FALSE OBVIOUS
  <2> DEFINE x == Cardinality(Node) + 1
  <2>0. x \in Nat BY <1>0
  <2>2. ASSUME NEW k \in Nat PROVE step[k + 1] # step[k]
    <3>1. k \notin K OBVIOUS
    <3> QED BY <3>1
  <2>1. x <= Cardinality(Node)
    <3> HIDE DEF x, K
    <3> QED BY <2>0, <2>2, <1>5
  <2> QED BY <2>1, <1>0
<1>7. PICK x \in K : \A y \in K : x <= y BY <1>6, LeastNumber
<1>8. x <= Cardinality(Node) /\ x \in Nat /\ step[x + 1] = step[x]
  <2>1. \A k \in Nat : k < x => step[k + 1] # step[k] BY <1>7
  <2> QED BY <2>1, <1>5
<1>9. step[Cardinality(Node)] = step[x]
  <2>1. Cardinality(Node) - x \in Nat /\ x + (Cardinality(Node) - x) = Cardinality(Node)
    BY <1>8, <1>0
  <2>2. \A i \in Nat : step[x + i] = step[x] BY <1>8, <1>4
  <2> QED BY <2>1, <2>2
<1>10. step[x] = step[x] \cup Image(step[x], R) BY <1>8, <1>1
<1> QED BY <1>1, <1>2, <1>9, <1>10 DEF Image
\* More sources and more pairs lead to more.
LEMMA ReachGrows ==
    ASSUME NEW S \in SUBSET Node, NEW R \in SUBSET (Node \X Node),
           NEW S1 \in SUBSET Node, NEW R1 \in SUBSET (Node \X Node),
           S \subseteq S1, R \subseteq R1
    PROVE  Reach(S, R) \subseteq Reach(S1, R1)
<1>1. /\ S1 \subseteq Reach(S1, R1)
      /\ \A e \in R1 : e[1] \in Reach(S1, R1) => e[2] \in Reach(S1, R1)
  BY ReachClosed
<1>2. S \subseteq Reach(S1, R1) /\ \A e \in R : e[1] \in Reach(S1, R1) => e[2] \in Reach(S1, R1)
  BY <1>1
<1> QED BY <1>2, ReachLeast

-----------------------------------------------------------------------------
\* Edges that no later step removes: of what is not a record, and of withdrawn records.
Fixed == {e \in edges : e[1] \notin Records \/ tomb[e[1]] # "none"}

\* What n was written from, by its own edges now and from there on by fixed ones.
Origins(n) == Reach({n} \cup Parents(n), Fixed)

\* Something that n was written from is withdrawn.
Doomed(n) == \E t \in Origins(n) : tomb[t] # "none"

LEMMA OriginsGrow ==
    ASSUME TypeOK, TypeOK', Fixed \subseteq Fixed', NEW n \in Node,
           Parents(n) \subseteq Parents(n)'
    PROVE  Origins(n) \subseteq Origins(n)'
<1>1. Fixed \in SUBSET (Node \X Node) /\ Fixed' \in SUBSET (Node \X Node)
  BY DEF TypeOK, Fixed
<1>2. {n} \cup Parents(n) \in SUBSET Node /\ ({n} \cup Parents(n))' \in SUBSET Node
  BY DEF Parents
<1>3. {n} \cup Parents(n) \subseteq ({n} \cup Parents(n))' OBVIOUS
<1>4. Origins(n)' = Reach(({n} \cup Parents(n))', Fixed') BY DEF Origins
<1> QED BY <1>1, <1>2, <1>3, <1>4, ReachGrows DEF Origins
-----------------------------------------------------------------------------
\* The inductive invariant, part by part.

RecordsOK ==
    \A r \in Records :
        /\ body[r] \in {"none", "live", "gone"}
        /\ body[r] = "none" <=> rev[r] = 0
        /\ body[r] = "gone" <=> tomb[r] = "deleted"
        /\ tomb[r] = "none" => rev[r] <= MaxRevisions[r]
        /\ tomb[r] = "retired" => rev[r] <= MaxRevisions[r] + 1
        /\ job[r].delete => tomb[r] = "deleted"

ExportsOK ==
    \A x \in Exports :
        /\ ready[x] => body[x] \in {"live", "gone"} /\ exporter # x
        /\ exporter = x => body[x] # "none"
        /\ tomb[x] # "none" => job[x].status # "none"

OthersOK == \A n \in Node \ (Records \cup Exports) : body[n] \in {"none", "live", "gone"}

\* Nothing refers to an id that is not in use.
BlankOK ==
    \A n \in Node : body[n] = "none" =>
        /\ tomb[n] = "none" /\ holds[n] = {}
        /\ \A r \in Roots : item[r][n] = "none"
        /\ \A p \in Node : <<p, n>> \notin edges /\ <<n, p>> \notin edges
        /\ n \in Roots => job[n].status = "none"

JobsOK ==
    \A r \in Roots :
        /\ job[r].status = "none" => ~job[r].delete /\ \A n \in Node : item[r][n] = "none"
        /\ job[r].status # "none" => tomb[r] # "none"
        /\ job[r].status = "complete" =>
              item[r][r] = "done" /\ \A n \in Node : item[r][n] \notin {"todo", "paid"}

\* A job that paid an item has withdrawn the record, removed the file and, for a
\* deletion, the content.
Paid(r, n) == item[r][n] \in {"paid", "done"}
CleanedOK ==
    \A r \in Roots, n \in Node : Paid(r, n) =>
        /\ n \in Records => tomb[n] # "none"
        /\ n \in Exports \/ job[r].delete => body[n] = "gone"

\* Whatever a job lists was written from something withdrawn.
ListedOK ==
    \A r \in Roots, n \in Node : item[r][n] # "none" /\ n \notin Records => Doomed(n)

\* An item that is done has all its children listed.
ClosedOK ==
    \A r \in Roots, n \in Node : item[r][n] = "done" =>
        \A c \in Node : <<c, n>> \in edges => item[r][c] # "none"

\* What a node was written from is among its origins.
TracedOK == \A n \in Node : holds[n] \subseteq Origins(n)

DraftOK ==
    draft # NoDraft =>
        /\ \A n \in draft.refs : body[n] # "none"
        /\ draft.expected <= rev[draft.rec] /\ draft.expected < MaxRevisions[draft.rec]
        /\ draft.expected = rev[draft.rec] => tomb[draft.rec] = "none"
        /\ draft.holds \subseteq Reach({draft.rec} \cup draft.refs, Fixed)

CallOK ==
    call.phase = "read" =>
        /\ body[call.node] # "none"
        /\ call.node \notin Records => call.holds \subseteq Reach({call.node}, Fixed)
        /\ call.node \in Records =>
              /\ call.version <= rev[call.node]
              /\ call.version = rev[call.node] =>
                    tomb[call.node] = "none" /\ call.holds \subseteq Origins(call.node)

TablesInv == /\ RecordsOK /\ ExportsOK /\ OthersOK /\ BlankOK /\ JobsOK
             /\ CleanedOK /\ ListedOK /\ ClosedOK /\ TracedOK

RetentionInv == TypeOK /\ TablesInv /\ DraftOK /\ CallOK
-----------------------------------------------------------------------------
\* Types.

LEMMA RootsAreNodes == Roots \subseteq Node /\ Records \subseteq Node /\ Exports \subseteq Node
                       /\ Results \subseteq Node /\ Activities \subseteq Node
BY DEF Roots, Node

LEMMA FreshIsUnused ==
    ASSUME NEW ids, Unused(ids) # {}
    PROVE  Fresh(ids) \in ids /\ body[Fresh(ids)] = "none"
BY DEF Unused, Fresh

\* A finite set is a sequence of its elements.
LEMMA SeqOfSet ==
    ASSUME NEW S \in SUBSET Node
    PROVE  SetToSeq(S) \in Seq(Node)
<1>1. IsFiniteSet(S) BY FS_Subset, RetentionAssumption DEF RetentionAssumption
<1>2. Cardinality(S) \in Nat /\ ExistsBijection(1..Cardinality(S), S)
  BY <1>1, FS_CardinalityType
<1>3. \E f \in [1..Cardinality(S) -> S] : IsInjective(f)
  BY <1>2 DEF ExistsBijection, Bijection, Injection, IsInjective
<1>4. SetToSeq(S) \in [1..Cardinality(S) -> S] BY <1>3 DEF SetToSeq
<1> QED BY <1>2, <1>4

LEMMA LineageType ==
    ASSUME TypeOK, NEW S \in SUBSET Node
    PROVE  Lineage(S) \in SUBSET Node /\ Captured(S) \in SUBSET Node
<1>1. edges \in SUBSET (Node \X Node) /\ Mutable \in SUBSET (Node \X Node)
  BY DEF TypeOK, Mutable
<1> QED BY <1>1, ReachClosed DEF Lineage, Captured

LEMMA CiteType ==
    ASSUME TypeOK, NEW n \in Node, NEW refs \in SUBSET Node, Cite(n, refs)
    PROVE  /\ edges' \in SUBSET (Node \X Node)
           /\ item' \in [Roots -> [Node -> {"none", "todo", "paid", "done"}]]
           /\ job' \in [Roots -> JobRow]
<1>1. Captured(refs) \in SUBSET Node BY LineageType
<1>2. edges' \in SUBSET (Node \X Node) BY <1>1 DEF Cite, TypeOK
<1>3. item' \in [Roots -> [Node -> {"none", "todo", "paid", "done"}]]
  BY DEF Cite, TypeOK
<1>4. ASSUME NEW r \in Roots PROVE [job[r] EXCEPT !.status = "pending"] \in JobRow
  <2>1. job[r] \in JobRow BY DEF TypeOK
  <2> QED BY <2>1 DEF JobRow
<1>5. job' \in [Roots -> JobRow]
  BY <1>4 DEF Cite, TypeOK
<1> QED BY <1>2, <1>3, <1>5

LEMMA InitType == Init => TypeOK
<1> SUFFICES ASSUME Init PROVE TypeOK OBVIOUS
<1> USE RetentionAssumption DEF RetentionAssumption
<1>1. \A r \in Records : rev[r] \in Nat /\ rev[r] <= MaxRevisions[r] + 2 BY DEF Init
<1>2. rev \in [Records -> Nat] BY DEF Init
<1>3. edges \in SUBSET (Node \X Node) BY RootsAreNodes DEF Init
<1>4. job \in [Roots -> JobRow] BY DEF Init, NoJob, JobRow
<1>5. queue \in [Roots -> Seq(Node)] BY DEF Init
<1>6. holds \in [Node -> SUBSET Records] BY DEF Init
<1>7. body \in [Node -> Bodies] BY DEF Init, Bodies
<1> QED BY <1>1, <1>2, <1>3, <1>4, <1>5, <1>6, <1>7 DEF Init, TypeOK
\* The versions of records stay below their bound.
LEMMA VersionType ==
    ASSUME RecordsOK, TypeOK, NEW r \in Records, NEW delete \in BOOLEAN, StillThere(r, delete)
    PROVE  rev[r] + 1 \in Nat /\ rev[r] + 1 <= MaxRevisions[r] + 2
<1>1. MaxRevisions[r] \in Nat BY RetentionAssumption DEF RetentionAssumption
<1>2. rev[r] \in Nat /\ tomb[r] \in {"none", "retired", "deleted"}
  BY RootsAreNodes DEF TypeOK
<1>3. tomb[r] # "deleted" BY DEF RecordsOK, StillThere
<1>4. rev[r] <= MaxRevisions[r] + 1 BY <1>1, <1>2, <1>3 DEF RecordsOK
<1> QED BY <1>1, <1>2, <1>4

LEMMA RetireType ==
    ASSUME RetentionInv, NEW r \in Records, NEW delete \in BOOLEAN, Retire(r, delete)
    PROVE  TypeOK'
<1> USE DEF Retire
<1>0. TypeOK /\ r \in Node /\ r \in Roots BY RootsAreNodes DEF RetentionInv, Roots
<1>1. rev' \in [Records -> Nat] /\ \A s \in Records : rev'[s] <= MaxRevisions[s] + 2
  <2>1. rev[r] + 1 \in Nat /\ rev[r] + 1 <= MaxRevisions[r] + 2
    BY VersionType DEF RetentionInv, TablesInv
  <2> QED BY <1>0, <2>1 DEF TypeOK
<1>2. body' \in [Node -> Bodies] BY <1>0 DEF TypeOK, Bodies
<1>3. tomb' \in [Node -> {"none", "retired", "deleted"}] BY <1>0 DEF TypeOK
<1>4. job' \in [Roots -> JobRow]
  <2>1. job[r].delete \in BOOLEAN BY <1>0 DEF TypeOK, JobRow
  <2>2. (job[r].delete \/ delete) \in BOOLEAN OBVIOUS
  <2>3. [status |-> "pending", delete |-> job[r].delete \/ delete] \in JobRow
    BY <2>2 DEF JobRow
  <2> QED BY <1>0, <2>3 DEF TypeOK
<1>5. item' \in [Roots -> [Node -> {"none", "todo", "paid", "done"}]]
  <2>1. item[r] \in [Node -> {"none", "todo", "paid", "done"}] BY <1>0 DEF TypeOK
  <2>2. [n \in Node |-> IF item[r][n] = "none" THEN "none" ELSE "todo"]
            \in [Node -> {"none", "todo", "paid", "done"}]
    OBVIOUS
  <2> QED BY <1>0, <2>1, <2>2 DEF TypeOK
<1> QED BY <1>0, <1>1, <1>2, <1>3, <1>4, <1>5 DEF TypeOK

LEMMA BeginExportType ==
    ASSUME TypeOK, NEW r \in Records, BeginExport(r)
    PROVE  TypeOK'
<1> DEFINE x == Fresh(Exports)
<1>1. x \in Exports /\ x \in Node BY FreshIsUnused, RootsAreNodes DEF BeginExport
<1>2. Lineage({r}) \in SUBSET Node BY LineageType, RootsAreNodes
<1> HIDE DEF x
<1>3. /\ body' = [body EXCEPT ![x] = "manifest"] /\ holds' = [holds EXCEPT ![x] = holds[r]]
      /\ edges' = edges \cup {<<x, s>> : s \in Lineage({r})} /\ exporter' = x
  BY DEF BeginExport, x
<1>4. edges' \in SUBSET (Node \X Node)
  <2>1. \A s \in Lineage({r}) : <<x, s>> \in Node \X Node BY <1>1, <1>2
  <2>2. edges \in SUBSET (Node \X Node) BY DEF TypeOK
  <2> QED BY <2>1, <2>2, <1>3
<1>5. body' \in [Node -> Bodies] BY <1>1, <1>3 DEF TypeOK, Bodies
<1>6. holds' \in [Node -> SUBSET Records] BY <1>1, <1>3, RootsAreNodes DEF TypeOK
<1> QED BY <1>1, <1>3, <1>4, <1>5, <1>6, ZenonT(60) DEF TypeOK, BeginExport

LEMMA SaveRecordType ==
    ASSUME RetentionInv, SaveRecord
    PROVE  TypeOK'
<1> DEFINE r == draft.rec
<1>0. TypeOK /\ r \in Records /\ r \in Node /\ draft.refs \in SUBSET Node
      /\ draft.holds \in SUBSET Records
  BY RootsAreNodes DEF RetentionInv, TypeOK, SaveRecord
<1> HIDE DEF r
<1>1. /\ rev' = [rev EXCEPT ![r] = @ + 1] /\ body' = [body EXCEPT ![r] = "live"]
      /\ holds' = [holds EXCEPT ![r] = draft.holds]
  BY DEF SaveRecord, r
<1>2. rev[r] < MaxRevisions[r] BY DEF SaveRecord, VersionMatches, RetentionInv, DraftOK, r
<1>3. MaxRevisions[r] \in Nat BY <1>0, RetentionAssumption DEF RetentionAssumption
<1>4. rev' \in [Records -> Nat] /\ \A s \in Records : rev'[s] <= MaxRevisions[s] + 2
  BY <1>0, <1>1, <1>2, <1>3 DEF TypeOK
<1>5. body' \in [Node -> Bodies] BY <1>0, <1>1 DEF TypeOK, Bodies
<1>6. holds' \in [Node -> SUBSET Records] BY <1>0, <1>1 DEF TypeOK
<1>7. /\ edges' \in SUBSET (Node \X Node)
      /\ item' \in [Roots -> [Node -> {"none", "todo", "paid", "done"}]]
      /\ job' \in [Roots -> JobRow]
  BY <1>0, CiteType DEF SaveRecord, r
<1> QED BY <1>0, <1>4, <1>5, <1>6, <1>7 DEF TypeOK, SaveRecord

LEMMA RetainResultType ==
    ASSUME TypeOK, NEW context \in SUBSET Node, RetainResult(context)
    PROVE  TypeOK'
<1> DEFINE o == Fresh(Results)
<1>1. o \in Results /\ o \in Node BY FreshIsUnused, RootsAreNodes DEF RetainResult
<1>2. call.node \in Node /\ call.holds \in SUBSET Records BY DEF TypeOK, RetainResult, NoCall
<1> HIDE DEF o
<1>3. /\ body' = [body EXCEPT ![o] = "live"] /\ holds' = [holds EXCEPT ![o] = call.holds]
      /\ Cite(o, context \cup {call.node})
      /\ call' = [phase |-> "retained", node |-> call.node, result |-> o, holds |-> call.holds]
  BY DEF RetainResult, o
<1>4. /\ edges' \in SUBSET (Node \X Node)
      /\ item' \in [Roots -> [Node -> {"none", "todo", "paid", "done"}]]
      /\ job' \in [Roots -> JobRow]
  BY <1>1, <1>2, <1>3, CiteType
<1>5. body' \in [Node -> Bodies] BY <1>1, <1>3 DEF TypeOK, Bodies
<1>6. holds' \in [Node -> SUBSET Records] BY <1>1, <1>2, <1>3 DEF TypeOK
<1>7. call' \in [phase : {"retained"}, node : Node, result : Results, holds : SUBSET Records]
  BY <1>1, <1>2, <1>3
<1> QED BY <1>4, <1>5, <1>6, <1>7 DEF TypeOK, RetainResult
LEMMA WithdrawExportType ==
    ASSUME TypeOK, NEW x \in Exports, WithdrawExport(x)
    PROVE  /\ tomb' \in [Node -> {"none", "retired", "deleted"}]
           /\ ready' \in [Exports -> BOOLEAN]
           /\ job' \in [Roots -> JobRow]
<1>1. x \in Node /\ x \in Roots BY RootsAreNodes DEF Roots
<1>2. tomb' \in [Node -> {"none", "retired", "deleted"}] BY <1>1 DEF WithdrawExport, TypeOK
<1>3. ready' \in [Exports -> BOOLEAN] BY DEF WithdrawExport, TypeOK
<1>4. [status |-> "pending", delete |-> TRUE] \in JobRow BY DEF JobRow
<1>5. job[x] \in JobRow BY <1>1 DEF TypeOK
<1>6. job' \in [Roots -> JobRow]
  <2>1. (IF job[x].status = "none" THEN [status |-> "pending", delete |-> TRUE] ELSE job[x]) \in JobRow
    BY <1>4, <1>5
  <2> QED BY <1>1, <2>1 DEF WithdrawExport, TypeOK
<1> QED BY <1>2, <1>3, <1>6

LEMMA PublishExportType ==
    ASSUME TypeOK, PublishExport \/ RefuseExport \/ FailExport
    PROVE  TypeOK'
<1>1. exporter \in Exports /\ exporter \in Node
  BY RootsAreNodes DEF TypeOK, PublishExport, RefuseExport, FailExport
<1>2. CASE PublishExport
  <2>1. body' \in [Node -> Bodies] BY <1>1, <1>2 DEF TypeOK, Bodies, PublishExport
  <2> QED BY <1>1, <1>2, <2>1 DEF TypeOK, PublishExport
<1>3. CASE RefuseExport
  BY <1>1, <1>3, WithdrawExportType DEF TypeOK, RefuseExport
<1>4. CASE FailExport
  <2>1. body' \in [Node -> Bodies] BY <1>1, <1>4 DEF TypeOK, Bodies, FailExport
  <2>2. faults' \in 0..MaxFaults
    BY <1>4, RetentionAssumption DEF FailExport, TypeOK, RetentionAssumption
  <2>3. /\ tomb' \in [Node -> {"none", "retired", "deleted"}]
        /\ ready' \in [Exports -> BOOLEAN] /\ job' \in [Roots -> JobRow]
    BY <1>1, <1>4, WithdrawExportType DEF FailExport
  <2> QED BY <1>4, <2>1, <2>2, <2>3 DEF TypeOK, FailExport
<1> QED BY <1>2, <1>3, <1>4

LEMMA CrashType ==
    ASSUME TypeOK, Crash
    PROVE  TypeOK'
<1>1. faults' \in 0..MaxFaults
  BY RetentionAssumption DEF Crash, TypeOK, RetentionAssumption
<1>2. body' \in [Node -> Bodies]
  BY RootsAreNodes DEF Crash, TypeOK, Bodies
<1>3. /\ rev' = rev /\ copy' = copy /\ from' = from /\ edges' = edges /\ tomb' = tomb
      /\ job' = job /\ item' = item /\ queue' = queue /\ ready' = ready /\ holds' = holds
      /\ call' = NoCall /\ draft' = NoDraft /\ exporter' = None
  BY DEF Crash
<1> QED BY <1>1, <1>2, <1>3 DEF TypeOK

LEMMA FailCleanupType ==
    ASSUME TypeOK, NEW r \in Roots, FailCleanup(r)
    PROVE  TypeOK'
<1>1. faults' \in 0..MaxFaults
  BY RetentionAssumption DEF FailCleanup, TypeOK, RetentionAssumption
<1>2. body' \in [Node -> Bodies]
  BY RootsAreNodes DEF FailCleanup, TypeOK, Bodies
<1>3. [job[r] EXCEPT !.status = "failed"] \in JobRow
  <2>1. job[r] \in JobRow BY DEF TypeOK
  <2> QED BY <2>1 DEF JobRow
<1>4. job' \in [Roots -> JobRow]
  BY <1>3 DEF FailCleanup, TypeOK
<1>5. /\ rev' = rev /\ copy' = copy /\ from' = from /\ edges' = edges /\ tomb' = tomb
      /\ item' = item /\ queue' = queue /\ ready' = ready /\ holds' = holds
      /\ call' = call /\ draft' = draft /\ exporter' = exporter
  BY DEF FailCleanup
<1> QED BY <1>1, <1>2, <1>4, <1>5 DEF TypeOK

\* The items and the queue of a job that starts.
LEMMA OrderType ==
    ASSUME TypeOK, NEW r \in Roots
    PROVE  /\ Order(r) \in Seq(Node)
           /\ Items(r) \in [Node -> {"none", "todo", "paid", "done"}]
           /\ Items(r)[r] # "none"
           /\ \A n \in Node : Items(r)[n] = IF n = r /\ item[r][r] = "none" THEN "todo" ELSE item[r][n]
<1>1. r \in Node BY RootsAreNodes
<1>2. item[r] \in [Node -> {"none", "todo", "paid", "done"}] /\ queue[r] \in Seq(Node)
  BY DEF TypeOK
<1> QED BY <1>1, <1>2 DEF Order, Items

LEMMA CleanItemType ==
    ASSUME RetentionInv, NEW r \in Roots, NEW n \in Node, CleanItem(r, n)
    PROVE  TypeOK'
<1>0. TypeOK BY DEF RetentionInv
<1>1. job[r].delete \in BOOLEAN /\ job[r] \in JobRow BY <1>0 DEF TypeOK, JobRow
<1>2. /\ rev' \in [Records -> Nat] /\ \A s \in Records : rev'[s] <= MaxRevisions[s] + 2
      /\ body' \in [Node -> Bodies] /\ tomb' \in [Node -> {"none", "retired", "deleted"}]
      /\ ready' \in [Exports -> BOOLEAN] /\ copy' \in [Activities -> {"none", "live", "gone"}]
  <2>1. CASE UNCHANGED <<rev, body, tomb, ready, copy>> BY <1>0, <2>1 DEF TypeOK
  <2>2. CASE CleanPayload(n, job[r].delete)
    <3>1. CleanedBody(n, job[r].delete) \in Bodies BY <1>0 DEF TypeOK, Bodies, CleanedBody
    <3>2. CleanedTomb(n, job[r].delete) \in {"none", "retired", "deleted"}
      BY <1>0 DEF TypeOK, CleanedTomb
    <3>3. body' \in [Node -> Bodies] /\ tomb' \in [Node -> {"none", "retired", "deleted"}]
      BY <1>0, <2>2, <3>1, <3>2 DEF TypeOK, CleanPayload
    <3>4. ready' \in [Exports -> BOOLEAN] BY <1>0, <2>2 DEF TypeOK, CleanPayload
    <3>5. copy' \in [Activities -> {"none", "live", "gone"}] BY <1>0, <2>2 DEF TypeOK, CleanPayload
    <3>6. rev' \in [Records -> Nat] /\ \A s \in Records : rev'[s] <= MaxRevisions[s] + 2
      <4>1. CASE n \in Records /\ StillThere(n, job[r].delete)
        <5>1. rev[n] + 1 \in Nat /\ rev[n] + 1 <= MaxRevisions[n] + 2
          BY <1>0, <1>1, <4>1, VersionType DEF RetentionInv, TablesInv
        <5>2. rev' = [rev EXCEPT ![n] = @ + 1] BY <2>2, <4>1 DEF CleanPayload
        <5> QED BY <1>0, <5>1, <5>2, <4>1 DEF TypeOK
      <4>2. CASE ~(n \in Records /\ StillThere(n, job[r].delete))
        BY <1>0, <2>2, <4>2 DEF TypeOK, CleanPayload
      <4> QED BY <4>1, <4>2
    <3> QED BY <3>3, <3>4, <3>5, <3>6
  <2> QED BY <2>1, <2>2 DEF CleanItem
<1>3. PICK listed \in SUBSET Node, after \in [Node -> {"none", "todo", "paid", "done"}],
           status \in {"pending", "complete"} :
        /\ item' = [item EXCEPT ![r] = after]
        /\ queue' = [queue EXCEPT ![r] = Order(r) \o SetToSeq(listed)]
        /\ job' = [job EXCEPT ![r].status = status]
  <2> DEFINE unlisted == Unlisted(n, Items(r))
  <2>1. PICK listed \in kSubset(Min({Batch, Cardinality(unlisted)}), unlisted) :
          LET after == [c \in Node |->
                      IF c = n THEN IF listed = unlisted THEN "done" ELSE "paid"
                      ELSE IF c \in listed THEN "todo" ELSE Items(r)[c]]
          IN  /\ item' = [item EXCEPT ![r] = after]
              /\ queue' = [queue EXCEPT ![r] = Order(r) \o SetToSeq(listed)]
              /\ job' = [job EXCEPT ![r].status =
                         IF \E c \in Node : after[c] \in {"todo", "paid"}
                         THEN "pending" ELSE "complete"]
    BY DEF CleanItem
  <2> DEFINE after == [c \in Node |->
                      IF c = n THEN IF listed = unlisted THEN "done" ELSE "paid"
                      ELSE IF c \in listed THEN "todo" ELSE Items(r)[c]]
             status == IF \E c \in Node : after[c] \in {"todo", "paid"}
                       THEN "pending" ELSE "complete"
  <2>2. after \in [Node -> {"none", "todo", "paid", "done"}] BY <1>0, OrderType
  <2>3. listed \in SUBSET Node BY DEF kSubset, Unlisted, Children
  <2>4. status \in {"pending", "complete"} OBVIOUS
  <2>5. /\ item' = [item EXCEPT ![r] = after]
        /\ queue' = [queue EXCEPT ![r] = Order(r) \o SetToSeq(listed)]
        /\ job' = [job EXCEPT ![r].status = status]
    BY <2>1
  <2> HIDE DEF after, status
  <2> QED BY <2>2, <2>3, <2>4, <2>5
<1>4. item' \in [Roots -> [Node -> {"none", "todo", "paid", "done"}]] BY <1>0, <1>3 DEF TypeOK
<1>5. queue' \in [Roots -> Seq(Node)]
  <2>1. Order(r) \in Seq(Node) /\ SetToSeq(listed) \in Seq(Node)
    BY <1>0, <1>3, OrderType, SeqOfSet
  <2>2. Order(r) \o SetToSeq(listed) \in Seq(Node) BY <2>1
  <2> QED BY <1>0, <1>3, <2>2 DEF TypeOK
<1>6. job' \in [Roots -> JobRow]
  <2>1. [job[r] EXCEPT !.status = status] \in JobRow BY <1>1, <1>3 DEF JobRow
  <2> QED BY <1>0, <1>3, <2>1 DEF TypeOK
<1>7. /\ from' = from /\ edges' = edges /\ call' = call /\ draft' = draft
      /\ exporter' = exporter /\ holds' = holds /\ faults' = faults
  BY DEF CleanItem
<1> QED BY <1>0, <1>2, <1>4, <1>5, <1>6, <1>7 DEF TypeOK
\* A step of a job takes one of its items that is not done.
LEMMA AdvancePicks ==
    ASSUME TypeOK, NEW r \in Roots, AdvanceCleanup(r)
    PROVE  \E n \in Node : Items(r)[n] \in {"todo", "paid"} /\ CleanItem(r, n)
<1>1. PICK i \in DOMAIN Order(r) : IsNext(r, i) /\ CleanItem(r, Order(r)[i])
  BY DEF AdvanceCleanup
<1>2. Order(r)[i] \in Node BY OrderType
<1> QED BY <1>1, <1>2 DEF IsNext

LEMMA TypeStep == RetentionInv /\ [Next]_vars => TypeOK'
<1> SUFFICES ASSUME RetentionInv, [Next]_vars PROVE TypeOK' OBVIOUS
<1>0. TypeOK BY DEF RetentionInv
<1>1. ASSUME NEW r \in Records, OwnerSubmits(r) PROVE TypeOK'
  <2>1. draft' \in [rec : Records, refs : SUBSET Node, expected : Nat, holds : SUBSET Records]
    BY <1>0, <1>1 DEF OwnerSubmits, CheckSubmission, TypeOK
  <2>2. UNCHANGED <<tables, call, exporter, holds, faults>>
    BY <1>1 DEF OwnerSubmits, CheckSubmission
  <2> QED BY <1>0, <2>1, <2>2 DEF TypeOK, tables
<1>2. ASSUME NEW r \in Records, Retire(r, TRUE) \/ Retire(r, FALSE) PROVE TypeOK'
  BY <1>2, RetireType
<1>3. ASSUME NEW r \in Records, BeginExport(r) PROVE TypeOK'
  BY <1>0, <1>3, BeginExportType
<1>4. CASE SaveRecord
  BY <1>4, SaveRecordType
<1>5. CASE SaveConflict
  BY <1>0, <1>5 DEF SaveConflict, TypeOK, tables
<1>6. ASSUME NEW n \in Node, ReadNode(n) PROVE TypeOK'
  <2>1. call' \in [phase : {"read"}, node : Node, version : Nat, holds : SUBSET Records]
    <3>1. holds[n] \in SUBSET Records /\ (n \in Records => rev[n] \in Nat) BY <1>0 DEF TypeOK
    <3>2. (IF n \in Records THEN rev[n] ELSE 1) \in Nat BY <3>1
    <3> QED BY <1>6, <3>1, <3>2 DEF ReadNode
  <2>2. UNCHANGED <<tables, draft, exporter, holds, faults>> BY <1>6 DEF ReadNode
  <2> QED BY <1>0, <2>1, <2>2 DEF TypeOK, tables
<1>7. CASE RetainResult({})
  BY <1>0, <1>7, RetainResultType
<1>8. CASE ReadConflict \/ EndCall
  BY <1>0, <1>8 DEF ReadConflict, EndCall, TypeOK, tables
<1>9. CASE PublishExport \/ RefuseExport \/ FailExport
  BY <1>0, <1>9, PublishExportType
<1>10. ASSUME NEW r \in Roots, AdvanceCleanup(r) PROVE TypeOK'
  <2>1. PICK n \in Node : CleanItem(r, n) BY <1>0, <1>10, AdvancePicks
  <2> QED BY <2>1, CleanItemType
<1>11. ASSUME NEW r \in Roots, FailCleanup(r) PROVE TypeOK'
  BY <1>0, <1>11, FailCleanupType
<1>12. ASSUME NEW x \in Exports, RecoverExport(x) PROVE TypeOK'
  BY <1>0, <1>12, WithdrawExportType DEF RecoverExport, TypeOK
<1>13. CASE Crash
  BY <1>0, <1>13, CrashType
<1>14. CASE UNCHANGED vars
  BY <1>0, <1>14 DEF TypeOK, vars, tables
<1> QED BY <1>1, <1>2, <1>3, <1>4, <1>5, <1>6, <1>7, <1>8, <1>9, <1>10, <1>11, <1>12, <1>13,
           <1>14 DEF Next
-----------------------------------------------------------------------------
\* What every step does to the graph: ids stay in use, withdrawals stand, and only
\* the record that is revised loses edges.
Grows ==
    /\ Fixed \subseteq Fixed'
    /\ \A n \in Node : body[n] # "none" => body'[n] # "none"
    /\ \A n \in Node : tomb[n] # "none" => tomb'[n] # "none"
    /\ \A r \in Records : rev[r] <= rev'[r] /\ (rev'[r] = rev[r] => tomb'[r] = tomb[r])
    /\ \A n \in Node : n \notin Records \/ rev'[n] = rev[n] => Parents(n) \subseteq Parents(n)'

LEMMA GrowsByTables ==
    ASSUME TypeOK, TypeOK', edges \subseteq edges',
           \A n \in Node : body[n] # "none" => body'[n] # "none",
           \A n \in Node : tomb[n] # "none" => tomb'[n] # "none",
           \A r \in Records : rev[r] <= rev'[r] /\ (rev'[r] = rev[r] => tomb'[r] = tomb[r])
    PROVE  Grows /\ \A n \in Node : Parents(n) \subseteq Parents(n)'
<1>1. \A n \in Node : Parents(n) \subseteq Parents(n)' BY DEF Parents
<1>2. Fixed \subseteq Fixed'
  <2>1. ASSUME NEW e \in Fixed PROVE e \in Fixed'
    <3>1. e \in edges /\ e \in edges' /\ e[1] \in Node BY DEF Fixed, TypeOK
    <3> QED BY <2>1, <3>1 DEF Fixed
  <2> QED BY <2>1
<1> QED BY <1>1, <1>2 DEF Grows

LEMMA RetireGrows ==
    ASSUME RetentionInv, TypeOK', NEW r \in Records, NEW delete \in BOOLEAN, Retire(r, delete)
    PROVE  Grows /\ \A n \in Node : Parents(n) \subseteq Parents(n)'
<1>0. TypeOK /\ r \in Node /\ rev[r] \in Nat BY RootsAreNodes DEF RetentionInv, TypeOK
<1>1. \A n \in Node : body[n] # "none" => body'[n] # "none" BY <1>0 DEF TypeOK, Retire
<1>2. \A n \in Node : tomb[n] # "none" => tomb'[n] # "none" BY <1>0 DEF TypeOK, Retire
<1>3. \A s \in Records : rev[s] <= rev'[s] /\ (rev'[s] = rev[s] => tomb'[s] = tomb[s])
  BY <1>0, RootsAreNodes DEF TypeOK, Retire
<1> QED BY <1>0, <1>1, <1>2, <1>3, GrowsByTables DEF Retire

LEMMA CleanItemGrows ==
    ASSUME RetentionInv, TypeOK', NEW r \in Roots, NEW n \in Node, CleanItem(r, n)
    PROVE  Grows /\ \A m \in Node : Parents(m) \subseteq Parents(m)'
<1>0. TypeOK /\ TablesInv /\ job[r].delete \in BOOLEAN BY DEF RetentionInv, TypeOK, JobRow
<1>1. CASE UNCHANGED <<rev, body, tomb, ready, copy>>
  <2>1. edges' = edges BY DEF CleanItem
  <2> QED BY <1>0, <1>1, <2>1, GrowsByTables DEF TypeOK
<1>2. CASE CleanPayload(n, job[r].delete)
  <2>1. \A m \in Node : body[m] # "none" => body'[m] # "none"
    BY <1>0, <1>2 DEF TypeOK, CleanPayload, CleanedBody
  <2>2. \A m \in Node : tomb[m] # "none" => tomb'[m] # "none"
    BY <1>0, <1>2 DEF TypeOK, CleanPayload, CleanedTomb
  <2>3. \A s \in Records : rev[s] <= rev'[s] /\ (rev'[s] = rev[s] => tomb'[s] = tomb[s])
    <3>1. CASE n \in Records /\ StillThere(n, job[r].delete)
      BY <1>0, <1>2, <3>1, RootsAreNodes DEF TypeOK, CleanPayload
    <3>2. CASE n \in Records /\ ~StillThere(n, job[r].delete)
      <4>1. rev' = rev BY <1>2, <3>2 DEF CleanPayload
      <4>2. CleanedTomb(n, job[r].delete) = tomb[n]
        <5>1. tomb[n] \in {"retired", "deleted"} BY <1>0, <3>2 DEF TypeOK, StillThere
        <5>2. job[r].delete => body[n] # "live" BY <3>2 DEF StillThere
        <5>3. body[n] # "none" BY <1>0, <5>1 DEF TablesInv, BlankOK
        <5>4. body[n] \in {"none", "live", "gone"} /\ (body[n] = "gone" <=> tomb[n] = "deleted")
          BY <1>0, <3>2 DEF TablesInv, RecordsOK
        <5>5. job[r].delete => tomb[n] = "deleted" BY <5>2, <5>3, <5>4
        <5> QED BY <3>2, <5>1, <5>5 DEF CleanedTomb
      <4> QED BY <1>0, <1>2, <4>1, <4>2, RootsAreNodes DEF TypeOK, CleanPayload
    <3>3. CASE n \notin Records
      BY <1>0, <1>2, <3>3, RootsAreNodes DEF TypeOK, CleanPayload
    <3> QED BY <3>1, <3>2, <3>3
  <2>4. edges' = edges BY DEF CleanItem
  <2> QED BY <1>0, <2>1, <2>2, <2>3, <2>4, GrowsByTables
<1> QED BY <1>1, <1>2 DEF CleanItem

\* The other steps of the tables that revise and withdraw no record.
LEMMA QuietGrows ==
    ASSUME TypeOK, TypeOK', edges' = edges, rev' = rev,
           \A n \in Node : body[n] # "none" => body'[n] # "none",
           \A n \in Node : tomb[n] # "none" => tomb'[n] # "none",
           \A r \in Records : tomb'[r] = tomb[r]
    PROVE  Grows /\ \A n \in Node : Parents(n) \subseteq Parents(n)'
<1>1. \A r \in Records : rev[r] <= rev'[r] BY DEF TypeOK
<1> QED BY <1>1, GrowsByTables

LEMMA WithdrawExportTombs ==
    ASSUME TypeOK, NEW x \in Exports, WithdrawExport(x)
    PROVE  /\ \A n \in Node : tomb[n] # "none" => tomb'[n] # "none"
           /\ \A r \in Records : tomb'[r] = tomb[r]
           /\ \A n \in Node : n # x => tomb'[n] = tomb[n]
           /\ tomb'[x] # "none"
<1>1. x \in Node /\ x \notin Records
  BY RetentionAssumption, RootsAreNodes DEF RetentionAssumption
<1> QED BY <1>1, RootsAreNodes DEF TypeOK, WithdrawExport

LEMMA ExportStepGrows ==
    ASSUME TypeOK, TypeOK',
           \/ PublishExport \/ RefuseExport \/ FailExport \/ Crash
           \/ \E x \in Exports : RecoverExport(x)
           \/ \E r \in Roots : FailCleanup(r)
    PROVE  Grows /\ \A n \in Node : Parents(n) \subseteq Parents(n)'
<1>1. ASSUME exporter # None PROVE exporter \in Exports /\ exporter \in Node
  BY <1>1, RootsAreNodes DEF TypeOK
<1>2. edges' = edges /\ rev' = rev
  BY DEF PublishExport, RefuseExport, FailExport, Crash, RecoverExport, FailCleanup
<1>3. \A n \in Node : body[n] # "none" => body'[n] # "none"
  BY <1>1, RootsAreNodes
     DEF TypeOK, PublishExport, RefuseExport, FailExport, Crash, RecoverExport, FailCleanup
<1>4. /\ \A n \in Node : tomb[n] # "none" => tomb'[n] # "none"
      /\ \A r \in Records : tomb'[r] = tomb[r]
  <2>1. CASE PublishExport \/ Crash \/ \E r \in Roots : FailCleanup(r)
    BY <2>1 DEF PublishExport, Crash, FailCleanup
  <2>2. CASE RefuseExport \/ FailExport
    BY <1>1, <2>2, WithdrawExportTombs DEF RefuseExport, FailExport
  <2>3. CASE \E x \in Exports : RecoverExport(x)
    BY <2>3, WithdrawExportTombs DEF RecoverExport
  <2> QED BY <2>1, <2>2, <2>3
<1> QED BY <1>2, <1>3, <1>4, QuietGrows
-----------------------------------------------------------------------------
\* Citations.

InUse == {n \in Node : body[n] # "none"}

\* What is cited is in use, contains the references and what records among them cite.
LEMMA CapturedFacts ==
    ASSUME RetentionInv, NEW refs \in SUBSET InUse
    PROVE  /\ refs \subseteq Captured(refs) /\ Captured(refs) \subseteq InUse
           /\ \A k \in refs \cap Records : tomb[k] = "none" => Parents(k) \subseteq Captured(refs)
<1>1. /\ Mutable \in SUBSET (Node \X Node) /\ refs \in SUBSET Node /\ InUse \subseteq Node
      /\ edges \in SUBSET (Node \X Node)
  BY DEF RetentionInv, TypeOK, Mutable, InUse
<1>2. \A e \in Mutable : e[2] \in InUse
  <2>1. ASSUME NEW e \in Mutable PROVE e[2] \in InUse
    <3>1. e = <<e[1], e[2]>> /\ e \in edges /\ e[1] \in Node /\ e[2] \in Node
      BY <1>1 DEF Mutable
    <3>2. <<e[1], e[2]>> \in edges BY <3>1
    <3> QED BY <3>1, <3>2 DEF InUse, RetentionInv, TablesInv, BlankOK
  <2> QED BY <2>1
<1>3. refs \subseteq Captured(refs) /\ Captured(refs) \subseteq InUse
  BY <1>1, <1>2, ReachLeast DEF Captured
<1>4. \A e \in Mutable : e[1] \in Captured(refs) => e[2] \in Captured(refs)
  BY <1>1, ReachClosed DEF Captured
<1>5. ASSUME NEW k \in refs \cap Records, tomb[k] = "none", NEW q \in Parents(k)
      PROVE  q \in Captured(refs)
  <2>1. <<k, q>> \in edges BY DEF Parents
  <2>2. <<k, q>> \in Mutable BY <1>5, <2>1 DEF Mutable
  <2>3. k \in Captured(refs) BY <1>3
  <2> QED BY <1>4, <2>2, <2>3
<1> QED BY <1>3, <1>5

\* A saved version is not of a withdrawn record.
LEMMA SavedIsMutable ==
    ASSUME RetentionInv, SaveRecord
    PROVE  /\ draft.rec \in Records /\ draft.rec \in Node /\ tomb[draft.rec] = "none"
           /\ body[draft.rec] # "gone"
           /\ draft.refs \in SUBSET InUse /\ draft.holds \in SUBSET Records
           /\ draft.holds \subseteq Reach({draft.rec} \cup draft.refs, Fixed)
<1>1. /\ draft.rec \in Records /\ draft.rec \in Node /\ draft.refs \in SUBSET Node
      /\ draft.holds \in SUBSET Records
  BY RootsAreNodes DEF RetentionInv, TypeOK, SaveRecord
<1>2. tomb[draft.rec] = "none"
  BY DEF SaveRecord, VersionMatches, RetentionInv, DraftOK
<1>3. body[draft.rec] # "gone" BY <1>1, <1>2 DEF RetentionInv, TablesInv, RecordsOK
<1>4. draft.refs \in SUBSET InUse BY <1>1 DEF SaveRecord, RetentionInv, DraftOK, InUse
<1>5. draft.holds \subseteq Reach({draft.rec} \cup draft.refs, Fixed)
  BY DEF SaveRecord, RetentionInv, DraftOK
<1> QED BY <1>1, <1>2, <1>3, <1>4, <1>5

LEMMA SaveRecordGrows ==
    ASSUME RetentionInv, TypeOK', SaveRecord
    PROVE  Grows
<1> DEFINE r == draft.rec
<1>0. TypeOK /\ r \in Records /\ r \in Node /\ tomb[r] = "none" /\ rev[r] \in Nat
  BY SavedIsMutable DEF RetentionInv, TypeOK
<1> HIDE DEF r
<1>1. /\ rev' = [rev EXCEPT ![r] = @ + 1] /\ body' = [body EXCEPT ![r] = "live"] /\ tomb' = tomb
      /\ edges' = {e \in edges : e[1] # r} \cup {<<r, s>> : s \in Captured(draft.refs)}
  BY DEF SaveRecord, Cite, r
<1>2. Fixed \subseteq Fixed'
  <2>1. ASSUME NEW e \in Fixed PROVE e \in Fixed'
    <3>1. e \in edges /\ e[1] # r BY <1>0, <2>1 DEF Fixed
    <3>2. e \in edges' BY <1>1, <3>1
    <3> QED BY <1>1, <2>1, <3>2 DEF Fixed
  <2> QED BY <2>1
<1>3. ASSUME NEW n \in Node, n \notin Records \/ rev'[n] = rev[n] PROVE Parents(n) \subseteq Parents(n)'
  <2>1. n # r BY <1>0, <1>1, <1>3 DEF TypeOK
  <2>2. ASSUME NEW q \in Parents(n) PROVE q \in Parents(n)'
    <3>1. <<n, q>> \in edges /\ q \in Node BY DEF Parents
    <3>2. <<n, q>> \in edges' BY <1>1, <2>1, <3>1
    <3> QED BY <3>1, <3>2 DEF Parents
  <2> QED BY <2>2
<1>4. \A s \in Records : rev[s] <= rev'[s] /\ (rev'[s] = rev[s] => tomb'[s] = tomb[s])
  BY <1>0, <1>1 DEF TypeOK
<1>5. \A n \in Node : body[n] # "none" => body'[n] # "none" BY <1>0, <1>1 DEF TypeOK
<1> QED BY <1>1, <1>2, <1>3, <1>4, <1>5 DEF Grows

\* A fresh node n that cites refs adds edges of its own only.
LEMMA FreshCite ==
    ASSUME RetentionInv, NEW n \in Node, body[n] = "none", NEW refs, Cite(n, refs)
    PROVE  edges \subseteq edges' /\ \A s \in Captured(refs) : <<n, s>> \in edges'
<1>1. ASSUME NEW e \in edges PROVE e \in edges'
  <2>1. e = <<e[1], e[2]>> /\ e[1] \in Node /\ e[2] \in Node BY DEF RetentionInv, TypeOK
  <2>2. ASSUME e[1] = n PROVE FALSE
    <3>1. <<n, e[2]>> \in edges /\ e[2] \in Node BY <2>1, <2>2
    <3> QED BY <3>1 DEF RetentionInv, TablesInv, BlankOK
  <2> QED BY <2>2 DEF Cite
<1> QED BY <1>1 DEF Cite

LEMMA RetainResultGrows ==
    ASSUME RetentionInv, TypeOK', NEW context \in SUBSET InUse, RetainResult(context)
    PROVE  Grows /\ \A n \in Node : Parents(n) \subseteq Parents(n)'
<1> DEFINE o == Fresh(Results)
<1>1. o \in Node /\ body[o] = "none" BY FreshIsUnused, RootsAreNodes DEF RetainResult
<1> HIDE DEF o
<1>2. /\ body' = [body EXCEPT ![o] = "live"] /\ tomb' = tomb /\ rev' = rev
      /\ Cite(o, context \cup {call.node})
  BY DEF RetainResult, o
<1>3. edges \subseteq edges' BY <1>1, <1>2, FreshCite
<1>4. \A n \in Node : body[n] # "none" => body'[n] # "none" BY <1>1, <1>2 DEF RetentionInv, TypeOK
<1>5. \A r \in Records : rev[r] <= rev'[r] BY <1>2 DEF RetentionInv, TypeOK
<1> QED BY <1>2, <1>3, <1>4, <1>5, GrowsByTables DEF RetentionInv

LEMMA BeginExportGrows ==
    ASSUME RetentionInv, TypeOK', NEW r \in Records, BeginExport(r)
    PROVE  Grows /\ \A n \in Node : Parents(n) \subseteq Parents(n)'
<1>1. Fresh(Exports) \in Node BY FreshIsUnused, RootsAreNodes DEF BeginExport
<1>2. edges \subseteq edges' /\ tomb' = tomb /\ rev' = rev BY DEF BeginExport
<1>3. \A n \in Node : body[n] # "none" => body'[n] # "none"
  BY <1>1 DEF BeginExport, RetentionInv, TypeOK
<1>5. \A s \in Records : rev[s] <= rev'[s] BY <1>2 DEF RetentionInv, TypeOK
<1> QED BY <1>2, <1>3, <1>5, GrowsByTables DEF RetentionInv

-----------------------------------------------------------------------------
\* What follows from growth.

LEMMA FixedType ==
    ASSUME TypeOK
    PROVE  Fixed \in SUBSET (Node \X Node) /\ Fixed \subseteq edges
BY DEF TypeOK, Fixed

LEMMA OriginsType ==
    ASSUME TypeOK, NEW n \in Node
    PROVE  /\ Origins(n) \in SUBSET Node /\ n \in Origins(n) /\ Parents(n) \subseteq Origins(n)
           /\ \A e \in Fixed : e[1] \in Origins(n) => e[2] \in Origins(n)
<1>1. {n} \cup Parents(n) \in SUBSET Node BY DEF Parents
<1> QED BY <1>1, FixedType, ReachClosed DEF Origins

\* The origins of what is fixed are origins of everything it leads to.
LEMMA OriginsOfFixed ==
    ASSUME TypeOK, NEW n \in Node, n \notin Records \/ tomb[n] # "none",
           NEW T, n \in T, \A e \in Fixed : e[1] \in T => e[2] \in T
    PROVE  Origins(n) \subseteq T
<1>1. ASSUME NEW q \in Parents(n) PROVE q \in T
  <2>1. <<n, q>> \in edges BY DEF Parents
  <2>2. <<n, q>> \in Fixed BY <2>1 DEF Fixed
  <2> QED BY <2>2
<1>2. {n} \cup Parents(n) \in SUBSET Node BY DEF Parents
<1> QED BY <1>1, <1>2, FixedType, ReachLeast DEF Origins

LEMMA DoomedStays ==
    ASSUME TypeOK, TypeOK', Grows, NEW n \in Node, n \notin Records, Doomed(n)
    PROVE  Doomed(n)'
<1>1. Origins(n) \subseteq Origins(n)' BY OriginsGrow DEF Grows
<1> QED BY <1>1, OriginsType DEF Doomed, Grows

\* Submissions and calls under way remember what they were based on.
LEMMA CallersKeep ==
    ASSUME RetentionInv, TypeOK', Grows
    PROVE  (draft' = draft => DraftOK') /\ (call' = call => CallOK')
<1>0. TypeOK /\ Fixed \in SUBSET (Node \X Node) /\ Fixed' \in SUBSET (Node \X Node)
      /\ Fixed \subseteq Fixed'
  BY FixedType DEF RetentionInv, Grows, TypeOK, Fixed
<1>1. ASSUME draft' = draft, draft # NoDraft PROVE DraftOK'
  <2>1. /\ draft.rec \in Records /\ draft.rec \in Node /\ draft.refs \in SUBSET Node
        /\ draft.expected \in Nat
    BY <1>0, <1>1, RootsAreNodes DEF TypeOK
  <2>2. {draft.rec} \cup draft.refs \in SUBSET Node BY <2>1
  <2>3. Reach({draft.rec} \cup draft.refs, Fixed) \subseteq Reach({draft.rec} \cup draft.refs, Fixed')
    BY <1>0, <2>2, ReachGrows
  <2>4. draft.expected <= rev[draft.rec] /\ rev[draft.rec] <= rev'[draft.rec]
        /\ rev[draft.rec] \in Nat /\ rev'[draft.rec] \in Nat
    BY <1>0, <1>1, <2>1 DEF RetentionInv, DraftOK, Grows, TypeOK
  <2>5. draft.expected <= rev'[draft.rec] BY <2>1, <2>4
  <2>6. draft.expected = rev'[draft.rec] => tomb'[draft.rec] = "none"
    <3> SUFFICES ASSUME draft.expected = rev'[draft.rec] PROVE tomb'[draft.rec] = "none" OBVIOUS
    <3>1. rev[draft.rec] = rev'[draft.rec] BY <2>1, <2>4
    <3> QED BY <1>1, <2>1, <3>1 DEF RetentionInv, DraftOK, Grows
  <2>7. \A n \in draft.refs : body'[n] # "none" BY <1>1, <2>1 DEF RetentionInv, DraftOK, Grows
  <2> QED BY <1>1, <2>3, <2>5, <2>6, <2>7 DEF RetentionInv, DraftOK
<1>2. ASSUME call' = call, call.phase = "read" PROVE CallOK'
  <2>1. call.node \in Node /\ call.version \in Nat /\ (call.node \in Records => call.node \in Records)
    BY <1>0, <1>2 DEF TypeOK, NoCall
  <2>2. body'[call.node] # "none" BY <1>2, <2>1 DEF RetentionInv, CallOK, Grows
  <2>3. call.node \notin Records => call.holds \subseteq Reach({call.node}, Fixed')
    <3>1. Reach({call.node}, Fixed) \subseteq Reach({call.node}, Fixed')
      BY <1>0, <2>1, ReachGrows
    <3> QED BY <1>2, <3>1 DEF RetentionInv, CallOK
  <2>4. ASSUME NEW k \in Records, k = call.node
        PROVE  /\ call.version <= rev'[k]
               /\ call.version = rev'[k] => tomb'[k] = "none" /\ call.holds \subseteq Origins(k)'
    <3>1. call.version <= rev[k] /\ rev[k] <= rev'[k] /\ rev[k] \in Nat /\ rev'[k] \in Nat
      BY <1>0, <1>2, <2>4 DEF RetentionInv, CallOK, Grows, TypeOK
    <3>2. ASSUME call.version = rev'[k]
          PROVE  tomb'[k] = "none" /\ call.holds \subseteq Origins(k)'
      <4>1. rev[k] = rev'[k] /\ call.version = rev[k] BY <2>1, <3>1, <3>2
      <4>2. tomb[k] = "none" /\ call.holds \subseteq Origins(k)
        BY <1>2, <2>4, <4>1 DEF RetentionInv, CallOK
      <4>3. k \in Node /\ Parents(k) \subseteq Parents(k)' BY <2>1, <2>4, <4>1 DEF Grows
      <4>4. Origins(k) \subseteq Origins(k)' BY <1>0, <4>3, OriginsGrow
      <4> QED BY <4>1, <4>2, <4>4 DEF Grows
    <3> QED BY <2>1, <3>1, <3>2
  <2> QED BY <1>2, <2>2, <2>3, <2>4 DEF CallOK
<1> QED BY <1>1, <1>2 DEF DraftOK, CallOK
\* Steps that keep the items, the edges and the content keep what relates them.
LEMMA SameItems ==
    ASSUME RetentionInv, TypeOK', Grows, item' = item, edges' = edges, holds' = holds
    PROVE  ListedOK' /\ ClosedOK' /\ TracedOK'
<1>0. TypeOK /\ Fixed \subseteq Fixed' /\ \A n \in Node : Parents(n) \subseteq Parents(n)'
  BY DEF RetentionInv, Grows, Parents
<1>1. ListedOK'
  <2>1. ASSUME NEW r \in Roots, NEW n \in Node, item'[r][n] # "none", n \notin Records
        PROVE  Doomed(n)'
    <3>1. Doomed(n) BY <2>1 DEF RetentionInv, TablesInv, ListedOK
    <3> QED BY <1>0, <2>1, <3>1, DoomedStays
  <2> QED BY <2>1 DEF ListedOK
<1>2. ClosedOK' BY DEF RetentionInv, TablesInv, ClosedOK
<1>3. TracedOK'
  <2>1. ASSUME NEW n \in Node PROVE holds'[n] \subseteq Origins(n)'
    <3>1. holds[n] \subseteq Origins(n) BY DEF RetentionInv, TablesInv, TracedOK
    <3>2. Origins(n) \subseteq Origins(n)' BY <1>0, OriginsGrow
    <3> QED BY <3>1, <3>2
  <2> QED BY <2>1 DEF TracedOK
<1> QED BY <1>1, <1>2, <1>3

\* Of an export that may be published no job knows.
LEMMA PublishableIsUnlisted ==
    ASSUME RetentionInv, NEW x \in Exports, MayPublish(x)
    PROVE  \A r \in Roots : item[r][x] = "none"
<1>0. /\ TypeOK /\ x \in Node /\ x \notin Records /\ Parents(x) \in SUBSET Node
      /\ edges \in SUBSET (Node \X Node)
  BY RootsAreNodes, RetentionAssumption DEF RetentionInv, RetentionAssumption, Parents, TypeOK
<1> DEFINE L == Lineage(Parents(x))
<1>1. Parents(x) \subseteq L /\ \A e \in edges : e[1] \in L => e[2] \in L
  BY <1>0, ReachClosed DEF Lineage
<1>2. \A t \in L : tomb[t] = "none" BY DEF MayPublish, Available
<1> HIDE DEF L
<1>3. \A e \in Fixed : e[1] \in L \cup {x} => e[2] \in L \cup {x}
  <2>1. ASSUME NEW e \in Fixed, e[1] \in L \cup {x} PROVE e[2] \in L
    <3>1. e \in edges /\ e = <<e[1], e[2]>> /\ e[2] \in Node BY <1>0 DEF Fixed
    <3>2. CASE e[1] = x
      <4>1. e[2] \in Parents(x) BY <3>1, <3>2 DEF Parents
      <4> QED BY <1>1, <4>1
    <3> QED BY <1>1, <2>1, <3>1, <3>2
  <2> QED BY <2>1
<1>4. Origins(x) \subseteq L \cup {x} BY <1>0, <1>3, OriginsOfFixed
<1>5. ~Doomed(x) BY <1>2, <1>4 DEF Doomed, MayPublish
<1> QED BY <1>0, <1>5 DEF RetentionInv, TablesInv, ListedOK
-----------------------------------------------------------------------------
\* The steps of the exports.

\* The export has a file, or is about to have one.
LEMMA ExporterFacts ==
    ASSUME RetentionInv, exporter # None
    PROVE  /\ exporter \in Exports /\ exporter \in Node /\ exporter \in Roots
           /\ exporter \notin Records /\ body[exporter] # "none" /\ ~ready[exporter]
  BY RootsAreNodes, RetentionAssumption
     DEF RetentionInv, TypeOK, RetentionAssumption, TablesInv, ExportsOK, Roots

\* A file is written, left in part, or removed, and nothing else of the tables changes.
LEMMA FileStep ==
    ASSUME RetentionInv, TypeOK', NEW x \in Exports, NEW b \in {"live", "partial", "gone"},
           body[x] # "none", body' = [body EXCEPT ![x] = b],
           b # "gone" => \A r \in Roots : item[r][x] = "none",
           UNCHANGED <<rev, copy, edges, item, holds>>,
           \A r \in Records : tomb'[r] = tomb[r] /\ job'[r].delete = job[r].delete,
           \A n \in Node : body'[n] = "none" => tomb'[n] = "none" /\ (n \in Roots => job'[n].status = "none"),
           \A r \in Roots : job'[r].delete # job[r].delete => \A n \in Node : item[r][n] = "none"
    PROVE  RecordsOK' /\ OthersOK' /\ BlankOK' /\ CleanedOK'
<1>0. TypeOK /\ TablesInv /\ x \in Node /\ x \notin Records /\ body' \in [Node -> Bodies]
  BY RootsAreNodes, RetentionAssumption DEF RetentionInv, RetentionAssumption, TypeOK
<1>1. \A n \in Node : body'[n] = IF n = x THEN b ELSE body[n] BY <1>0 DEF TypeOK
<1>2. RecordsOK' BY <1>0, <1>1, RootsAreNodes DEF TablesInv, RecordsOK
<1>3. OthersOK' BY <1>0, <1>1 DEF TablesInv, OthersOK
<1>4. BlankOK'
  <2>1. ASSUME NEW n \in Node, body'[n] = "none" PROVE body[n] = "none" BY <1>0, <1>1, <2>1
  <2> QED BY <1>0, <2>1 DEF TablesInv, BlankOK
<1>5. CleanedOK'
  <2>1. ASSUME NEW r \in Roots, NEW n \in Node, Paid(r, n)'
        PROVE  (n \in Records => tomb'[n] # "none") /\ (n \in Exports \/ job'[r].delete => body'[n] = "gone")
    <3>1. Paid(r, n) /\ job'[r].delete = job[r].delete BY <2>1 DEF Paid
    <3>2. (n \in Records => tomb[n] # "none") /\ (n \in Exports \/ job[r].delete => body[n] = "gone")
      BY <1>0, <3>1 DEF TablesInv, CleanedOK
    <3>3. n = x => b = "gone" BY <3>1 DEF Paid
    <3> QED BY <1>1, <3>1, <3>2, <3>3
  <2> QED BY <2>1 DEF CleanedOK
<1> QED BY <1>2, <1>3, <1>4, <1>5

LEMMA PublishExportKeeps ==
    ASSUME RetentionInv, TypeOK', PublishExport
    PROVE  TablesInv'
<1> DEFINE x == exporter
<1>0. /\ TypeOK /\ TablesInv /\ exporter # None /\ MayPublish(x) BY DEF PublishExport, RetentionInv
<1>1. x \in Exports /\ x \in Node /\ body[x] # "none" BY <1>0, ExporterFacts
<1>2. \A r \in Roots : item[r][x] = "none" BY <1>0, <1>1, PublishableIsUnlisted
<1> HIDE DEF x
<1>3. /\ body' = [body EXCEPT ![x] = "live"] /\ ready' = [ready EXCEPT ![x] = TRUE]
      /\ exporter' = None
      /\ UNCHANGED <<rev, copy, from, edges, tomb, job, item, queue, call, draft, holds, faults>>
  BY DEF PublishExport, x
<1>4. RecordsOK' /\ OthersOK' /\ BlankOK' /\ CleanedOK'
  <2>1. \A n \in Node : body'[n] = "none" => body[n] = "none" BY <1>0, <1>1, <1>3 DEF TypeOK
  <2>2. \A n \in Node : body'[n] = "none" => tomb'[n] = "none" /\ (n \in Roots => job'[n].status = "none")
    BY <1>0, <1>3, <2>1 DEF TablesInv, BlankOK
  <2> QED BY <1>1, <1>2, <1>3, <2>2, FileStep
<1>5. ExportsOK'
  <2>1. \A y \in Exports : y # None BY RootsAreNodes, RetentionAssumption DEF RetentionAssumption
  <2> QED BY <1>0, <1>1, <1>3, <2>1, RootsAreNodes DEF TablesInv, ExportsOK, TypeOK
<1>6. JobsOK' BY <1>0, <1>3 DEF TablesInv, JobsOK
<1>7. Grows BY <1>0, ExportStepGrows
<1>8. ListedOK' /\ ClosedOK' /\ TracedOK' BY <1>3, <1>7, SameItems
<1> QED BY <1>4, <1>5, <1>6, <1>8 DEF TablesInv

\* withdraw_export keeps what is said of tables, whatever the file.
LEMMA WithdrawExportFacts ==
    ASSUME RetentionInv, NEW x \in Exports, WithdrawExport(x), body[x] # "none"
    PROVE  /\ \A r \in Records : tomb'[r] = tomb[r] /\ job'[r] = job[r]
           /\ \A n \in Node : body[n] = "none" =>
                 tomb'[n] = "none" /\ (n \in Roots => job'[n].status = "none")
           /\ \A r \in Roots : job'[r].delete # job[r].delete => \A n \in Node : item[r][n] = "none"
           /\ item' = item => JobsOK'
           /\ \A y \in Exports : ready'[y] => ready[y] /\ y # x
           /\ \A y \in Exports : (tomb[y] # "none" => job[y].status # "none") =>
                                 (tomb'[y] # "none" => job'[y].status # "none")
<1>0. TypeOK /\ TablesInv /\ x \in Node /\ x \in Roots /\ x \notin Records
  BY RootsAreNodes, RetentionAssumption DEF RetentionInv, RetentionAssumption, Roots
<1>1. /\ \A n \in Node : tomb'[n] = IF n = x /\ tomb[x] = "none" THEN "deleted" ELSE tomb[n]
      /\ \A y \in Exports : ready'[y] = IF y = x THEN FALSE ELSE ready[y]
      /\ \A r \in Roots : job'[r] = IF r = x /\ job[x].status = "none"
                                    THEN [status |-> "pending", delete |-> TRUE] ELSE job[r]
  BY <1>0 DEF TypeOK, WithdrawExport
<1>2. \A r \in Records : tomb'[r] = tomb[r] /\ job'[r] = job[r]
  BY <1>0, <1>1, RootsAreNodes DEF Roots
<1>3. \A n \in Node : body[n] = "none" => tomb'[n] = "none" /\ (n \in Roots => job'[n].status = "none")
  BY <1>0, <1>1 DEF TablesInv, BlankOK
<1>4. \A r \in Roots : job'[r].delete # job[r].delete => \A n \in Node : item[r][n] = "none"
  BY <1>0, <1>1 DEF TablesInv, JobsOK
<1>5. ASSUME item' = item PROVE JobsOK'
  <2>1. ASSUME NEW r \in Roots
        PROVE  /\ job'[r].status = "none" => ~job'[r].delete /\ \A n \in Node : item[r][n] = "none"
               /\ job'[r].status # "none" => tomb'[r] # "none"
               /\ job'[r].status = "complete" =>
                     item[r][r] = "done" /\ \A n \in Node : item[r][n] \notin {"todo", "paid"}
    <3>1. CASE r = x /\ job[x].status = "none" BY <1>0, <1>1, <3>1
    <3>2. CASE ~(r = x /\ job[x].status = "none")
      <4>1. job'[r] = job[r] BY <1>1, <3>2
      <4>2. r \in Node /\ (tomb[r] # "none" => tomb'[r] # "none") BY <1>1, RootsAreNodes
      <4> QED BY <1>0, <4>1, <4>2 DEF TablesInv, JobsOK
    <3> QED BY <3>1, <3>2
  <2> QED BY <1>5, <2>1 DEF JobsOK
<1>6. \A y \in Exports : ready'[y] => ready[y] /\ y # x BY <1>1
<1>7. \A y \in Exports : (tomb[y] # "none" => job[y].status # "none") =>
                                 (tomb'[y] # "none" => job'[y].status # "none")
  BY <1>0, <1>1, RootsAreNodes DEF Roots
<1> QED BY <1>2, <1>3, <1>4, <1>5, <1>6, <1>7
\* An export is withdrawn with its file as it is: refused, or found by recovery.
LEMMA WithdrawnKeeps ==
    ASSUME RetentionInv, TypeOK', Grows, NEW x \in Exports, body[x] # "none", WithdrawExport(x),
           UNCHANGED <<rev, body, copy, edges, item, holds>>,
           exporter' \in {exporter, None}
    PROVE  TablesInv'
<1>0. TypeOK /\ TablesInv BY DEF RetentionInv
<1>1. /\ \A r \in Records : tomb'[r] = tomb[r] /\ job'[r] = job[r]
      /\ \A n \in Node : body[n] = "none" =>
            tomb'[n] = "none" /\ (n \in Roots => job'[n].status = "none")
      /\ \A r \in Roots : job'[r].delete # job[r].delete => \A n \in Node : item[r][n] = "none"
      /\ item' = item => JobsOK'
      /\ \A y \in Exports : ready'[y] => ready[y] /\ y # x
      /\ \A y \in Exports : (tomb[y] # "none" => job[y].status # "none") =>
                            (tomb'[y] # "none" => job'[y].status # "none")
  BY WithdrawExportFacts
<1>2. RecordsOK' BY <1>0, <1>1 DEF TablesInv, RecordsOK
<1>3. \A y \in Exports : y # None BY RootsAreNodes, RetentionAssumption DEF RetentionAssumption
<1>4. ExportsOK' BY <1>0, <1>1, <1>3 DEF TablesInv, ExportsOK
<1>5. OthersOK' BY <1>0 DEF TablesInv, OthersOK
<1>6. BlankOK' BY <1>0, <1>1 DEF TablesInv, BlankOK
<1>7. CleanedOK'
  <2>1. ASSUME NEW r \in Roots, NEW n \in Node, Paid(r, n)'
        PROVE  (n \in Records => tomb'[n] # "none") /\ (n \in Exports \/ job'[r].delete => body'[n] = "gone")
    <3>1. Paid(r, n) /\ job'[r].delete = job[r].delete BY <1>1, <2>1 DEF Paid
    <3>2. (n \in Records => tomb[n] # "none") /\ (n \in Exports \/ job[r].delete => body[n] = "gone")
      BY <1>0, <3>1 DEF TablesInv, CleanedOK
    <3> QED BY <1>1, <3>1, <3>2
  <2> QED BY <2>1 DEF CleanedOK
<1>8. ListedOK' /\ ClosedOK' /\ TracedOK' BY SameItems
<1> QED BY <1>1, <1>2, <1>4, <1>5, <1>6, <1>7, <1>8 DEF TablesInv

LEMMA RefuseExportKeeps ==
    ASSUME RetentionInv, TypeOK', RefuseExport
    PROVE  TablesInv'
<1> DEFINE x == exporter
<1>1. Grows BY ExportStepGrows DEF RetentionInv
<1>2. x \in Exports /\ body[x] # "none" BY ExporterFacts DEF RefuseExport
<1> HIDE DEF x
<1>3. /\ WithdrawExport(x) /\ UNCHANGED <<rev, body, copy, edges, item, holds>>
      /\ exporter' \in {exporter, None}
  BY DEF RefuseExport, x
<1> QED BY <1>1, <1>2, <1>3, WithdrawnKeeps

LEMMA RecoverExportKeeps ==
    ASSUME RetentionInv, TypeOK', NEW x \in Exports, RecoverExport(x)
    PROVE  TablesInv'
<1>1. Grows BY ExportStepGrows DEF RetentionInv
<1> QED BY <1>1, WithdrawnKeeps DEF RecoverExport

LEMMA FailExportKeeps ==
    ASSUME RetentionInv, TypeOK', FailExport
    PROVE  TablesInv'
<1> DEFINE x == exporter
<1>0. TypeOK /\ TablesInv /\ exporter # None /\ MayPublish(x) BY DEF FailExport, RetentionInv
<1>1. x \in Exports /\ x \in Node /\ body[x] # "none" BY <1>0, ExporterFacts
<1>2. \A r \in Roots : item[r][x] = "none" BY <1>0, <1>1, PublishableIsUnlisted
<1> HIDE DEF x
<1>3. /\ WithdrawExport(x) /\ body' = [body EXCEPT ![x] = "partial"] /\ exporter' = None
      /\ UNCHANGED <<rev, copy, from, edges, item, queue, call, draft, holds>>
  BY DEF FailExport, x
<1>4. /\ \A r \in Records : tomb'[r] = tomb[r] /\ job'[r] = job[r]
      /\ \A n \in Node : body[n] = "none" =>
            tomb'[n] = "none" /\ (n \in Roots => job'[n].status = "none")
      /\ \A r \in Roots : job'[r].delete # job[r].delete => \A n \in Node : item[r][n] = "none"
      /\ item' = item => JobsOK'
      /\ \A y \in Exports : ready'[y] => ready[y] /\ y # x
      /\ \A y \in Exports : (tomb[y] # "none" => job[y].status # "none") =>
                            (tomb'[y] # "none" => job'[y].status # "none")
  BY <1>1, <1>3, WithdrawExportFacts
<1>5. RecordsOK' /\ OthersOK' /\ BlankOK' /\ CleanedOK'
  <2>1. \A n \in Node : body'[n] = "none" => body[n] = "none" BY <1>0, <1>1, <1>3 DEF TypeOK
  <2>2. \A n \in Node : body'[n] = "none" => tomb'[n] = "none" /\ (n \in Roots => job'[n].status = "none")
    BY <1>4, <2>1
  <2> QED BY <1>1, <1>2, <1>3, <1>4, <2>2, FileStep
<1>6. ExportsOK'
  <2>1. \A y \in Exports : y # None /\ y \in Node
    BY RootsAreNodes, RetentionAssumption DEF RetentionAssumption
  <2>2. \A y \in Exports : y # x => body'[y] = body[y] BY <1>0, <1>1, <1>3, <2>1 DEF TypeOK
  <2> QED BY <1>0, <1>1, <1>3, <1>4, <2>1, <2>2 DEF TablesInv, ExportsOK
<1>7. Grows BY <1>0, ExportStepGrows
<1>8. ListedOK' /\ ClosedOK' /\ TracedOK' BY <1>3, <1>7, SameItems
<1> QED BY <1>3, <1>4, <1>5, <1>6, <1>8 DEF TablesInv

\* A file that is written in part, or removed, is the only change.
LEMMA FileOnlyKeeps ==
    ASSUME RetentionInv, TypeOK', Grows, NEW x \in Exports, NEW b \in {"partial", "gone"},
           body[x] # "none", body' = [body EXCEPT ![x] = b],
           b # "gone" => ~ready[x] /\ \A r \in Roots : item[r][x] = "none",
           UNCHANGED <<rev, copy, edges, tomb, item, ready, holds>>,
           \A r \in Roots : job'[r].delete = job[r].delete,
           \A r \in Roots : job'[r].status = "none" <=> job[r].status = "none",
           JobsOK', exporter' \in {exporter, None}
    PROVE  TablesInv'
<1>0. TypeOK /\ TablesInv /\ x \in Node BY RootsAreNodes DEF RetentionInv
<1>1. RecordsOK' /\ OthersOK' /\ BlankOK' /\ CleanedOK'
  <2>1. \A n \in Node : body'[n] = "none" => body[n] = "none" BY <1>0 DEF TypeOK
  <2>2. \A n \in Node : body'[n] = "none" => tomb'[n] = "none" /\ (n \in Roots => job'[n].status = "none")
    BY <1>0, <2>1 DEF TablesInv, BlankOK
  <2> QED BY <2>2, FileStep DEF Roots
<1>2. ExportsOK'
  <2>1. \A y \in Exports : y # None /\ y \in Node /\ y \in Roots
    BY RootsAreNodes, RetentionAssumption DEF RetentionAssumption, Roots
  <2>2. \A y \in Exports : body'[y] = IF y = x THEN b ELSE body[y] BY <1>0, <2>1 DEF TypeOK
  <2> QED BY <1>0, <2>1, <2>2 DEF TablesInv, ExportsOK
<1>3. ListedOK' /\ ClosedOK' /\ TracedOK' BY SameItems
<1> QED BY <1>1, <1>2, <1>3 DEF TablesInv

LEMMA SameTablesKeep ==
    ASSUME RetentionInv, TypeOK', UNCHANGED <<rev, body, copy, edges, tomb, item, ready, holds>>,
           \A r \in Roots : job'[r].delete = job[r].delete,
           \A r \in Roots : job'[r].status = "none" <=> job[r].status = "none",
           JobsOK', exporter' \in {exporter, None}
    PROVE  TablesInv'
<1>0. TypeOK /\ TablesInv BY DEF RetentionInv
<1>1. Records \subseteq Roots /\ \A y \in Exports : y # None /\ y \in Roots
  BY RootsAreNodes, RetentionAssumption DEF RetentionAssumption, Roots
<1>2. RecordsOK' BY <1>0, <1>1 DEF TablesInv, RecordsOK
<1>3. ExportsOK' BY <1>0, <1>1 DEF TablesInv, ExportsOK
<1>4. OthersOK' BY <1>0 DEF TablesInv, OthersOK
<1>5. BlankOK' BY <1>0 DEF TablesInv, BlankOK
<1>6. CleanedOK' BY <1>0 DEF TablesInv, CleanedOK, Paid
<1>7. Grows BY <1>0, QuietGrows
<1>8. ListedOK' /\ ClosedOK' /\ TracedOK' BY <1>7, SameItems
<1> QED BY <1>2, <1>3, <1>4, <1>5, <1>6, <1>8 DEF TablesInv

LEMMA CrashKeeps ==
    ASSUME RetentionInv, TypeOK', Crash
    PROVE  TablesInv'
<1>0. /\ TypeOK /\ TablesInv /\ exporter' = None
      /\ UNCHANGED <<rev, copy, from, edges, tomb, job, item, queue, ready, holds>>
  BY DEF Crash, RetentionInv
<1>1. JobsOK' BY <1>0 DEF TablesInv, JobsOK
<1>2. CASE UNCHANGED body BY <1>0, <1>1, <1>2, SameTablesKeep
<1>3. CASE exporter # None /\ MayPublish(exporter) /\ body' = [body EXCEPT ![exporter] = "partial"]
  <2> DEFINE x == exporter
  <2>1. x \in Exports /\ x \in Node /\ body[x] # "none" /\ ~ready[x] BY <1>3, ExporterFacts
  <2>2. \A r \in Roots : item[r][x] = "none" BY <1>3, <2>1, PublishableIsUnlisted
  <2>3. body' = [body EXCEPT ![x] = "partial"] BY <1>3
  <2>4. Grows BY <1>0, ExportStepGrows
  <2> HIDE DEF x
  <2> QED BY <1>0, <1>1, <2>1, <2>2, <2>3, <2>4, FileOnlyKeeps
<1> QED BY <1>2, <1>3 DEF Crash

LEMMA FailCleanupKeeps ==
    ASSUME RetentionInv, TypeOK', NEW r \in Roots, FailCleanup(r)
    PROVE  TablesInv'
<1>0. /\ TypeOK /\ TablesInv /\ exporter' = exporter
      /\ UNCHANGED <<rev, copy, from, edges, tomb, item, queue, ready, holds>>
  BY DEF FailCleanup, RetentionInv
<1>1. /\ \A s \in Roots : job'[s].delete = job[s].delete
      /\ \A s \in Roots : job'[s].status = "none" <=> job[s].status = "none"
      /\ \A s \in Roots : job'[s].status = "complete" => job[s].status = "complete"
  BY <1>0 DEF FailCleanup, Unfinished, TypeOK, JobRow
<1>2. JobsOK' BY <1>0, <1>1 DEF TablesInv, JobsOK
<1>3. CASE UNCHANGED body BY <1>0, <1>1, <1>2, <1>3, SameTablesKeep
<1>4. ASSUME NEW x \in Exports, item[r][x] = "todo" \/ (x = r /\ item[r][x] = "none"),
             body' = [body EXCEPT ![x] = "gone"]
      PROVE  TablesInv'
  <2>1. x \in Node /\ job[r].status # "none" BY RootsAreNodes DEF FailCleanup, Unfinished
  <2>2. body[x] # "none"
    <3>1. CASE item[r][x] = "todo" BY <1>0, <2>1, <3>1 DEF TablesInv, BlankOK
    <3>2. CASE x = r BY <1>0, <2>1, <3>2 DEF TablesInv, BlankOK
    <3> QED BY <1>4, <3>1, <3>2
  <2>3. Grows BY <1>0, ExportStepGrows
  <2> QED BY <1>0, <1>1, <1>2, <1>4, <2>2, <2>3, FileOnlyKeeps
<1> QED BY <1>3, <1>4 DEF FailCleanup
-----------------------------------------------------------------------------
\* The steps that derive and save.

\* Citing wakes the jobs that passed a source, and loses none of what they know.
LEMMA CiteItems ==
    ASSUME RetentionInv, TypeOK', NEW n \in Node, NEW refs \in SUBSET InUse, Cite(n, refs)
    PROVE  /\ \A r \in Roots : \A m \in Node : item'[r][m] = "none" <=> item[r][m] = "none"
           /\ \A r \in Roots : \A m \in Node : item'[r][m] \in {"paid", "done"} =>
                 item'[r][m] = item[r][m] /\ m \notin Captured(refs)
           /\ \A r \in Roots : job'[r].delete = job[r].delete
           /\ \A r \in Roots : job'[r].status = "none" <=> job[r].status = "none"
           /\ \A r \in Roots : job'[r].status = "complete" => job[r].status = "complete" /\ item'[r] = item[r]
<1>0. TypeOK BY DEF RetentionInv
<1>1. ASSUME NEW r \in Roots, NEW m \in Node
      PROVE  item'[r][m] = IF m \in Captured(refs) /\ item[r][m] # "none" THEN "todo" ELSE item[r][m]
  BY DEF Cite
<1>2. ASSUME NEW r \in Roots
      PROVE  /\ job'[r].delete = job[r].delete
             /\ job'[r].status = IF \E s \in Captured(refs) : item[r][s] # "none"
                                 THEN "pending" ELSE job[r].status
  <2>1. job[r] \in JobRow BY <1>0 DEF TypeOK
  <2>2. job'[r] = IF \E s \in Captured(refs) : item[r][s] # "none"
                  THEN [job[r] EXCEPT !.status = "pending"] ELSE job[r]
    BY DEF Cite
  <2> QED BY <2>1, <2>2 DEF JobRow
<1>3. Captured(refs) \subseteq Node BY CapturedFacts DEF InUse
<1>4. ASSUME NEW r \in Roots
      PROVE  job'[r].status = "none" <=> job[r].status = "none"
  <2>1. job[r].status = "none" => \A m \in Node : item[r][m] = "none"
    BY DEF RetentionInv, TablesInv, JobsOK
  <2> QED BY <1>2, <1>3, <2>1
<1>5. ASSUME NEW r \in Roots, job'[r].status = "complete"
      PROVE  job[r].status = "complete" /\ item'[r] = item[r]
  <2>1. \A s \in Captured(refs) : item[r][s] = "none" BY <1>2, <1>5
  <2>2. \A m \in Node : item'[r][m] = item[r][m] BY <1>1, <2>1
  <2>3. item'[r] \in [Node -> {"none", "todo", "paid", "done"}]
        /\ item[r] \in [Node -> {"none", "todo", "paid", "done"}]
    BY <1>0 DEF TypeOK
  <2> QED BY <1>2, <1>5, <2>1, <2>2, <2>3
<1>6. ASSUME NEW r \in Roots, NEW m \in Node, item'[r][m] \in {"paid", "done"}
      PROVE  item'[r][m] = item[r][m] /\ m \notin Captured(refs)
  BY <1>1, <1>6
<1>7. \A r \in Roots : \A m \in Node : item'[r][m] = "none" <=> item[r][m] = "none"
  BY <1>1
<1> QED BY <1>2, <1>4, <1>5, <1>6, <1>7

LEMMA CiteKeeps ==
    ASSUME RetentionInv, TypeOK', Grows, NEW n \in Node, NEW refs \in SUBSET InUse, Cite(n, refs),
           body' = [body EXCEPT ![n] = "live"], tomb' = tomb, n \in Records => tomb[n] = "none",
           n \notin Records => body[n] = "none",
           \A m \in Node : m # n => holds'[m] = holds[m],
           holds'[n] \subseteq Origins(n)'
    PROVE  BlankOK' /\ JobsOK' /\ CleanedOK' /\ ListedOK' /\ ClosedOK' /\ TracedOK'
<1>0. TypeOK /\ TablesInv BY DEF RetentionInv
<1>1. /\ \A r \in Roots : \A m \in Node : item'[r][m] = "none" <=> item[r][m] = "none"
      /\ \A r \in Roots : \A m \in Node : item'[r][m] \in {"paid", "done"} =>
            item'[r][m] = item[r][m] /\ m \notin Captured(refs)
      /\ \A r \in Roots : job'[r].delete = job[r].delete
      /\ \A r \in Roots : job'[r].status = "none" <=> job[r].status = "none"
      /\ \A r \in Roots : job'[r].status = "complete" => job[r].status = "complete" /\ item'[r] = item[r]
  BY CiteItems
<1>2. \A m \in Node : body'[m] = IF m = n THEN "live" ELSE body[m] BY <1>0 DEF TypeOK
<1>3. Captured(refs) \subseteq InUse BY CapturedFacts
<1>4. edges' = {e \in edges : e[1] # n} \cup {<<n, s>> : s \in Captured(refs)} BY DEF Cite
<1>5. BlankOK'
  <2>1. ASSUME NEW m \in Node, body'[m] = "none"
        PROVE  /\ tomb'[m] = "none" /\ holds'[m] = {}
               /\ \A r \in Roots : item'[r][m] = "none"
               /\ \A p \in Node : <<p, m>> \notin edges' /\ <<m, p>> \notin edges'
               /\ m \in Roots => job'[m].status = "none"
    <3>1. m # n /\ body[m] = "none" BY <1>2, <2>1
    <3>2. m \notin Captured(refs) BY <1>3, <3>1 DEF InUse
    <3>3. \A p \in Node : <<p, m>> \notin edges' /\ <<m, p>> \notin edges'
      <4>1. \A p \in Node : <<p, m>> \notin edges /\ <<m, p>> \notin edges
        BY <1>0, <3>1 DEF TablesInv, BlankOK
      <4> QED BY <1>4, <3>1, <3>2, <4>1
    <3>4. tomb[m] = "none" /\ holds[m] = {} /\ (\A r \in Roots : item[r][m] = "none")
          /\ (m \in Roots => job[m].status = "none")
      BY <1>0, <3>1 DEF TablesInv, BlankOK
    <3> QED BY <1>1, <3>1, <3>3, <3>4
  <2> QED BY <2>1 DEF BlankOK
<1>6. JobsOK' BY <1>0, <1>1 DEF TablesInv, JobsOK
<1>7. CleanedOK'
  <2>1. ASSUME NEW r \in Roots, NEW m \in Node, Paid(r, m)'
        PROVE  (m \in Records => tomb'[m] # "none") /\ (m \in Exports \/ job'[r].delete => body'[m] = "gone")
    <3>1. Paid(r, m) BY <1>1, <2>1 DEF Paid
    <3>2. (m \in Records => tomb[m] # "none") /\ (m \in Exports \/ job[r].delete => body[m] = "gone")
      BY <1>0, <3>1 DEF TablesInv, CleanedOK
    <3>3. item[r][m] # "none" BY <3>1 DEF Paid
    <3>4. m # n
      <4> SUFFICES ASSUME m = n PROVE FALSE OBVIOUS
      <4>1. m \in Records => tomb[m] # "none" BY <3>2
      <4>2. m \notin Records => item[r][m] = "none" BY <1>0 DEF TablesInv, BlankOK
      <4> QED BY <3>3, <4>1, <4>2
    <3> QED BY <1>1, <1>2, <3>2, <3>4
  <2> QED BY <2>1 DEF CleanedOK
<1>8. ListedOK'
  <2>1. ASSUME NEW r \in Roots, NEW m \in Node, item'[r][m] # "none", m \notin Records
        PROVE  Doomed(m)'
    <3>1. Doomed(m) BY <1>0, <1>1, <2>1 DEF TablesInv, ListedOK
    <3> QED BY <1>0, <2>1, <3>1, DoomedStays
  <2> QED BY <2>1 DEF ListedOK
<1>9. ClosedOK'
  <2>1. ASSUME NEW r \in Roots, NEW m \in Node, item'[r][m] = "done", NEW c \in Node, <<c, m>> \in edges'
        PROVE  item'[r][c] # "none"
    <3>1. item[r][m] = "done" /\ m \notin Captured(refs) BY <1>1, <2>1
    <3>2. <<c, m>> \in edges BY <1>4, <2>1, <3>1
    <3> QED BY <1>0, <1>1, <3>1, <3>2 DEF TablesInv, ClosedOK
  <2> QED BY <2>1 DEF ClosedOK
<1>10. TracedOK'
  <2>1. ASSUME NEW m \in Node, m # n PROVE holds'[m] \subseteq Origins(m)'
    <3>1. ASSUME NEW q \in Parents(m) PROVE q \in Parents(m)'
      <4>1. <<m, q>> \in edges /\ q \in Node BY DEF Parents
      <4>2. <<m, q>> \in edges' BY <1>4, <2>1, <4>1
      <4> QED BY <4>1, <4>2 DEF Parents
    <3>2. Origins(m) \subseteq Origins(m)' BY <1>0, <3>1, OriginsGrow DEF Grows
    <3> QED BY <1>0, <2>1, <3>2 DEF TablesInv, TracedOK
  <2> QED BY <2>1 DEF TracedOK
<1> QED BY <1>5, <1>6, <1>7, <1>8, <1>9, <1>10

LEMMA SaveRecordKeeps ==
    ASSUME RetentionInv, TypeOK', SaveRecord
    PROVE  TablesInv'
<1>1. PICK r \in Records, refs \in SUBSET InUse, known \in SUBSET Records :
        r = draft.rec /\ refs = draft.refs /\ known = draft.holds
  BY SavedIsMutable
<1>2. /\ TypeOK /\ TablesInv /\ r \in Node /\ tomb[r] = "none" /\ rev[r] \in Nat
      /\ known \subseteq Reach({r} \cup refs, Fixed)
  BY <1>1, SavedIsMutable DEF RetentionInv, TypeOK
<1>3. rev[r] < MaxRevisions[r] BY <1>1 DEF SaveRecord, VersionMatches, RetentionInv, DraftOK
<1>4. Grows BY SaveRecordGrows
<1>5. /\ rev' = [rev EXCEPT ![r] = @ + 1] /\ body' = [body EXCEPT ![r] = "live"] /\ tomb' = tomb
      /\ holds' = [holds EXCEPT ![r] = known] /\ Cite(r, refs)
      /\ UNCHANGED <<copy, ready, exporter>>
  BY <1>1 DEF SaveRecord
<1>6. known \subseteq Origins(r)'
  <2>1. refs \subseteq Captured(refs) /\ Captured(refs) \subseteq InUse BY CapturedFacts
  <2>2. Captured(refs) \subseteq Parents(r)'
    <3>1. \A s \in Captured(refs) : <<r, s>> \in edges' /\ s \in Node BY <1>5, <2>1 DEF Cite, InUse
    <3> QED BY <3>1 DEF Parents
  <2>3. {r} \cup refs \in SUBSET Node /\ ({r} \cup Parents(r))' \in SUBSET Node
    BY <1>2 DEF InUse, Parents
  <2>4. Fixed \in SUBSET (Node \X Node) /\ Fixed' \in SUBSET (Node \X Node) /\ Fixed \subseteq Fixed'
    BY <1>2, <1>4 DEF Grows, TypeOK, Fixed
  <2>5. {r} \cup refs \subseteq ({r} \cup Parents(r))' BY <2>1, <2>2
  <2>6. Reach({r} \cup refs, Fixed) \subseteq Reach(({r} \cup Parents(r))', Fixed')
    BY <2>3, <2>4, <2>5, ReachGrows
  <2> QED BY <1>2, <2>6 DEF Origins
<1>7. BlankOK' /\ JobsOK' /\ CleanedOK' /\ ListedOK' /\ ClosedOK' /\ TracedOK'
  <2>1. \A m \in Node : m # r => holds'[m] = holds[m] BY <1>2, <1>5 DEF TypeOK
  <2>2. holds'[r] \subseteq Origins(r)' BY <1>2, <1>5, <1>6 DEF TypeOK
  <2> QED BY <1>2, <1>4, <1>5, <2>1, <2>2, CiteKeeps
<1>8. \A q \in Roots : /\ job'[q].delete = job[q].delete
                       /\ job'[q].status = "none" <=> job[q].status = "none"
  BY <1>2, <1>5, CiteItems
<1>9. RecordsOK'
  <2>1. ASSUME NEW q \in Records, q # r
        PROVE  rev'[q] = rev[q] /\ body'[q] = body[q] /\ tomb'[q] = tomb[q] /\ q \in Roots
    BY <1>2, <1>5, <2>1, RootsAreNodes DEF TypeOK, Roots
  <2>2. rev'[r] = rev[r] + 1 /\ body'[r] = "live" /\ tomb'[r] = "none" /\ r \in Roots
    BY <1>2, <1>5 DEF TypeOK, Roots
  <2>3. ~job[r].delete BY <1>2 DEF TablesInv, RecordsOK
  <2>4. MaxRevisions[r] \in Nat BY RetentionAssumption DEF RetentionAssumption
  <2>5. rev'[r] # 0 /\ rev'[r] <= MaxRevisions[r] BY <1>2, <1>3, <2>2, <2>4
  <2> QED BY <1>2, <1>8, <2>1, <2>2, <2>3, <2>5 DEF TablesInv, RecordsOK
<1>10. ExportsOK'
  <2>1. \A x \in Exports : x # r /\ x \in Node /\ x \in Roots
    BY RootsAreNodes, RetentionAssumption DEF RetentionAssumption, Roots
  <2>2. \A x \in Exports : body'[x] = body[x] BY <1>2, <1>5, <2>1 DEF TypeOK
  <2> QED BY <1>2, <1>5, <1>8, <2>1, <2>2 DEF TablesInv, ExportsOK
<1>11. OthersOK'
  <2>1. \A n \in Node : n \notin Records => body'[n] = body[n] BY <1>2, <1>5 DEF TypeOK
  <2> QED BY <1>2, <1>5, <2>1 DEF TablesInv, OthersOK
<1> QED BY <1>7, <1>9, <1>10, <1>11 DEF TablesInv

\* What a read knows is among the origins of the result that is kept of it.
LEMMA RetainedIsTraced ==
    ASSUME RetentionInv, TypeOK', Grows, NEW o \in Node, NEW context \in SUBSET InUse, NEW k \in InUse,
           NEW known,
           k \notin Records => known \subseteq Reach({k}, Fixed),
           k \in Records => tomb[k] = "none" /\ known \subseteq Origins(k),
           Cite(o, context \cup {k})
    PROVE  known \subseteq Origins(o)'
<1> DEFINE refs == context \cup {k}
<1>0. TypeOK /\ k \in Node /\ refs \in SUBSET InUse BY DEF InUse, RetentionInv
<1>1. /\ k \in Captured(refs) /\ Captured(refs) \subseteq InUse
      /\ k \in Records => Parents(k) \subseteq Captured(refs)
  BY <1>0, CapturedFacts
<1>2. Captured(refs) \subseteq Parents(o)'
  <2>1. \A s \in Captured(refs) : <<o, s>> \in edges' /\ s \in Node BY <1>1 DEF Cite, InUse
  <2> QED BY <2>1 DEF Parents
<1> HIDE DEF refs
<1>3. Fixed \in SUBSET (Node \X Node) /\ Fixed' \in SUBSET (Node \X Node) /\ Fixed \subseteq Fixed'
  BY <1>0 DEF Grows, TypeOK, Fixed
<1>4. ({o} \cup Parents(o))' \in SUBSET Node BY DEF Parents
<1>5. CASE k \notin Records
  <2>1. {k} \in SUBSET Node /\ {k} \subseteq ({o} \cup Parents(o))' BY <1>0, <1>1, <1>2
  <2>2. Reach({k}, Fixed) \subseteq Reach(({o} \cup Parents(o))', Fixed')
    BY <1>3, <1>4, <2>1, ReachGrows
  <2> QED BY <1>5, <2>2 DEF Origins
<1>6. CASE k \in Records
  <2>1. {k} \cup Parents(k) \in SUBSET Node /\ {k} \cup Parents(k) \subseteq ({o} \cup Parents(o))'
    BY <1>0, <1>1, <1>2, <1>6 DEF Parents
  <2>2. Reach({k} \cup Parents(k), Fixed) \subseteq Reach(({o} \cup Parents(o))', Fixed')
    BY <1>3, <1>4, <2>1, ReachGrows
  <2> QED BY <1>6, <2>2 DEF Origins
<1> QED BY <1>5, <1>6

LEMMA RetainResultKeeps ==
    ASSUME RetentionInv, TypeOK', NEW context \in SUBSET InUse, RetainResult(context)
    PROVE  TablesInv'
<1>0. TypeOK /\ TablesInv BY DEF RetentionInv
<1>1. PICK o \in Results, k \in Node, known \in SUBSET Records :
        /\ o = Fresh(Results) /\ k = call.node /\ known = call.holds
        /\ body[o] = "none"
  BY <1>0, FreshIsUnused DEF RetainResult, TypeOK, NoCall
<1>2. /\ body' = [body EXCEPT ![o] = "live"] /\ tomb' = tomb /\ rev' = rev
      /\ holds' = [holds EXCEPT ![o] = known] /\ Cite(o, context \cup {k})
      /\ UNCHANGED <<copy, ready, exporter>>
  BY <1>1 DEF RetainResult
<1>3. o \in Node /\ o \notin Records /\ o \notin Exports
  BY RootsAreNodes, RetentionAssumption DEF RetentionAssumption
<1>4. /\ k \in InUse /\ (k \notin Records => known \subseteq Reach({k}, Fixed))
      /\ (k \in Records => tomb[k] = "none")
    BY <1>1 DEF RetainResult, RetentionInv, CallOK, InUse
<1>5. k \in Records => known \subseteq Origins(k)
  <2>1. k \in Records => call.holds \subseteq Origins(call.node)
    BY <1>1 DEF RetainResult, RetentionInv, CallOK
  <2> QED BY <1>1, <2>1
<1>6. Grows BY <1>0, RetainResultGrows
<1>7. known \subseteq Origins(o)' BY <1>2, <1>3, <1>4, <1>5, <1>6, RetainedIsTraced
<1>8. BlankOK' /\ JobsOK' /\ CleanedOK' /\ ListedOK' /\ ClosedOK' /\ TracedOK'
  <2>1. \A m \in Node : m # o => holds'[m] = holds[m] BY <1>0, <1>2, <1>3 DEF TypeOK
  <2>2. holds'[o] \subseteq Origins(o)' BY <1>0, <1>2, <1>3, <1>7 DEF TypeOK
  <2>3. context \cup {k} \in SUBSET InUse BY <1>4
  <2> QED BY <1>1, <1>2, <1>3, <1>6, <2>1, <2>2, <2>3, CiteKeeps
<1>9. \A q \in Roots : /\ job'[q].delete = job[q].delete
                       /\ job'[q].status = "none" <=> job[q].status = "none"
  <2>1. context \cup {k} \in SUBSET InUse BY <1>4
  <2> QED BY <1>2, <1>3, <2>1, CiteItems
<1>10. \A n \in Node : body'[n] = IF n = o THEN "live" ELSE body[n] BY <1>0, <1>2 DEF TypeOK
<1>11. RecordsOK'
  <2>1. \A q \in Records : q # o /\ q \in Node /\ q \in Roots BY <1>3, RootsAreNodes DEF Roots
  <2> QED BY <1>0, <1>2, <1>9, <1>10, <2>1 DEF TablesInv, RecordsOK
<1>12. ExportsOK'
  <2>1. \A x \in Exports : x # o /\ x \in Node /\ x \in Roots BY <1>3, RootsAreNodes DEF Roots
  <2> QED BY <1>0, <1>2, <1>9, <1>10, <2>1 DEF TablesInv, ExportsOK
<1>13. OthersOK' BY <1>0, <1>2, <1>10 DEF TablesInv, OthersOK
<1> QED BY <1>8, <1>11, <1>12, <1>13 DEF TablesInv
\* What a reader may open leads to nothing that a job has passed.
LEMMA AvailableIsUndone ==
    ASSUME RetentionInv, NEW r \in Node, Available({r}), NEW m \in Lineage({r}), NEW q \in Roots
    PROVE  ~Paid(q, m)
<1>0. /\ TypeOK /\ TablesInv /\ edges \in SUBSET (Node \X Node) /\ {r} \in SUBSET Node
  BY DEF RetentionInv, TypeOK
<1> DEFINE L == Lineage({r})
<1>1. L \in SUBSET Node /\ \A e \in edges : e[1] \in L => e[2] \in L
  BY <1>0, ReachClosed DEF Lineage
<1>2. \A t \in L : tomb[t] = "none" BY DEF Available
<1> SUFFICES ASSUME Paid(q, m) PROVE FALSE OBVIOUS
<1>3. m \in Node /\ m \in L BY <1>1
<1> HIDE DEF L
<1>4. m \notin Records BY <1>0, <1>2, <1>3 DEF TablesInv, CleanedOK
<1>5. Doomed(m) BY <1>0, <1>3, <1>4 DEF TablesInv, ListedOK, Paid
<1>6. Origins(m) \subseteq L BY <1>0, <1>1, <1>3, <1>4, FixedType, OriginsOfFixed
<1> QED BY <1>2, <1>5, <1>6 DEF Doomed

\* The lineage of a node has all its origins.
LEMMA OriginsInLineage ==
    ASSUME TypeOK, NEW n \in Node
    PROVE  Origins(n) \subseteq Lineage({n})
<1>0. edges \in SUBSET (Node \X Node) /\ {n} \in SUBSET Node /\ {n} \cup Parents(n) \in SUBSET Node
  BY DEF TypeOK, Parents
<1>1. n \in Lineage({n}) /\ \A e \in edges : e[1] \in Lineage({n}) => e[2] \in Lineage({n})
  BY <1>0, ReachClosed DEF Lineage
<1>2. Parents(n) \subseteq Lineage({n})
  <2>1. ASSUME NEW q \in Parents(n) PROVE q \in Lineage({n})
    <3>1. <<n, q>> \in edges BY DEF Parents
    <3> QED BY <1>1, <3>1
  <2> QED BY <2>1
<1> QED BY <1>0, <1>1, <1>2, FixedType, ReachLeast DEF Origins

LEMMA BeginExportKeeps ==
    ASSUME RetentionInv, TypeOK', NEW r \in Records, BeginExport(r)
    PROVE  TablesInv'
<1> DEFINE L == Lineage({r})
<1>0. TypeOK /\ TablesInv /\ r \in Node /\ Available({r}) /\ L \in SUBSET Node
  BY LineageType, RootsAreNodes DEF RetentionInv, BeginExport
<1>1. \A t \in L : body[t] # "none" BY DEF BeginExport, Available
<1>2. \A q \in Roots : \A m \in L : ~Paid(q, m) BY <1>0, AvailableIsUndone
<1>3. Origins(r) \subseteq L BY <1>0, OriginsInLineage
<1> HIDE DEF L
<1>4. PICK x \in Exports :
        /\ body[x] = "none" /\ body' = [body EXCEPT ![x] = "manifest"]
        /\ holds' = [holds EXCEPT ![x] = holds[r]]
        /\ edges' = edges \cup {<<x, s>> : s \in L} /\ exporter' = x
        /\ UNCHANGED <<rev, copy, tomb, job, item, ready>>
  BY FreshIsUnused DEF BeginExport, L
<1>5. x \in Node /\ x \notin Records /\ x \in Roots
  BY RootsAreNodes, RetentionAssumption DEF RetentionAssumption, Roots
<1>6. Grows /\ \A n \in Node : Parents(n) \subseteq Parents(n)' BY <1>0, BeginExportGrows
<1>7. \A n \in Node : body'[n] = IF n = x THEN "manifest" ELSE body[n] BY <1>0, <1>4 DEF TypeOK
<1>8. RecordsOK' BY <1>0, <1>4, <1>5, <1>7, RootsAreNodes DEF TablesInv, RecordsOK
<1>9. ExportsOK'
  <2>1. ~ready[x] BY <1>0, <1>4 DEF TablesInv, ExportsOK
  <2> QED BY <1>0, <1>4, <1>7, <2>1, RootsAreNodes DEF TablesInv, ExportsOK
<1>10. OthersOK' BY <1>0, <1>4, <1>7 DEF TablesInv, OthersOK
<1>11. BlankOK'
  <2>1. ASSUME NEW m \in Node, body'[m] = "none"
        PROVE  /\ tomb'[m] = "none" /\ holds'[m] = {}
               /\ \A q \in Roots : item'[q][m] = "none"
               /\ \A p \in Node : <<p, m>> \notin edges' /\ <<m, p>> \notin edges'
               /\ m \in Roots => job'[m].status = "none"
    <3>1. m # x /\ body[m] = "none" BY <1>7, <2>1
    <3>2. m \notin L BY <1>1, <3>1
    <3>3. /\ tomb[m] = "none" /\ holds[m] = {} /\ (\A q \in Roots : item[q][m] = "none")
          /\ (m \in Roots => job[m].status = "none")
          /\ \A p \in Node : <<p, m>> \notin edges /\ <<m, p>> \notin edges
      BY <1>0, <3>1 DEF TablesInv, BlankOK
    <3>4. holds'[m] = {} BY <1>0, <1>4, <3>1, <3>3 DEF TypeOK
    <3>5. \A p \in Node : <<p, m>> \notin edges' /\ <<m, p>> \notin edges'
      BY <1>4, <3>1, <3>2, <3>3
    <3> QED BY <1>4, <3>3, <3>4, <3>5
  <2> QED BY <2>1 DEF BlankOK
<1>12. JobsOK' BY <1>0, <1>4 DEF TablesInv, JobsOK
<1>13. CleanedOK'
  <2>1. ASSUME NEW q \in Roots, NEW m \in Node, Paid(q, m)'
        PROVE  (m \in Records => tomb'[m] # "none") /\ (m \in Exports \/ job'[q].delete => body'[m] = "gone")
    <3>1. Paid(q, m) BY <1>4, <2>1 DEF Paid
    <3>2. m # x BY <1>0, <1>4, <1>5, <3>1 DEF TablesInv, BlankOK, Paid
    <3> QED BY <1>0, <1>4, <1>7, <3>1, <3>2 DEF TablesInv, CleanedOK
  <2> QED BY <2>1 DEF CleanedOK
<1>14. ListedOK'
  <2>1. ASSUME NEW q \in Roots, NEW m \in Node, item'[q][m] # "none", m \notin Records
        PROVE  Doomed(m)'
    <3>1. Doomed(m) BY <1>0, <1>4, <2>1 DEF TablesInv, ListedOK
    <3> QED BY <1>0, <1>6, <2>1, <3>1, DoomedStays
  <2> QED BY <2>1 DEF ListedOK
<1>15. ClosedOK'
  <2>1. ASSUME NEW q \in Roots, NEW m \in Node, item'[q][m] = "done", NEW c \in Node, <<c, m>> \in edges'
        PROVE  item'[q][c] # "none"
    <3>1. item[q][m] = "done" /\ m \notin L BY <1>2, <1>4, <2>1 DEF Paid
    <3>2. <<c, m>> \in edges BY <1>4, <2>1, <3>1
    <3> QED BY <1>0, <1>4, <3>1, <3>2 DEF TablesInv, ClosedOK
  <2> QED BY <2>1 DEF ClosedOK
<1>16. TracedOK'
  <2>1. ASSUME NEW m \in Node PROVE holds'[m] \subseteq Origins(m)'
    <3>1. CASE m # x
      <4>1. Origins(m) \subseteq Origins(m)' BY <1>0, <1>6, OriginsGrow DEF Grows
      <4>2. holds'[m] = holds[m] BY <1>0, <1>4, <3>1 DEF TypeOK
      <4> QED BY <1>0, <4>1, <4>2 DEF TablesInv, TracedOK
    <3>2. CASE m = x
      <4>1. holds'[m] = holds[r] BY <1>0, <1>4, <1>5, <3>2 DEF TypeOK
      <4>2. holds[r] \subseteq L BY <1>0, <1>3 DEF TablesInv, TracedOK
      <4>3. L \subseteq Parents(m)' BY <1>0, <1>4, <3>2 DEF Parents
      <4>4. Parents(m)' \subseteq Origins(m)'
        <5>1. ({m} \cup Parents(m))' \in SUBSET Node /\ Fixed' \in SUBSET (Node \X Node)
          BY DEF TypeOK, Fixed, Parents
        <5>2. ({m} \cup Parents(m))' \subseteq Reach(({m} \cup Parents(m))', Fixed')
          BY <5>1, ReachClosed
        <5> QED BY <5>2 DEF Origins
      <4> QED BY <4>1, <4>2, <4>3, <4>4
    <3> QED BY <3>1, <3>2
  <2> QED BY <2>1 DEF TracedOK
<1> QED BY <1>8, <1>9, <1>10, <1>11, <1>12, <1>13, <1>14, <1>15, <1>16 DEF TablesInv
-----------------------------------------------------------------------------
\* Withdrawal and cleanup.

LEMMA RetireKeeps ==
    ASSUME RetentionInv, TypeOK', NEW r \in Records, NEW delete \in BOOLEAN, Retire(r, delete)
    PROVE  TablesInv'
<1>0. TypeOK /\ TablesInv /\ r \in Node /\ r \in Roots /\ rev[r] \in Nat /\ job[r].delete \in BOOLEAN
  BY RootsAreNodes DEF RetentionInv, TypeOK, Roots, JobRow
<1>1. /\ rev[r] > 0 /\ StillThere(r, delete)
      /\ rev' = [rev EXCEPT ![r] = @ + 1]
      /\ body' = [body EXCEPT ![r] = IF delete THEN "gone" ELSE @]
      /\ tomb' = [tomb EXCEPT ![r] = IF delete THEN "deleted" ELSE "retired"]
      /\ job' = [job EXCEPT ![r] = [status |-> "pending", delete |-> @.delete \/ delete]]
      /\ UNCHANGED <<copy, from, edges, queue, ready, call, draft, exporter, holds, faults>>
  BY DEF Retire
<1>2. body[r] = "live" /\ tomb[r] # "deleted" /\ ~job[r].delete
  BY <1>0, <1>1 DEF TablesInv, RecordsOK, StillThere
<1>3. Grows /\ \A n \in Node : Parents(n) \subseteq Parents(n)' BY RetireGrows
<1>4. /\ \A n \in Node : body'[n] = IF n = r /\ delete THEN "gone" ELSE body[n]
      /\ \A n \in Node : n # r => tomb'[n] = tomb[n]
      /\ tomb'[r] = IF delete THEN "deleted" ELSE "retired"
      /\ \A q \in Roots : q # r => job'[q] = job[q] /\ item'[q] = item[q]
      /\ job'[r].status = "pending" /\ (job'[r].delete <=> delete)
  <2>1. \A n \in Node : body'[n] = IF n = r /\ delete THEN "gone" ELSE body[n]
    BY <1>0, <1>1 DEF TypeOK
  <2>2. (\A n \in Node : n # r => tomb'[n] = tomb[n]) /\ tomb'[r] = IF delete THEN "deleted" ELSE "retired"
    BY <1>0, <1>1 DEF TypeOK
  <2>3. \A q \in Roots : q # r => job'[q] = job[q] /\ item'[q] = item[q]
    BY <1>0, <1>1 DEF TypeOK, Retire
  <2>4. job'[r] = [status |-> "pending", delete |-> job[r].delete \/ delete]
    BY <1>0, <1>1 DEF TypeOK
  <2> QED BY <1>2, <2>1, <2>2, <2>3, <2>4
<1>5. /\ \A n \in Node : item'[r][n] = "none" <=> item[r][n] = "none"
      /\ \A n \in Node : item'[r][n] \in {"paid", "done"} => ~delete /\ item'[r][n] = item[r][n]
  <2>1. CASE delete /\ job[r].status # "none"
    <3>1. item'[r] = [n \in Node |-> IF item[r][n] = "none" THEN "none" ELSE "todo"]
      BY <1>0, <1>2, <2>1 DEF TypeOK, Retire
    <3> QED BY <3>1
  <2>2. CASE delete /\ job[r].status = "none"
    <3>1. item'[r] = item[r] BY <1>0, <1>2, <2>2 DEF TypeOK, Retire
    <3>2. \A n \in Node : item[r][n] = "none" BY <1>0, <2>2 DEF TablesInv, JobsOK
    <3> QED BY <3>1, <3>2
  <2>3. CASE ~delete
    <3>1. item'[r] = item[r] BY <1>0, <2>3 DEF TypeOK, Retire
    <3> QED BY <2>3, <3>1
  <2> QED BY <2>1, <2>2, <2>3
<1>6. RecordsOK'
  <2>1. ASSUME NEW q \in Records, q # r
        PROVE  rev'[q] = rev[q] /\ body'[q] = body[q] /\ tomb'[q] = tomb[q] /\ job'[q] = job[q]
    BY <1>0, <1>1, <1>4, <2>1, RootsAreNodes DEF TypeOK, Roots
  <2>2. rev'[r] = rev[r] + 1 /\ rev'[r] # 0 BY <1>0, <1>1 DEF TypeOK
  <2>3. MaxRevisions[r] \in Nat BY RetentionAssumption DEF RetentionAssumption
  <2>4. tomb'[r] = "retired" => rev'[r] <= MaxRevisions[r] + 1
    <3> SUFFICES ASSUME ~delete PROVE rev'[r] <= MaxRevisions[r] + 1 BY <1>4
    <3>1. tomb[r] = "none" BY <1>1 DEF StillThere
    <3> QED BY <1>0, <2>2, <2>3, <3>1 DEF TablesInv, RecordsOK
  <2>5. /\ body'[r] \in {"none", "live", "gone"} /\ body'[r] # "none"
        /\ body'[r] = "gone" <=> tomb'[r] = "deleted"
        /\ tomb'[r] # "none" /\ (job'[r].delete => tomb'[r] = "deleted")
    BY <1>0, <1>2, <1>4
  <2> QED BY <1>0, <2>1, <2>2, <2>4, <2>5 DEF TablesInv, RecordsOK
<1>7. ExportsOK'
  <2>1. \A x \in Exports : x # r /\ x \in Node /\ x \in Roots
    BY RootsAreNodes, RetentionAssumption DEF RetentionAssumption, Roots
  <2>2. \A x \in Exports : body'[x] = body[x] /\ tomb'[x] = tomb[x] /\ job'[x] = job[x]
    BY <1>4, <2>1
  <2> QED BY <1>0, <1>1, <2>2 DEF TablesInv, ExportsOK
<1>8. OthersOK' BY <1>0, <1>1, <1>4 DEF TablesInv, OthersOK
<1>9. BlankOK'
  <2>1. ASSUME NEW m \in Node, body'[m] = "none" PROVE m # r /\ body[m] = "none"
    BY <1>0, <1>2, <1>4, <2>1
  <2>2. \A q \in Roots : \A m \in Node : item[q][m] = "none" => item'[q][m] = "none"
    BY <1>4, <1>5
  <2>3. \A m \in Node : m \in Roots /\ m # r => job'[m] = job[m] BY <1>4
  <2> QED BY <1>0, <1>1, <1>4, <2>1, <2>2, <2>3 DEF TablesInv, BlankOK
<1>10. JobsOK'
  <2>1. ASSUME NEW q \in Roots, q # r
        PROVE  job'[q] = job[q] /\ item'[q] = item[q] /\ tomb'[q] = tomb[q]
    BY <1>4, <2>1, RootsAreNodes
  <2>2. job'[r].status = "pending" /\ tomb'[r] # "none" BY <1>4
  <2> QED BY <1>0, <2>1, <2>2 DEF TablesInv, JobsOK
<1>11. CleanedOK'
  <2>1. ASSUME NEW q \in Roots, NEW m \in Node, Paid(q, m)'
        PROVE  (m \in Records => tomb'[m] # "none") /\ (m \in Exports \/ job'[q].delete => body'[m] = "gone")
    <3>1. Paid(q, m) /\ (job'[q].delete => job[q].delete) BY <1>4, <1>5, <2>1 DEF Paid
    <3>2. (m \in Records => tomb[m] # "none") /\ (m \in Exports \/ job[q].delete => body[m] = "gone")
      BY <1>0, <3>1 DEF TablesInv, CleanedOK
    <3> QED BY <1>4, <3>1, <3>2
  <2> QED BY <2>1 DEF CleanedOK
<1>12. ListedOK'
  <2>1. ASSUME NEW q \in Roots, NEW m \in Node, item'[q][m] # "none", m \notin Records
        PROVE  Doomed(m)'
    <3>1. item[q][m] # "none" BY <1>4, <1>5, <2>1
    <3>2. Doomed(m) BY <1>0, <2>1, <3>1 DEF TablesInv, ListedOK
    <3> QED BY <1>0, <1>3, <2>1, <3>2, DoomedStays
  <2> QED BY <2>1 DEF ListedOK
<1>13. ClosedOK'
  <2>1. ASSUME NEW q \in Roots, NEW m \in Node, item'[q][m] = "done", NEW c \in Node, <<c, m>> \in edges'
        PROVE  item'[q][c] # "none"
    <3>1. item[q][m] = "done" /\ <<c, m>> \in edges BY <1>1, <1>4, <1>5, <2>1
    <3>2. item[q][c] # "none" BY <1>0, <3>1 DEF TablesInv, ClosedOK
    <3> QED BY <1>4, <1>5, <3>2
  <2> QED BY <2>1 DEF ClosedOK
<1>14. TracedOK'
  <2>1. ASSUME NEW m \in Node PROVE holds'[m] \subseteq Origins(m)'
    <3>1. Origins(m) \subseteq Origins(m)' BY <1>0, <1>3, OriginsGrow DEF Grows
    <3> QED BY <1>0, <1>1, <3>1 DEF TablesInv, TracedOK
  <2> QED BY <2>1 DEF TracedOK
<1> QED BY <1>6, <1>7, <1>8, <1>9, <1>10, <1>11, <1>12, <1>13, <1>14 DEF TablesInv
\* What cleaning the payload of n leaves of it and of the others.
LEMMA PayloadFacts ==
    ASSUME RetentionInv, NEW n \in Node, body[n] # "none", NEW delete \in BOOLEAN,
           CleanPayload(n, delete)
    PROVE  /\ \A m \in Node : m # n => body'[m] = body[m] /\ tomb'[m] = tomb[m]
           /\ \A m \in Node : body[m] = "gone" => body'[m] = "gone"
           /\ \A q \in Records : q # n => rev'[q] = rev[q]
           /\ n \in Records => tomb'[n] # "none"
           /\ n \in Exports \/ delete => body'[n] = "gone"
           /\ body'[n] \in {body[n], "gone"}
           /\ \A x \in Exports : tomb'[x] = tomb[x] /\ (ready'[x] => ready[x] /\ x # n)
           /\ \A e \in Activities : copy'[e] \in {copy[e], "gone"}
<1>0. TypeOK /\ TablesInv BY DEF RetentionInv
<1>1. /\ \A m \in Node : body'[m] = IF m = n THEN CleanedBody(n, delete) ELSE body[m]
      /\ \A m \in Node : tomb'[m] = IF m = n THEN CleanedTomb(n, delete) ELSE tomb[m]
  BY <1>0 DEF TypeOK, CleanPayload
<1>2. \A q \in Records : q # n => rev'[q] = rev[q] BY <1>0 DEF TypeOK, CleanPayload
<1>3. n \notin Exports => body[n] \in {"live", "gone"}
  BY <1>0 DEF TablesInv, RecordsOK, OthersOK
<1>4. /\ n \in Exports \/ delete => CleanedBody(n, delete) = "gone"
      /\ CleanedBody(n, delete) \in {body[n], "gone"}
  BY <1>3 DEF CleanedBody
<1>5. /\ n \in Records => CleanedTomb(n, delete) # "none"
      /\ n \in Exports => CleanedTomb(n, delete) = tomb[n]
  BY RetentionAssumption DEF CleanedTomb, RetentionAssumption
<1>6. \A x \in Exports : tomb'[x] = tomb[x] BY <1>1, <1>5, RootsAreNodes
<1>7. \A x \in Exports : ready'[x] => ready[x] /\ x # n BY <1>0 DEF TypeOK, CleanPayload
<1>8. \A e \in Activities : copy'[e] \in {copy[e], "gone"} BY <1>0 DEF TypeOK, CleanPayload
<1> QED BY <1>1, <1>2, <1>4, <1>5, <1>6, <1>7, <1>8

\* The same of an item, whose payload was cleaned now or before.
LEMMA ItemFacts ==
    ASSUME RetentionInv, NEW r \in Roots, Unfinished(r), NEW n \in Node,
           Items(r)[n] \in {"todo", "paid"}, CleanItem(r, n)
    PROVE  /\ body[n] # "none" /\ body[r] # "none" /\ tomb[r] # "none"
           /\ n \notin Records => Doomed(n)
           /\ \A m \in Node : m # n => body'[m] = body[m] /\ tomb'[m] = tomb[m]
           /\ \A m \in Node : body[m] = "gone" => body'[m] = "gone"
           /\ \A q \in Records : q # n => rev'[q] = rev[q]
           /\ n \in Records => tomb'[n] # "none"
           /\ n \in Exports \/ job[r].delete => body'[n] = "gone"
           /\ body'[n] \in {body[n], "gone"}
           /\ \A x \in Exports : tomb'[x] = tomb[x] /\ (ready'[x] => ready[x] /\ (x = n => body[n] = "gone"))
           /\ \A e \in Activities : copy'[e] \in {copy[e], "gone"}
<1>0. TypeOK /\ TablesInv /\ r \in Node /\ job[r].delete \in BOOLEAN
  BY RootsAreNodes DEF RetentionInv, TypeOK, JobRow
<1>1. job[r].status # "none" /\ tomb[r] # "none" /\ body[r] # "none"
  BY <1>0 DEF Unfinished, TablesInv, JobsOK, BlankOK
<1>2. item[r][n] # "none" \/ n = r BY <1>0, OrderType
<1>3. body[n] # "none" BY <1>0, <1>1, <1>2 DEF TablesInv, BlankOK
<1>4. n \notin Records => Doomed(n)
  <2>1. CASE item[r][n] # "none" BY <1>0, <2>1 DEF TablesInv, ListedOK
  <2>2. CASE n = r BY <1>0, <1>1, <2>2, OriginsType DEF Doomed
  <2> QED BY <1>2, <2>1, <2>2
<1>5. CASE Items(r)[n] = "todo"
  <2>1. CleanPayload(n, job[r].delete) BY <1>5 DEF CleanItem
  <2> QED BY <1>0, <1>1, <1>3, <1>4, <2>1, PayloadFacts
<1>6. CASE Items(r)[n] = "paid"
  <2>1. UNCHANGED <<rev, body, tomb, ready, copy>> BY <1>6 DEF CleanItem
  <2>2. Paid(r, n) BY <1>0, <1>6, OrderType DEF Paid
  <2>3. (n \in Records => tomb[n] # "none") /\ (n \in Exports \/ job[r].delete => body[n] = "gone")
    BY <1>0, <2>2 DEF TablesInv, CleanedOK
  <2> QED BY <1>1, <1>3, <1>4, <2>1, <2>3
<1> QED BY <1>5, <1>6

\* What the job of r knows afterwards.
LEMMA ItemRows ==
    ASSUME RetentionInv, NEW r \in Roots, NEW n \in Node, CleanItem(r, n)
    PROVE  \E listed \in SUBSET Node :
             /\ \A c \in listed : <<c, n>> \in edges /\ Items(r)[c] = "none"
             /\ item'[r][n] \in {"paid", "done"}
             /\ item'[r][n] = "done" => \A c \in Node : <<c, n>> \in edges => c \in listed \/ Items(r)[c] # "none"
             /\ \A c \in Node : c # n => item'[r][c] = IF c \in listed THEN "todo" ELSE Items(r)[c]
             /\ \A q \in Roots : q # r => item'[q] = item[q] /\ job'[q] = job[q]
             /\ job'[r].delete = job[r].delete
             /\ job'[r].status \in {"pending", "complete"}
             /\ job'[r].status = "complete" => \A c \in Node : item'[r][c] \notin {"todo", "paid"}
<1>0. TypeOK /\ job[r] \in JobRow BY DEF RetentionInv, TypeOK
<1> DEFINE unlisted == Unlisted(n, Items(r))
<1>1. PICK listed \in kSubset(Min({Batch, Cardinality(unlisted)}), unlisted) :
        LET after == [c \in Node |->
                    IF c = n THEN IF listed = unlisted THEN "done" ELSE "paid"
                    ELSE IF c \in listed THEN "todo" ELSE Items(r)[c]]
        IN  /\ item' = [item EXCEPT ![r] = after]
            /\ queue' = [queue EXCEPT ![r] = Order(r) \o SetToSeq(listed)]
            /\ job' = [job EXCEPT ![r].status =
                       IF \E c \in Node : after[c] \in {"todo", "paid"}
                       THEN "pending" ELSE "complete"]
  BY DEF CleanItem
<1> DEFINE after == [c \in Node |->
                    IF c = n THEN IF listed = unlisted THEN "done" ELSE "paid"
                    ELSE IF c \in listed THEN "todo" ELSE Items(r)[c]]
           status == IF \E c \in Node : after[c] \in {"todo", "paid"} THEN "pending" ELSE "complete"
<1>2. listed \subseteq unlisted /\ listed \in SUBSET Node BY DEF kSubset, Unlisted, Children
<1>3. \A c \in listed : <<c, n>> \in edges /\ Items(r)[c] = "none"
  BY <1>2 DEF Unlisted, Children
<1>4. item' = [item EXCEPT ![r] = after] /\ job' = [job EXCEPT ![r].status = status] BY <1>1
<1>5. /\ after[n] \in {"paid", "done"}
      /\ after[n] = "done" => listed = unlisted
      /\ \A c \in Node : c # n => after[c] = IF c \in listed THEN "todo" ELSE Items(r)[c]
  OBVIOUS
<1>6. /\ status \in {"pending", "complete"}
      /\ status = "complete" => \A c \in Node : after[c] \notin {"todo", "paid"}
  OBVIOUS
<1>7. \A c \in Node : <<c, n>> \in edges => c \in unlisted \/ Items(r)[c] # "none"
  BY DEF Unlisted, Children
<1> HIDE DEF after, status, unlisted
<1>8. item'[r] = after /\ \A q \in Roots : q # r => item'[q] = item[q] BY <1>0, <1>4 DEF TypeOK
<1>9. /\ job'[r].delete = job[r].delete /\ job'[r].status = status
      /\ \A q \in Roots : q # r => job'[q] = job[q]
  BY <1>0, <1>4 DEF TypeOK, JobRow
<1> QED BY <1>2, <1>3, <1>5, <1>6, <1>7, <1>8, <1>9

LEMMA CleanItemKeeps ==
    ASSUME RetentionInv, TypeOK', NEW r \in Roots, Unfinished(r), NEW n \in Node,
           Items(r)[n] \in {"todo", "paid"}, CleanItem(r, n)
    PROVE  TablesInv'
<1>0. TypeOK /\ TablesInv /\ r \in Node /\ job[r].delete \in BOOLEAN
  BY RootsAreNodes DEF RetentionInv, TypeOK, JobRow
<1>1. /\ body[n] # "none" /\ body[r] # "none" /\ tomb[r] # "none"
      /\ n \notin Records => Doomed(n)
      /\ \A m \in Node : m # n => body'[m] = body[m] /\ tomb'[m] = tomb[m]
      /\ \A m \in Node : body[m] = "gone" => body'[m] = "gone"
      /\ \A q \in Records : q # n => rev'[q] = rev[q]
      /\ n \in Records => tomb'[n] # "none"
      /\ n \in Exports \/ job[r].delete => body'[n] = "gone"
      /\ body'[n] \in {body[n], "gone"}
      /\ \A x \in Exports : tomb'[x] = tomb[x] /\ (ready'[x] => ready[x] /\ (x = n => body[n] = "gone"))
      /\ \A e \in Activities : copy'[e] \in {copy[e], "gone"}
  BY ItemFacts
<1>2. PICK listed \in SUBSET Node :
        /\ \A c \in listed : <<c, n>> \in edges /\ Items(r)[c] = "none"
        /\ item'[r][n] \in {"paid", "done"}
        /\ item'[r][n] = "done" => \A c \in Node : <<c, n>> \in edges => c \in listed \/ Items(r)[c] # "none"
        /\ \A c \in Node : c # n => item'[r][c] = IF c \in listed THEN "todo" ELSE Items(r)[c]
        /\ \A q \in Roots : q # r => item'[q] = item[q] /\ job'[q] = job[q]
        /\ job'[r].delete = job[r].delete
        /\ job'[r].status \in {"pending", "complete"}
        /\ job'[r].status = "complete" => \A c \in Node : item'[r][c] \notin {"todo", "paid"}
  BY ItemRows
<1>3. /\ Items(r)[r] # "none"
      /\ \A c \in Node : Items(r)[c] = IF c = r /\ item[r][r] = "none" THEN "todo" ELSE item[r][c]
  BY <1>0, OrderType
<1>4. UNCHANGED <<edges, holds, exporter>> BY DEF CleanItem
<1>5. Grows /\ \A m \in Node : Parents(m) \subseteq Parents(m)' BY CleanItemGrows
<1>6. \A q \in Roots : job'[q].delete = job[q].delete BY <1>2
<1>7. RecordsOK'
  <2>1. ASSUME NEW q \in Records, q # n
        PROVE  rev'[q] = rev[q] /\ body'[q] = body[q] /\ tomb'[q] = tomb[q] /\ job'[q].delete = job[q].delete
    BY <1>1, <1>6, <2>1, RootsAreNodes DEF Roots
  <2>2. ASSUME n \in Records
        PROVE  /\ body'[n] \in {"none", "live", "gone"}
               /\ body'[n] = "none" <=> rev'[n] = 0
               /\ body'[n] = "gone" <=> tomb'[n] = "deleted"
               /\ tomb'[n] = "none" => rev'[n] <= MaxRevisions[n]
               /\ tomb'[n] = "retired" => rev'[n] <= MaxRevisions[n] + 1
               /\ job'[n].delete => tomb'[n] = "deleted"
    <3>0. /\ n \in Roots /\ n \notin Exports /\ rev[n] \in Nat /\ MaxRevisions[n] \in Nat
          /\ tomb[n] \in {"none", "retired", "deleted"}
      BY <1>0, <2>2, RetentionAssumption DEF RetentionAssumption, TypeOK, Roots
    <3>1. /\ body[n] \in {"live", "gone"} /\ rev[n] # 0
          /\ body[n] = "gone" <=> tomb[n] = "deleted"
          /\ tomb[n] = "none" => rev[n] <= MaxRevisions[n]
          /\ tomb[n] = "retired" => rev[n] <= MaxRevisions[n] + 1
          /\ job[n].delete => tomb[n] = "deleted"
      BY <1>0, <1>1, <2>2 DEF TablesInv, RecordsOK
    <3>2. CASE UNCHANGED <<rev, body, tomb, ready, copy>>
      BY <1>6, <3>0, <3>1, <3>2
    <3>3. CASE CleanPayload(n, job[r].delete)
      <4>1. /\ rev'[n] = IF StillThere(n, job[r].delete) THEN rev[n] + 1 ELSE rev[n]
            /\ body'[n] = CleanedBody(n, job[r].delete)
            /\ tomb'[n] = CleanedTomb(n, job[r].delete)
        BY <1>0, <2>2, <3>3 DEF TypeOK, CleanPayload
      <4>2. CASE job[r].delete
        <5>1. body'[n] = "gone" BY <3>0, <3>1, <4>1, <4>2 DEF CleanedBody
        <5>2. tomb'[n] = "deleted" BY <2>2, <4>1, <4>2 DEF CleanedTomb
        <5>3. rev'[n] # 0
          <6>1. rev'[n] = rev[n] + 1 \/ rev'[n] = rev[n] BY <4>1
          <6> QED BY <3>0, <3>1, <6>1
        <5> QED BY <5>1, <5>2, <5>3
      <4>3. CASE ~job[r].delete
        <5>1. /\ body'[n] = body[n]
              /\ tomb'[n] = IF tomb[n] = "deleted" THEN "deleted" ELSE "retired"
              /\ rev'[n] = IF tomb[n] = "none" THEN rev[n] + 1 ELSE rev[n]
          BY <2>2, <3>0, <4>1, <4>3 DEF CleanedBody, CleanedTomb, StillThere
        <5> QED BY <1>6, <3>0, <3>1, <5>1
      <4> QED BY <1>0, <4>2, <4>3
    <3> QED BY <3>2, <3>3 DEF CleanItem
  <2> QED BY <1>0, <2>1, <2>2 DEF TablesInv, RecordsOK
<1>8. ExportsOK'
  <2>1. \A x \in Exports : x \in Node /\ x \in Roots BY RootsAreNodes DEF Roots
  <2>2. \A x \in Exports : job[x].status # "none" => job'[x].status # "none" BY <1>2, <2>1
  <2>3. \A x \in Exports : body'[x] = body[x] \/ body'[x] = "gone" BY <1>1, <2>1
  <2> QED BY <1>0, <1>1, <1>4, <2>2, <2>3 DEF TablesInv, ExportsOK
<1>9. OthersOK' BY <1>0, <1>1 DEF TablesInv, OthersOK
<1>10. BlankOK'
  <2>1. ASSUME NEW m \in Node, body'[m] = "none"
        PROVE  /\ tomb'[m] = "none" /\ holds'[m] = {}
               /\ \A q \in Roots : item'[q][m] = "none"
               /\ \A p \in Node : <<p, m>> \notin edges' /\ <<m, p>> \notin edges'
               /\ m \in Roots => job'[m].status = "none"
    <3>1. m # n /\ body[m] = "none" /\ m # r BY <1>1, <2>1
    <3>2. /\ tomb[m] = "none" /\ holds[m] = {} /\ (\A q \in Roots : item[q][m] = "none")
          /\ (m \in Roots => job[m].status = "none")
          /\ \A p \in Node : <<p, m>> \notin edges /\ <<m, p>> \notin edges
      BY <1>0, <3>1 DEF TablesInv, BlankOK
    <3>3. m \notin listed BY <1>2, <3>2
    <3>4. \A q \in Roots : item'[q][m] = "none" BY <1>2, <1>3, <3>1, <3>2, <3>3
    <3>5. m \in Roots => job'[m].status = "none" BY <1>2, <3>1, <3>2
    <3> QED BY <1>1, <1>4, <3>1, <3>2, <3>4, <3>5
  <2> QED BY <2>1 DEF BlankOK
<1>11. \A q \in Roots : \A m \in Node : item[q][m] # "none" => item'[q][m] # "none"
  BY <1>2, <1>3
<1>12. JobsOK'
  <2>1. ASSUME NEW q \in Roots, q # r
        PROVE  job'[q] = job[q] /\ item'[q] = item[q] /\ (tomb[q] # "none" => tomb'[q] # "none")
    BY <1>2, <1>5, <2>1, RootsAreNodes DEF Grows
  <2>2. tomb'[r] # "none" BY <1>0, <1>1, <1>5 DEF Grows
  <2>3. item'[r][r] # "none" BY <1>0, <1>2, <1>3
  <2>4. item'[r][r] \in {"none", "todo", "paid", "done"} BY <1>0 DEF TypeOK
  <2>5. job'[r].status # "none" /\ (job'[r].status = "complete" =>
          item'[r][r] = "done" /\ \A c \in Node : item'[r][c] \notin {"todo", "paid"})
    BY <1>0, <1>2, <2>3, <2>4
  <2> QED BY <1>0, <2>1, <2>2, <2>5 DEF TablesInv, JobsOK
<1>13. CleanedOK'
  <2>1. ASSUME NEW q \in Roots, NEW m \in Node, Paid(q, m)'
        PROVE  (m \in Records => tomb'[m] # "none") /\ (m \in Exports \/ job'[q].delete => body'[m] = "gone")
    <3>1. CASE q = r /\ m = n BY <1>1, <1>6, <3>1
    <3>2. CASE ~(q = r /\ m = n)
      <4>1. Paid(q, m) BY <1>2, <1>3, <2>1, <3>2 DEF Paid
      <4>2. (m \in Records => tomb[m] # "none") /\ (m \in Exports \/ job[q].delete => body[m] = "gone")
        BY <1>0, <4>1 DEF TablesInv, CleanedOK
      <4> QED BY <1>1, <1>5, <1>6, <4>2 DEF Grows
    <3> QED BY <3>1, <3>2
  <2> QED BY <2>1 DEF CleanedOK
<1>14. ListedOK'
  <2>1. ASSUME NEW q \in Roots, NEW m \in Node, item'[q][m] # "none", m \notin Records
        PROVE  Doomed(m)'
    <3>1. CASE item[q][m] # "none"
      <4>1. Doomed(m) BY <1>0, <2>1, <3>1 DEF TablesInv, ListedOK
      <4> QED BY <1>0, <1>5, <2>1, <4>1, DoomedStays
    <3>2. CASE item[q][m] = "none" /\ m \in {n, r}
      <4>1. Doomed(m)
        <5>1. CASE m = n BY <1>1, <2>1, <5>1
        <5>2. CASE m = r BY <1>0, <1>1, <5>2, OriginsType DEF Doomed
        <5> QED BY <3>2, <5>1, <5>2
      <4> QED BY <1>0, <1>5, <2>1, <4>1, DoomedStays
    <3>3. CASE item[q][m] = "none" /\ m \notin {n, r}
      <4>1. m \in listed BY <1>2, <1>3, <2>1, <3>3
      <4>2. n \in Parents(m) BY <1>2, <4>1 DEF Parents
      <4>3. n \in Origins(m) /\ Origins(m) \subseteq Origins(m)'
        BY <1>0, <1>5, <4>2, OriginsType, OriginsGrow DEF Grows
      <4>4. CASE n \in Records BY <1>1, <4>3, <4>4 DEF Doomed
      <4>5. CASE n \notin Records
        <5>1. Origins(n) \subseteq Origins(m)
          BY <1>0, <4>3, <4>5, OriginsType, OriginsOfFixed
        <5>2. Doomed(m) BY <1>1, <4>5, <5>1 DEF Doomed
        <5> QED BY <1>0, <1>5, <2>1, <5>2, DoomedStays
      <4> QED BY <4>4, <4>5
    <3> QED BY <3>1, <3>2, <3>3
  <2> QED BY <2>1 DEF ListedOK
<1>15. ClosedOK'
  <2>1. ASSUME NEW q \in Roots, NEW m \in Node, item'[q][m] = "done", NEW c \in Node, <<c, m>> \in edges'
        PROVE  item'[q][c] # "none"
    <3>1. CASE q = r /\ m = n
      <4>1. c \in listed \/ Items(r)[c] # "none" BY <1>2, <1>4, <2>1, <3>1
      <4> QED BY <1>2, <3>1, <4>1
    <3>2. CASE ~(q = r /\ m = n)
      <4>1. item[q][m] = "done" BY <1>2, <1>3, <2>1, <3>2
      <4>2. item[q][c] # "none" BY <1>0, <1>4, <2>1, <4>1 DEF TablesInv, ClosedOK
      <4> QED BY <1>11, <4>2
    <3> QED BY <3>1, <3>2
  <2> QED BY <2>1 DEF ClosedOK
<1>16. TracedOK'
  <2>1. ASSUME NEW m \in Node PROVE holds'[m] \subseteq Origins(m)'
    <3>1. Origins(m) \subseteq Origins(m)' BY <1>0, <1>5, OriginsGrow DEF Grows
    <3> QED BY <1>0, <1>4, <3>1 DEF TablesInv, TracedOK
  <2> QED BY <2>1 DEF TracedOK
<1> QED BY <1>7, <1>8, <1>9, <1>10, <1>12, <1>13, <1>14, <1>15, <1>16 DEF TablesInv
-----------------------------------------------------------------------------
\* The inductive invariant.

LEMMA InitInv == Init => RetentionInv
<1> SUFFICES ASSUME Init PROVE RetentionInv OBVIOUS
<1>0. TypeOK BY InitType
<1>1. /\ \A n \in Node : body[n] = "none" \/ (n \in Records /\ Given[n] # {} /\ body[n] = "live")
      /\ \A n \in Node : tomb[n] = "none"
      /\ \A r \in Roots : job[r] = NoJob /\ \A n \in Node : item[r][n] = "none"
      /\ \A n \in Node : holds[n] = IF n \in Records THEN Given[n] ELSE {}
      /\ edges = {e \in Records \X Records : e[1] # e[2] /\ e[2] \in Given[e[1]]}
      /\ \A x \in Exports : ~ready[x] /\ x # exporter
      /\ call = NoCall /\ draft = NoDraft
      /\ \A e \in Activities : copy[e] = "none"
      /\ \A r \in Records : rev[r] = IF Given[r] # {} THEN 1 ELSE 0
      /\ \A r \in Records : body[r] = IF Given[r] # {} THEN "live" ELSE "none"
  BY RootsAreNodes, RetentionAssumption DEF Init, RetentionAssumption
<1>2. /\ Records \subseteq Roots /\ \A r \in Records : MaxRevisions[r] \in Nat \ {0}
      /\ \A r \in Records : Given[r] \in SUBSET Records
      /\ \A r \in Records : \A s \in Given[r] : r \in Given[r] /\ s \in Given[s]
      /\ Records \cap Exports = {}
  BY RetentionAssumption DEF RetentionAssumption, Roots
<1>3. RecordsOK
  <2>1. \A r \in Records : r \in Roots /\ ~job[r].delete BY <1>1, <1>2 DEF NoJob
  <2>2. \A r \in Records : rev[r] <= MaxRevisions[r] BY <1>1, <1>2
  <2> QED BY <1>1, <1>2, <2>1, <2>2, RootsAreNodes DEF RecordsOK
<1>4. ExportsOK BY <1>1, RootsAreNodes DEF ExportsOK
<1>5. OthersOK BY <1>1 DEF OthersOK
<1>6. BlankOK
  <2>1. ASSUME NEW n \in Node, body[n] = "none"
        PROVE  holds[n] = {} /\ \A p \in Node : <<p, n>> \notin edges /\ <<n, p>> \notin edges
    <3>1. n \in Records => Given[n] = {} BY <1>1, <2>1
    <3>2. ASSUME NEW p \in Node PROVE <<p, n>> \notin edges /\ <<n, p>> \notin edges
      <4>1. <<n, p>> \notin edges BY <1>1, <3>1
      <4>2. ASSUME <<p, n>> \in edges PROVE FALSE
        <5>1. p \in Records /\ n \in Records /\ n \in Given[p] BY <1>1, <4>2
        <5>2. n \in Given[n] BY <1>2, <5>1
        <5> QED BY <3>1, <5>1, <5>2
      <4> QED BY <4>1, <4>2
    <3> QED BY <1>1, <3>1, <3>2
  <2> QED BY <1>1, <2>1 DEF BlankOK, NoJob
<1>7. JobsOK BY <1>1 DEF JobsOK, NoJob
<1>8. CleanedOK BY <1>1 DEF CleanedOK, Paid
<1>9. ListedOK BY <1>1 DEF ListedOK
<1>10. ClosedOK BY <1>1 DEF ClosedOK
<1>11. TracedOK
  <2>1. ASSUME NEW n \in Node, NEW s \in holds[n] PROVE s \in Origins(n)
    <3>1. n \in Records /\ s \in Given[n] /\ s \in Records BY <1>1, <1>2, <2>1
    <3>2. s = n \/ <<n, s>> \in edges BY <1>1, <3>1
    <3>3. s = n \/ s \in Parents(n) BY <3>1, <3>2, RootsAreNodes DEF Parents
    <3> QED BY <1>0, <3>3, OriginsType
  <2> QED BY <2>1 DEF TracedOK
<1>12. DraftOK /\ CallOK BY <1>1 DEF DraftOK, CallOK, NoCall
<1> QED BY <1>0, <1>3, <1>4, <1>5, <1>6, <1>7, <1>8, <1>9, <1>10, <1>11, <1>12
        DEF RetentionInv, TablesInv

\* Steps of a caller that touch no table.
LEMMA QuietKeeps ==
    ASSUME RetentionInv, TypeOK', UNCHANGED <<tables, exporter, holds>>
    PROVE  TablesInv' /\ Grows
<1>0. TypeOK /\ TablesInv BY DEF RetentionInv
<1>1. UNCHANGED <<rev, body, copy, edges, tomb, job, item, ready, holds, exporter>> BY DEF tables
<1>2. JobsOK' BY <1>0, <1>1 DEF TablesInv, JobsOK
<1>3. exporter' \in {exporter, None} BY <1>1
<1>4. TablesInv' BY <1>1, <1>2, <1>3, SameTablesKeep
<1> QED BY <1>0, <1>1, <1>4, QuietGrows

LEMMA OwnerSubmitsCallers ==
    ASSUME RetentionInv, TypeOK', NEW r \in Records, OwnerSubmits(r)
    PROVE  DraftOK' /\ CallOK'
<1>0. /\ TypeOK /\ TablesInv /\ r \in Node /\ rev[r] \in Nat
      /\ UNCHANGED <<tables, call, exporter, holds>>
      /\ draft' = [rec |-> r, refs |-> {}, expected |-> rev[r], holds |-> {} \cup {r}]
      /\ rev[r] < MaxRevisions[r] /\ (rev[r] # 0 => Available({r}))
  BY RootsAreNodes DEF OwnerSubmits, CheckSubmission, RetentionInv, TypeOK
<1>1. Grows BY <1>0, QuietKeeps
<1>2. CallOK' BY <1>0, <1>1, CallersKeep
<1>3. tomb[r] = "none"
  <2>1. CASE rev[r] = 0 BY <1>0, <2>1 DEF TablesInv, RecordsOK, BlankOK
  <2>2. CASE rev[r] # 0
    <3>1. r \in Lineage({r})
      <4>1. {r} \in SUBSET Node /\ edges \in SUBSET (Node \X Node) BY <1>0 DEF TypeOK
      <4> QED BY <4>1, ReachClosed DEF Lineage
    <3> QED BY <1>0, <2>2, <3>1 DEF Available
  <2> QED BY <2>1, <2>2
<1>4. r \in Reach({r} \cup {}, Fixed')
  <2>1. {r} \cup {} \in SUBSET Node /\ Fixed' \in SUBSET (Node \X Node)
    BY <1>0 DEF TypeOK, Fixed
  <2> QED BY <2>1, ReachClosed
<1>5. rev' = rev /\ tomb' = tomb BY <1>0 DEF tables
<1>6. DraftOK' BY <1>0, <1>3, <1>4, <1>5 DEF DraftOK
<1> QED BY <1>2, <1>6

LEMMA ReadNodeCallers ==
    ASSUME RetentionInv, TypeOK', NEW n \in Node, ReadNode(n)
    PROVE  DraftOK' /\ CallOK'
<1>0. /\ TypeOK /\ TablesInv /\ UNCHANGED <<tables, draft, exporter, holds>>
      /\ body[n] = "live" /\ Available({n})
      /\ call' = [phase |-> "read", node |-> n, holds |-> holds[n],
                  version |-> IF n \in Records THEN rev[n] ELSE 1]
  BY DEF ReadNode, RetentionInv
<1>1. Grows BY <1>0, QuietKeeps
<1>2. DraftOK' BY <1>0, <1>1, CallersKeep
<1>3. UNCHANGED <<rev, body, tomb, edges>> BY <1>0 DEF tables
<1>4. tomb[n] = "none"
  <2>1. {n} \in SUBSET Node /\ edges \in SUBSET (Node \X Node) BY <1>0 DEF TypeOK
  <2>2. n \in Lineage({n}) BY <2>1, ReachClosed DEF Lineage
  <2> QED BY <1>0, <2>2 DEF Available
<1>5. holds[n] \subseteq Origins(n) BY <1>0 DEF TablesInv, TracedOK
<1>6. Origins(n)' = Origins(n) /\ Fixed' = Fixed BY <1>3 DEF Origins, Parents, Fixed
<1>7. n \notin Records => holds[n] \subseteq Reach({n}, Fixed)
  <2> SUFFICES ASSUME n \notin Records PROVE holds[n] \subseteq Reach({n}, Fixed) OBVIOUS
  <2>1. /\ {n} \subseteq Reach({n}, Fixed)
        /\ \A e \in Fixed : e[1] \in Reach({n}, Fixed) => e[2] \in Reach({n}, Fixed)
    BY <1>0, FixedType, ReachClosed
  <2>2. n \in Reach({n}, Fixed) BY <2>1
  <2>3. Origins(n) \subseteq Reach({n}, Fixed) BY <1>0, <2>1, <2>2, OriginsOfFixed
  <2> QED BY <1>5, <2>3
<1>8. n \in Records => rev[n] \in Nat BY <1>0 DEF TypeOK
<1>9. CallOK'
  <2>1. /\ call'.phase = "read" /\ call'.node = n /\ call'.holds = holds[n]
        /\ n \in Records => call'.version = rev[n]
    BY <1>0
  <2>2. \A k \in Node : k = n => Origins(k)' = Origins(k) BY <1>6
  <2>3. \A k \in Node : k = call'.node => call'.holds \subseteq Origins(k)' BY <1>5, <2>1, <2>2
  <2>4. n \notin Records => call'.holds \subseteq Reach({call'.node}, Fixed')
    BY <1>6, <1>7, <2>1
  <2>5. body'[n] # "none" /\ (n \in Records => call'.version <= rev'[n]) /\ tomb'[n] = "none"
    BY <1>0, <1>3, <1>4, <1>8, <2>1
  <2> QED BY <2>1, <2>3, <2>4, <2>5 DEF CallOK
<1> QED BY <1>2, <1>9

\* Every step keeps the invariant.
LEMMA InvStep == RetentionInv /\ [Next]_vars => RetentionInv'
<1> SUFFICES ASSUME RetentionInv, [Next]_vars PROVE RetentionInv' OBVIOUS
<1>0. TypeOK /\ TypeOK' BY TypeStep DEF RetentionInv
<1>1. ASSUME NEW r \in Records, OwnerSubmits(r) PROVE RetentionInv'
  <2>1. UNCHANGED <<tables, exporter, holds>> BY <1>1 DEF OwnerSubmits, CheckSubmission
  <2> QED BY <1>0, <1>1, <2>1, QuietKeeps, OwnerSubmitsCallers DEF RetentionInv
<1>2. ASSUME NEW r \in Records, NEW delete \in BOOLEAN, Retire(r, delete) PROVE RetentionInv'
  <2>1. draft' = draft /\ call' = call BY <1>2 DEF Retire
  <2>2. Grows BY <1>0, <1>2, RetireGrows
  <2>3. TablesInv' BY <1>0, <1>2, RetireKeeps
  <2> QED BY <1>0, <2>1, <2>2, <2>3, CallersKeep DEF RetentionInv
<1>3. ASSUME NEW r \in Records, BeginExport(r) PROVE RetentionInv'
  <2>1. draft' = draft /\ call' = call BY <1>3 DEF BeginExport
  <2>2. Grows BY <1>0, <1>3, BeginExportGrows
  <2>3. TablesInv' BY <1>0, <1>3, BeginExportKeeps
  <2> QED BY <1>0, <2>1, <2>2, <2>3, CallersKeep DEF RetentionInv
<1>4. CASE SaveRecord
  <2>1. draft' = NoDraft /\ call' = call BY <1>4 DEF SaveRecord
  <2>2. DraftOK' BY <2>1 DEF DraftOK
  <2>3. Grows BY <1>0, <1>4, SaveRecordGrows
  <2>4. TablesInv' BY <1>0, <1>4, SaveRecordKeeps
  <2> QED BY <1>0, <2>1, <2>2, <2>3, <2>4, CallersKeep DEF RetentionInv
<1>5. CASE SaveConflict
  <2>1. /\ UNCHANGED <<tables, exporter, holds>>
        /\ draft' = NoDraft /\ call' = call
    BY <1>5 DEF SaveConflict
  <2>2. DraftOK' BY <2>1 DEF DraftOK
  <2>3. TablesInv' /\ Grows BY <1>0, <2>1, QuietKeeps
  <2> QED BY <1>0, <2>1, <2>2, <2>3, CallersKeep DEF RetentionInv
<1>6. ASSUME NEW n \in Node, ReadNode(n) PROVE RetentionInv'
  <2>1. UNCHANGED <<tables, exporter, holds>> BY <1>6 DEF ReadNode
  <2> QED BY <1>0, <1>6, <2>1, QuietKeeps, ReadNodeCallers DEF RetentionInv
<1>7. CASE RetainResult({})
  <2>1. draft' = draft /\ call'.phase = "retained" BY <1>7 DEF RetainResult
  <2>2. {} \in SUBSET InUse OBVIOUS
  <2>3. Grows BY <1>0, <1>7, <2>2, RetainResultGrows
  <2>4. TablesInv' BY <1>0, <1>7, <2>2, RetainResultKeeps
  <2>5. CallOK' BY <2>1 DEF CallOK
  <2> QED BY <1>0, <2>1, <2>3, <2>4, <2>5, CallersKeep DEF RetentionInv
<1>8. CASE ReadConflict \/ EndCall
  <2>1. /\ UNCHANGED <<tables, exporter, holds>> /\ draft' = draft /\ call' = NoCall
    BY <1>8 DEF ReadConflict, EndCall
  <2>2. CallOK' BY <2>1 DEF CallOK, NoCall
  <2>3. TablesInv' /\ Grows BY <1>0, <2>1, QuietKeeps
  <2> QED BY <1>0, <2>1, <2>2, <2>3, CallersKeep DEF RetentionInv
<1>9. CASE PublishExport \/ RefuseExport \/ FailExport
  <2>1. draft' = draft /\ call' = call BY <1>9 DEF PublishExport, RefuseExport, FailExport
  <2>2. Grows BY <1>0, <1>9, ExportStepGrows
  <2>3. TablesInv' BY <1>0, <1>9, PublishExportKeeps, RefuseExportKeeps, FailExportKeeps
  <2> QED BY <1>0, <2>1, <2>2, <2>3, CallersKeep DEF RetentionInv
<1>10. ASSUME NEW r \in Roots, AdvanceCleanup(r) PROVE RetentionInv'
  <2>1. PICK n \in Node : Items(r)[n] \in {"todo", "paid"} /\ CleanItem(r, n)
    BY <1>0, <1>10, AdvancePicks
  <2>2. draft' = draft /\ call' = call BY <2>1 DEF CleanItem
  <2>3. Grows BY <1>0, <2>1, CleanItemGrows
  <2>4. TablesInv' BY <1>0, <1>10, <2>1, CleanItemKeeps DEF AdvanceCleanup
  <2> QED BY <1>0, <2>2, <2>3, <2>4, CallersKeep DEF RetentionInv
<1>11. ASSUME NEW r \in Roots, FailCleanup(r) PROVE RetentionInv'
  <2>1. draft' = draft /\ call' = call BY <1>11 DEF FailCleanup
  <2>2. Grows BY <1>0, <1>11, ExportStepGrows
  <2>3. TablesInv' BY <1>0, <1>11, FailCleanupKeeps
  <2> QED BY <1>0, <2>1, <2>2, <2>3, CallersKeep DEF RetentionInv
<1>12. ASSUME NEW x \in Exports, RecoverExport(x) PROVE RetentionInv'
  <2>1. draft' = draft /\ call' = call BY <1>12 DEF RecoverExport
  <2>2. Grows BY <1>0, <1>12, ExportStepGrows
  <2>3. TablesInv' BY <1>0, <1>12, RecoverExportKeeps
  <2> QED BY <1>0, <2>1, <2>2, <2>3, CallersKeep DEF RetentionInv
<1>13. CASE Crash
  <2>1. draft' = NoDraft /\ call' = NoCall BY <1>13 DEF Crash
  <2>2. DraftOK' /\ CallOK' BY <2>1 DEF DraftOK, CallOK, NoCall
  <2>3. TablesInv' BY <1>0, <1>13, CrashKeeps
  <2> QED BY <1>0, <2>2, <2>3 DEF RetentionInv
<1>14. CASE UNCHANGED vars
  <2>1. UNCHANGED <<tables, exporter, holds>> /\ draft' = draft /\ call' = call
    BY <1>14 DEF vars
  <2>2. TablesInv' /\ Grows BY <1>0, <2>1, QuietKeeps
  <2> QED BY <1>0, <2>1, <2>2, CallersKeep DEF RetentionInv
<1> QED BY <1>1, <1>2, <1>3, <1>4, <1>5, <1>6, <1>7, <1>8, <1>9, <1>10, <1>11, <1>12, <1>13,
           <1>14 DEF Next

\* The invariant holds in every state that the tables, the files and their callers
\* reach, with any number of records, results and exports.
THEOREM RetentionInvariance == Spec => []RetentionInv
<1>1. Init => RetentionInv BY InitInv
<1>2. RetentionInv /\ [Next]_vars => RetentionInv' BY InvStep
<1> QED BY <1>1, <1>2, PTL DEF Spec

-----------------------------------------------------------------------------
\* What the invariant shows.

\* Every table, job, queue and caller keeps the values the schema gives it; no
\* record passes more than two versions beyond its contents.
THEOREM TypeCorrect == Spec => []TypeOK
<1>1. RetentionInv => TypeOK BY DEF RetentionInv
<1> QED BY <1>1, RetentionInvariance, PTL

LEMMA OpenIsClean == RetentionInv => AvailableIsClean
<1> SUFFICES ASSUME RetentionInv, NEW n \in Node, Available({n}), NEW s \in holds[n],
                    s \in Withdrawn
             PROVE  FALSE
  BY DEF AvailableIsClean
<1>1. s \in Origins(n) BY DEF RetentionInv, TablesInv, TracedOK
<1>2. s \in Lineage({n}) BY <1>1, OriginsInLineage DEF RetentionInv
<1>3. tomb[s] = "none" BY <1>2 DEF Available
<1> QED BY <1>3 DEF Withdrawn

\* require_sources is enough: whatever it lets a reader open was written from no
\* withdrawn record, whichever records were revised or withdrawn since.
THEOREM AvailableClean == Spec => []AvailableIsClean
BY OpenIsClean, RetentionInvariance, PTL

\* When the cleanup of a deletion is complete, whatever leads to the deleted record
\* begins with one of its items.
LEMMA ReachIsListed ==
    ASSUME RetentionInv, NEW r \in Roots, job[r].status = "complete", NEW S \in SUBSET Node,
           r \in Reach(S, Fixed)
    PROVE  \E n \in S : item[r][n] = "done"
<1>0. TypeOK /\ TablesInv /\ r \in Node BY RootsAreNodes DEF RetentionInv
<1>1. \A m \in Node : item[r][m] \in {"none", "done"}
  <2>1. \A m \in Node : item[r][m] \in {"none", "todo", "paid", "done"} BY <1>0 DEF TypeOK
  <2>2. \A m \in Node : item[r][m] \notin {"todo", "paid"} BY <1>0 DEF TablesInv, JobsOK
  <2> QED BY <2>1, <2>2
<1>2. item[r][r] = "done" BY <1>0 DEF TablesInv, JobsOK
<1> DEFINE T == {m \in Node : item[r][m] = "none"}
<1>3. ASSUME NEW c \in Node, NEW p \in Node, <<c, p>> \in edges, c \in T PROVE p \in T
  BY <1>0, <1>1, <1>3 DEF TablesInv, ClosedOK
<1> SUFFICES ASSUME S \subseteq T PROVE FALSE BY <1>1
<1>4. Fixed \in SUBSET (Node \X Node) /\ \A e \in Fixed : e[1] \in T => e[2] \in T
  <2>1. ASSUME NEW e \in Fixed, e[1] \in T PROVE e[2] \in T
    <3>1. e \in edges /\ e = <<e[1], e[2]>> /\ e[1] \in Node /\ e[2] \in Node
      BY <1>0, <2>1 DEF Fixed, TypeOK
    <3> QED BY <1>3, <2>1, <3>1
  <2> QED BY <1>0, <2>1, FixedType
<1>5. r \notin T BY <1>2
<1> HIDE DEF T
<1>6. Reach(S, Fixed) \subseteq T BY <1>4, ReachLeast
<1> QED BY <1>5, <1>6

\* Every node with an origin in the deleted record was among the items.
LEMMA OriginsAreListed ==
    ASSUME RetentionInv, NEW r \in Roots, job[r].status = "complete", NEW n \in Node,
           r \in Origins(n)
    PROVE  item[r][n] = "done"
<1>1. {n} \cup Parents(n) \in SUBSET Node BY DEF Parents
<1>2. PICK m \in {n} \cup Parents(n) : item[r][m] = "done" BY <1>1, ReachIsListed DEF Origins
<1>3. m # n => <<n, m>> \in edges /\ m \in Node BY <1>2 DEF Parents
<1>4. m # n => item[r][n] # "none" BY <1>2, <1>3 DEF RetentionInv, TablesInv, ClosedOK
<1>5. item[r][n] \in {"none", "todo", "paid", "done"} BY DEF RetentionInv, TypeOK
<1>6. item[r][n] \notin {"todo", "paid"} BY DEF RetentionInv, TablesInv, JobsOK
<1> QED BY <1>2, <1>4, <1>5, <1>6

\* What still names a record whose deletion is complete has lost its content.
LEMMA DeletedIsGone ==
    ASSUME RetentionInv, NEW r \in Records, NEW n \in Node,
           job[r] = [status |-> "complete", delete |-> TRUE], r \in holds[n]
    PROVE  body[n] = "gone"
<1>1. /\ TypeOK /\ TablesInv /\ r \in Roots
      /\ job[r].status = "complete" /\ job[r].delete
  BY DEF RetentionInv, Roots
<1>2. r \in Origins(n) BY <1>1 DEF TablesInv, TracedOK
<1>3. item[r][n] = "done" BY <1>1, <1>2, OriginsAreListed
<1> QED BY <1>1, <1>3 DEF TablesInv, CleanedOK, Paid

\* Without a session (module Context) no activity has a copy.
NoCopies == \A e \in Activities : copy[e] # "live"

LEMMA NoCopiesInvariance == Spec => []NoCopies
<1>1. Init => NoCopies BY DEF Init, NoCopies
<1>2. RetentionInv /\ NoCopies /\ [Next]_vars => NoCopies'
  <2> SUFFICES ASSUME RetentionInv, NoCopies, [Next]_vars PROVE NoCopies' OBVIOUS
  <2>1. ASSUME NEW r \in Roots, AdvanceCleanup(r) PROVE NoCopies'
    <3>1. PICK n \in Node : Items(r)[n] \in {"todo", "paid"} /\ CleanItem(r, n)
      BY <2>1, AdvancePicks DEF RetentionInv
    <3>2. \A e \in Activities : copy'[e] \in {copy[e], "gone"}
      BY <2>1, <3>1, ItemFacts DEF AdvanceCleanup
    <3> QED BY <3>2 DEF NoCopies
  <2>2. CASE copy' = copy BY <2>2 DEF NoCopies
  <2>3. (\E r \in Roots : AdvanceCleanup(r)) \/ copy' = copy
    BY DEF Next, vars, tables, OwnerSubmits, CheckSubmission, Retire, BeginExport, SaveRecord,
           SaveConflict, ReadNode, RetainResult, ReadConflict, EndCall, PublishExport, RefuseExport,
           FailExport, FailCleanup, RecoverExport, Crash
  <2> QED BY <2>1, <2>2, <2>3
<1> QED BY <1>1, <1>2, RetentionInvariance, PTL DEF Spec

\* Deletion is total: once its job is complete nothing stored holds what was
\* deleted, although derivations and saves were under way the whole time.
THEOREM DeletionTotal == Spec => []CompletedDeletionIsTotal
<1>1. RetentionInv /\ NoCopies => CompletedDeletionIsTotal
  <2> SUFFICES ASSUME RetentionInv, NoCopies, NEW r \in Records, NEW n \in Node,
                      job[r] = [status |-> "complete", delete |-> TRUE],
                      Stored(n), r \in holds[n]
               PROVE  FALSE
    BY DEF CompletedDeletionIsTotal, Remains
  <2>1. body[n] = "gone" BY DeletedIsGone
  <2>2. n \in Activities => copy[n] # "live" BY DEF NoCopies
  <2> QED BY <2>1, <2>2 DEF Stored
<1> QED BY <1>1, RetentionInvariance, NoCopiesInvariance, PTL

\* Files have owners: what a crash or a failed write leaves on disk belongs to a
\* manifest that recovery or a job will still remove, and only whole files are read.
THEOREM FilesOwned == Spec => []ExportFilesAreOwned
<1>1. RetentionInv => ExportFilesAreOwned
  <2> SUFFICES ASSUME RetentionInv, NEW x \in Exports
               PROVE  /\ ready[x] => body[x] \in {"live", "gone"} /\ exporter # x
                      /\ body[x] = "partial" =>
                            tomb[x] = "none" \/ job[x].status \in {"pending", "failed"}
    BY DEF ExportFilesAreOwned
  <2>0. TypeOK /\ TablesInv /\ x \in Roots /\ x \in Node
    BY RootsAreNodes DEF RetentionInv, Roots
  <2>1. ready[x] => body[x] \in {"live", "gone"} /\ exporter # x
    BY <2>0 DEF TablesInv, ExportsOK
  <2>2. ASSUME body[x] = "partial", tomb[x] # "none"
        PROVE  job[x].status \in {"pending", "failed"}
    <3>1. job[x].status \in {"none", "pending", "failed", "complete"} BY <2>0 DEF TypeOK, JobRow
    <3>2. job[x].status # "none" BY <2>0, <2>2 DEF TablesInv, ExportsOK
    <3>3. ASSUME job[x].status = "complete" PROVE FALSE
      <4>1. item[x][x] = "done" BY <2>0, <3>3 DEF TablesInv, JobsOK
      <4>2. body[x] = "gone" BY <2>0, <4>1 DEF TablesInv, CleanedOK, Paid
      <4> QED BY <2>2, <4>2
    <3> QED BY <3>1, <3>2, <3>3
  <2> QED BY <2>1, <2>2
<1> QED BY <1>1, RetentionInvariance, PTL

\* What WithdrawalStands asks of one step.
Stands ==
    \A n \in Node :
        /\ tomb[n] # "none" => tomb'[n] # "none" /\ (body[n] = "gone" => body'[n] = "gone")
        /\ tomb[n] = "deleted" => tomb'[n] = "deleted"

LEMMA CleanItemStands ==
    ASSUME RetentionInv, NEW r \in Roots, NEW n \in Node, CleanItem(r, n)
    PROVE  Stands
<1>0. TypeOK /\ job[r].delete \in BOOLEAN BY DEF RetentionInv, TypeOK, JobRow
<1>1. CASE UNCHANGED <<rev, body, tomb, ready, copy>> BY <1>1 DEF Stands
<1>2. CASE CleanPayload(n, job[r].delete)
  <2>1. \A m \in Node : /\ m # n => body'[m] = body[m] /\ tomb'[m] = tomb[m]
                        /\ body'[n] = CleanedBody(n, job[r].delete)
                        /\ tomb'[n] = CleanedTomb(n, job[r].delete)
    BY <1>0, <1>2 DEF CleanPayload, TypeOK
  <2>2. body[n] = "gone" => body'[n] = "gone" BY <2>1 DEF CleanedBody
  <2>3. /\ tomb[n] # "none" => tomb'[n] # "none"
        /\ tomb[n] = "deleted" => tomb'[n] = "deleted"
    BY <2>1 DEF CleanedTomb
  <2> QED BY <2>1, <2>2, <2>3 DEF Stands
<1> QED BY <1>1, <1>2 DEF CleanItem

LEMMA WithdrawExportStands ==
    ASSUME TypeOK, NEW x \in Exports, WithdrawExport(x), NEW n \in Node
    PROVE  /\ tomb[n] # "none" => tomb'[n] # "none"
           /\ tomb[n] = "deleted" => tomb'[n] = "deleted"
<1>1. x \in Node BY RootsAreNodes
<1>2. tomb'[n] = IF n = x THEN IF tomb[x] = "none" THEN "deleted" ELSE tomb[x] ELSE tomb[n]
  BY <1>1 DEF WithdrawExport, TypeOK
<1> QED BY <1>2

\* Withdrawal stands: no later step brings back what was withdrawn or deleted, and
\* a submission that was checked before finds another version and is refused.
THEOREM WithdrawalsStand == Spec => WithdrawalStands
<1>1. RetentionInv /\ [Next]_vars => Stands
  <2> SUFFICES ASSUME RetentionInv, [Next]_vars PROVE Stands OBVIOUS
  <2>0. TypeOK /\ TablesInv BY DEF RetentionInv
  <2>1. ASSUME UNCHANGED <<body, tomb>> PROVE Stands BY <2>1 DEF Stands
  <2>2. ASSUME NEW r \in Records, OwnerSubmits(r) PROVE Stands
    BY <2>1, <2>2 DEF OwnerSubmits, CheckSubmission, tables
  <2>3. ASSUME NEW r \in Records, NEW delete \in BOOLEAN, Retire(r, delete) PROVE Stands
    <3>1. r \in Node BY RootsAreNodes
    <3>2. \A n \in Node :
            /\ n # r => body'[n] = body[n] /\ tomb'[n] = tomb[n]
            /\ body'[r] = (IF delete THEN "gone" ELSE body[r])
            /\ tomb'[r] = (IF delete THEN "deleted" ELSE "retired")
      BY <2>0, <2>3, <3>1 DEF Retire, TypeOK
    <3>3. tomb[r] = "none" \/ delete BY <2>3 DEF Retire, StillThere
    <3> QED BY <3>1, <3>2, <3>3 DEF Stands
  <2>4. ASSUME NEW r \in Records, BeginExport(r) PROVE Stands
    <3>1. PICK x \in Exports : x = Fresh(Exports) /\ body[x] = "none"
      BY <2>4, FreshIsUnused DEF BeginExport
    <3>2. x \in Node /\ tomb[x] = "none" BY <2>0, <3>1, RootsAreNodes DEF TablesInv, BlankOK
    <3>3. tomb' = tomb /\ \A n \in Node : n # x => body'[n] = body[n]
      BY <2>0, <2>4, <3>1 DEF BeginExport, TypeOK
    <3> QED BY <3>2, <3>3 DEF Stands
  <2>5. CASE SaveRecord
    <3>1. tomb[draft.rec] = "none" BY <2>5, SavedIsMutable
    <3>2. tomb' = tomb /\ \A n \in Node : n # draft.rec => body'[n] = body[n]
      BY <2>0, <2>5 DEF SaveRecord, TypeOK
    <3> QED BY <3>1, <3>2 DEF Stands
  <2>6. CASE SaveConflict BY <2>1, <2>6 DEF SaveConflict, tables
  <2>7. ASSUME NEW n \in Node, ReadNode(n) PROVE Stands BY <2>1, <2>7 DEF ReadNode, tables
  <2>8. CASE RetainResult({})
    <3>1. PICK o \in Results : o = Fresh(Results) /\ body[o] = "none"
      BY <2>8, FreshIsUnused DEF RetainResult
    <3>2. o \in Node /\ tomb[o] = "none" BY <2>0, <3>1, RootsAreNodes DEF TablesInv, BlankOK
    <3>3. tomb' = tomb /\ \A n \in Node : n # o => body'[n] = body[n]
      BY <2>0, <2>8, <3>1 DEF RetainResult, TypeOK
    <3> QED BY <3>2, <3>3 DEF Stands
  <2>9. CASE ReadConflict \/ EndCall BY <2>1, <2>9 DEF ReadConflict, EndCall, tables
  <2>10. ASSUME exporter # None, MayPublish(exporter), tomb' = tomb,
                \E b \in Bodies : body' = [body EXCEPT ![exporter] = b]
         PROVE  Stands
    BY <2>0, <2>10 DEF MayPublish, Stands, TypeOK
  <2>11. CASE PublishExport
    <3>1. "live" \in Bodies BY DEF Bodies
    <3> QED BY <2>10, <2>11, <3>1 DEF PublishExport
  <2>12. ASSUME NEW x \in Exports, WithdrawExport(x), body' = body PROVE Stands
    BY <2>0, <2>12, WithdrawExportStands DEF Stands
  <2>13. CASE RefuseExport
    <3>1. exporter \in Exports BY <2>13, ExporterFacts DEF RefuseExport
    <3> QED BY <2>12, <2>13, <3>1 DEF RefuseExport
  <2>14. CASE FailExport
    <3>1. exporter \in Exports /\ tomb[exporter] = "none" /\ WithdrawExport(exporter)
      BY <2>14, ExporterFacts DEF FailExport, MayPublish
    <3>2. \A n \in Node : n # exporter => body'[n] = body[n]
      BY <2>0, <2>14 DEF FailExport, TypeOK
    <3> QED BY <2>0, <3>1, <3>2, WithdrawExportStands DEF Stands
  <2>15. ASSUME NEW r \in Roots, AdvanceCleanup(r) PROVE Stands
    BY <2>0, <2>15, AdvancePicks, CleanItemStands
  <2>16. ASSUME NEW r \in Roots, FailCleanup(r) PROVE Stands
    <3>1. tomb' = tomb /\ \A n \in Node : body'[n] = body[n] \/ body'[n] = "gone"
      BY <2>0, <2>16 DEF FailCleanup, TypeOK
    <3> QED BY <3>1 DEF Stands
  <2>17. ASSUME NEW x \in Exports, RecoverExport(x) PROVE Stands
    BY <2>12, <2>17 DEF RecoverExport
  <2>18. CASE Crash
    <3>1. "partial" \in Bodies BY DEF Bodies
    <3> QED BY <2>1, <2>10, <2>18, <3>1 DEF Crash
  <2>19. CASE UNCHANGED vars BY <2>1, <2>19 DEF vars, tables
  <2> QED BY <2>2, <2>3, <2>4, <2>5, <2>6, <2>7, <2>8, <2>9, <2>11, <2>13, <2>14, <2>15, <2>16,
             <2>17, <2>18, <2>19 DEF Next
<1>2. Spec => [][Stands]_vars
  BY <1>1, RetentionInvariance, PTL DEF Spec
<1> QED BY <1>2, PTL DEF WithdrawalStands, Stands

-----------------------------------------------------------------------------
\* The work of a job.

\* A queue has exactly the items that its job knows.
QueuesListItems ==
    \A r \in Roots, n \in Node :
        item[r][n] # "none" <=> \E i \in DOMAIN queue[r] : queue[r][i] = n

\* The root of a job is in its queue first.
QueuesHaveRoots == \A r \in Roots : queue[r] # <<>> => item[r][r] # "none"

\* Whatever opens a job that was begun leaves it an item.
BegunJobsHaveItems ==
    \A r \in Roots : Unfinished(r) /\ queue[r] # <<>> =>
        \E n \in Node : item[r][n] \in {"todo", "paid"}

QueueInv == QueuesListItems /\ QueuesHaveRoots /\ BegunJobsHaveItems

LEMMA SeqHasSet ==
    ASSUME NEW S \in SUBSET Node
    PROVE  SetToSeq(S) \in Seq(Node) /\ \A n : n \in S <=> \E i \in DOMAIN SetToSeq(S) : SetToSeq(S)[i] = n
<1> DEFINE k == Cardinality(S)
           f == SetToSeq(S)
<1>1. IsFiniteSet(S) BY FS_Subset, RetentionAssumption DEF RetentionAssumption
<1>2. k \in Nat /\ ExistsBijection(1..k, S) BY <1>1, FS_CardinalityType
<1>3. \E g \in [1..k -> S] : IsInjective(g)
  BY <1>2 DEF ExistsBijection, Bijection, Injection, IsInjective
<1>4. f \in [1..k -> S] /\ IsInjective(f) BY <1>3 DEF SetToSeq
<1>5. f \in Injection(1..k, S) BY <1>4 DEF Injection
<1>6. Cardinality(1..k) = k BY <1>2, FS_Interval
<1>7. f \in Surjection(1..k, S)
  <2> HIDE DEF f
  <2> QED BY <1>1, <1>5, <1>6, FS_Injection
<1>8. \A n \in S : \E i \in 1..k : f[i] = n BY <1>7 DEF Surjection
<1> QED BY <1>4, <1>8, SeqOfSet

LEMMA ConcatHas ==
    ASSUME NEW s \in Seq(Node), NEW t \in Seq(Node), NEW c
    PROVE  (\E i \in DOMAIN (s \o t) : (s \o t)[i] = c)
           <=> (\E i \in DOMAIN s : s[i] = c) \/ \E i \in DOMAIN t : t[i] = c
<1>1. /\ Len(s) \in Nat /\ Len(t) \in Nat /\ DOMAIN s = 1..Len(s) /\ DOMAIN t = 1..Len(t)
      /\ DOMAIN (s \o t) = 1..(Len(s) + Len(t))
      /\ \A i \in 1..(Len(s) + Len(t)) :
            (s \o t)[i] = IF i <= Len(s) THEN s[i] ELSE t[i - Len(s)]
  OBVIOUS
<1>2. ASSUME NEW i \in DOMAIN (s \o t), (s \o t)[i] = c
      PROVE  (\E j \in DOMAIN s : s[j] = c) \/ \E j \in DOMAIN t : t[j] = c
  <2>1. CASE i <= Len(s) BY <1>1, <1>2, <2>1
  <2>2. CASE ~(i <= Len(s))
    <3>1. i - Len(s) \in DOMAIN t /\ t[i - Len(s)] = c BY <1>1, <1>2, <2>2
    <3> QED BY <3>1
  <2> QED BY <2>1, <2>2
<1>3. ASSUME NEW i \in DOMAIN s, s[i] = c PROVE \E j \in DOMAIN (s \o t) : (s \o t)[j] = c
  <2>1. i \in DOMAIN (s \o t) /\ (s \o t)[i] = c BY <1>1, <1>3
  <2> QED BY <2>1
<1>4. ASSUME NEW i \in DOMAIN t, t[i] = c PROVE \E j \in DOMAIN (s \o t) : (s \o t)[j] = c
  <2>1. Len(s) + i \in DOMAIN (s \o t) /\ (s \o t)[Len(s) + i] = c BY <1>1, <1>4
  <2> QED BY <2>1
<1> QED BY <1>2, <1>3, <1>4

\* The order of a job has the items it knows, its own record among them.
LEMMA OrderLists ==
    ASSUME TypeOK, QueueInv, NEW r \in Roots
    PROVE  /\ Order(r) \in Seq(Node)
           /\ \A n \in Node : Items(r)[n] # "none" <=> \E i \in DOMAIN Order(r) : Order(r)[i] = n
<1>1. /\ Order(r) \in Seq(Node) /\ r \in Node /\ queue[r] \in Seq(Node)
      /\ \A n \in Node : Items(r)[n] = IF n = r /\ item[r][r] = "none" THEN "todo" ELSE item[r][n]
  BY OrderType, RootsAreNodes DEF TypeOK
<1>2. CASE queue[r] = <<>>
  <2>1. DOMAIN queue[r] = {} BY <1>2
  <2>2. \A n \in Node : item[r][n] = "none" BY <2>1 DEF QueueInv, QueuesListItems
  <2>3. Order(r) = <<r>> BY <1>2 DEF Order
  <2>4. \A n \in Node : n = r <=> \E i \in DOMAIN <<r>> : <<r>>[i] = n OBVIOUS
  <2> QED BY <1>1, <2>2, <2>3, <2>4
<1>3. CASE queue[r] # <<>>
  <2>1. Order(r) = queue[r] BY <1>3 DEF Order
  <2>2. item[r][r] # "none" BY <1>3 DEF QueueInv, QueuesHaveRoots
  <2> QED BY <1>1, <2>1, <2>2 DEF QueueInv, QueuesListItems
<1> QED BY <1>2, <1>3

\* Where the queues stay and what they list stays listed, each job that is open
\* afterwards was so before, has an item, or was never begun.
LEMMA QueuesStay ==
    ASSUME TypeOK, QueueInv, queue' = queue,
           \A r \in Roots, n \in Node : item'[r][n] = "none" <=> item[r][n] = "none",
           \A r \in Roots : Unfinished(r)' =>
               \/ Unfinished(r) /\ item'[r] = item[r]
               \/ \E n \in Node : item'[r][n] \in {"todo", "paid"}
               \/ \A n \in Node : item[r][n] = "none"
    PROVE  QueueInv'
<1>1. QueuesListItems' /\ QueuesHaveRoots'
  BY RootsAreNodes DEF QueueInv, QueuesListItems, QueuesHaveRoots
<1>2. ASSUME NEW r \in Roots, Unfinished(r)', queue'[r] # <<>>
      PROVE  \E n \in Node : item'[r][n] \in {"todo", "paid"}
  <2>1. CASE Unfinished(r) /\ item'[r] = item[r]
    BY <1>2, <2>1 DEF QueueInv, BegunJobsHaveItems
  <2>2. CASE \A n \in Node : item[r][n] = "none"
    <3>1. queue[r] \in Seq(Node) BY DEF TypeOK
    <3>2. 1 \in DOMAIN queue[r] /\ queue[r][1] \in Node BY <1>2, <3>1
    <3>3. item[r][queue[r][1]] # "none" BY <3>2 DEF QueueInv, QueuesListItems
    <3> QED BY <2>2, <3>2, <3>3
  <2> QED BY <1>2, <2>1, <2>2
<1> QED BY <1>1, <1>2 DEF QueueInv, BegunJobsHaveItems

LEMMA QueuesAlone ==
    ASSUME TypeOK, QueueInv, UNCHANGED <<item, job, queue>>
    PROVE  QueueInv'
<1>1. \A r \in Roots : Unfinished(r)' = Unfinished(r) BY DEF Unfinished
<1> QED BY <1>1, QueuesStay

\* A derivation opens the jobs that know a source, and gives them that source to do.
LEMMA CiteQueues ==
    ASSUME RetentionInv, TypeOK', QueueInv, NEW n \in Node, NEW refs \in SUBSET InUse,
           Cite(n, refs), queue' = queue
    PROVE  QueueInv'
<1>0. TypeOK BY DEF RetentionInv
<1>1. \A r \in Roots, m \in Node : item'[r][m] = "none" <=> item[r][m] = "none" BY CiteItems
<1>2. ASSUME NEW r \in Roots, Unfinished(r)'
      PROVE  \/ Unfinished(r) /\ item'[r] = item[r]
             \/ \E m \in Node : item'[r][m] \in {"todo", "paid"}
  <2>1. CASE \E s \in Captured(refs) : item[r][s] # "none"
    <3>1. PICK s \in Captured(refs) : item[r][s] # "none" BY <2>1
    <3>2. s \in Node BY CapturedFacts DEF InUse
    <3>3. item'[r][s] = "todo" BY <3>1, <3>2 DEF Cite
    <3> QED BY <3>2, <3>3
  <2>2. CASE \A s \in Captured(refs) : item[r][s] = "none"
    <3>1. job'[r] = job[r] BY <2>2 DEF Cite
    <3>2. \A m \in Node : item'[r][m] = item[r][m] BY <2>2 DEF Cite
    <3>3. item'[r] = item[r] BY <1>0, <3>2 DEF TypeOK
    <3> QED BY <1>2, <3>1, <3>3 DEF Unfinished
  <2> QED BY <2>1, <2>2
<1> QED BY <1>0, <1>1, <1>2, QueuesStay

\* A record whose job was done for its retirement has all its items to do again.
LEMMA RetireQueues ==
    ASSUME RetentionInv, TypeOK', QueueInv, NEW r \in Records, NEW delete \in BOOLEAN,
           Retire(r, delete)
    PROVE  QueueInv'
<1>0. TypeOK /\ TablesInv /\ r \in Node /\ r \in Roots BY RootsAreNodes DEF RetentionInv, Roots
<1>1. ~job[r].delete /\ (~delete => tomb[r] = "none")
  BY <1>0 DEF Retire, TablesInv, RecordsOK, StillThere
<1>2. \A q \in Roots : q # r => job'[q] = job[q] /\ item'[q] = item[q]
  BY <1>0 DEF TypeOK, Retire
<1>3. CASE delete /\ job[r].status # "none"
  <2>1. \A n \in Node : item'[r][n] = IF item[r][n] = "none" THEN "none" ELSE "todo"
    BY <1>0, <1>1, <1>3 DEF TypeOK, Retire
  <2>2. \A q \in Roots, n \in Node : item'[q][n] = "none" <=> item[q][n] = "none"
    BY <1>2, <2>1
  <2>3. (\E n \in Node : item'[r][n] \in {"todo", "paid"}) \/ \A n \in Node : item[r][n] = "none"
    BY <2>1
  <2>4. ASSUME NEW q \in Roots, Unfinished(q)'
        PROVE  \/ Unfinished(q) /\ item'[q] = item[q]
               \/ \E n \in Node : item'[q][n] \in {"todo", "paid"}
               \/ \A n \in Node : item[q][n] = "none"
    BY <1>2, <2>3, <2>4 DEF Unfinished
  <2>5. queue' = queue BY DEF Retire
  <2> QED BY <1>0, <2>2, <2>4, <2>5, QueuesStay
<1>4. CASE ~(delete /\ job[r].status # "none")
  <2>1. job[r].status = "none" BY <1>0, <1>1, <1>4 DEF TablesInv, JobsOK
  <2>2. \A n \in Node : item[r][n] = "none" BY <1>0, <2>1 DEF TablesInv, JobsOK
  <2>3. item'[r] = item[r] BY <1>0, <1>4 DEF TypeOK, Retire
  <2>4. \A q \in Roots : item'[q] = item[q] BY <1>2, <2>3
  <2>5. ASSUME NEW q \in Roots, Unfinished(q)'
        PROVE  (Unfinished(q) /\ item'[q] = item[q]) \/ \A n \in Node : item[q][n] = "none"
    BY <1>2, <2>2, <2>5 DEF Unfinished
  <2>6. queue' = queue BY DEF Retire
  <2> QED BY <1>0, <2>4, <2>5, <2>6, QueuesStay
<1> QED BY <1>3, <1>4

\* The withdrawal of an export opens a job only where there was none.
LEMMA WithdrawExportQueues ==
    ASSUME RetentionInv, QueueInv, NEW x \in Exports, WithdrawExport(x),
           UNCHANGED <<item, queue>>
    PROVE  QueueInv'
<1>0. TypeOK /\ TablesInv /\ x \in Roots BY DEF RetentionInv, Roots
<1>1. \A r \in Roots : job'[r] = job[r] \/ job[r].status = "none"
  BY <1>0 DEF TypeOK, WithdrawExport
<1>2. \A r \in Roots : job[r].status = "none" => \A n \in Node : item[r][n] = "none"
  BY <1>0 DEF TablesInv, JobsOK
<1>3. \A r \in Roots : Unfinished(r)' => Unfinished(r) \/ \A n \in Node : item[r][n] = "none"
  BY <1>1, <1>2 DEF Unfinished
<1> QED BY <1>0, <1>3, QueuesStay

\* A step of a job appends the children it lists to its queue, and the job stays
\* open only while an item is to be done.
LEMMA CleanItemQueues ==
    ASSUME RetentionInv, QueueInv, NEW r \in Roots, NEW n \in Node,
           Items(r)[n] \in {"todo", "paid"}, CleanItem(r, n)
    PROVE  QueueInv'
<1>0. TypeOK /\ r \in Node BY RootsAreNodes DEF RetentionInv
<1> DEFINE unlisted == Unlisted(n, Items(r))
<1>1. PICK listed \in kSubset(Min({Batch, Cardinality(unlisted)}), unlisted) :
        LET after == [c \in Node |->
                    IF c = n THEN IF listed = unlisted THEN "done" ELSE "paid"
                    ELSE IF c \in listed THEN "todo" ELSE Items(r)[c]]
        IN  /\ item' = [item EXCEPT ![r] = after]
            /\ queue' = [queue EXCEPT ![r] = Order(r) \o SetToSeq(listed)]
            /\ job' = [job EXCEPT ![r].status =
                       IF \E c \in Node : after[c] \in {"todo", "paid"}
                       THEN "pending" ELSE "complete"]
  BY DEF CleanItem
<1> DEFINE after == [c \in Node |->
                    IF c = n THEN IF listed = unlisted THEN "done" ELSE "paid"
                    ELSE IF c \in listed THEN "todo" ELSE Items(r)[c]]
           status == IF \E c \in Node : after[c] \in {"todo", "paid"} THEN "pending" ELSE "complete"
           added == SetToSeq(listed)
<1>2. listed \in SUBSET Node BY DEF kSubset, Unlisted, Children
<1>3. \A c \in Node : after[c] # "none" <=> c \in listed \/ Items(r)[c] # "none" OBVIOUS
<1>4. status # "complete" => \E c \in Node : after[c] \in {"todo", "paid"} OBVIOUS
<1>5. /\ item' = [item EXCEPT ![r] = after] /\ job' = [job EXCEPT ![r].status = status]
      /\ queue' = [queue EXCEPT ![r] = Order(r) \o added]
  BY <1>1
<1>6. added \in Seq(Node) /\ \A c : c \in listed <=> \E i \in DOMAIN added : added[i] = c
  BY <1>2, SeqHasSet
<1> HIDE DEF after, status, added, unlisted
<1>7. /\ item'[r] = after /\ job'[r].status = status /\ queue'[r] = Order(r) \o added
      /\ \A q \in Roots : q # r => item'[q] = item[q] /\ job'[q] = job[q] /\ queue'[q] = queue[q]
  BY <1>0, <1>5 DEF TypeOK, JobRow
<1>8. /\ Order(r) \in Seq(Node)
      /\ \A c \in Node : Items(r)[c] # "none" <=> \E i \in DOMAIN Order(r) : Order(r)[i] = c
  BY <1>0, OrderLists
<1>9. \A c \in Node : (\E i \in DOMAIN (Order(r) \o added) : (Order(r) \o added)[i] = c)
                      <=> (\E i \in DOMAIN Order(r) : Order(r)[i] = c) \/ \E i \in DOMAIN added : added[i] = c
  <2> DEFINE s == Order(r)
  <2>1. s \in Seq(Node) /\ added \in Seq(Node) BY <1>6, <1>8
  <2> HIDE DEF s
  <2>2. \A c : (\E i \in DOMAIN (s \o added) : (s \o added)[i] = c)
               <=> (\E i \in DOMAIN s : s[i] = c) \/ \E i \in DOMAIN added : added[i] = c
    BY <2>1, ConcatHas
  <2> QED BY <2>2 DEF s
<1>10. \A c \in Node : item'[r][c] # "none" <=> \E i \in DOMAIN queue'[r] : queue'[r][i] = c
  BY <1>3, <1>6, <1>7, <1>8, <1>9
<1>11. QueuesListItems' /\ QueuesHaveRoots'
  <2>1. item'[r][r] # "none" BY <1>0, <1>3, <1>7, OrderType
  <2>2. ASSUME NEW q \in Roots, q # r
        PROVE  /\ queue'[q] # <<>> => item'[q][q] # "none"
               /\ \A c \in Node : item'[q][c] # "none" <=> \E i \in DOMAIN queue'[q] : queue'[q][i] = c
    BY <1>7, <2>2 DEF QueueInv, QueuesListItems, QueuesHaveRoots
  <2>3. QueuesListItems' BY <1>10, <2>2 DEF QueuesListItems
  <2> QED BY <2>1, <2>2, <2>3 DEF QueuesHaveRoots
<1>12. BegunJobsHaveItems'
  <2>1. ASSUME NEW q \in Roots, q # r, Unfinished(q)', queue'[q] # <<>>
        PROVE  \E c \in Node : item'[q][c] \in {"todo", "paid"}
    BY <1>7, <2>1 DEF QueueInv, BegunJobsHaveItems, Unfinished
  <2>2. Unfinished(r)' => \E c \in Node : item'[r][c] \in {"todo", "paid"}
    BY <1>4, <1>7 DEF Unfinished
  <2> QED BY <2>1, <2>2 DEF BegunJobsHaveItems
<1> QED BY <1>11, <1>12 DEF QueueInv

LEMMA InitQueues == Init => QueueInv
<1> SUFFICES ASSUME Init PROVE QueueInv OBVIOUS
<1>1. \A r \in Roots : queue[r] = <<>> /\ \A n \in Node : item[r][n] = "none" BY DEF Init
<1>2. DOMAIN <<>> = {} OBVIOUS
<1> QED BY <1>1, <1>2 DEF QueueInv, QueuesListItems, QueuesHaveRoots, BegunJobsHaveItems

LEMMA QueueStep == RetentionInv /\ QueueInv /\ [Next]_vars => QueueInv'
<1> SUFFICES ASSUME RetentionInv, QueueInv, [Next]_vars PROVE QueueInv' OBVIOUS
<1>0. TypeOK /\ TypeOK' BY TypeStep DEF RetentionInv
<1>1. ASSUME UNCHANGED <<item, job, queue>> PROVE QueueInv' BY <1>0, <1>1, QueuesAlone
<1>2. ASSUME NEW r \in Records, OwnerSubmits(r) PROVE QueueInv'
  BY <1>1, <1>2 DEF OwnerSubmits, CheckSubmission, tables
<1>3. ASSUME NEW r \in Records, NEW delete \in BOOLEAN, Retire(r, delete) PROVE QueueInv'
  BY <1>0, <1>3, RetireQueues
<1>4. ASSUME NEW r \in Records, BeginExport(r) PROVE QueueInv'
  BY <1>1, <1>4 DEF BeginExport
<1>5. CASE SaveRecord
  <2>1. draft.rec \in Node /\ draft.refs \in SUBSET InUse BY <1>5, SavedIsMutable
  <2>2. Cite(draft.rec, draft.refs) /\ queue' = queue BY <1>5 DEF SaveRecord
  <2> QED BY <1>0, <2>1, <2>2, CiteQueues
<1>6. CASE SaveConflict BY <1>1, <1>6 DEF SaveConflict, tables
<1>7. ASSUME NEW n \in Node, ReadNode(n) PROVE QueueInv' BY <1>1, <1>7 DEF ReadNode, tables
<1>8. CASE RetainResult({})
  <2>1. PICK o \in Results : o = Fresh(Results) BY <1>8, FreshIsUnused DEF RetainResult
  <2>2. o \in Node /\ {} \cup {call.node} \in SUBSET InUse
    BY <1>0, <1>8, RootsAreNodes DEF RetainResult, RetentionInv, CallOK, TypeOK, NoCall, InUse
  <2>3. Cite(o, {} \cup {call.node}) /\ queue' = queue BY <1>8, <2>1 DEF RetainResult
  <2> QED BY <1>0, <2>2, <2>3, CiteQueues
<1>9. CASE ReadConflict \/ EndCall BY <1>1, <1>9 DEF ReadConflict, EndCall, tables
<1>10. CASE PublishExport BY <1>1, <1>10 DEF PublishExport
<1>11. CASE RefuseExport \/ FailExport
  <2>1. exporter \in Exports BY <1>11, ExporterFacts DEF RefuseExport, FailExport
  <2>2. WithdrawExport(exporter) /\ UNCHANGED <<item, queue>>
    BY <1>11 DEF RefuseExport, FailExport
  <2> QED BY <2>1, <2>2, WithdrawExportQueues
<1>12. ASSUME NEW r \in Roots, AdvanceCleanup(r) PROVE QueueInv'
  BY <1>0, <1>12, AdvancePicks, CleanItemQueues
<1>13. ASSUME NEW r \in Roots, FailCleanup(r) PROVE QueueInv'
  <2>1. UNCHANGED <<item, queue>> /\ Unfinished(r) BY <1>13 DEF FailCleanup
  <2>2. \A q \in Roots : q # r => job'[q] = job[q] BY <1>0, <1>13 DEF FailCleanup, TypeOK
  <2>3. \A q \in Roots : Unfinished(q)' => Unfinished(q) BY <2>1, <2>2 DEF Unfinished
  <2> QED BY <1>0, <2>1, <2>3, QueuesStay
<1>14. ASSUME NEW x \in Exports, RecoverExport(x) PROVE QueueInv'
  BY <1>14, WithdrawExportQueues DEF RecoverExport
<1>15. CASE Crash BY <1>1, <1>15 DEF Crash
<1>16. CASE UNCHANGED vars BY <1>1, <1>16 DEF vars, tables
<1> QED BY <1>2, <1>3, <1>4, <1>5, <1>6, <1>7, <1>8, <1>9, <1>10, <1>11, <1>12, <1>13, <1>14,
           <1>15, <1>16 DEF Next

\* Every cleanup job that is open can be taken a step further by whoever serves the
\* next call, however it was opened, failed, sent back or widened before.
THEOREM JobsHaveWork == Spec => []OpenJobsHaveWork
<1>1. RetentionInv /\ QueueInv => OpenJobsHaveWork
  <2> SUFFICES ASSUME RetentionInv, QueueInv, NEW r \in Roots, Unfinished(r)
               PROVE  \E i \in DOMAIN Order(r) : IsNext(r, i)
    BY DEF OpenJobsHaveWork
  <2>0. TypeOK BY DEF RetentionInv
  <2>1. /\ Order(r) \in Seq(Node)
        /\ \A n \in Node : Items(r)[n] # "none" <=> \E i \in DOMAIN Order(r) : Order(r)[i] = n
    BY <2>0, OrderLists
  <2>2. \E n \in Node : Items(r)[n] \in {"todo", "paid"}
    <3>1. r \in Node /\ queue[r] \in Seq(Node) BY <2>0, RootsAreNodes DEF TypeOK
    <3>2. \A n \in Node : Items(r)[n] = IF n = r /\ item[r][r] = "none" THEN "todo" ELSE item[r][n]
      BY <2>0, OrderType
    <3>3. CASE queue[r] = <<>>
      <4>1. DOMAIN queue[r] = {} BY <3>3
      <4>2. item[r][r] = "none" BY <3>1, <4>1 DEF QueueInv, QueuesListItems
      <4> QED BY <3>1, <3>2, <4>2
    <3>4. CASE queue[r] # <<>>
      <4>1. PICK n \in Node : item[r][n] \in {"todo", "paid"}
        BY <3>4 DEF QueueInv, BegunJobsHaveItems
      <4> QED BY <3>2, <4>1
    <3> QED BY <3>3, <3>4
  <2> DEFINE Open == {i \in DOMAIN Order(r) : Items(r)[Order(r)[i]] \in {"todo", "paid"}}
  <2>3. DOMAIN Order(r) \subseteq Nat /\ \A i \in DOMAIN Order(r) : Order(r)[i] \in Node BY <2>1
  <2>4. Open \in SUBSET Nat /\ Open # {} BY <2>1, <2>2, <2>3
  <2>5. PICK i \in Open : \A j \in Open : i <= j BY <2>4, LeastNumber
  <2>6. ASSUME NEW j \in 1..(i - 1) PROVE Items(r)[Order(r)[j]] = "done"
    <3>1. i \in Nat /\ j \in DOMAIN Order(r) /\ j < i BY <2>1, <2>3, <2>5
    <3>2. j \notin Open BY <2>3, <2>5, <3>1
    <3>3. Order(r)[j] \in Node /\ Items(r)[Order(r)[j]] # "none" BY <2>1, <2>3, <3>1
    <3>4. Items(r)[Order(r)[j]] \in {"none", "todo", "paid", "done"} BY <2>0, <3>3, OrderType
    <3> QED BY <3>1, <3>2, <3>3, <3>4
  <2> QED BY <2>5, <2>6 DEF IsNext
<1>2. Init => QueueInv BY InitQueues
<1>3. RetentionInv /\ QueueInv /\ [Next]_vars => QueueInv' BY QueueStep
<1> QED BY <1>1, <1>2, <1>3, RetentionInvariance, PTL DEF Spec
=============================================================================
