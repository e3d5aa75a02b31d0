--------------------------------- MODULE Sums ---------------------------------
(* Induction over numbers and finite sets, by the least counterexample, and  *)
(* what it shows of sums: SumFunctionOnSet satisfies its recursion whatever   *)
(* element is taken first, and sums compare as their terms do.                *)
EXTENDS Naturals, FiniteSets, Functions, FiniteSetTheorems, WellFoundedInduction, TLAPS

-----------------------------------------------------------------------------
(* Induction.                                                                *)

\* A set of numbers has a least one.
LEMMA LeastNumber ==
    ASSUME NEW T \in SUBSET Nat, T # {}
    PROVE  \E x \in T : \A y \in T : x <= y
<1>1. IsWellFoundedOn(OpToRel(<, Nat), Nat)
  BY NatLessThanWellFounded
<1>2. PICK x \in T : \A y \in T : <<y, x>> \notin OpToRel(<, Nat)
  BY <1>1, WFMin
<1>3. \A y \in T : ~(y < x)
  BY <1>2 DEF OpToRel
<1> QED BY <1>3

\* A set of numbers with 0, and with the successor of each of its numbers, is Nat.
LEMMA AllNumbers ==
    ASSUME NEW T, 0 \in T, \A i \in Nat : i \in T => i + 1 \in T
    PROVE  \A i \in Nat : i \in T
<1> DEFINE U == {i \in Nat : i \notin T}
<1> SUFFICES U = {} OBVIOUS
<1> SUFFICES ASSUME U # {} PROVE FALSE OBVIOUS
<1>1. PICK x \in U : \A y \in U : x <= y
  BY LeastNumber
<1>2. x \in Nat /\ x # 0 OBVIOUS
<1>3. x - 1 \in Nat /\ x - 1 \notin U
  BY <1>1, <1>2
<1> QED BY <1>2, <1>3

\* Of some subsets of a finite set, one has no other of them below it.
LEMMA LeastSubset ==
    ASSUME NEW S, IsFiniteSet(S), NEW F \in SUBSET (SUBSET S), F # {}
    PROVE  \E s \in F : \A t \in F : t \subseteq s => t = s
<1> DEFINE sizes == {Cardinality(s) : s \in F}
<1>1. \A s \in F : IsFiniteSet(s) /\ Cardinality(s) \in Nat
  BY FS_Subset, FS_CardinalityType
<1>2. sizes \in SUBSET Nat /\ sizes # {} BY <1>1
<1>3. PICK n \in sizes : \A m \in sizes : n <= m BY <1>2, LeastNumber
<1>4. PICK s \in F : Cardinality(s) = n BY <1>3
<1>5. ASSUME NEW t \in F, t \subseteq s PROVE t = s
  <2>1. Cardinality(t) <= Cardinality(s) /\ (Cardinality(s) = Cardinality(t) => s = t)
    BY <1>1, <1>5, FS_Subset
  <2>2. Cardinality(s) <= Cardinality(t) BY <1>3, <1>4
  <2> QED BY <1>1, <2>1, <2>2
<1> QED BY <1>5

-----------------------------------------------------------------------------
(* The recursion of a sum.                                                   *)

Pick(s) == CHOOSE x \in s : TRUE

\* The sums over all subsets of S, each by its recursion.
Table(f, S, g) ==
    g = [s \in SUBSET S |-> IF s = {} THEN 0 ELSE f[Pick(s)] + g[s \ {Pick(s)}]]
TableOf(f, S) == CHOOSE g : Table(f, S, g)

LEMMA SumByTable ==
    ASSUME NEW f, NEW S
    PROVE  SumFunctionOnSet(f, S) = TableOf(f, S)[S]
BY DEF SumFunctionOnSet, FoldFunctionOnSet, MapThenFoldSet, TableOf, Table, Pick

LEMMA PickFacts ==
    ASSUME NEW S, S # {}
    PROVE  Pick(S) \in S /\ S \ {Pick(S)} \subseteq S /\ S \ {Pick(S)} # S
BY DEF Pick

LEMMA TablesAgree ==
    ASSUME NEW f, NEW S, IsFiniteSet(S), NEW T \in SUBSET S, NEW g, NEW h,
           Table(f, S, g), Table(f, T, h)
    PROVE  \A s \in SUBSET T : g[s] = h[s]
<1> DEFINE F == {s \in SUBSET T : g[s] # h[s]}
<1> SUFFICES ASSUME F # {} PROVE FALSE OBVIOUS
<1>1. IsFiniteSet(T) BY FS_Subset
<1>2. PICK s \in F : \A t \in F : t \subseteq s => t = s
  <2>1. F \in SUBSET (SUBSET T) OBVIOUS
  <2> HIDE DEF F
  <2> QED BY <1>1, <2>1, LeastSubset
<1>3. CASE s = {}
  <2>1. g[{}] = 0 /\ h[{}] = 0 BY DEF Table
  <2> QED BY <1>3, <2>1
<1>4. CASE s # {}
  <2> DEFINE t == s \ {Pick(s)}
  <2>1. t \in SUBSET T /\ t \subseteq s /\ t # s BY <1>4, PickFacts
  <2>2. g[t] = h[t] BY <1>2, <2>1
  <2>3. g[s] = f[Pick(s)] + g[t] /\ h[s] = f[Pick(s)] + h[t] BY <1>4 DEF Table
  <2> QED BY <2>2, <2>3
<1> QED BY <1>3, <1>4

\* The recursion has a solution.
LEMMA TableExists ==
    ASSUME NEW f, NEW S, IsFiniteSet(S)
    PROVE  Table(f, S, TableOf(f, S))
<1> DEFINE F == {s \in SUBSET S : ~Table(f, s, TableOf(f, s))}
<1> SUFFICES ASSUME F # {} PROVE FALSE OBVIOUS
<1>1. PICK U \in F : \A t \in F : t \subseteq U => t = U
  <2>1. F \in SUBSET (SUBSET S) OBVIOUS
  <2> HIDE DEF F
  <2> QED BY <2>1, LeastSubset
<1> DEFINE V(t) == TableOf(f, t)[t]
           g == [s \in SUBSET U |-> IF s = {} THEN 0 ELSE f[Pick(s)] + V(s \ {Pick(s)})]
<1>2. ASSUME NEW t \in SUBSET U, t # U PROVE g[t] = V(t)
  <2>1. t \in SUBSET S /\ IsFiniteSet(t) BY <1>1, FS_Subset
  <2>2. Table(f, t, TableOf(f, t)) BY <1>1, <1>2, <2>1
  <2>3. CASE t = {}
    <3>1. TableOf(f, t)[t] = 0 BY <2>2, <2>3 DEF Table
    <3> QED BY <2>3, <3>1
  <2>4. CASE t # {}
    <3> DEFINE u == t \ {Pick(t)}
    <3>1. u \in SUBSET t /\ u \in SUBSET U /\ u # U BY <1>2, <2>4, PickFacts
    <3>2. Table(f, u, TableOf(f, u)) BY <1>1, <3>1
    <3>3. TableOf(f, t)[u] = TableOf(f, u)[u] BY <2>1, <2>2, <3>1, <3>2, TablesAgree
    <3>4. TableOf(f, t)[t] = f[Pick(t)] + TableOf(f, t)[u] BY <2>2, <2>4 DEF Table
    <3>5. g[t] = f[Pick(t)] + TableOf(f, u)[u] BY <2>4
    <3> QED BY <3>3, <3>4, <3>5
  <2> QED BY <2>3, <2>4
<1>3. \A s \in SUBSET U : s # {} => V(s \ {Pick(s)}) = g[s \ {Pick(s)}]
  <2> SUFFICES ASSUME NEW s \in SUBSET U, s # {} PROVE V(s \ {Pick(s)}) = g[s \ {Pick(s)}]
    OBVIOUS
  <2>1. s \ {Pick(s)} \in SUBSET U /\ s \ {Pick(s)} # U BY PickFacts
  <2> QED BY <1>2, <2>1
<1>4. g = [s \in SUBSET U |-> IF s = {} THEN 0 ELSE f[Pick(s)] + g[s \ {Pick(s)}]]
  <2> DEFINE h == [s \in SUBSET U |-> IF s = {} THEN 0 ELSE f[Pick(s)] + g[s \ {Pick(s)}]]
  <2>1. \A s \in SUBSET U : g[s] = h[s] BY <1>3
  <2> HIDE DEF V
  <2> QED BY <2>1
<1>5. Table(f, U, g) BY <1>4 DEF Table
<1>6. Table(f, U, TableOf(f, U)) BY <1>5 DEF TableOf
<1> QED BY <1>1, <1>6

LEMMA SumRecursion ==
    ASSUME NEW f, NEW S, IsFiniteSet(S)
    PROVE  /\ S = {} => SumFunctionOnSet(f, S) = 0
           /\ S # {} => SumFunctionOnSet(f, S)
                            = f[Pick(S)] + SumFunctionOnSet(f, S \ {Pick(S)})
<1>1. Table(f, S, TableOf(f, S)) BY TableExists
<1>2. CASE S = {}
  <2>1. TableOf(f, S)[S] = 0 BY <1>1, <1>2 DEF Table
  <2> QED BY <1>2, <2>1, SumByTable
<1>3. CASE S # {}
  <2> DEFINE T == S \ {Pick(S)}
  <2>1. T \in SUBSET S /\ IsFiniteSet(T) BY <1>3, PickFacts, FS_Subset
  <2>2. TableOf(f, S)[S] = f[Pick(S)] + TableOf(f, S)[T] BY <1>1, <1>3 DEF Table
  <2>3. Table(f, T, TableOf(f, T)) BY <2>1, TableExists
  <2>4. TableOf(f, S)[T] = TableOf(f, T)[T] BY <1>1, <2>1, <2>3, TablesAgree, SMTT(30)
  <2> QED BY <1>3, <2>2, <2>4, SumByTable
<1> QED BY <1>2, <1>3
-----------------------------------------------------------------------------
(* Sums of numbers.                                                          *)

LEMMA SumIsNumber ==
    ASSUME NEW S, IsFiniteSet(S), NEW f, \A x \in S : f[x] \in Nat
    PROVE  SumFunctionOnSet(f, S) \in Nat
<1> DEFINE F == {s \in SUBSET S : SumFunctionOnSet(f, s) \notin Nat}
<1> SUFFICES ASSUME F # {} PROVE FALSE OBVIOUS
<1>1. PICK s \in F : \A t \in F : t \subseteq s => t = s
  <2>1. F \in SUBSET (SUBSET S) OBVIOUS
  <2> HIDE DEF F
  <2> QED BY <2>1, LeastSubset
<1>2. IsFiniteSet(s) /\ s \in SUBSET S BY FS_Subset
<1>3. s # {}
  <2>1. s = {} => SumFunctionOnSet(f, s) = 0 BY <1>2, SumRecursion
  <2> QED BY <2>1
<1> DEFINE t == s \ {Pick(s)}
<1>4. Pick(s) \in S /\ t \in SUBSET S /\ t \subseteq s /\ t # s BY <1>2, <1>3, PickFacts
<1>5. SumFunctionOnSet(f, t) \in Nat BY <1>1, <1>4
<1>6. SumFunctionOnSet(f, s) = f[Pick(s)] + SumFunctionOnSet(f, t) BY <1>2, <1>3, SumRecursion
<1> QED BY <1>4, <1>5, <1>6

\* Any element may be taken first.
LEMMA SumTakes ==
    ASSUME NEW S, IsFiniteSet(S), NEW f, \A x \in S : f[x] \in Nat, NEW x \in S
    PROVE  SumFunctionOnSet(f, S) = f[x] + SumFunctionOnSet(f, S \ {x})
<1> DEFINE sum(s) == SumFunctionOnSet(f, s)
           F == {s \in SUBSET S : \E y \in s : sum(s) # f[y] + sum(s \ {y})}
<1> SUFFICES ASSUME F # {} PROVE FALSE OBVIOUS
<1>1. PICK s \in F : \A t \in F : t \subseteq s => t = s
  <2>1. F \in SUBSET (SUBSET S) OBVIOUS
  <2> HIDE DEF F
  <2> QED BY <2>1, LeastSubset
<1>2. \A t \in SUBSET S : IsFiniteSet(t) /\ sum(t) \in Nat
  <2> SUFFICES ASSUME NEW t \in SUBSET S PROVE IsFiniteSet(t) /\ sum(t) \in Nat OBVIOUS
  <2>1. IsFiniteSet(t) BY FS_Subset
  <2> QED BY <2>1, SumIsNumber
<1>3. PICK y \in s : sum(s) # f[y] + sum(s \ {y}) OBVIOUS
<1> DEFINE p == Pick(s)
<1>4. p \in s /\ s \in SUBSET S /\ sum(s) = f[p] + sum(s \ {p})
  <2>1. s # {} /\ IsFiniteSet(s) BY <1>2, <1>3
  <2> QED BY <2>1, PickFacts, SumRecursion
<1> HIDE DEF p
<1>5. p # y BY <1>3, <1>4
<1>6. ASSUME NEW a \in s, NEW b \in s, a # b
      PROVE  sum(s \ {a}) = f[b] + sum(s \ {a, b})
  <2>1. s \ {a} \in SUBSET S /\ s \ {a} \subseteq s /\ s \ {a} # s /\ b \in s \ {a}
    BY <1>4, <1>6
  <2>2. s \ {a} \notin F BY <1>1, <2>1
  <2>3. sum(s \ {a}) = f[b] + sum((s \ {a}) \ {b}) BY <2>1, <2>2
  <2>4. (s \ {a}) \ {b} = s \ {a, b} OBVIOUS
  <2> QED BY <2>3, <2>4
<1>7. sum(s \ {p}) = f[y] + sum(s \ {p, y}) /\ sum(s \ {y}) = f[p] + sum(s \ {p, y})
  <2>1. {p, y} = {y, p} OBVIOUS
  <2>2. sum(s \ {p}) = f[y] + sum(s \ {p, y}) BY <1>4, <1>5, <1>6
  <2>3. sum(s \ {y}) = f[p] + sum(s \ {y, p}) BY <1>4, <1>5, <1>6
  <2> QED BY <2>1, <2>2, <2>3
<1>8. f[p] \in Nat /\ f[y] \in Nat /\ sum(s \ {p, y}) \in Nat BY <1>2, <1>4
<1> HIDE DEF sum
<1> QED BY <1>3, <1>4, <1>7, <1>8

\* A sum of smaller terms, none outside the other sum, is smaller.
LEMMA SumBelow ==
    ASSUME NEW T, IsFiniteSet(T), NEW S \in SUBSET T, NEW f, NEW g,
           \A x \in T : f[x] \in Nat, \A x \in S : g[x] \in Nat /\ f[x] <= g[x],
           \A x \in T \ S : f[x] = 0
    PROVE  SumFunctionOnSet(f, T) <= SumFunctionOnSet(g, S)
<1> DEFINE F == {t \in SUBSET T : ~(SumFunctionOnSet(f, t) <= SumFunctionOnSet(g, t \cap S))}
<1>0. SUFFICES F = {}
  <2>1. T \cap S = S OBVIOUS
  <2>2. T \notin F BY <1>0
  <2> QED BY <2>1, <2>2
<1> SUFFICES ASSUME F # {} PROVE FALSE OBVIOUS
<1>1. PICK t \in F : \A u \in F : u \subseteq t => u = t
  <2>1. F \in SUBSET (SUBSET T) OBVIOUS
  <2> HIDE DEF F
  <2> QED BY <2>1, LeastSubset
<1>2. \A u \in SUBSET T : /\ IsFiniteSet(u) /\ IsFiniteSet(u \cap S)
                          /\ SumFunctionOnSet(f, u) \in Nat /\ SumFunctionOnSet(g, u \cap S) \in Nat
  <2> SUFFICES ASSUME NEW u \in SUBSET T
               PROVE  /\ IsFiniteSet(u) /\ IsFiniteSet(u \cap S)
                      /\ SumFunctionOnSet(f, u) \in Nat /\ SumFunctionOnSet(g, u \cap S) \in Nat
    OBVIOUS
  <2>1. IsFiniteSet(u) BY FS_Subset
  <2>2. IsFiniteSet(u \cap S) BY <2>1, FS_Subset
  <2> QED BY <2>1, <2>2, SumIsNumber
<1>3. t # {}
  <2>1. ASSUME t = {} PROVE SumFunctionOnSet(f, t) = 0 /\ SumFunctionOnSet(g, t \cap S) = 0
    <3>1. t \cap S = {} BY <2>1
    <3> QED BY <1>2, <2>1, <3>1, SumRecursion
  <2> QED BY <2>1
<1>4. PICK x \in t : TRUE BY <1>3
<1> DEFINE u == t \ {x}
<1>5. u \in SUBSET T /\ u \notin F BY <1>1, <1>4
<1>6. SumFunctionOnSet(f, u) <= SumFunctionOnSet(g, u \cap S) BY <1>5
<1>7. SumFunctionOnSet(f, t) = f[x] + SumFunctionOnSet(f, u) BY <1>2, <1>4, SumTakes
<1>8. CASE x \in S
  <2>1. (t \cap S) \ {x} = u \cap S /\ x \in t \cap S BY <1>4, <1>8
  <2>2. \A y \in t \cap S : g[y] \in Nat OBVIOUS
  <2>3. SumFunctionOnSet(g, t \cap S) = g[x] + SumFunctionOnSet(g, u \cap S)
    <3>1. SumFunctionOnSet(g, t \cap S) = g[x] + SumFunctionOnSet(g, (t \cap S) \ {x})
      BY <1>2, <2>1, <2>2, SumTakes
    <3> QED BY <2>1, <3>1
  <2>4. f[x] \in Nat /\ g[x] \in Nat /\ f[x] <= g[x] BY <1>8
  <2> QED BY <1>2, <1>5, <1>6, <1>7, <2>3, <2>4
<1>9. CASE x \notin S
  <2>1. t \cap S = u \cap S /\ f[x] = 0 BY <1>4, <1>9
  <2>2. SumFunctionOnSet(f, u) \in Nat BY <1>2, <1>5
  <2>3. SumFunctionOnSet(f, t) = SumFunctionOnSet(f, u) BY <1>7, <2>1, <2>2
  <2>4. SumFunctionOnSet(f, t) <= SumFunctionOnSet(g, t \cap S) BY <1>6, <2>1, <2>3
  <2> QED BY <2>4
<1> QED BY <1>8, <1>9

\* A sum whose terms are bounded by those of two others, over no more elements.
LEMMA SumOfTwo ==
    ASSUME NEW T, IsFiniteSet(T), NEW S \in SUBSET T, NEW h, NEW f, NEW g,
           \A x \in T : f[x] \in Nat /\ g[x] \in Nat,
           \A x \in S : h[x] \in Nat /\ h[x] <= f[x] + g[x]
    PROVE  SumFunctionOnSet(h, S) <= SumFunctionOnSet(f, T) + SumFunctionOnSet(g, T)
<1> DEFINE ok(t) == SumFunctionOnSet(h, t \cap S) <= SumFunctionOnSet(f, t) + SumFunctionOnSet(g, t)
           F == {t \in SUBSET T : ~ok(t)}
<1>0. SUFFICES F = {}
  <2>1. T \cap S = S OBVIOUS
  <2>2. T \notin F BY <1>0
  <2> QED BY <2>1, <2>2
<1> SUFFICES ASSUME F # {} PROVE FALSE OBVIOUS
<1>1. PICK t \in F : \A u \in F : u \subseteq t => u = t
  <2>1. F \in SUBSET (SUBSET T) OBVIOUS
  <2> HIDE DEF F
  <2> QED BY <2>1, LeastSubset
<1>2. \A u \in SUBSET T : /\ IsFiniteSet(u) /\ IsFiniteSet(u \cap S)
                          /\ SumFunctionOnSet(f, u) \in Nat /\ SumFunctionOnSet(g, u) \in Nat
                          /\ SumFunctionOnSet(h, u \cap S) \in Nat
  <2> SUFFICES ASSUME NEW u \in SUBSET T
               PROVE  /\ IsFiniteSet(u) /\ IsFiniteSet(u \cap S)
                      /\ SumFunctionOnSet(f, u) \in Nat /\ SumFunctionOnSet(g, u) \in Nat
                      /\ SumFunctionOnSet(h, u \cap S) \in Nat
    OBVIOUS
  <2>1. IsFiniteSet(u) BY FS_Subset
  <2>2. IsFiniteSet(u \cap S) BY <2>1, FS_Subset
  <2> QED BY <2>1, <2>2, SumIsNumber
<1>3. t # {}
  <2>1. ASSUME t = {}
        PROVE  SumFunctionOnSet(f, t) = 0 /\ SumFunctionOnSet(g, t) = 0 /\ SumFunctionOnSet(h, t \cap S) = 0
    <3>1. t \cap S = {} BY <2>1
    <3> QED BY <1>2, <2>1, <3>1, SumRecursion
  <2> QED BY <2>1
<1>4. PICK x \in t : TRUE BY <1>3
<1> DEFINE u == t \ {x}
<1>5. u \in SUBSET T /\ u \notin F BY <1>1, <1>4
<1>6. ok(u) BY <1>5
<1>7. /\ SumFunctionOnSet(f, t) = f[x] + SumFunctionOnSet(f, u)
      /\ SumFunctionOnSet(g, t) = g[x] + SumFunctionOnSet(g, u)
      /\ f[x] \in Nat /\ g[x] \in Nat
  BY <1>2, <1>4, SumTakes
<1>8. CASE x \in S
  <2>1. (t \cap S) \ {x} = u \cap S /\ x \in t \cap S BY <1>4, <1>8
  <2>2. \A y \in t \cap S : h[y] \in Nat OBVIOUS
  <2>3. SumFunctionOnSet(h, t \cap S) = h[x] + SumFunctionOnSet(h, u \cap S)
    <3>1. SumFunctionOnSet(h, t \cap S) = h[x] + SumFunctionOnSet(h, (t \cap S) \ {x})
      BY <1>2, <2>1, <2>2, SumTakes
    <3> QED BY <2>1, <3>1
  <2>4. h[x] \in Nat /\ h[x] <= f[x] + g[x] BY <1>8
  <2>5. /\ SumFunctionOnSet(f, u) \in Nat /\ SumFunctionOnSet(g, u) \in Nat
        /\ SumFunctionOnSet(h, u \cap S) \in Nat
    BY <1>2, <1>5
  <2> HIDE DEF u
  <2>6. ok(t) BY <1>6, <1>7, <2>3, <2>4, <2>5
  <2> QED BY <2>6
<1>9. CASE x \notin S
  <2>1. t \cap S = u \cap S BY <1>4, <1>9
  <2>2. /\ SumFunctionOnSet(f, u) \in Nat /\ SumFunctionOnSet(g, u) \in Nat
        /\ SumFunctionOnSet(h, u \cap S) \in Nat
    BY <1>2, <1>5
  <2>3. SumFunctionOnSet(h, t \cap S) = SumFunctionOnSet(h, u \cap S) BY <2>1
  <2> HIDE DEF u
  <2>4. ok(t) BY <1>6, <1>7, <2>2, <2>3
  <2> QED BY <2>4
<1> QED BY <1>8, <1>9

\* Functions that agree have the same sum.
LEMMA SumAgrees ==
    ASSUME NEW S, IsFiniteSet(S), NEW f, NEW g, \A x \in S : f[x] \in Nat /\ f[x] = g[x]
    PROVE  SumFunctionOnSet(f, S) = SumFunctionOnSet(g, S)
<1>1. SumFunctionOnSet(f, S) <= SumFunctionOnSet(g, S) BY SumBelow
<1>2. SumFunctionOnSet(g, S) <= SumFunctionOnSet(f, S) BY SumBelow
<1>3. SumFunctionOnSet(f, S) \in Nat /\ SumFunctionOnSet(g, S) \in Nat BY SumIsNumber
<1> QED BY <1>1, <1>2, <1>3
===============================================================================
