---------------------------- MODULE ListingProofs ----------------------------
(***************************************************************************)
(* Proofs about Predicates and Listing, for every predicate, ability,      *)
(* table and page size and any number of concurrent changes.               *)
(***************************************************************************)
EXTENDS Listing, FiniteSetTheorems, WellFoundedInduction, TLAPS

(***************************************************************************)
(* Recursion over the predicates, by their depth.                          *)
(***************************************************************************)

\* A set of naturals has a least element: induction by least counterexample.
LEMMA LeastNat ==
  ASSUME NEW T, T \subseteq Nat, T # {}
  PROVE  \E n \in T : \A m \in T : n <= m
  <1> DEFINE R == {ss \in Nat \X Nat : ss[1] < ss[2]}
  <1>1. IsWellFoundedOn(R, Nat)
    BY NatLessThanWellFounded DEF OpToRel
  <1>2. PICK x \in T : \A y \in T : ~ (<<y, x>> \in R)
    BY <1>1, WFMin
  <1>3. \A y \in T : ~(y < x)
    BY <1>2
  <1>4. QED
    BY <1>3

\* What a predicate consists of (predicate.rs:14-26).
LEMMA PredicateCases ==
  ASSUME NEW p \in Conditions
  PROVE  /\ Depth[p] \in Nat
         /\ \/ p.op = "Always" /\ Parts(p) = {}
            \/ p.op = "Eq" /\ p.column \in Columns /\ p.value \in Values /\ Parts(p) = {}
            \/ p.op = "In" /\ p.column \in Columns /\ p.values \subseteq Values /\ Parts(p) = {}
            \/ p.op = "And" /\ p.parts \subseteq Conditions /\ Parts(p) = p.parts
            \/ p.op = "Or" /\ p.parts \subseteq Conditions /\ Parts(p) = p.parts
            \/ p.op = "Not" /\ p.inner \in Conditions /\ Parts(p) = {p.inner}
         /\ Parts(p) \subseteq Conditions
         /\ \A part \in Parts(p) : Depth[part] \in Nat /\ Depth[part] < Depth[p]
  <1>1. Depth[p] \in Nat /\ \A part \in Parts(p) : Depth[part] < Depth[p]
    BY PredicateAssumption
  <1>2. p \in Predicate
    BY PredicateAssumption
  <1>3. \/ p.op = "Always" /\ Parts(p) = {}
        \/ p.op = "Eq" /\ p.column \in Columns /\ p.value \in Values /\ Parts(p) = {}
        \/ p.op = "In" /\ p.column \in Columns /\ p.values \subseteq Values /\ Parts(p) = {}
        \/ p.op = "And" /\ p.parts \subseteq Conditions /\ Parts(p) = p.parts
        \/ p.op = "Or" /\ p.parts \subseteq Conditions /\ Parts(p) = p.parts
        \/ p.op = "Not" /\ p.inner \in Conditions /\ Parts(p) = {p.inner}
    BY <1>2 DEF Predicate, Parts
  <1>4. Parts(p) \subseteq Conditions
    BY <1>3
  <1>5. \A part \in Parts(p) : Depth[part] \in Nat
    BY <1>4, PredicateAssumption
  <1>6. QED
    BY <1>1, <1>3, <1>4, <1>5

\* Induction over predicates: a set that holds every predicate all of whose
\* parts it holds, holds them all.
LEMMA PredicateInduction ==
  ASSUME NEW S, \A p \in Conditions : Parts(p) \subseteq S => p \in S
  PROVE  Conditions \subseteq S
  <1> SUFFICES ASSUME NEW p \in Conditions, p \notin S PROVE FALSE
    OBVIOUS
  <1> DEFINE T == {Depth[q] : q \in Conditions \ S}
  <1>1. T \subseteq Nat /\ T # {}
    BY PredicateCases
  <1>2. PICK n \in T : \A m \in T : n <= m
    BY <1>1, LeastNat
  <1>3. PICK q \in Conditions \ S : n = Depth[q]
    BY <1>2
  <1>4. PICK part \in Parts(q) : part \notin S
    BY <1>3
  <1>5. Depth[part] \in T /\ Depth[part] < n /\ Depth[part] \in Nat /\ n \in Nat
    BY <1>3, <1>4, PredicateCases
  <1>6. QED
    BY <1>2, <1>5

\* Does f obey the recursive definition G below depth n?
Obeys(f, G, n) == \A p \in Conditions : Depth[p] < n => f[p] = G[p][f]

(* G looks at a function only at the parts of a predicate.                 *)
LooksAtParts(G, V) ==
  \A p \in Conditions : \A f, g \in [Conditions -> V] :
     (\A part \in Parts(p) : f[part] = g[part]) => G[p][f] = G[p][g]

\* Two functions that obey the same definition agree.
LEMMA ObeyingAgree ==
  ASSUME NEW V, NEW G, LooksAtParts(G, V), NEW m \in Nat, NEW n \in Nat,
         NEW f \in [Conditions -> V], NEW g \in [Conditions -> V], Obeys(f, G, m), Obeys(g, G, n)
  PROVE  \A p \in Conditions : Depth[p] < m /\ Depth[p] < n => f[p] = g[p]
  <1> DEFINE S == {p \in Conditions : Depth[p] < m /\ Depth[p] < n => f[p] = g[p]}
  <1>1. ASSUME NEW p \in Conditions, Parts(p) \subseteq S, Depth[p] < m, Depth[p] < n
        PROVE  f[p] = g[p]
    <2>1. \A part \in Parts(p) : Depth[part] < m /\ Depth[part] < n
      BY <1>1, PredicateCases
    <2>2. \A part \in Parts(p) : f[part] = g[part]
      BY <1>1, <2>1
    <2>3. G[p][f] = G[p][g]
      BY <2>2 DEF LooksAtParts
    <2>4. QED
      BY <1>1, <2>3 DEF Obeys
  <1>2. \A p \in Conditions : Parts(p) \subseteq S => p \in S
    BY <1>1
  <1> HIDE DEF S
  <1>3. Conditions \subseteq S
    BY <1>2, PredicateInduction
  <1>4. QED
    BY <1>3 DEF S

\* Below any depth there is one.
LEMMA ObeyingExists ==
  ASSUME NEW V, NEW v \in V, NEW G \in [Conditions -> [[Conditions -> V] -> V]],
         LooksAtParts(G, V), NEW n \in Nat
  PROVE  \E f \in [Conditions -> V] : Obeys(f, G, n)
  <1> DEFINE T == {k \in Nat : ~\E f \in [Conditions -> V] : Obeys(f, G, k)}
  <1> SUFFICES ASSUME T # {} PROVE FALSE
    OBVIOUS
  <1>1. PICK k \in T : \A m \in T : k <= m
    BY LeastNat
  <1>2. k \in Nat /\ ~\E f \in [Conditions -> V] : Obeys(f, G, k)
    BY <1>1
  <1>3. CASE k = 0
    <2>1. [p \in Conditions |-> v] \in [Conditions -> V]
      OBVIOUS
    <2>2. \A p \in Conditions : ~(Depth[p] < 0)
      BY PredicateCases
    <2>3. QED
      BY <1>2, <1>3, <2>1, <2>2 DEF Obeys
  <1>4. CASE k # 0
    <2>1. k - 1 \in Nat /\ k - 1 \notin T
      BY <1>1, <1>2, <1>4
    <2>2. PICK f \in [Conditions -> V] : Obeys(f, G, k - 1)
      BY <2>1
    <2> DEFINE g == [p \in Conditions |-> G[p][f]]
    <2>3. g \in [Conditions -> V]
      OBVIOUS
    <2>4. \A p \in Conditions : Depth[p] < k - 1 => g[p] = f[p]
      BY <2>2 DEF Obeys
    <2>5. ASSUME NEW p \in Conditions, Depth[p] < k PROVE g[p] = G[p][g]
      <3>1. \A part \in Parts(p) : part \in Conditions /\ Depth[part] < k - 1
        BY <1>2, <2>5, PredicateCases
      <3>2. \A part \in Parts(p) : g[part] = f[part]
        BY <2>4, <3>1
      <3>3. g[p] = G[p][f]
        OBVIOUS
      <3> HIDE DEF g
      <3>4. G[p][f] = G[p][g]
        BY <2>3, <3>2 DEF LooksAtParts
      <3>5. QED
        BY <3>3, <3>4
    <2> HIDE DEF g
    <2>6. Obeys(g, G, k)
      BY <2>5 DEF Obeys
    <2>7. QED
      BY <1>2, <2>3, <2>6
  <1>5. QED
    BY <1>3, <1>4

Solves(f, G) == \A p \in Conditions : f[p] = G[p][f]

\* Recursion over predicates: a definition that looks only at the parts of a
\* predicate has a solution.
LEMMA PredicateRecursion ==
  ASSUME NEW V, V # {}, NEW G, G \in [Conditions -> [[Conditions -> V] -> V]],
         LooksAtParts(G, V)
  PROVE  \E f \in [Conditions -> V] : Solves(f, G)
  <1> DEFINE F(n) == CHOOSE f \in [Conditions -> V] : Obeys(f, G, n)
             h == [p \in Conditions |-> F(Depth[p] + 1)[p]]
  <1>1. ASSUME NEW n \in Nat PROVE F(n) \in [Conditions -> V] /\ Obeys(F(n), G, n)
    BY ObeyingExists
  <1> HIDE DEF F
  <1>2. \A p \in Conditions : Depth[p] \in Nat /\ Depth[p] + 1 \in Nat /\ Depth[p] < Depth[p] + 1
    BY PredicateCases
  <1>3. h \in [Conditions -> V]
    BY <1>1, <1>2
  <1>4. ASSUME NEW p \in Conditions PROVE h[p] = G[p][h]
    <2> DEFINE f == F(Depth[p] + 1)
    <2>1. f \in [Conditions -> V] /\ Obeys(f, G, Depth[p] + 1) /\ h[p] = f[p]
      BY <1>1, <1>2
    <2>2. ASSUME NEW part \in Parts(p) PROVE h[part] = f[part]
      <3> DEFINE g == F(Depth[part] + 1)
      <3>1. part \in Conditions /\ Depth[part] < Depth[p]
        BY PredicateCases
      <3>2. g \in [Conditions -> V] /\ Obeys(g, G, Depth[part] + 1) /\ h[part] = g[part]
        BY <1>1, <1>2, <3>1
      <3>3. Depth[part] < Depth[part] + 1 /\ Depth[part] < Depth[p] + 1
        BY <1>2, <3>1
      <3>4. Depth[part] + 1 \in Nat /\ Depth[p] + 1 \in Nat
        BY <1>2, <3>1
      <3> HIDE DEF f, g, h
      <3>5. g[part] = f[part]
        <4>1. \A q \in Conditions : Depth[q] < Depth[part] + 1 /\ Depth[q] < Depth[p] + 1 => g[q] = f[q]
          <5> DEFINE m == Depth[part] + 1
                     n == Depth[p] + 1
          <5>1. m \in Nat /\ n \in Nat /\ Obeys(g, G, m) /\ Obeys(f, G, n)
            BY <2>1, <3>2, <3>4
          <5>2. g \in [Conditions -> V] /\ f \in [Conditions -> V] /\ LooksAtParts(G, V)
            BY <2>1, <3>2
          <5> HIDE DEF m, n
          <5>3. \A q \in Conditions : Depth[q] < m /\ Depth[q] < n => g[q] = f[q]
            BY ONLY <5>1, <5>2, ObeyingAgree
          <5>4. QED
            BY <5>3 DEF m, n
        <4>2. QED
          BY <3>1, <3>3, <4>1
      <3>6. QED
        BY <3>2, <3>5
    <2>3. f[p] = G[p][f]
      BY <1>2, <2>1 DEF Obeys
    <2> HIDE DEF f, h
    <2>4. G[p][f] = G[p][h]
      BY <1>3, <2>1, <2>2 DEF LooksAtParts
    <2>5. QED
      BY <2>1, <2>3, <2>4
  <1> HIDE DEF h
  <1>5. Solves(h, G)
    BY <1>4 DEF Solves
  <1>6. QED
    BY <1>3, <1>5

\* One level of to_condition (predicate.rs:32-45), f standing for the parts.
ConditionOf(p, f) ==
  [row \in Row |->
      CASE p.op = "Always" -> True
        [] p.op = "Eq"     -> SqlEq(row[p.column], p.value)
        [] p.op = "In"     -> SqlAny({SqlEq(row[p.column], v) : v \in p.values})
        [] p.op = "And"    -> SqlAll({f[part][row] : part \in p.parts})
        [] p.op = "Or"     -> SqlAny({f[part][row] : part \in p.parts})
        [] p.op = "Not"    -> SqlNot(f[p.inner][row])]

\* A condition is true, false or unknown of a row, if its parts are.
LEMMA ConditionOfType ==
  ASSUME NEW p \in Conditions, NEW f, \A part \in Parts(p) : f[part] \in [Row -> Truth]
  PROVE  ConditionOf(p, f) \in [Row -> Truth]
  <1> SUFFICES ASSUME NEW row \in Row PROVE ConditionOf(p, f)[row] \in Truth
    BY DEF ConditionOf
  <1>1. \A x, y : SqlEq(x, y) \in Truth
    BY DEF SqlEq, Truth
  <1>2. \A T : SqlAny(T) \in Truth /\ SqlAll(T) \in Truth
    BY DEF SqlAny, SqlAll, Truth
  <1>3. p.op = "Not" => SqlNot(f[p.inner][row]) \in Truth
    <2> SUFFICES ASSUME p.op = "Not" PROVE SqlNot(f[p.inner][row]) \in Truth
      OBVIOUS
    <2>1. f[p.inner] \in [Row -> Truth]
      BY PredicateCases
    <2>2. f[p.inner][row] \in Truth
      BY <2>1
    <2>3. QED
      BY <2>2 DEF SqlNot, Truth, True, False, Unknown
  <1>4. True \in Truth
    BY DEF Truth
  <1>5. QED
    BY <1>1, <1>2, <1>3, <1>4, PredicateCases DEF ConditionOf

\* It depends on its parts alone.
LEMMA ConditionOfParts ==
  ASSUME NEW p \in Conditions, NEW f, NEW g, \A part \in Parts(p) : f[part] = g[part]
  PROVE  ConditionOf(p, f) = ConditionOf(p, g)
  <1>1. ASSUME NEW row \in Row PROVE ConditionOf(p, f)[row] = ConditionOf(p, g)[row]
    <2>1. CASE p.op \in {"Always", "Eq", "In"}
      BY <2>1 DEF ConditionOf
    <2>2. CASE p.op \in {"And", "Or"}
      <3>1. \A part \in p.parts : f[part] = g[part]
        BY <2>2, PredicateCases
      <3>2. {f[part][row] : part \in p.parts} = {g[part][row] : part \in p.parts}
        BY <3>1
      <3>3. QED
        BY <2>2, <3>2 DEF ConditionOf
    <2>3. CASE p.op = "Not"
      <3>1. f[p.inner] = g[p.inner]
        BY <2>3, PredicateCases
      <3>2. QED
        BY <2>3, <3>1 DEF ConditionOf
    <2>4. QED
      BY <2>1, <2>2, <2>3, PredicateCases
  <1>2. QED
    BY <1>1 DEF ConditionOf

\* The recursive definition of to_condition has the meaning it reads as.
LEMMA ToCondition ==
  /\ to_condition \in [Conditions -> [Row -> Truth]]
  /\ \A p \in Conditions : to_condition[p] = ConditionOf(p, to_condition)
  <1> DEFINE V == [Row -> Truth]
             G == [p \in Conditions |-> [f \in [Conditions -> V] |-> ConditionOf(p, f)]]
  <1>1. \A p \in Conditions : \A f \in [Conditions -> V] : ConditionOf(p, f) \in V
    BY ConditionOfType, PredicateCases
  <1>2. G \in [Conditions -> [[Conditions -> V] -> V]]
    BY <1>1
  <1>3. \A p \in Conditions : \A f \in [Conditions -> V] : G[p][f] = ConditionOf(p, f)
    OBVIOUS
  <1>4. \A p \in Conditions : \A f, g \in [Conditions -> V] :
          (\A part \in Parts(p) : f[part] = g[part]) => ConditionOf(p, f) = ConditionOf(p, g)
    BY ConditionOfParts
  <1>5. V # {}
    <2>1. [row \in Row |-> True] \in V
      BY DEF Truth
    <2>2. QED
      BY <2>1
  <1> HIDE DEF V, G
  <1>6. LooksAtParts(G, V)
    BY <1>3, <1>4 DEF LooksAtParts
  <1>7. PICK f \in [Conditions -> V] : Solves(f, G)
    BY <1>2, <1>5, <1>6, PredicateRecursion
  <1>8. f = [p \in Conditions |-> ConditionOf(p, f)]
    BY <1>3, <1>7 DEF Solves
  <1>9. to_condition = [p \in Conditions |-> ConditionOf(p, to_condition)]
    BY <1>8 DEF to_condition, ConditionOf
  <1>10. \A p \in Conditions : to_condition[p] = ConditionOf(p, to_condition)
    BY <1>9
  <1>11. Conditions \subseteq {p \in Conditions : to_condition[p] \in V}
    <2> DEFINE S == {p \in Conditions : to_condition[p] \in V}
    <2>1. ASSUME NEW p \in Conditions, Parts(p) \subseteq S PROVE p \in S
      BY <1>10, <2>1, ConditionOfType DEF V
    <2> HIDE DEF S
    <2>2. Conditions \subseteq S
      BY <2>1, PredicateInduction
    <2>3. QED
      BY <2>2 DEF S
  <1>12. QED
    BY <1>9, <1>10, <1>11 DEF V

\* One level of matches (predicate.rs:50-62).
MatchesOf(p, f) ==
  [row \in Row |->
      CASE p.op = "Always" -> TRUE
        [] p.op = "Eq"     -> row[p.column] = p.value
        [] p.op = "In"     -> row[p.column] \in p.values
        [] p.op = "And"    -> \A part \in p.parts : f[part][row]
        [] p.op = "Or"     -> \E part \in p.parts : f[part][row]
        [] p.op = "Not"    -> ~f[p.inner][row]]

\* It says yes or no of a row.
LEMMA MatchesOfType ==
  ASSUME NEW p \in Conditions, NEW f
  PROVE  MatchesOf(p, f) \in [Row -> BOOLEAN]
  <1>1. ASSUME NEW row \in Row PROVE MatchesOf(p, f)[row] \in BOOLEAN
    <2>1. CASE p.op = "Always"
      BY <2>1 DEF MatchesOf
    <2>2. CASE p.op = "Eq"
      BY <2>2 DEF MatchesOf
    <2>3. CASE p.op = "In"
      BY <2>3 DEF MatchesOf
    <2>4. CASE p.op = "And"
      BY <2>4 DEF MatchesOf
    <2>5. CASE p.op = "Or"
      BY <2>5 DEF MatchesOf
    <2>6. CASE p.op = "Not"
      BY <2>6 DEF MatchesOf
    <2>7. QED
      BY <2>1, <2>2, <2>3, <2>4, <2>5, <2>6, PredicateCases
  <1>2. QED
    BY <1>1 DEF MatchesOf

\* It depends on its parts alone.
LEMMA MatchesOfParts ==
  ASSUME NEW p \in Conditions, NEW f, NEW g, \A part \in Parts(p) : f[part] = g[part]
  PROVE  MatchesOf(p, f) = MatchesOf(p, g)
  <1>1. ASSUME NEW row \in Row PROVE MatchesOf(p, f)[row] = MatchesOf(p, g)[row]
    <2>1. CASE p.op \in {"Always", "Eq", "In"}
      BY <2>1 DEF MatchesOf
    <2>2. CASE p.op \in {"And", "Or"}
      <3>1. \A part \in p.parts : f[part] = g[part]
        BY <2>2, PredicateCases
      <3>2. QED
        BY <2>2, <3>1 DEF MatchesOf
    <2>3. CASE p.op = "Not"
      <3>1. f[p.inner] = g[p.inner]
        BY <2>3, PredicateCases
      <3>2. QED
        BY <2>3, <3>1 DEF MatchesOf
    <2>4. QED
      BY <2>1, <2>2, <2>3, PredicateCases
  <1>2. QED
    BY <1>1 DEF MatchesOf

\* The recursive definition of matches has the meaning it reads as.
LEMMA Matches ==
  /\ matches \in [Conditions -> [Row -> BOOLEAN]]
  /\ \A p \in Conditions : matches[p] = MatchesOf(p, matches)
  <1> DEFINE V == [Row -> BOOLEAN]
             G == [p \in Conditions |-> [f \in [Conditions -> V] |-> MatchesOf(p, f)]]
  <1>1. \A p \in Conditions : \A f : MatchesOf(p, f) \in V
    BY MatchesOfType
  <1>2. G \in [Conditions -> [[Conditions -> V] -> V]]
    BY <1>1
  <1>3. \A p \in Conditions : \A f \in [Conditions -> V] : G[p][f] = MatchesOf(p, f)
    OBVIOUS
  <1>4. \A p \in Conditions : \A f, g \in [Conditions -> V] :
          (\A part \in Parts(p) : f[part] = g[part]) => MatchesOf(p, f) = MatchesOf(p, g)
    BY MatchesOfParts
  <1>5. V # {}
    <2>1. [row \in Row |-> TRUE] \in V
      OBVIOUS
    <2>2. QED
      BY <2>1
  <1> HIDE DEF V, G
  <1>6. LooksAtParts(G, V)
    BY <1>3, <1>4 DEF LooksAtParts
  <1>7. PICK f \in [Conditions -> V] : Solves(f, G)
    BY <1>2, <1>5, <1>6, PredicateRecursion
  <1>8. f = [p \in Conditions |-> MatchesOf(p, f)]
    BY <1>3, <1>7 DEF Solves
  <1>9. matches = [p \in Conditions |-> MatchesOf(p, matches)]
    BY <1>8 DEF matches, MatchesOf
  <1>10. QED
    BY <1>1, <1>9 DEF V

\* One level of NamesNull.
NamesNullOf(p, f) ==
  CASE p.op = "Eq" -> p.value = Null
    [] p.op = "In" -> Null \in p.values
    [] OTHER       -> \E part \in Parts(p) : f[part]

\* The recursive definition of NamesNull has the meaning it reads as.
LEMMA NamesNullMeaning ==
  /\ NamesNull \in [Conditions -> BOOLEAN]
  /\ \A p \in Conditions : NamesNull[p] = NamesNullOf(p, NamesNull)
  <1> DEFINE G == [p \in Conditions |-> [f \in [Conditions -> BOOLEAN] |-> NamesNullOf(p, f)]]
  <1>1. \A p \in Conditions : \A f : NamesNullOf(p, f) \in BOOLEAN
    <2> TAKE p \in Conditions
    <2> TAKE f
    <2>1. CASE p.op = "Eq"
      BY <2>1 DEF NamesNullOf
    <2>2. CASE p.op = "In"
      BY <2>2 DEF NamesNullOf
    <2>3. CASE p.op # "Eq" /\ p.op # "In"
      BY <2>3 DEF NamesNullOf
    <2>4. QED
      BY <2>1, <2>2, <2>3
  <1>2. G \in [Conditions -> [[Conditions -> BOOLEAN] -> BOOLEAN]]
    BY <1>1
  <1>3. \A p \in Conditions : \A f \in [Conditions -> BOOLEAN] : G[p][f] = NamesNullOf(p, f)
    OBVIOUS
  <1>4. \A p \in Conditions : \A f, g \in [Conditions -> BOOLEAN] :
          (\A part \in Parts(p) : f[part] = g[part]) => NamesNullOf(p, f) = NamesNullOf(p, g)
    BY DEF NamesNullOf
  <1>0. BOOLEAN # {}
    OBVIOUS
  <1> HIDE DEF G
  <1>5. LooksAtParts(G, BOOLEAN)
    BY <1>3, <1>4 DEF LooksAtParts
  <1>6. PICK f \in [Conditions -> BOOLEAN] : Solves(f, G)
    BY <1>0, <1>2, <1>5, PredicateRecursion
  <1>7. f = [p \in Conditions |-> NamesNullOf(p, f)]
    BY <1>3, <1>6 DEF Solves
  <1>8. NamesNull = [p \in Conditions |-> NamesNullOf(p, NamesNull)]
    BY <1>7 DEF NamesNull, NamesNullOf
  <1>9. QED
    BY <1>1, <1>8

(***************************************************************************)
(* The query filter and the response check.                                *)
(***************************************************************************)

\* When SQL's OR, AND and NOT are true and when they are false.
LEMMA SqlLogic ==
  ASSUME NEW T, T \subseteq Truth
  PROVE  /\ SqlAny(T) \in Truth /\ SqlAll(T) \in Truth
         /\ SqlAny(T) = True <=> True \in T
         /\ SqlAny(T) = False <=> \A x \in T : x = False
         /\ SqlAll(T) = True <=> \A x \in T : x = True
         /\ SqlAll(T) = False <=> False \in T
  BY DEF SqlAny, SqlAll, Truth, True, False, Unknown

LEMMA SqlNegation ==
  ASSUME NEW x \in Truth
  PROVE  /\ SqlNot(x) \in Truth
         /\ SqlNot(x) = True <=> x = False
         /\ SqlNot(x) = False <=> x = True
         /\ True # False
  BY DEF SqlNot, Truth, True, False, Unknown

\* A comparison decides for SQL what it decides in memory, unless NULL is in it.
LEMMA SqlComparison ==
  ASSUME NEW x, NEW y
  PROVE  /\ SqlEq(x, y) \in Truth
         /\ SqlEq(x, y) = True => x = y
         /\ SqlEq(x, y) = False => x # y
         /\ x # Null /\ y # Null => (SqlEq(x, y) = True \/ SqlEq(x, y) = False)
  BY DEF SqlEq, Truth, True, False, Unknown

\* What to_condition and matches make of a predicate of each kind.
LEMMA Levels ==
  ASSUME NEW p \in Conditions, NEW row \in Row
  PROVE  /\ to_condition[p][row] \in Truth /\ matches[p][row] \in BOOLEAN
         /\ p.op = "Always" => to_condition[p][row] = True /\ matches[p][row]
         /\ p.op = "Eq" => /\ to_condition[p][row] = SqlEq(row[p.column], p.value)
                           /\ matches[p][row] <=> row[p.column] = p.value
         /\ p.op = "In" => /\ to_condition[p][row] = SqlAny({SqlEq(row[p.column], v) : v \in p.values})
                           /\ matches[p][row] <=> row[p.column] \in p.values
         /\ p.op = "And" => /\ to_condition[p][row] = SqlAll({to_condition[part][row] : part \in p.parts})
                            /\ matches[p][row] <=> \A part \in p.parts : matches[part][row]
         /\ p.op = "Or" => /\ to_condition[p][row] = SqlAny({to_condition[part][row] : part \in p.parts})
                           /\ matches[p][row] <=> \E part \in p.parts : matches[part][row]
         /\ p.op = "Not" => /\ to_condition[p][row] = SqlNot(to_condition[p.inner][row])
                            /\ matches[p][row] <=> ~matches[p.inner][row]
  <1>1. to_condition[p][row] \in Truth /\ matches[p][row] \in BOOLEAN
    BY ToCondition, Matches
  <1>2. to_condition[p][row] = ConditionOf(p, to_condition)[row]
    BY ToCondition
  <1>3. matches[p][row] = MatchesOf(p, matches)[row]
    BY Matches
  <1>4. CASE p.op = "Always"
    BY <1>1, <1>2, <1>3, <1>4 DEF ConditionOf, MatchesOf
  <1>5. CASE p.op = "Eq"
    BY <1>1, <1>2, <1>3, <1>5 DEF ConditionOf, MatchesOf
  <1>6. CASE p.op = "In"
    BY <1>1, <1>2, <1>3, <1>6 DEF ConditionOf, MatchesOf
  <1>7. CASE p.op = "And"
    BY <1>1, <1>2, <1>3, <1>7 DEF ConditionOf, MatchesOf
  <1>8. CASE p.op = "Or"
    BY <1>1, <1>2, <1>3, <1>8 DEF ConditionOf, MatchesOf
  <1>9. CASE p.op = "Not"
    BY <1>1, <1>2, <1>3, <1>9 DEF ConditionOf, MatchesOf
  <1>10. QED
    BY <1>1, <1>4, <1>5, <1>6, <1>7, <1>8, <1>9, PredicateCases

Agrees(p, row) == /\ to_condition[p][row] = True => matches[p][row]
                  /\ to_condition[p][row] = False => ~matches[p][row]

\* What a predicate says for certain in SQL it says in memory too, however it
\* is nested and negated (predicate.rs:32-62).
THEOREM CertainAgrees ==
  \A p \in Conditions, row \in Row : Agrees(p, row)
  <1> DEFINE S == {p \in Conditions : \A row \in Row : Agrees(p, row)}
  <1>1. ASSUME NEW p \in Conditions, \A part \in Parts(p) : part \in S, NEW row \in Row
        PROVE  Agrees(p, row)
    <2>1. \A part \in Parts(p) : /\ part \in Conditions /\ Agrees(part, row)
                                 /\ to_condition[part][row] \in Truth
                                 /\ matches[part][row] \in BOOLEAN
      BY <1>1, PredicateCases, Levels
    <2>2. True # False
      BY DEF True, False
    <2>3. CASE p.op = "Always"
      <3>1. to_condition[p][row] = True /\ matches[p][row]
        BY <2>3, Levels
      <3>2. QED
        BY <2>2, <3>1 DEF Agrees
    <2>4. CASE p.op = "Eq"
      <3>1. /\ to_condition[p][row] = SqlEq(row[p.column], p.value)
            /\ matches[p][row] <=> row[p.column] = p.value
        BY <2>4, Levels
      <3>2. QED
        BY <3>1, SqlComparison DEF Agrees
    <2>5. CASE p.op = "In"
      <3> DEFINE T == {SqlEq(row[p.column], v) : v \in p.values}
      <3>1. T \subseteq Truth
        BY SqlComparison
      <3>2. to_condition[p][row] = SqlAny(T) /\ (matches[p][row] <=> row[p.column] \in p.values)
        BY <2>5, Levels
      <3>3. SqlAny(T) = True => \E v \in p.values : SqlEq(row[p.column], v) = True
        BY <3>1, SqlLogic
      <3>4. SqlAny(T) = False => \A v \in p.values : SqlEq(row[p.column], v) = False
        BY <3>1, SqlLogic
      <3> HIDE DEF T
      <3>5. QED
        BY <3>2, <3>3, <3>4, SqlComparison DEF Agrees
    <2>6. CASE p.op \in {"And", "Or"}
      <3> DEFINE T == {to_condition[part][row] : part \in p.parts}
      <3>1. Parts(p) = p.parts
        BY <2>6, PredicateCases
      <3>2. T \subseteq Truth
        BY <2>1, <3>1
      <3>3. /\ SqlAny(T) = True => \E part \in p.parts : to_condition[part][row] = True
            /\ SqlAny(T) = False => \A part \in p.parts : to_condition[part][row] = False
        BY <3>2, SqlLogic
      <3>4. /\ SqlAll(T) = True => \A part \in p.parts : to_condition[part][row] = True
            /\ SqlAll(T) = False => \E part \in p.parts : to_condition[part][row] = False
        BY <3>2, SqlLogic
      <3>5. CASE p.op = "And"
        <4>1. /\ to_condition[p][row] = SqlAll(T)
              /\ matches[p][row] <=> \A part \in p.parts : matches[part][row]
          BY <3>5, Levels
        <4> HIDE DEF T
        <4>2. QED
          BY <2>1, <3>1, <3>4, <4>1 DEF Agrees
      <3>6. CASE p.op = "Or"
        <4>1. /\ to_condition[p][row] = SqlAny(T)
              /\ matches[p][row] <=> \E part \in p.parts : matches[part][row]
          BY <3>6, Levels
        <4> HIDE DEF T
        <4>2. QED
          BY <2>1, <3>1, <3>3, <4>1 DEF Agrees
      <3>7. QED
        BY <2>6, <3>5, <3>6
    <2>7. CASE p.op = "Not"
      <3>1. p.inner \in Parts(p)
        BY <2>7, PredicateCases
      <3>2. /\ to_condition[p][row] = SqlNot(to_condition[p.inner][row])
            /\ matches[p][row] <=> ~matches[p.inner][row]
        BY <2>7, Levels
      <3>3. QED
        BY <2>1, <3>1, <3>2, SqlNegation DEF Agrees
    <2>8. QED
      BY <2>3, <2>4, <2>5, <2>6, <2>7, PredicateCases
  <1>2. \A p \in Conditions : Parts(p) \subseteq S => p \in S
    BY <1>1
  <1> HIDE DEF S
  <1>3. Conditions \subseteq S
    BY <1>2, PredicateInduction
  <1>4. QED
    BY <1>3 DEF S

Certain(p, row) == to_condition[p][row] = True \/ to_condition[p][row] = False

\* Without NULL in the row and the predicate, SQL is certain.
LEMMA NullFreeCertain ==
  ASSUME NEW row \in Row, \A column \in Columns : row[column] # Null
  PROVE  \A p \in Conditions : ~NamesNull[p] => Certain(p, row)
  <1> DEFINE S == {p \in Conditions : ~NamesNull[p] => Certain(p, row)}
  <1>1. ASSUME NEW p \in Conditions, \A part \in Parts(p) : part \in S, ~NamesNull[p]
        PROVE  Certain(p, row)
    <2>1. ~NamesNullOf(p, NamesNull)
      BY <1>1, NamesNullMeaning
    <2>2. p.op \notin {"Eq", "In"} => \A part \in Parts(p) : ~NamesNull[part]
      BY <2>1 DEF NamesNullOf
    <2>3. p.op \notin {"Eq", "In"} =>
            \A part \in Parts(p) : Certain(part, row) /\ to_condition[part][row] \in Truth
      BY <1>1, <2>2, PredicateCases, Levels
    <2>4. CASE p.op = "Always"
      BY <2>4, Levels DEF Certain
    <2>5. CASE p.op = "Eq"
      <3>1. p.value # Null /\ row[p.column] # Null
        BY <2>1, <2>5, PredicateCases DEF NamesNullOf
      <3>2. to_condition[p][row] = SqlEq(row[p.column], p.value)
        BY <2>5, Levels
      <3>3. QED
        BY <3>1, <3>2, SqlComparison DEF Certain
    <2>6. CASE p.op = "In"
      <3> DEFINE T == {SqlEq(row[p.column], v) : v \in p.values}
      <3>1. Null \notin p.values /\ row[p.column] # Null
        BY <2>1, <2>6, PredicateCases DEF NamesNullOf
      <3>2. T \subseteq Truth /\ \A x \in T : x = True \/ x = False
        BY <3>1, SqlComparison
      <3>3. to_condition[p][row] = SqlAny(T)
        BY <2>6, Levels
      <3> HIDE DEF T
      <3>4. QED
        BY <3>2, <3>3, SqlLogic DEF Certain
    <2>7. CASE p.op \in {"And", "Or"}
      <3> DEFINE T == {to_condition[part][row] : part \in p.parts}
      <3>1. Parts(p) = p.parts
        BY <2>7, PredicateCases
      <3>2. T \subseteq Truth /\ \A x \in T : x = True \/ x = False
        BY <2>3, <2>7, <3>1 DEF Certain
      <3>3. to_condition[p][row] \in {SqlAny(T), SqlAll(T)}
        BY <2>7, Levels
      <3> HIDE DEF T
      <3>4. QED
        BY <3>2, <3>3, SqlLogic DEF Certain
    <2>8. CASE p.op = "Not"
      <3>1. p.inner \in Parts(p)
        BY <2>8, PredicateCases
      <3>2. to_condition[p][row] = SqlNot(to_condition[p.inner][row])
        BY <2>8, Levels
      <3>3. QED
        BY <2>3, <2>8, <3>1, <3>2, SqlNegation DEF Certain
    <2>9. QED
      BY <2>4, <2>5, <2>6, <2>7, <2>8, PredicateCases
  <1>2. \A p \in Conditions : Parts(p) \subseteq S => p \in S
    BY <1>1
  <1> HIDE DEF S
  <1>3. Conditions \subseteq S
    BY <1>2, PredicateInduction
  <1>4. QED
    BY <1>3 DEF S

\* What an ability's rules are (ability.rs:70-78).
LEMMA RuleTypes ==
  ASSUME NEW a \in Abilities
  PROVE  /\ \A rule \in Grants(a) : rule \in a
         /\ \A rule \in Denials(a) : rule \in a
         /\ \A rule \in a : /\ rule \in Grants(a) \/ rule \in Denials(a)
                            /\ rule.when \in Conditions /\ rule.fields \subseteq Columns
  BY ListingAssumption DEF Grants, Denials, Rule

\* The query filter in terms of the rules (ability.rs:67-87): it selects a row
\* for which a grant is certain and every denial certainly fails.
LEMMA ConditionFor ==
  ASSUME NEW a \in Abilities, NEW row \in Row
  PROVE  condition_for(a, row) = True <=>
            /\ \E rule \in Grants(a) : to_condition[rule.when][row] = True
            /\ \A rule \in Denials(a) : to_condition[rule.when][row] = False
  <1> DEFINE P == {to_condition[rule.when][row] : rule \in Grants(a)}
             Q == {to_condition[rule.when][row] : rule \in Denials(a)}
             grant == SqlAny(P)
             deny == SqlAny(Q)
  <1>0. True # False
    BY DEF True, False
  <1>1. CASE Grants(a) = {}
    BY <1>0, <1>1 DEF condition_for
  <1>2. CASE Grants(a) # {}
    <2>1. condition_for(a, row) = SqlAll({grant, SqlNot(deny)})
      BY <1>2 DEF condition_for
    <2>2. P \subseteq Truth /\ Q \subseteq Truth
      <3>1. \A rule \in a : to_condition[rule.when][row] \in Truth
        BY RuleTypes, Levels
      <3>2. QED
        BY <3>1, RuleTypes
    <2>3. grant = True <=> \E rule \in Grants(a) : to_condition[rule.when][row] = True
      <3>1. grant = True <=> True \in P
        BY <2>2, SqlLogic
      <3> HIDE DEF grant
      <3>2. QED
        BY <3>1
    <2>4. deny = False <=> \A rule \in Denials(a) : to_condition[rule.when][row] = False
      <3>1. deny = False <=> \A x \in Q : x = False
        BY <2>2, SqlLogic
      <3> HIDE DEF deny
      <3>2. QED
        BY <3>1
    <2>5. grant \in Truth /\ deny \in Truth
      BY <2>2, SqlLogic
    <2> HIDE DEF grant, deny
    <2>6. SqlNot(deny) \in Truth /\ (SqlNot(deny) = True <=> deny = False)
      BY <2>5, SqlNegation
    <2>7. {grant, SqlNot(deny)} \subseteq Truth
      BY <2>5, <2>6
    <2>8. SqlAll({grant, SqlNot(deny)}) = True <=> \A x \in {grant, SqlNot(deny)} : x = True
      BY <2>7, SqlLogic
    <2>9. QED
      BY <2>1, <2>3, <2>4, <2>6, <2>8
  <1>3. QED
    BY <1>1, <1>2

\* What the query returns, the response check accepts (ability.rs:67-102).
LEMMA FilterSound ==
  ASSUME NEW a \in Abilities, NEW row \in Row, condition_for(a, row) = True
  PROVE  can(a, row) /\ \E rule \in Grants(a) : rule.fields \subseteq permitted_fields(a, row)
  <1>1. PICK grant \in Grants(a) : to_condition[grant.when][row] = True
    BY ConditionFor
  <1>2. \A rule \in Denials(a) : to_condition[rule.when][row] = False
    BY ConditionFor
  <1>3. grant.when \in Conditions /\ matches[grant.when][row]
    BY <1>1, RuleTypes, CertainAgrees DEF Agrees
  <1>4. \A rule \in Denials(a) : ~matches[rule.when][row]
    BY <1>2, RuleTypes, CertainAgrees DEF Agrees
  <1>5. grant.fields \subseteq permitted_fields(a, row)
    BY <1>1, <1>3 DEF permitted_fields
  <1>6. QED
    BY <1>1, <1>3, <1>4, <1>5 DEF can

\* Without NULL in the row and in the rules, it returns all of them.
LEMMA FilterExact ==
  ASSUME NEW a \in Abilities, NEW row \in Row, \A column \in Columns : row[column] # Null,
         \A rule \in a : ~NamesNull[rule.when], can(a, row)
  PROVE  condition_for(a, row) = True
  <1>1. \A rule \in a : rule.when \in Conditions /\ Certain(rule.when, row)
    BY RuleTypes, NullFreeCertain
  <1>2. \A rule \in a : Agrees(rule.when, row)
    BY <1>1, CertainAgrees
  <1>3. PICK grant \in Grants(a) : matches[grant.when][row]
    BY DEF can
  <1>4. to_condition[grant.when][row] = True
    BY <1>1, <1>2, <1>3, RuleTypes DEF Agrees, Certain
  <1>5. ASSUME NEW rule \in Denials(a) PROVE to_condition[rule.when][row] = False
    BY <1>1, <1>2, RuleTypes DEF Agrees, Certain, can
  <1>6. QED
    BY <1>3, <1>4, <1>5, ConditionFor

(***************************************************************************)
(* The first rows of a query.                                              *)
(***************************************************************************)

\* Keys are finitely many numbers.
LEMMA KeysFinite ==
  ASSUME NEW S, S \subseteq Keys
  PROVE  /\ S \subseteq Nat \ {0} /\ IsFiniteSet(S) /\ Cardinality(S) \in Nat
         /\ \A T : T \subseteq S => /\ IsFiniteSet(T) /\ Cardinality(T) \in Nat
                                    /\ Cardinality(T) <= Cardinality(S)
  <1>1. Keys \subseteq Nat \ {0} /\ IsFiniteSet(Keys)
    BY ListingAssumption, FS_Interval DEF Keys
  <1>2. IsFiniteSet(S)
    BY <1>1, FS_Subset
  <1>3. QED
    BY <1>1, <1>2, FS_Subset, FS_CardinalityType

\* Some keys have a last one.
LEMMA LastKeyOf ==
  ASSUME NEW S, S \subseteq Keys, S # {}
  PROVE  Max(S) \in S /\ \A x \in S : x <= Max(S)
  <1> DEFINE T == {LastKey - x : x \in S}
  <1>1. \A x \in S : x \in Nat /\ x <= LastKey /\ LastKey \in Nat
    BY ListingAssumption DEF Keys
  <1>2. \A x \in S : LastKey - x \in Nat
    BY <1>1
  <1>3. T \subseteq Nat /\ T # {}
    BY <1>2
  <1>4. PICK d \in T : \A y \in T : d <= y
    BY <1>3, LeastNat
  <1>5. PICK m \in S : d = LastKey - m
    BY <1>4
  <1>6. ASSUME NEW x \in S PROVE x <= m
    <2>1. LastKey - m <= LastKey - x
      BY <1>4, <1>5
    <2>2. QED
      BY <1>1, <2>1
  <1>7. \E x \in S : \A y \in S : x >= y
    BY <1>1, <1>6
  <1>8. Max(S) \in S /\ \A y \in S : Max(S) >= y
    BY <1>7 DEF Max
  <1>9. QED
    BY <1>1, <1>8

\* A key among the first n brings every lower one with it.
LEMMA LowestDownward ==
  ASSUME NEW S, S \subseteq Keys, NEW n \in Nat,
         NEW k \in Lowest(n, S), NEW j \in S, j <= k
  PROVE  j \in Lowest(n, S)
  <1> DEFINE Below(i) == {x \in S : x < i}
  <1>1. S \subseteq Nat /\ j \in Nat /\ k \in S /\ k \in Nat
    BY KeysFinite DEF Lowest
  <1>2. Below(j) \subseteq Below(k) /\ Below(k) \subseteq Keys
    <2>1. ASSUME NEW x \in S, x < j PROVE x < k
      BY <1>1, <2>1
    <2>2. QED
      BY <2>1
  <1>3. /\ Cardinality(Below(j)) <= Cardinality(Below(k))
        /\ Cardinality(Below(j)) \in Nat /\ Cardinality(Below(k)) \in Nat
    BY <1>2, KeysFinite
  <1>4. Cardinality(Below(k)) < n
    BY DEF Lowest
  <1> HIDE DEF Below
  <1>5. Cardinality(Below(j)) < n
    BY <1>3, <1>4
  <1>6. QED
    BY <1>5 DEF Lowest, Below

\* The first n of some keys are n, or all of them.
LEMMA LowestCount ==
  ASSUME NEW S, S \subseteq Keys, NEW n \in Nat
  PROVE  /\ Lowest(n, S) \subseteq S
         /\ Cardinality(Lowest(n, S)) \in Nat
         /\ Cardinality(Lowest(n, S)) <= n
         /\ Lowest(n, S) = S \/ Cardinality(Lowest(n, S)) = n
  <1> DEFINE L == Lowest(n, S)
             Below(i) == {x \in S : x < i}
  <1>1. L \subseteq S /\ S \subseteq Nat /\ IsFiniteSet(S) /\ Cardinality(L) \in Nat /\ IsFiniteSet(L)
    BY KeysFinite DEF Lowest
  <1>2. Cardinality(L) <= n
    <2>1. CASE L = {}
      BY <2>1, FS_EmptySet
    <2>2. CASE L # {}
      <3>1. PICK m \in L : \A x \in L : x <= m
        BY <1>1, <2>2, LastKeyOf
      <3>2. m \in S /\ Cardinality(Below(m)) < n
        BY DEF Lowest
      <3>3. L \subseteq Below(m) \union {m} /\ m \notin Below(m)
        <4>1. ASSUME NEW x \in L PROVE x \in S /\ (x < m \/ x = m) /\ ~(m < m)
          BY <1>1, <3>1, <3>2
        <4>2. QED
          BY <3>1, <4>1
      <3>4. IsFiniteSet(Below(m)) /\ Cardinality(Below(m)) \in Nat
        BY KeysFinite
      <3> HIDE DEF L, Below
      <3>5. /\ IsFiniteSet(Below(m) \union {m})
            /\ Cardinality(Below(m) \union {m}) = Cardinality(Below(m)) + 1
        BY <3>3, <3>4, FS_AddElement
      <3>6. Cardinality(L) <= Cardinality(Below(m) \union {m})
        BY <3>3, <3>5, FS_Subset
      <3>7. QED
        BY <1>1, <3>2, <3>4, <3>5, <3>6
    <2>3. QED
      BY <2>1, <2>2
  <1>3. CASE L # S
    <2> DEFINE T == S \ L
    <2>1. PICK k \in T : \A j \in T : k <= j
      BY <1>1, <1>3, LeastNat
    <2>2. Below(k) \subseteq L
      <3>1. ASSUME NEW x \in S, x < k PROVE x \in L
        <4>1. x \in Nat /\ k \in Nat /\ ~(k <= x)
          BY <1>1, <2>1, <3>1
        <4>2. QED
          BY <2>1, <4>1
      <3>2. QED
        BY <3>1
    <2>3. ~(Cardinality(Below(k)) < n)
      BY <2>1 DEF Lowest
    <2>4. Cardinality(Below(k)) \in Nat
      BY KeysFinite
    <2> HIDE DEF L, Below
    <2>5. Cardinality(Below(k)) <= Cardinality(L)
      BY <1>1, <2>2, FS_Subset
    <2>6. QED
      BY <1>1, <1>2, <2>3, <2>4, <2>5 DEF L
  <1>4. QED
    BY <1>1, <1>2, <1>3

\* Without NULL the filter and the check select the same rows.
LEMMA FiltersAgree ==
  ASSUME TypeOK, NEW row \in Row, NullFree(row)
  PROVE  condition_for(ability, row) = True <=> can(ability, row)
  <1>1. ability \in Abilities
    BY DEF TypeOK
  <1>2. condition_for(ability, row) = True => can(ability, row)
    BY <1>1, FilterSound
  <1>3. can(ability, row) => condition_for(ability, row) = True
    BY <1>1, FilterExact DEF NullFree
  <1>4. QED
    BY <1>2, <1>3

(***************************************************************************)
(* The traversal.                                                          *)
(***************************************************************************)

\* A page has room for one row at least, and for LargestPage at most.
LEMMA LimitType ==
  ASSUME TypeOK
  PROVE  limit \in Nat /\ 1 <= limit /\ limit <= LargestPage
  <1>1. Asked \in Nat
    BY ListingAssumption DEF TypeOK, Asked
  <1>2. LargestPage \in Nat /\ 1 <= LargestPage
    BY ListingAssumption
  <1>3. QED
    BY <1>1, <1>2 DEF limit

\* What one page holds (page.rs:68-98): the mask drops none of its rows, and it
\* reaches as far as its cursor, or to the end.
LEMMA PageFacts ==
  ASSUME TypeOK, NEW p, p = PageOf(Fetched)
  PROVE  /\ p \in Page /\ Cardinality(p.items) <= LargestPage
         /\ p.items \subseteq BeyondCursor
         /\ DOMAIN p.shown = p.items
         /\ p.has_more => Cardinality(p.items) = limit
         /\ \A k \in p.items : \E rule \in Grants(ability) : rule.fields \subseteq p.shown[k]
         /\ \/ /\ p.next_cursor \in p.items
               /\ \A k \in p.items : k <= p.next_cursor
               /\ \A k \in BeyondCursor : k <= p.next_cursor => k \in p.items
            \/ p.next_cursor = 0 /\ p.items = BeyondCursor
  <1> DEFINE B == BeyondCursor
             rows == Fetched
             items == Lowest(limit, rows)
  <1>1. limit \in Nat /\ 1 <= limit /\ limit <= LargestPage /\ limit + 1 \in Nat /\ LargestPage \in Nat
    BY LimitType, ListingAssumption
  <1>2. B \subseteq Keys /\ \A k \in B : table[k] \in Row /\ condition_for(ability, table[k]) = True
    BY DEF BeyondCursor, Selected, TypeOK
  <1>3. /\ rows \subseteq B /\ Cardinality(rows) \in Nat
        /\ rows = B \/ Cardinality(rows) = limit + 1
    BY <1>1, <1>2, LowestCount DEF Fetched
  <1>4. rows \subseteq Keys /\ IsFiniteSet(rows)
    BY <1>2, <1>3, KeysFinite
  <1>5. /\ items \subseteq rows /\ Cardinality(items) \in Nat /\ Cardinality(items) <= limit
        /\ items = rows \/ Cardinality(items) = limit
    BY <1>1, <1>4, LowestCount
  <1>6. /\ p.items = items /\ p.shown = mask_many(items)
        /\ p.has_more = (Cardinality(rows) > limit)
        /\ p.next_cursor = IF Cardinality(rows) > limit THEN Max(items) ELSE 0
        /\ p = [items |-> p.items, shown |-> p.shown,
                has_more |-> p.has_more, next_cursor |-> p.next_cursor]
    BY DEF PageOf, next_cursor
  <1> HIDE DEF rows, items, B
  <1>7. \A k \in items : can(ability, table[k])
    BY <1>2, <1>3, <1>5, FilterSound DEF TypeOK
  <1>8. p.shown = [k \in items |-> permitted_fields(ability, table[k])]
    BY <1>6, <1>7 DEF mask_many
  <1>9. \A k \in items : \E rule \in Grants(ability) : rule.fields \subseteq p.shown[k]
    BY <1>2, <1>3, <1>5, <1>8, FilterSound DEF TypeOK
  <1>10. \A k \in items : p.shown[k] \subseteq Columns
    BY <1>8, RuleTypes DEF permitted_fields, TypeOK
  <1>11. p.shown \in [items -> SUBSET Columns] /\ items \subseteq Keys
    BY <1>4, <1>5, <1>8, <1>10
  <1>12. p.next_cursor \in Keys \cup {0} => p \in Page
    <2>1. p.shown \in UNION {[keys -> SUBSET Columns] : keys \in SUBSET Keys}
      BY <1>11
    <2>2. p.has_more \in BOOLEAN /\ p.items \in SUBSET Keys
      BY <1>6, <1>11
    <2>3. ASSUME NEW s, s = p.shown,
                 s \in UNION {[keys -> SUBSET Columns] : keys \in SUBSET Keys},
                 NEW h \in BOOLEAN, h = p.has_more, NEW c \in Keys \cup {0}, c = p.next_cursor
          PROVE  p \in Page
      <3>1. p = [items |-> p.items, shown |-> s, has_more |-> h, next_cursor |-> c]
        BY ONLY <1>6, <2>3
      <3>2. [items |-> p.items, shown |-> s, has_more |-> h, next_cursor |-> c] \in Page
        BY ONLY <2>2, <2>3 DEF Page
      <3>3. QED
        BY <3>1, <3>2
    <2>4. QED
      BY <2>1, <2>2, <2>3
  <1>13. CASE Cardinality(rows) > limit
    <2>1. Cardinality(items) = limit
      BY <1>1, <1>5, <1>13
    <2>2. items # {}
      BY <1>1, <2>1, FS_EmptySet
    <2>3. Max(items) \in items /\ \A k \in items : k <= Max(items)
      BY <1>11, <2>2, LastKeyOf
    <2>4. ASSUME NEW k \in B, k <= Max(items) PROVE k \in items
      <3>1. Max(items) \in rows
        BY <1>5, <2>3
      <3>2. k \in rows
        BY <1>1, <1>2, <2>4, <3>1, LowestDownward DEF rows, Fetched, B
      <3>3. QED
        BY <1>1, <1>4, <2>3, <2>4, <3>2, LowestDownward DEF items
    <2>5. p.next_cursor = Max(items) /\ p.next_cursor \in Keys
      BY <1>6, <1>11, <1>13, <2>3
    <2>6. p \in Page
      BY <1>12, <2>5
    <2>7. QED
      BY <1>1, <1>3, <1>5, <1>6, <1>8, <1>9, <2>1, <2>3, <2>4, <2>5, <2>6 DEF B
  <1>14. CASE ~(Cardinality(rows) > limit)
    <2>1. rows = B
      BY <1>1, <1>3, <1>14
    <2>2. items = rows
      <3>1. Cardinality(items) = limit => Cardinality(items) = Cardinality(rows)
        <4>1. Cardinality(items) <= Cardinality(rows)
          BY <1>4, <1>5, FS_Subset
        <4>2. QED
          BY <1>1, <1>3, <1>5, <1>14, <4>1
      <3>2. QED
        BY <1>4, <1>5, <3>1, FS_Subset
    <2>3. p.next_cursor = 0 /\ ~p.has_more
      BY <1>6, <1>14
    <2>4. p \in Page
      BY <1>12, <2>3
    <2>5. QED
      BY <1>1, <1>3, <1>5, <1>6, <1>8, <1>9, <2>1, <2>2, <2>3, <2>4 DEF B
  <1>15. QED
    BY <1>13, <1>14

\* The beginning of a traversal.
LEMMA IInvInit == Init => IInv
  <1> SUFFICES ASSUME Init PROVE IInv
    OBVIOUS
  <1> USE DEF Init
  <1>1. TypeOK
    <2>1. changes \in 0..MaxChanges
      BY ListingAssumption
    <2>2. steady \subseteq Keys
      BY DEF Selected
    <2>3. QED
      BY <2>1, <2>2 DEF TypeOK
  <1>2. UpToCursor
    <2>1. \A k \in Keys : ~(k <= 0)
      BY DEF Keys
    <2>2. QED
      BY <2>1 DEF UpToCursor, Selected
  <1>3. StableRowsOnce
    BY DEF StableRowsOnce
  <1>4. FilterWithinCheck
    BY <1>1, FiltersAgree DEF FilterWithinCheck
  <1>5. QED
    BY <1>1, <1>2, <1>3, <1>4 DEF IInv

\* The route refuses a client without a grant, to whom no row was selected.
LEMMA ForbiddenStep ==
  ASSUME IInv, Forbidden
  PROVE  IInv'
  <1> USE DEF Forbidden
  <1>1. TypeOK'
    BY DEF IInv, TypeOK
  <1>2. True # False
    BY DEF True, False
  <1>3. steady = {}
    BY <1>2 DEF IInv, UpToCursor, Selected, can_class, condition_for
  <1>4. UpToCursor' /\ StableRowsOnce'
    BY <1>3 DEF IInv, UpToCursor, StableRowsOnce
  <1>5. FilterWithinCheck'
    BY DEF IInv, FilterWithinCheck, NullFree, limit, Asked
  <1>6. QED
    BY <1>1, <1>4, <1>5 DEF IInv

\* A page takes the client on to its cursor, or to the end (page.rs:77-98).
LEMMA ListStep ==
  ASSUME IInv, list
  PROVE  IInv'
  <1>0. TypeOK /\ UpToCursor /\ StableRowsOnce /\ FilterWithinCheck
    BY DEF IInv
  <1>1. /\ page' = PageOf(Fetched) /\ got' = got \cup DOMAIN page'.shown
        /\ inOrder' = (inOrder /\ \A k \in got, j \in DOMAIN page'.shown : k < j)
        /\ after' = IF page'.next_cursor = 0 THEN after ELSE page'.next_cursor
        /\ done' = (page'.next_cursor = 0) /\ ~done
        /\ ability' = ability /\ first' = first /\ table' = table
        /\ changes' = changes /\ steady' = steady
    BY DEF list
  <1> DEFINE p == page'
             B == BeyondCursor
  <1>2. /\ p \in Page /\ Cardinality(p.items) <= LargestPage
        /\ p.items \subseteq B /\ DOMAIN p.shown = p.items
        /\ p.has_more => Cardinality(p.items) = limit
        /\ \A k \in p.items : \E rule \in Grants(ability) : rule.fields \subseteq p.shown[k]
        /\ \/ /\ p.next_cursor \in p.items
              /\ \A k \in p.items : k <= p.next_cursor
              /\ \A k \in B : k <= p.next_cursor => k \in p.items
           \/ p.next_cursor = 0 /\ p.items = B
    BY <1>0, <1>1, PageFacts
  <1>3. /\ p.items \in SUBSET Keys /\ p.next_cursor \in Keys \cup {0}
        /\ Keys \subseteq Nat \ {0} /\ after \in Nat
    <2>1. p.items \in SUBSET Keys /\ p.next_cursor \in Keys \cup {0}
      BY ONLY <1>2 DEF Page
    <2>2. Keys \subseteq Nat \ {0}
      BY KeysFinite
    <2>3. after \in Nat
      BY <1>0, <2>2 DEF TypeOK
    <2>4. QED
      BY <2>1, <2>2, <2>3
  <1>4. /\ got \subseteq Keys /\ steady \subseteq Keys
        /\ \A k \in got : k <= after
        /\ \A k \in steady : k <= after => k \in got
        /\ steady \subseteq Selected(table)
    BY <1>0, <1>1 DEF TypeOK, UpToCursor
  <1>5. \A k \in B : k \in Keys /\ (after = 0 \/ k > after)
    BY DEF BeyondCursor, Selected
  <1>6. \A k \in steady : k \in got \/ k \in B
    BY <1>3, <1>4 DEF BeyondCursor
  <1>7. got' = got \cup p.items
    BY <1>1, <1>2
  <1> HIDE DEF p, B
  <1>8. inOrder'
    <2>1. ASSUME NEW k \in got, NEW j \in p.items PROVE k < j
      <3>1. k \in Nat \ {0} /\ k <= after
        BY <1>3, <1>4
      <3>2. j \in Nat /\ (after = 0 \/ j > after)
        BY <1>2, <1>3, <1>5
      <3>3. QED
        BY <1>3, <3>1, <3>2
    <2>2. inOrder
      BY <1>0 DEF StableRowsOnce
    <2>3. QED
      BY <1>1, <1>2, <2>1, <2>2 DEF p
  <1>9. TypeOK'
    <2>1. page' \in Page /\ Cardinality(page'.items) <= LargestPage
      BY <1>2 DEF p
    <2>2. got' \subseteq Keys
      BY <1>3, <1>4, <1>7
    <2>3. after' \in Keys \cup {0} /\ done' \in BOOLEAN
      BY <1>0, <1>1, <1>3 DEF p, TypeOK
    <2>4. QED
      BY <1>0, <1>1, <1>8, <2>1, <2>2, <2>3 DEF TypeOK
  <1>10. UpToCursor' /\ StableRowsOnce'
    <2>1. Selected(table)' = Selected(table)
      BY <1>1 DEF Selected
    <2>2. CASE p.next_cursor = 0 /\ p.items = B
      <3>1. done' /\ steady \subseteq got'
        BY <1>1, <1>6, <1>7, <2>2 DEF p
      <3>2. QED
        BY <1>1, <1>4, <1>8, <2>1, <3>1 DEF UpToCursor, StableRowsOnce
    <2>3. CASE /\ p.next_cursor \in p.items
               /\ \A k \in p.items : k <= p.next_cursor
               /\ \A k \in B : k <= p.next_cursor => k \in p.items
      <3>1. p.next_cursor # 0 /\ p.next_cursor \in Nat
        BY <1>3, <2>3
      <3>2. ~done' /\ after' = p.next_cursor
        BY <1>1, <3>1 DEF p
      <3>3. after <= p.next_cursor
        BY <1>2, <1>3, <1>5, <2>3, <3>1
      <3>4. ASSUME NEW k \in got' PROVE k <= after'
        <4>1. CASE k \in got
          BY <1>3, <1>4, <3>1, <3>2, <3>3, <4>1
        <4>2. CASE k \in p.items
          BY <2>3, <3>2, <4>2
        <4>3. QED
          BY <1>7, <4>1, <4>2
      <3>5. ASSUME NEW k \in steady, k <= after' PROVE k \in got'
        BY <1>6, <1>7, <2>3, <3>2, <3>5
      <3>6. QED
        BY <1>1, <1>4, <1>8, <2>1, <3>2, <3>4, <3>5 DEF UpToCursor, StableRowsOnce
    <2>4. QED
      BY <1>2, <2>2, <2>3
  <1>11. FilterWithinCheck'
    <2>1. limit' = limit
      BY <1>1 DEF limit, Asked
    <2>2. \A row \in Row : NullFree(row)' => (condition_for(ability, row) = True <=> can(ability, row))
      BY <1>0, <1>1 DEF FilterWithinCheck, NullFree
    <2>3. QED
      BY <1>1, <1>2, <2>1, <2>2 DEF p, FilterWithinCheck
  <1>12. QED
    BY <1>9, <1>10, <1>11 DEF IInv

\* The others' changes end the steadiness of a row, and take nothing from the
\* client.
LEMMA ChangeStep ==
  ASSUME IInv, NEW k \in Keys, NEW row \in Row \cup {None}, Change(k, row)
  PROVE  IInv'
  <1> USE DEF Change
  <1>1. TypeOK'
    <2>1. changes' \in 0..MaxChanges
      BY ListingAssumption DEF IInv, TypeOK
    <2>2. QED
      BY <2>1 DEF IInv, TypeOK
  <1>2. Selected(table)' = Selected(table')
    BY DEF Selected
  <1>3. steady' \subseteq steady /\ steady' \subseteq Selected(table')
    OBVIOUS
  <1>4. UpToCursor' /\ StableRowsOnce'
    BY <1>2, <1>3 DEF IInv, UpToCursor, StableRowsOnce
  <1>5. FilterWithinCheck'
    BY DEF IInv, FilterWithinCheck, NullFree, limit, Asked
  <1>6. QED
    BY <1>1, <1>4, <1>5 DEF IInv

LEMMA IInvStep == IInv /\ [Next]_vars => IInv'
  <1> SUFFICES ASSUME IInv, [Next]_vars PROVE IInv'
    OBVIOUS
  <1>1. CASE UNCHANGED vars
    <2>1. Selected(table)' = Selected(table) /\ limit' = limit
      BY <1>1 DEF vars, Selected, limit, Asked
    <2>2. QED
      BY <1>1, <2>1 DEF vars, IInv, TypeOK, UpToCursor, StableRowsOnce, FilterWithinCheck, NullFree
  <1>2. QED
    BY <1>1, ForbiddenStep, ListStep, ChangeStep DEF Next

\* The inductive invariant holds throughout.
THEOREM Invariance == Spec => []IInv
  BY IInvInit, IInvStep, PTL DEF Spec

\* No page is larger than the largest (page.rs:44-47, 66).
THEOREM TypeCorrect == Spec => []TypeOK
  <1>1. IInv => TypeOK
    BY DEF IInv
  <1>2. QED
    BY <1>1, Invariance, PTL

\* For any table, any page size and any number of concurrent changes, a
\* traversal brings every row that could be read all along exactly once, in
\* order (page.rs:3-8).
THEOREM TraversalIsComplete == Spec => []StableRowsOnce
  <1>1. IInv => StableRowsOnce
    BY DEF IInv
  <1>2. QED
    BY <1>1, Invariance, PTL

\* For every ability and every nesting of predicates, the response check
\* accepts what the query filter selects, and selects no more than it where
\* there is no NULL (predicate.rs:4-6, ability.rs:67-102).
THEOREM FilterIsSound == Spec => []FilterWithinCheck
  <1>1. IInv => FilterWithinCheck
    BY DEF IInv
  <1>2. QED
    BY <1>1, Invariance, PTL
=============================================================================
