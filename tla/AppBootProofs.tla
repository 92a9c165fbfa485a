---------------------------- MODULE AppBootProofs -----------------------------
(***************************************************************************)
(* Proofs about AppBoot, for any modules, keys and apps.                   *)
(***************************************************************************)
EXTENDS AppBoot, SequenceTheorems, TLAPS

(***************************************************************************)
(* Sequences, as stacks and as sets.                                       *)
(***************************************************************************)

\* The parts of a nonempty sequence that is used as a stack.
LEMMA FrontLast ==
  ASSUME NEW S, NEW q \in Seq(S), q # <<>>
  PROVE  /\ Len(q) \in Nat \ {0} /\ Last(q) = q[Len(q)] /\ Last(q) \in S
         /\ Front(q) \in Seq(S) /\ Len(Front(q)) = Len(q) - 1
         /\ \A i \in 1..(Len(q) - 1) : Front(q)[i] = q[i]
  <1>1. Len(q) \in Nat \ {0} /\ \A i \in 1..Len(q) : q[i] \in S
    BY EmptySeq, ElementOfSeq
  <1>2. Last(q) = q[Len(q)] /\ Last(q) \in S
    BY <1>1 DEF Last
  <1>3. 1 \in Int /\ Len(q) - 1 \in Int /\ \A i \in 1..(Len(q) - 1) : q[i] \in S
    BY <1>1
  <1>4. Front(q) = SubSeq(q, 1, Len(q) - 1)
    BY DEF Front
  <1>5. /\ Front(q) \in Seq(S)
        /\ Len(Front(q)) = IF 1 <= Len(q) - 1 THEN Len(q) - 1 - 1 + 1 ELSE 0
        /\ \A i \in 1..(Len(q) - 1 - 1 + 1) : Front(q)[i] = q[1 + i - 1]
    BY <1>3, <1>4, SubSeqProperties
  <1>6. Len(Front(q)) = Len(q) - 1
    <2> DEFINE n == Len(q)
               l == Len(Front(q))
    <2>1. n \in Nat \ {0} /\ l = IF 1 <= n - 1 THEN n - 1 - 1 + 1 ELSE 0
      BY <1>1, <1>5
    <2> HIDE DEF n, l
    <2>2. l = n - 1
      BY <2>1
    <2>3. QED
      BY <2>2 DEF n, l
  <1>7. \A i \in 1..(Len(q) - 1) : Front(q)[i] = q[i]
    <2>1. Len(q) - 1 - 1 + 1 = Len(q) - 1 /\ \A i \in 1..(Len(q) - 1) : 1 + i - 1 = i
      BY <1>1
    <2>2. QED
      BY <1>5, <2>1
  <1>8. QED
    BY <1>1, <1>2, <1>5, <1>6, <1>7

\* What a sequence holds is what it holds at its positions.
LEMMA SetOfSeq ==
  ASSUME NEW S, NEW q \in Seq(S)
  PROVE  /\ Len(q) \in Nat /\ DOMAIN q = 1..Len(q) /\ ToSet(q) \subseteq S
         /\ \A i \in 1..Len(q) : q[i] \in ToSet(q) /\ q[i] \in S
         /\ \A x \in ToSet(q) : \E i \in 1..Len(q) : q[i] = x
         /\ q = <<>> <=> Len(q) = 0
         /\ q = <<>> <=> ToSet(q) = {}
  <1>1. Len(q) \in Nat /\ DOMAIN q = 1..Len(q)
    BY LenProperties
  <1>2. \A i \in 1..Len(q) : q[i] \in S
    BY ElementOfSeq
  <1>3. ToSet(q) = {q[i] : i \in 1..Len(q)}
    BY <1>1 DEF ToSet
  <1>4. q = <<>> <=> Len(q) = 0
    BY EmptySeq
  <1>5. q = <<>> <=> ToSet(q) = {}
    <2>1. Len(q) # 0 => 1 \in 1..Len(q)
      BY <1>1
    <2>2. Len(q) = 0 => 1..Len(q) = {}
      BY <1>1
    <2>3. QED
      BY <1>3, <1>4, <2>1, <2>2
  <1>6. QED
    BY <1>1, <1>2, <1>3, <1>4, <1>5

\* What an element appended adds, and when the elements stay distinct.
LEMMA AppendSet ==
  ASSUME NEW S, NEW q \in Seq(S), NEW x \in S
  PROVE  /\ Append(q, x) \in Seq(S) /\ ToSet(Append(q, x)) = ToSet(q) \cup {x}
         /\ IsInjective(q) /\ x \notin ToSet(q) => IsInjective(Append(q, x))
  <1> DEFINE a == Append(q, x)
             n == Len(q)
  <1>1. /\ n \in Nat /\ DOMAIN q = 1..n /\ a \in Seq(S) /\ DOMAIN a = 1..(n + 1)
        /\ \A i \in 1..n : a[i] = q[i]
        /\ a[n + 1] = x
    BY AppendProperties, LenProperties
  <1> HIDE DEF a, n
  <1>2. ToSet(q) = {q[i] : i \in 1..n} /\ ToSet(a) = {a[i] : i \in 1..(n + 1)}
    BY <1>1 DEF ToSet
  <1>3. \A i \in 1..(n + 1) : i \in 1..n \/ i = n + 1
    BY <1>1
  <1>4. \A i \in 1..n : i \in 1..(n + 1) /\ n + 1 \in 1..(n + 1)
    BY <1>1
  <1>5. ToSet(a) = ToSet(q) \cup {x}
    <2>1. \A y \in ToSet(a) : y \in ToSet(q) \cup {x}
      BY <1>1, <1>2, <1>3
    <2>2. \A y \in ToSet(q) \cup {x} : y \in ToSet(a)
      <3>1. n + 1 \in 1..(n + 1)
        BY <1>1
      <3>2. QED
        BY <1>1, <1>2, <1>4, <3>1
    <2>3. QED
      BY <2>1, <2>2
  <1>6. ASSUME IsInjective(q), x \notin ToSet(q) PROVE IsInjective(a)
    <2>1. \A i, k \in 1..n : q[i] = q[k] => i = k
      BY <1>1, <1>6 DEF IsInjective
    <2>2. \A i \in 1..n : q[i] # x
      BY <1>2, <1>6
    <2>3. \A i, k \in 1..(n + 1) : a[i] = a[k] => i = k
      BY <1>1, <1>3, <2>1, <2>2
    <2>4. QED
      BY <1>1, <2>3 DEF IsInjective
  <1>7. QED
    BY <1>1, <1>5, <1>6 DEF a

\* What the head of a queue takes with it.
LEMMA TailSet ==
  ASSUME NEW S, NEW q \in Seq(S), q # <<>>
  PROVE  /\ Head(q) \in S /\ Tail(q) \in Seq(S)
         /\ ToSet(q) = {Head(q)} \cup ToSet(Tail(q))
  <1>1. /\ Head(q) \in S /\ Tail(q) \in Seq(S) /\ Len(Tail(q)) = Len(q) - 1
        /\ \A i \in 1..Len(Tail(q)) : Tail(q)[i] = q[i + 1]
    BY HeadTailProperties
  <1> DEFINE n == Len(q)
             t == Tail(q)
  <1>2. n \in Nat \ {0} /\ DOMAIN q = 1..n /\ DOMAIN t = 1..(n - 1) /\ Head(q) = q[1]
    BY <1>1, EmptySeq, LenProperties
  <1>3. \A i \in 1..(n - 1) : t[i] = q[i + 1]
    BY <1>1
  <1> HIDE DEF n, t
  <1>4. ToSet(q) = {q[i] : i \in 1..n} /\ ToSet(t) = {t[i] : i \in 1..(n - 1)}
    BY <1>2 DEF ToSet
  <1>5. \A y \in ToSet(q) : y \in {q[1]} \cup ToSet(t)
    <2> TAKE y \in ToSet(q)
    <2>1. PICK i \in 1..n : y = q[i]
      BY <1>4
    <2>2. CASE i = 1
      BY <2>1, <2>2
    <2>3. CASE i # 1
      <3>1. i - 1 \in 1..(n - 1) /\ i - 1 + 1 = i
        BY <1>2, <2>3
      <3>2. t[i - 1] = q[i]
        BY <1>3, <3>1
      <3>3. QED
        BY <1>4, <2>1, <3>1, <3>2
    <2>4. QED
      BY <2>2, <2>3
  <1>6. \A y \in {q[1]} \cup ToSet(t) : y \in ToSet(q)
    <2>1. 1 \in 1..n /\ \A i \in 1..(n - 1) : i + 1 \in 1..n
      BY <1>2
    <2>2. QED
      BY <1>3, <1>4, <2>1
  <1>7. ToSet(q) = {q[1]} \cup ToSet(t)
    BY <1>5, <1>6
  <1>8. QED
    BY <1>1, <1>2, <1>7 DEF t

Frame == [mod : Modules, next : Nat \ {0}]

-------------------------------------------------------------------------------
(***************************************************************************)
(* The import graph.                                                       *)
(***************************************************************************)

\* The modules a module imports are modules, and have the app's types.
LEMMA AppTypes ==
  ASSUME app \in Apps
  PROVE  /\ IsApp(app)
         /\ \A m \in Modules :
               /\ app.imports[m] \in Seq(Modules \union Keys)
               /\ Len(app.imports[m]) \in Nat
               /\ app.providers[m] \subseteq Provider
               /\ StaticImports(m) \subseteq Modules
         /\ Roots \subseteq Modules
  <1>1. IsApp(app)
    BY AppAssumption
  <1>2. Roots \subseteq Modules
    BY <1>1, SetOfSeq DEF Roots, IsApp
  <1>3. ASSUME NEW m \in Modules
        PROVE  app.imports[m] \in Seq(Modules \union Keys) /\ Len(app.imports[m]) \in Nat
    <2>1. app.imports[m] \in Seq(Modules \union Keys)
      BY <1>1 DEF IsApp
    <2>2. QED
      BY <2>1, LenProperties
  <1>4. QED
    BY <1>1, <1>2, <1>3 DEF IsApp, StaticImports, IsModule

\* reachable holds what it starts from (access.rs:250-264).
LEMMA ReachFrom ==
  ASSUME NEW from, from \subseteq Modules
  PROVE  from \subseteq reachable(from) /\ reachable(from) \subseteq Modules
  BY DEF reachable

\* It is closed under imports.
LEMMA ReachClosed ==
  ASSUME app \in Apps, NEW from, NEW x \in reachable(from)
  PROVE  StaticImports(x) \subseteq reachable(from)
  <1>1. StaticImports(x) \subseteq Modules
    BY AppTypes DEF reachable
  <1>2. QED
    BY <1>1 DEF reachable

\* It is the least such set.
LEMMA ReachLeast ==
  ASSUME NEW from, NEW S, S \subseteq Modules, from \subseteq S,
         \A x \in S : StaticImports(x) \subseteq S
  PROVE  reachable(from) \subseteq S
  BY DEF reachable

\* What is reached from a module that is reached is reached.
LEMMA ReachTrans ==
  ASSUME app \in Apps, NEW from, NEW x \in reachable(from)
  PROVE  reachable({x}) \subseteq reachable(from)
  <1>1. reachable(from) \subseteq Modules /\ {x} \subseteq reachable(from)
    BY DEF reachable
  <1>2. \A y \in reachable(from) : StaticImports(y) \subseteq reachable(from)
    BY ReachClosed
  <1>3. QED
    BY <1>1, <1>2, ReachLeast

-------------------------------------------------------------------------------
(***************************************************************************)
(* The app is fixed, and so is all that is read off it.                    *)
(***************************************************************************)

\* No step of the build changes the app.
LEMMA AppFixed ==
  ASSUME [Next]_vars
  PROVE  app' = app
  BY DEF Next, Step, Terminated, vars, VisitRoot, VisitModule, VisitDynamic, LeaveCollect,
     BeginFactories, RunFactory, BeginRegister, RegisterProviders, Override, Validate

\* Reachability, the infrastructure and well-wiredness are the app's.
LEMMA SameApp ==
  ASSUME app' = app
  PROVE  /\ \A m : StaticImports(m)' = StaticImports(m)
         /\ \A from : reachable(from)' = reachable(from)
         /\ Roots' = Roots /\ FactoryKeys' = FactoryKeys /\ Infrastructure' = Infrastructure
         /\ \A S : ProvidedBy(S)' = ProvidedBy(S)
         /\ \A m : NoCycle(m)' <=> NoCycle(m)
         /\ Acyclic' <=> Acyclic
         /\ WellWired' <=> WellWired
  <1>1. \A m : StaticImports(m)' = StaticImports(m)
    BY DEF StaticImports
  <1>2. \A from : reachable(from)' = reachable(from)
    BY <1>1 DEF reachable
  <1>3. Roots' = Roots
    BY DEF Roots
  <1>4. FactoryKeys' = FactoryKeys
    <2>1. reachable(Roots)' = reachable(Roots)
      BY <1>2, <1>3
    <2>2. QED
      BY <2>1 DEF FactoryKeys
  <1>5. Infrastructure' = Infrastructure
    BY <1>4 DEF Infrastructure
  <1>6. \A S : ProvidedBy(S)' = ProvidedBy(S)
    BY DEF ProvidedBy, Provides
  <1>7. \A m : NoCycle(m)' <=> NoCycle(m)
    BY <1>5 DEF NoCycle
  <1>8. Acyclic' <=> Acyclic
    BY <1>1, <1>2 DEF Acyclic
  <1>9. \A S : Declared(S)' = Declared(S)
    BY DEF Declared
  <1>10. \A m : Visible(m)' = Visible(m)
    BY <1>2, <1>5 DEF Visible
  <1>11. WellWired' <=> WellWired
    BY <1>2, <1>3, <1>5, <1>7, <1>9, <1>10 DEF WellWired
  <1>12. QED
    BY <1>1, <1>2, <1>3, <1>4, <1>5, <1>6, <1>7, <1>8, <1>11
-------------------------------------------------------------------------------
(***************************************************************************)
(* What a finished recursion has visited, and what registration tells      *)
(* about the app.                                                          *)
(***************************************************************************)

\* A module whose imports were all visited has its static imports marked, and
\* in the collect phase its dynamic ones queued (module.rs:257-270).
LEMMA VisitedAll ==
  ASSUME TypeOK, NEW m \in Modules, Visited(m, Len(app.imports[m]))
  PROVE  /\ StaticImports(m) \subseteq marked
         /\ phase = "collect" =>
               \A x \in ToSet(app.imports[m]) : ~IsModule(x) => x \in ToSet(queue)
  <1>1. app.imports[m] \in Seq(Modules \union Keys)
    BY AppTypes DEF TypeOK
  <1>2. \A x \in ToSet(app.imports[m]) : \E i \in 1..Len(app.imports[m]) : app.imports[m][i] = x
    BY <1>1, SetOfSeq
  <1>3. QED
    BY <1>2 DEF Visited, StaticImports

\* Once every root was visited and every call has returned, the marked modules
\* are exactly those the roots reach.
LEMMA WalkedAll ==
  ASSUME TypeOK, WalkInv, stack = <<>>, root = Len(app.roots)
  PROVE  /\ marked = reachable(Roots)
         /\ \A m \in marked : Visited(m, Len(app.imports[m]))
  <1>1. DOMAIN stack = {} /\ Active = {}
    BY DEF Active
  <1>2. \A m \in marked : m \in Modules /\ Visited(m, Len(app.imports[m]))
    BY <1>1 DEF WalkInv, TypeOK
  <1>3. \A m \in marked : StaticImports(m) \subseteq marked
    BY <1>2, VisitedAll
  <1>4. Roots \subseteq marked
    <2>1. app.roots \in Seq(Modules)
      BY AppTypes DEF TypeOK, IsApp
    <2>2. \A x \in Roots : \E i \in 1..Len(app.roots) : app.roots[i] = x
      BY <2>1, SetOfSeq DEF Roots
    <2>3. QED
      BY <2>2 DEF WalkInv
  <1>5. reachable(Roots) \subseteq marked
    BY <1>3, <1>4, ReachLeast DEF TypeOK
  <1>6. QED
    BY <1>2, <1>5 DEF WalkInv

\* A key of the container while module m registers its providers comes from
\* the infrastructure or from another module.
LEMMA HaveFromOthers ==
  ASSUME app \in Apps, NEW m \in Modules, NEW C, C \subseteq Modules, m \notin C,
         have = Infrastructure \union ProvidedBy(C),
         NEW q \in app.providers[m], q.key \in have
  PROVE  q.key \in Infrastructure
  <1>1. SUFFICES ASSUME q.key \in ProvidedBy(C) PROVE FALSE
    OBVIOUS
  <1>2. PICK n \in C : \E p \in app.providers[n] : p.key = q.key
    BY <1>1 DEF ProvidedBy, Provides
  <1>3. QED
    BY <1>2, OneDeclaration

\* When a module's loop builds all its providers, no group of them waits in a
\* cycle, and each has what it depends on (module.rs:131-153).
LEMMA BuiltIsAcyclic ==
  ASSUME app \in Apps, NEW m \in Modules, NEW C, C \subseteq Modules, m \notin C,
         have = Infrastructure \union ProvidedBy(C),
         Buildable(app.providers[m]) = app.providers[m]
  PROVE  /\ NoCycle(m)
         /\ \A p \in app.providers[m] : dependencies(p) \subseteq have \union ProvidedBy({m})
  <1> DEFINE all == app.providers[m]
             Closed(T) == \A q \in all : ReadyAfter(q, T, all) => q \in T
  <1>1. \A T \in SUBSET all : Closed(T) => all \subseteq T
    BY DEF Buildable
  <1>2. ASSUME NEW S \in (SUBSET all) \ {{}}
        PROVE  \E p \in S : \A q \in S : ~Waits(p, q) \/ q.key \in Infrastructure
    <2>1. SUFFICES ASSUME \A p \in S : \E q \in S : Waits(p, q) /\ q.key \notin Infrastructure
                   PROVE  FALSE
      OBVIOUS
    <2> DEFINE T == all \ S
    <2>2. ASSUME NEW p \in S PROVE ~ReadyAfter(p, T, all)
      <3>1. PICK q \in S : Waits(p, q) /\ q.key \notin Infrastructure
        BY <2>1
      <3>2. q \in all /\ all \ T = S
        OBVIOUS
      <3>3. q.key \notin have
        BY <3>1, <3>2, HaveFromOthers
      <3>4. q.key \notin Provides(T)
        <4>1. SUFFICES ASSUME NEW r \in T, r.key = q.key PROVE FALSE
          BY DEF Provides
        <4>2. r = q
          BY <3>2, <4>1, OneDeclaration
        <4>3. QED
          BY <4>2
      <3>5. QED
        BY <3>1, <3>2, <3>3, <3>4 DEF ReadyAfter, Waits
    <2>3. Closed(T)
      BY <2>2
    <2>4. all \subseteq T
      BY <1>1, <2>3
    <2>5. QED
      BY <2>4
  <1>3. NoCycle(m)
    BY <1>2 DEF NoCycle
  <1>4. ProvidedBy({m}) = Provides(all)
    BY DEF ProvidedBy
  <1>5. \A p \in all : dependencies(p) \subseteq have \union ProvidedBy({m})
    <2> DEFINE T == {p \in all : dependencies(p) \subseteq have \union ProvidedBy({m})}
    <2>1. ASSUME NEW q \in all, ReadyAfter(q, T, all) PROVE q \in T
      <3>1. dependencies(q) \subseteq have \union Provides(T)
        BY <2>1 DEF ReadyAfter
      <3>2. Provides(T) \subseteq Provides(all)
        BY DEF Provides
      <3>3. QED
        BY <1>4, <3>1, <3>2
    <2>2. Closed(T)
      BY <2>1
    <2>3. all \subseteq T
      BY <1>1, <2>2
    <2>4. QED
      BY <2>3
  <1>6. QED
    BY <1>3, <1>5

\* When it gets stuck, with every module it imports done, the app is not well
\* wired.
LEMMA StuckIsIllWired ==
  ASSUME app \in Apps, NEW m \in reachable(Roots), NEW C, reachable({m}) \subseteq C \union {m},
         have = Infrastructure \union ProvidedBy(C),
         Buildable(app.providers[m]) # app.providers[m]
  PROVE  ~WellWired
  <1> DEFINE all == app.providers[m]
             B == Buildable(all)
             S == all \ B
  <1>1. S \in (SUBSET all) \ {{}}
    BY DEF Buildable
  <1>2. SUFFICES ASSUME WellWired PROVE FALSE
    OBVIOUS
  <1>3. PICK p \in S : \A q \in S : ~Waits(p, q) \/ q.key \in Infrastructure
    BY <1>1, <1>2 DEF WellWired, NoCycle
  <1>4. p \in all /\ p \notin B
    OBVIOUS
  <1>5. ReadyAfter(p, B, all)
    <2>1. ASSUME NEW d \in dependencies(p) PROVE d \in have \union Provides(B)
      <3>1. Eager(p) /\ d \in p.req
        BY <2>1 DEF dependencies
      <3>2. d \in Visible(m)
        BY <1>2, <1>4, <3>1 DEF WellWired
      <3>3. CASE d \in Infrastructure
        BY <3>3
      <3>4. CASE d \in Provides(UNION {app.providers[x] : x \in reachable({m})})
        <4>0. PICK x \in reachable({m}) : \E q \in app.providers[x] : Eager(q) /\ q.key = d
          BY <3>4 DEF Provides
        <4>1. PICK q \in app.providers[x] : Eager(q) /\ q.key = d
          BY <4>0
        <4>2. CASE x \in C
          BY <4>1, <4>2 DEF ProvidedBy, Provides
        <4>3. CASE x = m /\ q \in B
          BY <4>1, <4>3 DEF Provides
        <4>4. CASE x = m /\ q \notin B
          BY <1>3, <2>1, <4>1, <4>4 DEF Waits
        <4>5. QED
          BY <4>1, <4>2, <4>3, <4>4
      <3>5. QED
        BY <3>2, <3>3, <3>4 DEF Visible
    <2>2. ASSUME NEW k \in optional_dependencies(p), NEW q \in all \ B, q.key = k
          PROVE  k \in have
      BY <1>3, <2>2 DEF Waits
    <2>3. QED
      BY <2>1, <2>2 DEF ReadyAfter
  <1>6. p \in B
    <2>1. ASSUME NEW T \in SUBSET all, \A q \in all : ReadyAfter(q, T, all) => q \in T
          PROVE  p \in T
      <3>1. B \subseteq T
        BY <2>1 DEF Buildable
      <3>2. ReadyAfter(p, T, all)
        <4>1. Provides(B) \subseteq Provides(T) /\ all \ T \subseteq all \ B
          BY <3>1 DEF Provides
        <4>2. QED
          BY <1>5, <4>1 DEF ReadyAfter
      <3>3. QED
        BY <1>4, <2>1, <3>2
    <2>2. QED
      BY <1>4, <2>1 DEF Buildable
  <1>7. QED
    BY <1>4, <1>6

\* Validation accepts exactly the well-wired among the apps whose modules all
\* registered (access.rs:185-248).
LEMMA ValidationIsExact ==
  ASSUME app \in Apps, global = Infrastructure,
         \A m \in reachable(Roots) :
            /\ NoCycle(m)
            /\ \A p \in app.providers[m] :
                  dependencies(p) \subseteq Infrastructure \union ProvidedBy(reachable(Roots))
  PROVE  WellWired <=> validate_access_graph /\ validate_resolver_membership
  <1>1. reachable(Roots) \subseteq Modules
    BY DEF reachable
  <1>2. ASSUME WellWired PROVE validate_access_graph
    <2>1. SUFFICES ASSUME NEW m \in reachable(Roots), NEW p \in app.providers[m],
                          NEW d \in Keys, AccessViolation(m, p, d)
                   PROVE  FALSE
      BY DEF validate_access_graph
    <2>2. /\ d \in p.req /\ d \notin Infrastructure /\ d \notin Declared(reachable({m}))
          /\ d \in Declared(Modules)
      BY <2>1 DEF AccessViolation, injected
    <2>3. CASE Eager(p)
      <3>1. d \in Visible(m)
        BY <1>2, <2>2, <2>3 DEF WellWired
      <3>2. QED
        BY <2>2, <3>1 DEF Visible, Provides, Declared
    <2>4. CASE ~Eager(p)
      BY <1>2, <2>2, <2>4 DEF WellWired
    <2>5. QED
      BY <2>3, <2>4
  <1>3. WellWired => validate_resolver_membership
    BY DEF WellWired, validate_resolver_membership
  <1>4. ASSUME validate_access_graph, validate_resolver_membership PROVE WellWired
    <2>1. ASSUME NEW m \in reachable(Roots), NEW p \in app.providers[m], NEW d \in p.req
          PROVE  d \in Infrastructure \/ d \in Declared(reachable({m})) \/ d \notin Declared(Modules)
      <3>1. d \in Keys
        BY <1>1, AppTypes DEF Provider
      <3>2. QED
        BY <1>4, <3>1 DEF validate_access_graph, AccessViolation, injected
    <2>2. ASSUME NEW m \in reachable(Roots), NEW p \in app.providers[m], Eager(p), NEW d \in p.req
          PROVE  d \in Visible(m)
      <3>1. d \in Infrastructure \/ d \in ProvidedBy(reachable(Roots))
        BY <2>2 DEF dependencies
      <3>2. CASE d \in Infrastructure
        BY <3>2 DEF Visible
      <3>3. CASE d \notin Infrastructure
        <4>0. PICK n \in reachable(Roots) : \E q \in app.providers[n] : Eager(q) /\ q.key = d
          BY <3>1, <3>3 DEF ProvidedBy, Provides
        <4>1. PICK q \in app.providers[n] : Eager(q) /\ q.key = d
          BY <4>0
        <4>2. d \in Declared(Modules)
          BY <1>1, <4>1 DEF Declared
        <4>3. d \in Declared(reachable({m}))
          BY <2>1, <2>2, <3>3, <4>2
        <4>4. PICK x \in reachable({m}) : \E r \in app.providers[x] : r.key = d
          BY <4>3 DEF Declared
        <4>5. x \in Modules
          BY DEF reachable
        <4>6. x = n
          BY <1>1, <4>1, <4>4, <4>5, OneDeclaration
        <4>7. QED
          BY <4>1, <4>4, <4>6 DEF Visible, Provides
      <3>4. QED
        BY <3>2, <3>3
    <2>3. QED
      BY <1>4, <2>1, <2>2 DEF WellWired, validate_resolver_membership
  <1>5. QED
    BY <1>2, <1>3, <1>4
-------------------------------------------------------------------------------
(***************************************************************************)
(* Steps of the recursion.                                                 *)
(***************************************************************************)

\* What was visited stays visited while the marks and the queue only grow.
LEMMA VisitedStays ==
  ASSUME app' = app, marked \subseteq marked',
         phase' = "collect" => phase = "collect" /\ ToSet(queue) \subseteq ToSet(queue'),
         NEW m, NEW n, Visited(m, n)
  PROVE  Visited(m, n)'
  BY DEF Visited

\* The call on top of the stack goes on to its next import.
LEMMA AdvanceEffect ==
  ASSUME TypeOK, stack # <<>>
  PROVE  /\ stack \in Seq(Frame) /\ Len(stack) \in Nat \ {0} /\ DOMAIN stack = 1..Len(stack)
         /\ Top \in Frame /\ Advance \in Seq(Frame) /\ Len(Advance) = Len(stack)
         /\ \A i \in 1..Len(stack) :
               /\ stack[i] \in Frame
               /\ Advance[i].mod = stack[i].mod
               /\ Advance[i].next = IF i = Len(stack) THEN stack[i].next + 1 ELSE stack[i].next
  <1> DEFINE n == Len(stack)
  <1>1. stack \in Seq(Frame) /\ n \in Nat \ {0} /\ DOMAIN stack = 1..n
    BY SetOfSeq DEF TypeOK, Frame
  <1>2. \A i \in 1..n : stack[i] \in Frame
    BY <1>1, SetOfSeq
  <1>3. n \in 1..n /\ Top \in Frame
    BY <1>1, <1>2 DEF Top
  <1> DEFINE f == [stack[n] EXCEPT !.next = @ + 1]
  <1>4. f \in Frame /\ f.mod = stack[n].mod /\ f.next = stack[n].next + 1
    BY <1>2, <1>3 DEF Frame
  <1> HIDE DEF n
  <1>5. Advance = [stack EXCEPT ![n] = f]
    BY DEF Advance, n
  <1>6. stack = [i \in 1..n |-> stack[i]]
    BY <1>1
  <1> HIDE DEF f
  <1>7. Advance = [i \in 1..n |-> IF i = n THEN f ELSE stack[i]]
    BY <1>5, <1>6
  <1>8. Advance \in [1..n -> Frame]
    BY <1>2, <1>4, <1>7
  <1>9. Advance \in Seq(Frame) /\ Len(Advance) = n
    BY <1>1, <1>8, LenProperties, SeqDef
  <1>10. \A i \in 1..n : Advance[i].mod = stack[i].mod
                         /\ Advance[i].next = IF i = n THEN stack[i].next + 1 ELSE stack[i].next
    BY <1>4, <1>7
  <1>11. QED
    BY <1>1, <1>2, <1>3, <1>9, <1>10 DEF n
\* A step that leaves the recursion where it is.
LEMMA WalkStays ==
  ASSUME WalkInv, UNCHANGED <<app, stack, marked, root>>,
         phase' = "collect" => phase = "collect" /\ ToSet(queue) \subseteq ToSet(queue')
  PROVE  WalkInv'
  <1>1. \A m, n : Visited(m, n) => Visited(m, n)'
    BY VisitedStays
  <1>2. Active' = Active
    BY DEF Active
  <1>3. \A from : reachable(from)' = reachable(from)
    BY SameApp
  <1>4. reachable(Roots)' = reachable(Roots)
    BY <1>3, SameApp
  <1>5. QED
    BY <1>1, <1>2, <1>3, <1>4 DEF WalkInv

\* The roots are visited in order, each unless it is marked (app.rs:292-294).
LEMMA WalkRoot ==
  ASSUME TypeOK, WalkInv, VisitRoot
  PROVE  WalkInv'
  <1> DEFINE m == app.roots[root + 1]
  <1>1. /\ UNCHANGED <<app, phase, queue>> /\ stack = <<>> /\ root' = root + 1
        /\ root < Len(app.roots)
    BY DEF VisitRoot
  <1>2. m \in Roots /\ m \in Modules /\ root \in Nat
    <2>1. app.roots \in Seq(Modules)
      BY AppTypes DEF TypeOK, IsApp
    <2>2. root + 1 \in 1..Len(app.roots) /\ root \in Nat
      BY <1>1, <2>1, SetOfSeq DEF TypeOK
    <2>3. QED
      BY <2>1, <2>2, SetOfSeq DEF Roots
  <1>3. reachable(Roots)' = reachable(Roots) /\ \A from : reachable(from)' = reachable(from)
    BY <1>1, SameApp
  <1>4. m \in reachable(Roots) /\ m \in reachable({m})
    BY <1>2, AppTypes, ReachFrom DEF TypeOK
  <1>5. Active = {}
    BY <1>1 DEF Active
  <1>6. marked' = marked \union {m}
    BY DEF VisitRoot
  <1>7. \A k, n : Visited(k, n) => Visited(k, n)'
    BY <1>1, <1>6, VisitedStays
  <1>8. (marked \subseteq reachable(Roots) /\ \A i \in 1..root : app.roots[i] \in marked)'
    <2>1. \A i \in 1..(root + 1) : i \in 1..root \/ i = root + 1
      BY <1>2
    <2>2. QED
      BY <1>1, <1>3, <1>4, <1>6, <2>1 DEF WalkInv
  <1>9. CASE m \in marked
    <2>1. stack' = <<>> /\ marked' = marked /\ DOMAIN <<>> = {}
      BY <1>1, <1>9 DEF VisitRoot
    <2>2. Active' = {}
      BY <2>1 DEF Active
    <2>3. QED
      BY <1>1, <1>5, <1>7, <1>8, <2>1, <2>2 DEF WalkInv
  <1>10. CASE m \notin marked
    <2> DEFINE f == [mod |-> m, next |-> 1]
    <2>1. stack' = <<f>> /\ DOMAIN <<f>> = {1} /\ <<f>>[1] = f /\ f.mod = m /\ f.next = 1
      BY <1>10 DEF VisitRoot
    <2>2. Active' = {m}
      BY <2>1 DEF Active
    <2>3. \A k : Visited(k, 0)'
      BY DEF Visited
    <2>4a. Len(app.imports[m]) \in Nat
      BY <1>2, AppTypes DEF TypeOK
    <2> HIDE DEF f, m
    <2>4. 1 <= Len(app.imports[m]) + 1 /\ 1 - 1 = 0
      BY <2>4a
    <2>5. \A i \in DOMAIN stack' : /\ i = 1 /\ stack'[i].mod = m /\ stack'[i].next = 1
      BY <2>1
    <2>6. (\A i \in DOMAIN stack :
              /\ stack[i].mod \in marked
              /\ stack[i].next <= Len(app.imports[stack[i].mod]) + 1
              /\ Visited(stack[i].mod, stack[i].next - 1))'
      BY <1>1, <1>6, <2>3, <2>4, <2>5
    <2>7. (\A i, k \in DOMAIN stack :
              /\ stack[i].mod = stack[k].mod => i = k
              /\ i <= k => stack[k].mod \in reachable({stack[i].mod}))'
      BY <1>3, <1>4, <2>5
    <2>8. (\A k \in marked \ Active : Visited(k, Len(app.imports[k])))'
      BY <1>1, <1>5, <1>6, <1>7, <2>2 DEF WalkInv
    <2>9. QED
      BY <1>8, <2>6, <2>7, <2>8 DEF WalkInv
  <1>11. QED
    BY <1>9, <1>10

\* An import that is marked, or that is dynamic, is passed over.
LEMMA WalkAdvances ==
  ASSUME TypeOK, WalkInv, ImportsLeft, stack' = Advance,
         UNCHANGED <<app, phase, root, marked>>, ToSet(queue) \subseteq ToSet(queue'),
         IF IsModule(ThisImport) THEN ThisImport \in marked
                                 ELSE phase = "collect" => ThisImport \in ToSet(queue')
  PROVE  WalkInv'
  <1> DEFINE n == Len(stack)
  <1>1. stack # <<>> /\ Top.next <= Len(app.imports[Top.mod])
    BY DEF ImportsLeft
  <1>2. /\ n \in Nat \ {0} /\ DOMAIN stack = 1..n /\ DOMAIN stack' = 1..n
        /\ \A i \in 1..n :
               /\ stack[i] \in Frame
               /\ stack'[i].mod = stack[i].mod
               /\ stack'[i].next = IF i = n THEN stack[i].next + 1 ELSE stack[i].next
    BY <1>1, AdvanceEffect, LenProperties
  <1>3. Top = stack[n]
    BY DEF Top
  <1> HIDE DEF n
  <1>4. reachable(Roots)' = reachable(Roots) /\ \A from : reachable(from)' = reachable(from)
    BY SameApp
  <1>5. \A k, l : Visited(k, l) => Visited(k, l)'
    BY VisitedStays
  <1>6. Active' = Active
    BY <1>2 DEF Active
  <1>7. ASSUME NEW mm, NEW t, mm = Top.mod, t = Top.next
        PROVE  Visited(mm, t)'
    <2>1. n \in 1..n /\ t \in Nat \ {0} /\ Visited(mm, t - 1)
      BY <1>2, <1>3, <1>7 DEF WalkInv, Frame
    <2> DEFINE x == app.imports[mm]
    <2>2. ASSUME NEW i \in 1..t
          PROVE  IF IsModule(x[i]) THEN x[i] \in marked'
                                   ELSE phase' = "collect" => x[i] \in ToSet(queue')
      <3>1. CASE i = t
        BY <1>7, <3>1 DEF ThisImport
      <3>2. CASE i # t
        <4>1. i \in 1..(t - 1)
          BY <2>1, <3>2
        <4>2. QED
          BY <2>1, <4>1 DEF Visited
      <3>3. QED
        BY <3>1, <3>2
    <2>3. QED
      BY <2>2 DEF Visited, IsModule
  <1>8. ASSUME NEW i \in 1..n
        PROVE  /\ stack'[i].mod \in marked
               /\ stack'[i].next <= Len(app.imports[stack'[i].mod]) + 1
               /\ \A mm, t : mm = stack'[i].mod /\ t = stack'[i].next - 1 => Visited(mm, t)'
    <2>1. /\ stack[i].mod \in marked /\ stack[i].mod \in Modules /\ stack[i].next \in Nat \ {0}
          /\ stack[i].next <= Len(app.imports[stack[i].mod]) + 1
          /\ Visited(stack[i].mod, stack[i].next - 1)
      BY <1>2 DEF WalkInv, Frame
    <2>2. Len(app.imports[stack[i].mod]) \in Nat
      BY <2>1, AppTypes DEF TypeOK
    <2>3. CASE i = n
      <3>1. stack'[i].next - 1 = Top.next /\ stack'[i].mod = Top.mod
        BY <1>2, <1>3, <2>1, <2>3
      <3>2. stack'[i].next = Top.next + 1 /\ Top.next \in Nat
        BY <1>2, <1>3, <2>1, <2>3
      <3>3. stack'[i].next <= Len(app.imports[stack'[i].mod]) + 1
        BY <1>1, <1>3, <2>2, <2>3, <3>1, <3>2
      <3>4. QED
        BY <1>2, <1>7, <2>1, <3>1, <3>3
    <2>4. CASE i # n
      BY <1>2, <1>5, <2>1, <2>4
    <2>5. QED
      BY <2>3, <2>4
  <1>9. (\A i \in DOMAIN stack :
            /\ stack[i].mod \in marked
            /\ stack[i].next <= Len(app.imports[stack[i].mod]) + 1
            /\ Visited(stack[i].mod, stack[i].next - 1))'
    BY <1>2, <1>8
  <1>10. (\A i, k \in DOMAIN stack :
             /\ stack[i].mod = stack[k].mod => i = k
             /\ i <= k => stack[k].mod \in reachable({stack[i].mod}))'
    <2>1. ASSUME NEW i \in 1..n, NEW k \in 1..n
          PROVE  /\ stack'[i].mod = stack'[k].mod => i = k
                 /\ i <= k => stack'[k].mod \in reachable({stack'[i].mod})
      <3>1. /\ stack[i].mod = stack[k].mod => i = k
            /\ i <= k => stack[k].mod \in reachable({stack[i].mod})
        BY <1>2 DEF WalkInv
      <3>2. stack'[i].mod = stack[i].mod /\ stack'[k].mod = stack[k].mod
        BY <1>2
      <3>3. QED
        BY <3>1, <3>2
    <2>2. QED
      BY <1>2, <1>4, <2>1
  <1>11. QED
    BY <1>4, <1>5, <1>6, <1>9, <1>10 DEF WalkInv

\* The position after an import, and before the end of the list.
LEMMA NextPosition ==
  ASSUME NEW a, NEW b \in Nat, NEW l \in Nat, a = b + 1
  PROVE  a - 1 = b /\ (b <= l => a <= l + 1)
  OBVIOUS

\* An import that is not marked is marked and called (module.rs:245-254).
LEMMA WalkPushes ==
  ASSUME TypeOK, WalkInv, ImportsLeft, IsModule(ThisImport), ThisImport \notin marked,
         stack' = Append(Advance, [mod |-> ThisImport, next |-> 1]),
         marked' = marked \union {ThisImport}, UNCHANGED <<app, phase, root, queue>>
  PROVE  WalkInv'
  <1> DEFINE n == Len(stack)
             x == ThisImport
             f == [mod |-> x, next |-> 1]
  <1>1. stack # <<>> /\ Top.next <= Len(app.imports[Top.mod])
    BY DEF ImportsLeft
  <1>2. /\ n \in Nat \ {0} /\ DOMAIN stack = 1..n
        /\ Advance \in Seq(Frame) /\ Len(Advance) = n
        /\ \A i \in 1..n :
               /\ stack[i] \in Frame
               /\ Advance[i].mod = stack[i].mod
               /\ Advance[i].next = IF i = n THEN stack[i].next + 1 ELSE stack[i].next
    BY <1>1, AdvanceEffect
  <1>3. Top = stack[n] /\ n \in 1..n /\ Top \in Frame
    <2>1. Top = stack[n] /\ Top \in Frame
      BY <1>1, AdvanceEffect DEF Top
    <2> HIDE DEF n
    <2>2. n \in 1..n
      BY <1>2
    <2>3. QED
      BY <2>1, <2>2
  <1>4. f \in Frame /\ f.mod = x /\ f.next = 1 /\ x \in Modules
    BY DEF Frame, IsModule
  <1>5. /\ DOMAIN stack' = 1..(n + 1) /\ stack'[n + 1] = f
        /\ \A i \in 1..n : stack'[i] = Advance[i]
    <2> DEFINE A == Advance
               q == Append(A, f)
    <2>1. A \in Seq(Frame) /\ Len(A) = n /\ stack' = q
      BY <1>2
    <2> HIDE DEF A, f, n
    <2>2. /\ q \in Seq(Frame) /\ Len(q) = Len(A) + 1 /\ q[Len(A) + 1] = f
          /\ \A i \in 1..Len(A) : q[i] = A[i]
      BY <1>4, <2>1, AppendProperties
    <2>3. DOMAIN q = 1..Len(q)
      BY <2>2, LenProperties
    <2> HIDE DEF q
    <2>4. QED
      BY <2>1, <2>2, <2>3 DEF A
  <1>6. x \in StaticImports(Top.mod)
    <2>1. Top.mod \in Modules /\ Top.next \in 1..Len(app.imports[Top.mod])
      BY <1>1, <1>3, AppTypes, SetOfSeq DEF TypeOK, Frame
    <2>2. app.imports[Top.mod] \in Seq(Modules \union Keys)
      BY <2>1, AppTypes DEF TypeOK
    <2>3. x \in ToSet(app.imports[Top.mod])
      BY <2>1, <2>2, SetOfSeq DEF ThisImport
    <2>4. QED
      BY <2>3 DEF StaticImports
  <1>7. Top.mod \in reachable(Roots) /\ \A i \in 1..n : Top.mod \in reachable({stack[i].mod})
    <2> HIDE DEF n
    <2>1. \A i \in 1..n : i <= n
      BY <1>2
    <2>2. QED
      BY <1>2, <1>3, <2>1 DEF WalkInv
  <1>8. x \in reachable(Roots) /\ \A i \in 1..n : x \in reachable({stack[i].mod})
    BY <1>6, <1>7, ReachClosed DEF TypeOK
  <1> HIDE DEF n, x, f
  <1>9. reachable(Roots)' = reachable(Roots) /\ \A from : reachable(from)' = reachable(from)
    BY SameApp
  <1>10. \A k, l : Visited(k, l) => Visited(k, l)'
    BY VisitedStays
  <1>11. x \in marked' /\ marked' = marked \union {x} /\ x \notin marked
    BY DEF x
  <1>12. \A i \in 1..n : stack[i].mod # x
    BY <1>2, <1>11 DEF WalkInv
  <1>13. Active' = Active \union {x}
    <2>1. \A i \in 1..(n + 1) : i \in 1..n \/ i = n + 1
      BY <1>2
    <2>2. n + 1 \in 1..(n + 1) /\ \A i \in 1..n : i \in 1..(n + 1)
      BY <1>2
    <2>3. Active' = {stack'[i].mod : i \in 1..(n + 1)} /\ Active = {stack[i].mod : i \in 1..n}
      BY <1>2, <1>5 DEF Active
    <2>4. \A i \in 1..n : stack'[i].mod = stack[i].mod
      BY <1>2, <1>5
    <2>5. stack'[n + 1].mod = x
      BY <1>4, <1>5
    <2>6. QED
      BY <2>1, <2>2, <2>3, <2>4, <2>5
  <1>14. ASSUME NEW mm, NEW t, mm = Top.mod, t = Top.next
         PROVE  Visited(mm, t)'
    <2>1. t \in Nat \ {0} /\ Visited(mm, t - 1)
      BY <1>2, <1>3, <1>14 DEF WalkInv, Frame
    <2> DEFINE y == app.imports[mm]
    <2>2. Visited(mm, t - 1)'
      BY <1>10, <2>1
    <2>3. ASSUME NEW i \in 1..t
          PROVE  IF IsModule(y[i]) THEN y[i] \in marked'
                                   ELSE phase' = "collect" => y[i] \in ToSet(queue')
      <3>1. CASE i = t
        BY <1>11, <1>14, <3>1 DEF ThisImport, x
      <3>2. CASE i # t
        <4>1. i \in 1..(t - 1)
          BY <2>1, <3>2
        <4>2. QED
          BY <2>2, <4>1 DEF Visited, IsModule
      <3>3. QED
        BY <3>1, <3>2
    <2>4. QED
      BY <2>3 DEF Visited, IsModule
  <1>15. ASSUME NEW i \in 1..(n + 1)
         PROVE  /\ stack'[i].mod \in marked'
                /\ stack'[i].next <= Len(app.imports[stack'[i].mod]) + 1
                /\ \A mm, t : mm = stack'[i].mod /\ t = stack'[i].next - 1 => Visited(mm, t)'
    <2>1. CASE i = n + 1
      <3>1. stack'[i].mod = x /\ stack'[i].next = 1
        BY <1>4, <1>5, <2>1
      <3>2. Len(app.imports[x]) \in Nat
        BY <1>4, AppTypes, SetOfSeq DEF TypeOK
      <3>3. \A mm : Visited(mm, 0)'
        BY DEF Visited
      <3>4. stack'[i].next - 1 = 0 /\ stack'[i].next <= Len(app.imports[x]) + 1
        <4>1. 1 = 0 + 1 /\ 0 \in Nat
          OBVIOUS
        <4>2. \A l \in Nat : 0 <= l
          OBVIOUS
        <4>3. QED
          BY <3>1, <3>2, <4>1, <4>2, NextPosition, Zenon
      <3>5. QED
        BY <1>11, <3>1, <3>3, <3>4
    <2>2. CASE i # n + 1
      <3>1. i \in 1..n
        BY <1>2, <2>2
      <3>2. /\ stack[i].mod \in marked /\ stack[i].mod \in Modules /\ stack[i].next \in Nat \ {0}
            /\ stack[i].next <= Len(app.imports[stack[i].mod]) + 1
            /\ Visited(stack[i].mod, stack[i].next - 1)
        BY <1>2, <3>1 DEF WalkInv, Frame
      <3>3. Len(app.imports[stack[i].mod]) \in Nat
        BY <3>2, AppTypes DEF TypeOK
      <3>4. /\ stack'[i].mod = stack[i].mod
            /\ stack'[i].next = IF i = n THEN stack[i].next + 1 ELSE stack[i].next
        BY <1>2, <1>5, <3>1
      <3>5. CASE i = n
        <4>0. stack[i] = Top
          BY <1>3, <3>5
        <4>2. stack'[i].next = Top.next + 1 /\ Top.next \in Nat /\ stack'[i].mod = Top.mod
          BY <3>2, <3>4, <3>5, <4>0
        <4>1. stack'[i].next - 1 = Top.next /\ stack'[i].mod = Top.mod
          BY <3>3, <4>2, NextPosition, Zenon
        <4>3. stack'[i].next <= Len(app.imports[stack'[i].mod]) + 1
          BY <1>1, <3>3, <4>0, <4>2, NextPosition, Zenon
        <4>4. QED
          BY <1>11, <1>14, <3>2, <3>4, <4>1, <4>3
      <3>6. CASE i # n
        BY <1>10, <1>11, <3>2, <3>4, <3>6
      <3>7. QED
        BY <3>5, <3>6
    <2>3. QED
      BY <2>1, <2>2
  <1>16. (\A i \in DOMAIN stack :
             /\ stack[i].mod \in marked
             /\ stack[i].next <= Len(app.imports[stack[i].mod]) + 1
             /\ Visited(stack[i].mod, stack[i].next - 1))'
    BY <1>5, <1>15
  <1>17. ASSUME NEW i \in 1..(n + 1), NEW k \in 1..(n + 1)
         PROVE  /\ stack'[i].mod = stack'[k].mod => i = k
                /\ i <= k => stack'[k].mod \in reachable({stack'[i].mod})
    <2>1. \A l \in 1..n : stack'[l].mod = stack[l].mod
      BY <1>2, <1>5
    <2>2. stack'[n + 1].mod = x /\ x \in reachable({x})
      BY <1>4, <1>5, ReachFrom
    <2>3. (i \in 1..n \/ i = n + 1) /\ (k \in 1..n \/ k = n + 1)
      BY <1>2
    <2>4. CASE i \in 1..n /\ k \in 1..n
      <3>1. /\ stack[i].mod = stack[k].mod => i = k
            /\ i <= k => stack[k].mod \in reachable({stack[i].mod})
        BY <1>2, <2>4 DEF WalkInv
      <3>2. stack'[i].mod = stack[i].mod /\ stack'[k].mod = stack[k].mod
        BY <2>1, <2>4
      <3>3. QED
        BY <3>1, <3>2
    <2>5. CASE i \in 1..n /\ k = n + 1
      BY <1>8, <1>12, <2>1, <2>2, <2>5
    <2>6. CASE i = n + 1 /\ k \in 1..n
      BY <1>2, <1>12, <2>1, <2>2, <2>6
    <2>7. CASE i = n + 1 /\ k = n + 1
      BY <2>2, <2>7
    <2>8. QED
      BY <2>3, <2>4, <2>5, <2>6, <2>7
  <1>18. (\A i, k \in DOMAIN stack :
             /\ stack[i].mod = stack[k].mod => i = k
             /\ i <= k => stack[k].mod \in reachable({stack[i].mod}))'
    BY <1>5, <1>9, <1>17
  <1>19. (marked \subseteq reachable(Roots) /\ \A i \in 1..root : app.roots[i] \in marked)'
    BY <1>8, <1>9, <1>11 DEF WalkInv
  <1>20. (\A m \in marked \ Active : Visited(m, Len(app.imports[m])))'
    BY <1>10, <1>11, <1>13 DEF WalkInv
  <1>21. QED
    BY <1>16, <1>18, <1>19, <1>20 DEF WalkInv

\* A call whose imports were all visited returns.
LEMMA WalkPops ==
  ASSUME TypeOK, WalkInv, stack # <<>>, ~ImportsLeft, stack' = Front(stack),
         UNCHANGED <<app, phase, root, marked, queue>>
  PROVE  /\ WalkInv' /\ Top.mod \in Active /\ Active' = Active \ {Top.mod}
         /\ Visited(Top.mod, Len(app.imports[Top.mod])) /\ Top.mod \in marked
  <1> DEFINE n == Len(stack)
  <1>1. /\ n \in Nat \ {0} /\ DOMAIN stack = 1..n /\ stack \in Seq(Frame)
        /\ \A i \in 1..n : stack[i] \in Frame
    BY AdvanceEffect
  <1>2. Top = stack[n] /\ n \in 1..n /\ Top \in Frame
    BY <1>1 DEF Top
  <1>3. DOMAIN stack' = 1..(n - 1) /\ \A i \in 1..(n - 1) : stack'[i] = stack[i]
    BY <1>1, FrontLast, LenProperties
  <1> HIDE DEF n
  <1>4. reachable(Roots)' = reachable(Roots) /\ \A from : reachable(from)' = reachable(from)
    BY SameApp
  <1>5. \A k, l : Visited(k, l) <=> Visited(k, l)'
    BY DEF Visited, IsModule
  <1>6. Visited(Top.mod, Len(app.imports[Top.mod]))
    <2>1. /\ Top.next <= Len(app.imports[Top.mod]) + 1
          /\ ~(Top.next <= Len(app.imports[Top.mod]))
          /\ Visited(Top.mod, Top.next - 1)
      BY <1>1, <1>2 DEF WalkInv, ImportsLeft
    <2>2. Len(app.imports[Top.mod]) \in Nat /\ Top.next \in Nat
      BY <1>2, AppTypes DEF TypeOK, Frame
    <2>3. Top.next - 1 = Len(app.imports[Top.mod])
      BY <2>1, <2>2
    <2>4. QED
      BY <2>1, <2>3
  <1>7. \A i \in 1..(n - 1) : i \in 1..n /\ i # n
    BY <1>1
  <1>8. \A i \in 1..n : i # n => i \in 1..(n - 1)
    BY <1>1
  <1>9. \A i, k \in 1..n : stack[i].mod = stack[k].mod => i = k
    BY <1>1 DEF WalkInv
  <1>10. Top.mod \in Active /\ Active' = Active \ {Top.mod}
    <2>1. Active' = {stack[i].mod : i \in 1..(n - 1)} /\ Active = {stack[i].mod : i \in 1..n}
      BY <1>1, <1>3 DEF Active
    <2>2. \A y \in Active' : y \in Active /\ y # Top.mod
      BY <1>2, <1>7, <1>9, <2>1
    <2>3. \A y \in Active : y # Top.mod => y \in Active'
      BY <1>2, <1>8, <2>1
    <2>4. Top.mod \in Active
      BY <1>2, <2>1
    <2>5. QED
      BY <2>2, <2>3, <2>4
  <1>11. (\A i \in DOMAIN stack :
             /\ stack[i].mod \in marked
             /\ stack[i].next <= Len(app.imports[stack[i].mod]) + 1
             /\ Visited(stack[i].mod, stack[i].next - 1))'
    BY <1>1, <1>3, <1>5, <1>7 DEF WalkInv
  <1>12. (\A i, k \in DOMAIN stack :
             /\ stack[i].mod = stack[k].mod => i = k
             /\ i <= k => stack[k].mod \in reachable({stack[i].mod}))'
    <2>1. ASSUME NEW i \in 1..(n - 1), NEW k \in 1..(n - 1)
          PROVE  /\ stack'[i].mod = stack'[k].mod => i = k
                 /\ i <= k => stack'[k].mod \in reachable({stack'[i].mod})
      BY <1>1, <1>3, <1>7 DEF WalkInv
    <2>2. QED
      BY <1>3, <1>4, <2>1
  <1>13. \A m \in marked \ Active' : Visited(m, Len(app.imports[m]))
    BY <1>6, <1>10 DEF WalkInv
  <1>14. (\A m \in marked \ Active : Visited(m, Len(app.imports[m])))'
    BY <1>5, <1>13
  <1>15. Top.mod \in marked
    BY <1>1, <1>2 DEF WalkInv
  <1>16. QED
    BY <1>4, <1>6, <1>10, <1>11, <1>12, <1>14, <1>15 DEF WalkInv
\* The import a call is at is one of its module's.
LEMMA ImportTypes ==
  ASSUME TypeOK, ImportsLeft
  PROVE  /\ stack # <<>> /\ Top.mod \in Modules
         /\ ThisImport \in ToSet(app.imports[Top.mod]) /\ ThisImport \in Modules \union Keys
  <1>1. stack # <<>> /\ Top \in Frame /\ Top.next <= Len(app.imports[Top.mod])
    BY AdvanceEffect DEF ImportsLeft
  <1>2. app.imports[Top.mod] \in Seq(Modules \union Keys) /\ Top.mod \in Modules
        /\ Top.next \in Nat \ {0}
    BY <1>1, AppTypes DEF TypeOK, Frame
  <1>3. Len(app.imports[Top.mod]) \in Nat
    BY <1>2, SetOfSeq
  <1>4. Top.next \in 1..Len(app.imports[Top.mod])
    BY <1>1, <1>2, <1>3
  <1>5. QED
    BY <1>1, <1>2, <1>4, SetOfSeq DEF ThisImport

\* Every step keeps the types.
LEMMA TypeStep ==
  ASSUME TypeOK, [Next]_vars
  PROVE  TypeOK'
  <1> USE DEF TypeOK
  <1>1. app' = app
    BY AppFixed
  <1>2. stack \in Seq(Frame) /\ Seq(Frame) = Seq([mod : Modules, next : Nat \ {0}])
    BY DEF Frame
  <1>3. CASE VisitRoot
    <2> DEFINE m == app.roots[root + 1]
    <2>1. app.roots \in Seq(Modules) /\ root' = root + 1 /\ root < Len(app.roots)
      BY <1>3, AppTypes DEF IsApp, VisitRoot
    <2>2. Len(app.roots) \in Nat
      BY <2>1, SetOfSeq
    <2>3. root + 1 \in 1..Len(app.roots) /\ root' \in 0..Len(app.roots)
      BY <2>1, <2>2
    <2>4. m \in Modules
      BY <2>1, <2>3, SetOfSeq
    <2>5. <<[mod |-> m, next |-> 1]>> \in Seq(Frame)
      BY <2>4 DEF Frame
    <2>6. stack' \in Seq(Frame) /\ marked' \subseteq Modules
      BY <1>2, <1>3, <2>4, <2>5 DEF VisitRoot
    <2>7. QED
      BY <1>1, <1>2, <1>3, <2>3, <2>6 DEF VisitRoot
  <1>4. CASE VisitModule
    <2>1. ImportsLeft /\ ThisImport \in Modules /\ stack # <<>> /\ Advance \in Seq(Frame)
      BY <1>4, ImportTypes, AdvanceEffect DEF VisitModule, IsModule
    <2>2. [mod |-> ThisImport, next |-> 1] \in Frame
      BY <2>1 DEF Frame
    <2>3. Append(Advance, [mod |-> ThisImport, next |-> 1]) \in Seq(Frame)
      BY <2>1, <2>2, AppendProperties
    <2>4. stack' \in Seq(Frame) /\ marked' \subseteq Modules
      BY <1>4, <2>1, <2>3 DEF VisitModule
    <2>5. QED
      BY <1>1, <1>2, <1>4, <2>4 DEF VisitModule
  <1>5. CASE VisitDynamic
    <2>1. ThisImport \in Keys /\ Advance \in Seq(Frame)
      BY <1>5, ImportTypes, AdvanceEffect DEF VisitDynamic, IsModule
    <2>2. Append(queue, ThisImport) \in Seq(Keys)
      BY <2>1, AppendProperties
    <2>3. stack' \in Seq(Frame) /\ queue' \in Seq(Keys)
      BY <1>5, <2>1, <2>2 DEF VisitDynamic
    <2>4. QED
      BY <1>1, <1>2, <1>5, <2>3 DEF VisitDynamic
  <1>6. CASE LeaveCollect
    <2>1. stack' \in Seq(Frame)
      BY <1>2, <1>6, FrontLast DEF LeaveCollect
    <2>2. QED
      BY <1>1, <1>2, <1>6, <2>1 DEF LeaveCollect
  <1>7. CASE BeginFactories
    BY <1>7 DEF BeginFactories
  <1>8. ASSUME NEW b \in BOOLEAN, RunFactory(b) PROVE TypeOK'
    <2>1. Head(queue) \in Keys /\ Tail(queue) \in Seq(Keys)
      BY <1>8, TailSet DEF RunFactory
    <2>2. Append(ran, Head(queue)) \in Seq(Keys)
      BY <2>1, AppendProperties
    <2>3. queue' \in Seq(Keys) /\ ran' \in Seq(Keys) /\ have' \subseteq Keys
      BY <1>8, <2>1, <2>2 DEF RunFactory
    <2>4. /\ phase' \in {"collect", "factories", "register", "validate", "done"}
          /\ result' \in {"building", "ok", "factory", "panic", "access", "resolver"}
      BY <1>8 DEF RunFactory, Fail
    <2>5. QED
      BY <1>1, <1>8, <2>3, <2>4 DEF RunFactory
  <1>9. CASE BeginRegister
    <2>1. app.roots \in Seq(Modules)
      BY AppTypes DEF IsApp
    <2>2. 0 \in 0..Len(app.roots)
      BY <2>1, SetOfSeq
    <2>3. QED
      BY <1>9, <2>2 DEF BeginRegister
  <1>10. CASE RegisterProviders
    <2>1. Top \in Frame /\ Front(stack) \in Seq(Frame)
      BY <1>2, <1>10, AdvanceEffect, FrontLast DEF RegisterProviders
    <2>2. Top.mod \in Modules /\ Append(completed, Top.mod) \in Seq(Modules)
      BY <2>1, AppendProperties DEF Frame
    <2>3. app.providers[Top.mod] \subseteq Provider
      BY <2>2, AppTypes
    <2>4. Provides(app.providers[Top.mod]) \subseteq Keys
      BY <2>3 DEF Provides, Provider
    <2>5. have' \subseteq Keys /\ completed' \in Seq(Modules) /\ stack' \in Seq(Frame)
      BY <1>2, <1>10, <2>1, <2>2, <2>4 DEF RegisterProviders
    <2>6. /\ phase' \in {"collect", "factories", "register", "validate", "done"}
          /\ result' \in {"building", "ok", "factory", "panic", "access", "resolver"}
      BY <1>10 DEF RegisterProviders, Fail
    <2>7. QED
      BY <1>1, <1>2, <1>10, <2>5, <2>6 DEF RegisterProviders
  <1>11. CASE Override
    <2>1. app.overrides \subseteq Keys
      BY AppTypes DEF IsApp
    <2>2. QED
      BY <1>11, <2>1 DEF Override
  <1>12. CASE Validate
    BY <1>12 DEF Validate, Fail
  <1>13. CASE UNCHANGED vars
    BY <1>13 DEF vars
  <1>14. QED
    BY <1>3, <1>4, <1>5, <1>6, <1>7, <1>8, <1>9, <1>10, <1>11, <1>12, <1>13
       DEF Next, Step, Terminated

\* Every step keeps the recursion on a path of the import graph, and a phase
\* ends when the recursion has.
LEMMA WalkStep ==
  ASSUME TypeOK, WalkInv, WalkedInv, RegisterInv, [Next]_vars
  PROVE  WalkInv' /\ WalkedInv'
  <1>1. app' = app
    BY AppFixed
  <1>2. ASSUME UNCHANGED <<stack, marked, root>>, phase' # "collect" \/ UNCHANGED <<phase, queue>>
        PROVE  WalkInv'
    BY <1>1, <1>2, WalkStays
  <1>3. CASE VisitRoot
    <2>1. WalkInv'
      BY <1>3, WalkRoot
    <2>2. QED
      BY <1>1, <1>3, <2>1 DEF VisitRoot, WalkedInv, Walked, Walking
  <1>4. CASE VisitModule
    <2>1. ASSUME ThisImport \in marked PROVE WalkInv'
      BY <1>4, <2>1, WalkAdvances DEF VisitModule
    <2>2. ASSUME ThisImport \notin marked PROVE WalkInv'
      BY <1>4, <2>2, WalkPushes DEF VisitModule
    <2>3. stack # <<>>
      BY <1>4 DEF VisitModule, ImportsLeft
    <2>4. QED
      BY <1>1, <1>4, <2>1, <2>2, <2>3 DEF VisitModule, WalkedInv, Walked
  <1>5. CASE VisitDynamic
    <2>1. ThisImport \in Keys
      BY <1>5, ImportTypes DEF VisitDynamic, IsModule
    <2>2. ToSet(Append(queue, ThisImport)) = ToSet(queue) \cup {ThisImport}
      BY <2>1, AppendSet DEF TypeOK
    <2>3. /\ ToSet(queue) \subseteq ToSet(queue')
          /\ phase = "collect" => ThisImport \in ToSet(queue')
      BY <1>5, <2>2 DEF VisitDynamic
    <2>4. WalkInv'
      BY <1>5, <2>3, WalkAdvances DEF VisitDynamic
    <2>5. stack # <<>>
      BY <1>5 DEF VisitDynamic, ImportsLeft
    <2>6. QED
      BY <1>1, <1>5, <2>4, <2>5 DEF VisitDynamic, WalkedInv, Walked
  <1>6. CASE LeaveCollect
    <2>1. WalkInv'
      BY <1>6, WalkPops DEF LeaveCollect
    <2>2. QED
      BY <1>1, <1>6, <2>1 DEF LeaveCollect, WalkedInv, Walked
  <1>7. CASE BeginFactories
    BY <1>1, <1>2, <1>7 DEF BeginFactories, WalkedInv, Walked
  <1>8. ASSUME NEW b \in BOOLEAN, RunFactory(b) PROVE WalkInv' /\ WalkedInv'
    BY <1>1, <1>2, <1>8 DEF RunFactory, Fail, WalkedInv, Walked
  <1>9. CASE BeginRegister
    <2>1. stack' = <<>> /\ marked' = {} /\ root' = 0 /\ phase' = "register" /\ result' = result
      BY <1>9 DEF BeginRegister, WalkedInv, Walked
    <2>2. DOMAIN <<>> = {} /\ 1..0 = {}
      OBVIOUS
    <2>3. result = "building"
      BY <1>9 DEF BeginRegister, RegisterInv
    <2>4. QED
      BY <1>9, <2>1, <2>2, <2>3 DEF WalkInv, WalkedInv
  <1>10. CASE RegisterProviders
    <2>1. CASE UNCHANGED stack
      BY <1>1, <1>2, <1>10, <2>1 DEF RegisterProviders, Fail, WalkedInv, Walked
    <2>2. CASE stack' = Front(stack) /\ UNCHANGED <<phase, result>>
      <3>1. WalkInv'
        BY <1>10, <2>2, WalkPops DEF RegisterProviders
      <3>2. QED
        BY <1>1, <1>10, <2>2, <3>1 DEF RegisterProviders, WalkedInv, Walked
    <2>3. QED
      BY <1>10, <2>1, <2>2 DEF RegisterProviders
  <1>11. CASE Override
    BY <1>1, <1>2, <1>11 DEF Override, WalkedInv, Walked
  <1>12. CASE Validate
    BY <1>1, <1>2, <1>12 DEF Validate, Fail, WalkedInv, Walked
  <1>13. CASE UNCHANGED vars
    BY <1>1, <1>2, <1>13 DEF vars, WalkedInv, Walked
  <1>14. QED
    BY <1>3, <1>4, <1>5, <1>6, <1>7, <1>8, <1>9, <1>10, <1>11, <1>12, <1>13
       DEF Next, Step, Terminated
-------------------------------------------------------------------------------
(***************************************************************************)
(* Steps of the factories.                                                 *)
(***************************************************************************)

\* Once the collect walk has ended, the queue holds the app's factories
\* (app.rs:290-294).
LEMMA CollectedAll ==
  ASSUME TypeOK, WalkInv, FactoryInv, phase = "collect", Walked
  PROVE  ToSet(queue) = FactoryKeys
  <1>1. marked = reachable(Roots) /\ \A m \in marked : Visited(m, Len(app.imports[m]))
    BY WalkedAll DEF Walked
  <1>2. ASSUME NEW m \in reachable(Roots), NEW x \in ToSet(app.imports[m]), ~IsModule(x)
        PROVE  x \in ToSet(queue)
    <2>1. m \in Modules
      BY DEF reachable
    <2>2. QED
      BY <1>1, <1>2, <2>1, VisitedAll
  <1>3. FactoryKeys \subseteq ToSet(queue)
    BY <1>2 DEF FactoryKeys, FactoryInv
  <1>4. QED
    BY <1>3 DEF FactoryInv

\* Every step keeps the factories' invariant and runs each at most once
\* (app.rs:301-307).
LEMMA FactoryStep ==
  ASSUME TypeOK, WalkInv, FactoryInv, RegisterInv, FactoryRunsOnce, [Next]_vars
  PROVE  FactoryInv' /\ FactoryRunsOnce'
  <1>1. app' = app /\ FactoryKeys' = FactoryKeys
    BY AppFixed, SameApp
  <1>2. ASSUME UNCHANGED <<queue, ran>>, have \subseteq have',
               (phase' = phase /\ have' = have) \/ phase' \notin {"collect", "factories"},
               phase = "done" => phase' = "done"
        PROVE  FactoryInv' /\ FactoryRunsOnce'
    BY <1>1, <1>2 DEF FactoryInv, FactoryRunsOnce
  <1>3. CASE VisitRoot \/ VisitModule \/ LeaveCollect
    BY <1>2, <1>3 DEF VisitRoot, VisitModule, LeaveCollect
  <1>4. CASE VisitDynamic
    <2>1. /\ Top.mod \in Modules /\ ThisImport \in ToSet(app.imports[Top.mod])
          /\ ThisImport \in Keys /\ ~IsModule(ThisImport) /\ stack # <<>>
      BY <1>4, ImportTypes DEF VisitDynamic, IsModule
    <2>2. Top.mod \in reachable(Roots)
      <3> DEFINE n == Len(stack)
      <3>1. n \in Nat \ {0} /\ DOMAIN stack = 1..n /\ Top = stack[n]
        BY <2>1, AdvanceEffect DEF Top
      <3> HIDE DEF n
      <3>2. n \in DOMAIN stack
        BY <3>1
      <3>3. QED
        BY <3>1, <3>2 DEF WalkInv
    <2>3. ThisImport \in FactoryKeys
      BY <2>1, <2>2 DEF FactoryKeys
    <2>4. ToSet(Append(queue, ThisImport)) = ToSet(queue) \cup {ThisImport}
      BY <2>1, AppendSet DEF TypeOK
    <2>5. UNCHANGED <<phase, ran, have>> /\ (phase = "collect" \/ queue' = queue)
      BY <1>4 DEF VisitDynamic
    <2>6. phase = "collect" => ToSet(queue') = ToSet(queue) \cup {ThisImport}
      BY <1>4, <2>4 DEF VisitDynamic
    <2>7. QED
      BY <1>1, <2>3, <2>5, <2>6 DEF FactoryInv, FactoryRunsOnce
  <1>5. CASE BeginFactories
    <2>1. ToSet(queue) = FactoryKeys
      BY <1>5, CollectedAll DEF BeginFactories
    <2>2. QED
      BY <1>1, <1>5, <2>1 DEF BeginFactories, FactoryInv, FactoryRunsOnce
  <1>6. ASSUME NEW b \in BOOLEAN, RunFactory(b) PROVE FactoryInv' /\ FactoryRunsOnce'
    <2> DEFINE k == Head(queue)
    <2>1. /\ k \in Keys /\ Tail(queue) \in Seq(Keys) /\ ToSet(queue) = {k} \cup ToSet(Tail(queue))
          /\ phase = "factories"
      BY <1>6, TailSet DEF RunFactory, TypeOK
    <2>2. CASE k \in have
      <3>1. queue' = Tail(queue) /\ UNCHANGED <<ran, have, phase>>
        BY <1>6, <2>2 DEF RunFactory
      <3>2. QED
        BY <1>1, <2>1, <2>2, <3>1 DEF FactoryInv, FactoryRunsOnce
    <2>3. CASE k \notin have
      <3>1. ran' = Append(ran, k) /\ k \notin ToSet(ran) /\ k \notin app.seeds
        BY <1>6, <2>1, <2>3 DEF RunFactory, FactoryInv
      <3>2. IsInjective(Append(ran, k)) /\ ToSet(Append(ran, k)) = ToSet(ran) \cup {k}
        BY <2>1, <3>1, AppendSet DEF TypeOK, FactoryRunsOnce
      <3> HIDE DEF k
      <3>3. FactoryRunsOnce'
        BY <1>1, <3>1, <3>2 DEF FactoryRunsOnce
      <3>4. CASE b
        <4>1. queue' = Tail(queue) /\ have' = have \union {k} /\ phase' = phase
          BY <1>6, <2>3, <3>4 DEF RunFactory, k
        <4>2. QED
          BY <1>1, <2>1, <3>1, <3>2, <3>3, <4>1 DEF FactoryInv
      <3>5. CASE ~b
        <4>1. have' = have /\ phase' = "done"
          BY <1>6, <2>3, <3>5 DEF RunFactory, Fail, k
        <4>2. QED
          BY <1>1, <3>3, <4>1 DEF FactoryInv
      <3>6. QED
        BY <3>4, <3>5
    <2>4. QED
      BY <2>2, <2>3
  <1>7. CASE BeginRegister \/ RegisterProviders \/ Override \/ Validate
    BY <1>2, <1>7 DEF BeginRegister, RegisterProviders, Override, Validate, Fail
  <1>8. CASE UNCHANGED vars
    BY <1>2, <1>8 DEF vars
  <1>9. QED
    BY <1>3, <1>4, <1>5, <1>6, <1>7, <1>8 DEF Next, Step, Terminated
-------------------------------------------------------------------------------
(***************************************************************************)
(* Steps of the registration.                                              *)
(***************************************************************************)

\* What two sets of modules provide together.
LEMMA ProvidedByUnion ==
  ASSUME NEW S, NEW T
  PROVE  ProvidedBy(S \union T) = ProvidedBy(S) \union ProvidedBy(T)
  <1>1. \A k : k \in ProvidedBy(S \union T) => k \in ProvidedBy(S) \union ProvidedBy(T)
    BY DEF ProvidedBy, Provides
  <1>2. \A k : k \in ProvidedBy(S) \union ProvidedBy(T) => k \in ProvidedBy(S \union T)
    BY DEF ProvidedBy, Provides
  <1>3. QED
    BY <1>1, <1>2

\* Where imports have no cycle, a module registers its providers when every
\* module it reaches has registered its own (module.rs:198-235).
LEMMA ImportsDone ==
  ASSUME TypeOK, WalkInv, RegisterInv, phase = "register", stack # <<>>, ~ImportsLeft, Acyclic
  PROVE  /\ StaticImports(Top.mod) \subseteq ToSet(completed)
         /\ reachable({Top.mod}) \subseteq ToSet(completed) \union {Top.mod}
  <1> DEFINE n == Len(stack)
             m == Top.mod
             C == ToSet(completed)
  <1>1. n \in Nat \ {0} /\ DOMAIN stack = 1..n /\ Top = stack[n] /\ Top \in Frame
    BY AdvanceEffect DEF Top
  <1> HIDE DEF n
  <1>2. n \in 1..n /\ \A i \in 1..n : i <= n
    BY <1>1
  <1>3. m \in Modules /\ Visited(m, Top.next - 1)
    BY <1>1, <1>2 DEF WalkInv, Frame
  <1>4. Top.next - 1 = Len(app.imports[m])
    <2>1. /\ Top.next <= Len(app.imports[m]) + 1 /\ ~(Top.next <= Len(app.imports[m]))
          /\ Top.next \in Nat
      BY <1>1, <1>2 DEF WalkInv, ImportsLeft, Frame
    <2>2. Len(app.imports[m]) \in Nat
      BY <1>3, AppTypes, SetOfSeq DEF TypeOK
    <2>3. QED
      BY <2>1, <2>2
  <1>5. StaticImports(m) \subseteq marked
    BY <1>3, <1>4, VisitedAll
  <1>6. Registering
    BY DEF Registering, RegisterInv
  <1>7. ASSUME NEW x \in StaticImports(m), x \notin C PROVE FALSE
    <2>1. x \in Active
      BY <1>5, <1>6, <1>7 DEF RegisterInv
    <2>2. PICK i \in 1..n : stack[i].mod = x
      BY <1>1, <2>1 DEF Active
    <2>3. m \in reachable({x})
      BY <1>1, <1>2, <2>2 DEF WalkInv
    <2>4. QED
      BY <1>3, <1>7, <2>3 DEF Acyclic
  <1>8. StaticImports(m) \subseteq C
    BY <1>7
  <1>9. C \subseteq Modules
    BY SetOfSeq DEF TypeOK
  <1>10. reachable({m}) \subseteq C \union {m}
    <2>1. \A x \in C : StaticImports(x) \subseteq C
      BY <1>6 DEF RegisterInv
    <2> DEFINE S == C \union {m}
    <2>2. S \subseteq Modules /\ {m} \subseteq S /\ \A x \in S : StaticImports(x) \subseteq S
      BY <1>3, <1>8, <1>9, <2>1
    <2> HIDE DEF S
    <2>3. reachable({m}) \subseteq S
      BY <2>2, ReachLeast
    <2>4. QED
      BY <2>3 DEF S
  <1>11. QED
    BY <1>8, <1>10

\* Every step keeps what registration knows of the app.
LEMMA RegisterStep ==
  ASSUME TypeOK, WalkInv, WalkedInv, FactoryInv, RegisterInv, [Next]_vars
  PROVE  RegisterInv'
  <1>1. /\ app' = app /\ Infrastructure' = Infrastructure /\ (Acyclic' <=> Acyclic)
        /\ \A S : ProvidedBy(S)' = ProvidedBy(S)
        /\ \A m : (NoCycle(m)' <=> NoCycle(m)) /\ StaticImports(m)' = StaticImports(m)
    BY AppFixed, SameApp
  <1>2. ASSUME UNCHANGED completed, ~Registering, ~Registering', phase' = "done" <=> result' # "building"
        PROVE  RegisterInv'
    BY <1>1, <1>2 DEF RegisterInv
  <1>3. ASSUME UNCHANGED <<completed, global>>, Registering, Registering',
               phase' = "done" <=> result' # "building",
               phase' = "register" => phase = "register" /\ have' = have,
               marked' = ToSet(completed) \union Active', ToSet(completed) \intersect Active' = {}
        PROVE  RegisterInv'
    <2>1. RegisterInv
      OBVIOUS
    <2>2. QED
      BY <1>1, <1>3, <2>1 DEF RegisterInv
  <1>4. ASSUME UNCHANGED <<completed, global, stack, marked>>, Registering, Registering',
               phase' = "done" <=> result' # "building",
               phase' = "register" => phase = "register" /\ have' = have
        PROVE  RegisterInv'
    <2>1. Active' = Active
      BY <1>4 DEF Active
    <2>2. marked' = ToSet(completed) \union Active' /\ ToSet(completed) \intersect Active' = {}
      BY <1>4, <2>1 DEF RegisterInv
    <2>3. QED
      BY <1>3, <1>4, <2>2
  <1>5. Registering => marked = ToSet(completed) \union Active /\ ToSet(completed) \intersect Active = {}
    BY DEF RegisterInv
  <1>6. ASSUME NEW x, x \notin marked, Active' = Active \union {x}, marked' = marked \union {x},
               UNCHANGED <<completed, global, phase, have, result>>
        PROVE  RegisterInv'
    <2>1. (Registering' <=> Registering) /\ (phase' = "done" <=> result' # "building")
      BY <1>6 DEF Registering, RegisterInv
    <2>2. CASE Registering
      BY <1>3, <1>5, <1>6, <2>1, <2>2
    <2>3. CASE ~Registering
      BY <1>2, <1>6, <2>1, <2>3
    <2>4. QED
      BY <2>2, <2>3
  <1>7. ASSUME Active' = Active, UNCHANGED <<marked, completed, global, phase, have, result>>
        PROVE  RegisterInv'
    <2>1. (Registering' <=> Registering) /\ (phase' = "done" <=> result' # "building")
      BY <1>7 DEF Registering, RegisterInv
    <2>2. CASE Registering
      BY <1>3, <1>5, <1>7, <2>1, <2>2
    <2>3. CASE ~Registering
      BY <1>2, <1>7, <2>1, <2>3
    <2>4. QED
      BY <2>2, <2>3
  <1>8. CASE VisitRoot
    <2> DEFINE m == app.roots[root + 1]
    <2>1. stack = <<>> /\ UNCHANGED <<completed, global, phase, have, result>>
      BY <1>8 DEF VisitRoot
    <2>2. Active = {}
      BY <2>1 DEF Active
    <2>3. CASE m \in marked
      <3>1. Active' = Active /\ marked' = marked
        BY <1>8, <2>3 DEF VisitRoot, Active
      <3>2. QED
        BY <1>7, <2>1, <3>1
    <2>4. CASE m \notin marked
      <3>1. stack' = <<[mod |-> m, next |-> 1]>> /\ marked' = marked \union {m}
        BY <1>8, <2>4 DEF VisitRoot
      <3>2. Active' = {m}
        BY <3>1 DEF Active
      <3> HIDE DEF m
      <3>3. QED
        BY <1>6, <2>1, <2>2, <2>4, <3>1, <3>2
    <2>5. QED
      BY <2>3, <2>4
  <1>9. ASSUME stack # <<>>, stack' = Advance PROVE Active' = Active
    <2> DEFINE n == Len(stack)
               A == Advance
    <2>1. /\ DOMAIN stack = 1..n /\ DOMAIN A = 1..n
          /\ \A i \in 1..n : A[i].mod = stack[i].mod
      BY <1>9, AdvanceEffect, LenProperties
    <2> HIDE DEF n, A
    <2>2. stack' = A
      BY <1>9 DEF A
    <2>3. QED
      BY <2>1, <2>2 DEF Active
  <1>10. CASE VisitModule
    <2>1. stack # <<>> /\ UNCHANGED <<completed, global, phase, have, result>>
      BY <1>10 DEF VisitModule, ImportsLeft
    <2>2. CASE ThisImport \in marked
      BY <1>7, <1>9, <1>10, <2>1, <2>2 DEF VisitModule
    <2>3. CASE ThisImport \notin marked
      <3> DEFINE x == ThisImport
                 f == [mod |-> x, next |-> 1]
                 n == Len(stack)
                 A == Advance
                 q == Append(A, f)
      <3>1. stack' = q /\ marked' = marked \union {x} /\ x \in Modules
        BY <1>10, <2>3 DEF VisitModule, IsModule
      <3>2. f \in Frame /\ f.mod = x
        BY <3>1 DEF Frame
      <3>3. /\ n \in Nat /\ DOMAIN stack = 1..n /\ A \in Seq(Frame) /\ Len(A) = n
            /\ \A i \in 1..n : A[i].mod = stack[i].mod
        BY <2>1, AdvanceEffect
      <3> HIDE DEF x, f, n, A
      <3>4. /\ q \in Seq(Frame) /\ Len(q) = n + 1 /\ q[n + 1] = f
            /\ \A i \in 1..n : q[i] = A[i]
        BY <3>2, <3>3, AppendProperties
      <3>5. DOMAIN q = 1..(n + 1)
        BY <3>4, LenProperties
      <3> HIDE DEF q
      <3>6. Active' = {q[i].mod : i \in 1..(n + 1)} /\ Active = {stack[i].mod : i \in 1..n}
        BY <3>1, <3>3, <3>5 DEF Active
      <3>7. \A i \in 1..(n + 1) : i \in 1..n \/ i = n + 1
        BY <3>3
      <3>8. n + 1 \in 1..(n + 1) /\ \A i \in 1..n : i \in 1..(n + 1)
        BY <3>3
      <3>9. Active' = Active \union {x}
        BY <3>2, <3>3, <3>4, <3>6, <3>7, <3>8
      <3>10. x \notin marked
        BY <2>3 DEF x
      <3>11. QED
        BY <1>6, <2>1, <3>1, <3>9, <3>10
    <2>4. QED
      BY <2>2, <2>3
  <1>11. CASE VisitDynamic
    BY <1>7, <1>9, <1>11 DEF VisitDynamic, ImportsLeft
  <1>12. CASE LeaveCollect \/ BeginFactories
    <2>1. ~Registering /\ ~Registering' /\ (phase' = "done" <=> result' # "building")
      BY <1>12 DEF LeaveCollect, BeginFactories, Registering, RegisterInv
    <2>2. QED
      BY <1>2, <1>12, <2>1 DEF LeaveCollect, BeginFactories
  <1>13. ASSUME NEW b \in BOOLEAN, RunFactory(b) PROVE RegisterInv'
    <2>1. ~Registering /\ ~Registering' /\ (phase' = "done" <=> result' # "building")
      BY <1>13 DEF RunFactory, Fail, Registering, RegisterInv
    <2>2. QED
      BY <1>2, <1>13, <2>1 DEF RunFactory
  <1>14. CASE BeginRegister
    <2>1. ~Registering /\ completed = <<>> /\ stack = <<>> /\ result = "building"
      BY <1>14 DEF BeginRegister, Registering, RegisterInv, WalkedInv, Walked
    <2>2. have = Infrastructure
      <3>1. ToSet(<<>>) = {}
        BY DEF ToSet
      <3>2. QED
        BY <1>14, <3>1 DEF BeginRegister, FactoryInv, Infrastructure
    <2>3. /\ completed' = <<>> /\ stack' = <<>> /\ marked' = {} /\ have' = Infrastructure
          /\ global' = Infrastructure /\ phase' = "register" /\ result' = "building"
      BY <1>14, <2>1, <2>2 DEF BeginRegister
    <2>4. ToSet(<<>>) = {} /\ DOMAIN <<>> = {} /\ Active' = {} /\ IsInjective(<<>>)
      BY <2>3 DEF ToSet, Active, IsInjective
    <2>5. ProvidedBy({}) = {}
      BY DEF ProvidedBy, Provides
    <2>6. Registering'
      BY <2>3 DEF Registering
    <2>7. QED
      BY <1>1, <2>3, <2>4, <2>5, <2>6 DEF RegisterInv
  <1>15. CASE RegisterProviders /\ stack' # Front(stack)
    <2>1. /\ UNCHANGED <<completed, global, stack, marked>> /\ phase' = "done" /\ result' = "panic"
          /\ phase = "register"
      BY <1>15 DEF RegisterProviders, Fail
    <2>2. Registering /\ Registering'
      BY <2>1 DEF Registering, RegisterInv
    <2>3. QED
      BY <1>4, <2>1, <2>2
  <1>16. CASE RegisterProviders /\ stack' = Front(stack)
    <2> DEFINE m == Top.mod
               all == app.providers[m]
               C == ToSet(completed)
               D == C \union {m}
    <2>1. phase = "register" /\ stack # <<>> /\ ~ImportsLeft /\ UNCHANGED <<app, root, marked, queue, global>>
      BY <1>16 DEF RegisterProviders
    <2>2. Front(stack) # stack
      <3>1. Len(Front(stack)) = Len(stack) - 1 /\ Len(stack) \in Nat
        BY <2>1, FrontLast, AdvanceEffect
      <3>2. QED
        BY <3>1
    <2>3. /\ Buildable(all) = all /\ have' = have \union Provides(all)
          /\ completed' = Append(completed, m) /\ UNCHANGED <<phase, result>>
      BY <1>16, <2>2 DEF RegisterProviders
    <2>4. m \in Active /\ Active' = Active \ {m} /\ m \in marked /\ m \in Modules
      BY <1>16, <2>1, <2>3, WalkPops DEF TypeOK
    <2>5. Registering /\ Registering' /\ result = "building"
      BY <2>1, <2>3 DEF Registering, RegisterInv
    <2>6. m \notin C /\ C \subseteq Modules /\ have = Infrastructure \union ProvidedBy(C)
      BY <2>1, <2>4, <2>5, SetOfSeq DEF RegisterInv, TypeOK
    <2>7. IsInjective(completed') /\ ToSet(completed') = D
      BY <2>3, <2>4, <2>6, AppendSet DEF TypeOK, RegisterInv
    <2>8. ProvidedBy({m}) = Provides(all)
      BY DEF ProvidedBy
    <2>9. NoCycle(m) /\ \A p \in all : dependencies(p) \subseteq have \union ProvidedBy({m})
      BY <2>3, <2>4, <2>6, BuiltIsAcyclic DEF TypeOK
    <2>10. ProvidedBy(D) = ProvidedBy(C) \union ProvidedBy({m})
      BY ProvidedByUnion
    <2>11. have' = Infrastructure \union ProvidedBy(D)
      BY <2>3, <2>6, <2>8, <2>10
    <2>12. ASSUME NEW x \in D
           PROVE  /\ NoCycle(x)
                  /\ \A p \in app.providers[x] :
                        dependencies(p) \subseteq Infrastructure \union ProvidedBy(D)
      <3>1. CASE x = m
        BY <2>6, <2>9, <2>10, <3>1
      <3>2. CASE x \in C
        BY <2>5, <2>10, <3>2 DEF RegisterInv
      <3>3. QED
        BY <3>1, <3>2
    <2>13. Acyclic => \A x \in D : StaticImports(x) \subseteq D
      <3>1. SUFFICES ASSUME Acyclic PROVE \A x \in D : StaticImports(x) \subseteq D
        OBVIOUS
      <3>2. StaticImports(m) \subseteq C
        BY <2>1, <3>1, ImportsDone
      <3>3. QED
        BY <2>5, <3>1, <3>2 DEF RegisterInv
    <2>14. marked' = D \union Active' /\ D \intersect Active' = {}
      BY <1>5, <2>1, <2>4, <2>5, <2>6
    <2>15. global' = Infrastructure
      BY <2>1, <2>5 DEF RegisterInv
    <2> HIDE DEF D, C, all
    <2>16. phase' = "done" <=> result' # "building"
      BY <2>1, <2>3, <2>5
    <2>17. QED
      BY <1>1, <2>5, <2>7, <2>11, <2>12, <2>13, <2>14, <2>15, <2>16 DEF RegisterInv
  <1>17. CASE Override
    <2>1. UNCHANGED <<completed, global, stack, marked, result>> /\ phase' = "validate"
          /\ phase = "register"
      BY <1>17 DEF Override
    <2>2. result = "building" /\ Registering /\ Registering'
      BY <2>1 DEF Registering, RegisterInv
    <2>3. QED
      BY <1>4, <2>1, <2>2
  <1>18. CASE Validate
    <2>1. UNCHANGED <<completed, global, stack, marked>> /\ phase' = "done"
          /\ phase = "validate" /\ result' \in {"ok", "access", "resolver"}
      BY <1>18 DEF Validate, Fail
    <2>2. Registering /\ Registering'
      BY <2>1 DEF Registering, RegisterInv
    <2>3. QED
      BY <1>4, <2>1, <2>2
  <1>19. CASE UNCHANGED vars
    BY <1>7, <1>19 DEF vars, Active
  <1>20. QED
    BY <1>8, <1>10, <1>11, <1>12, <1>13, <1>14, <1>15, <1>16, <1>17, <1>18, <1>19
       DEF Next, Step, Terminated

-------------------------------------------------------------------------------
(***************************************************************************)
(* The outcome of the build.                                               *)
(***************************************************************************)

\* Once the register phase is over, what has registered is what the roots
\* reach (app.rs:312-315).
LEMMA RegisteredAll ==
  ASSUME TypeOK, WalkInv, RegisterInv, Registering, Walked
  PROVE  ToSet(completed) = reachable(Roots)
  <1>1. marked = reachable(Roots)
    BY WalkedAll DEF Walked
  <1>2. Active = {}
    BY DEF Walked, Active
  <1>3. QED
    BY <1>1, <1>2 DEF RegisterInv

\* A build that panics at a module is of an app that is not well wired
\* (module.rs:214-232).
LEMMA PanicIsRight ==
  ASSUME TypeOK, WalkInv, RegisterInv, RegisterProviders, phase' = "done", Acyclic
  PROVE  ~WellWired /\ result' = "panic"
  <1> DEFINE m == Top.mod
             C == ToSet(completed)
  <1>1. /\ phase = "register" /\ stack # <<>> /\ ~ImportsLeft
        /\ Buildable(app.providers[m]) # app.providers[m] /\ result' = "panic"
    BY DEF RegisterProviders, Fail
  <1>2. reachable({m}) \subseteq C \union {m}
    BY <1>1, ImportsDone
  <1>3. m \in reachable(Roots)
    <2>1. Len(stack) \in Nat \ {0} /\ DOMAIN stack = 1..Len(stack)
      BY <1>1, AdvanceEffect
    <2>2. Len(stack) \in DOMAIN stack
      BY <2>1
    <2>3. QED
      BY <2>2 DEF WalkInv, Top
  <1>4. have = Infrastructure \union ProvidedBy(C)
    BY <1>1 DEF RegisterInv, Registering
  <1>5. app \in Apps
    BY DEF TypeOK
  <1> HIDE DEF m, C
  <1>6. ~WellWired
    BY <1>1, <1>2, <1>3, <1>4, <1>5, StuckIsIllWired
  <1>7. QED
    BY <1>1, <1>6

\* A build that gets to the access checks accepts what is well wired
\* (access.rs:185-301).
LEMMA ValidateIsRight ==
  ASSUME TypeOK, WalkInv, WalkedInv, RegisterInv, Validate
  PROVE  result' = "ok" <=> WellWired
  <1>1. phase = "validate" /\ Walked
    BY DEF Validate, WalkedInv
  <1>2. Registering
    BY <1>1 DEF RegisterInv, Registering
  <1>3. ToSet(completed) = reachable(Roots)
    BY <1>1, <1>2, RegisteredAll
  <1>4. /\ global = Infrastructure
        /\ \A m \in reachable(Roots) :
              /\ NoCycle(m)
              /\ \A p \in app.providers[m] :
                    dependencies(p) \subseteq Infrastructure \union ProvidedBy(reachable(Roots))
    BY <1>2, <1>3 DEF RegisterInv
  <1>5. app \in Apps
    BY DEF TypeOK
  <1>6. WellWired <=> validate_access_graph /\ validate_resolver_membership
    BY <1>4, <1>5, ValidationIsExact
  <1>7. QED
    BY <1>6 DEF Validate, Fail

\* Every step that ends the build ends it with the right outcome.
LEMMA OutcomeStep ==
  ASSUME TypeOK, WalkInv, WalkedInv, RegisterInv, AcceptsExactlyWellWired, [Next]_vars
  PROVE  AcceptsExactlyWellWired'
  <1>1. (Acyclic' <=> Acyclic) /\ (WellWired' <=> WellWired)
    BY AppFixed, SameApp
  <1>2. SUFFICES ASSUME phase' = "done", result' # "factory", Acyclic
                 PROVE  result' = "ok" <=> WellWired
    BY <1>1 DEF AcceptsExactlyWellWired
  <1>3. CASE VisitRoot \/ VisitModule \/ VisitDynamic
    BY <1>2, <1>3 DEF VisitRoot, VisitModule, VisitDynamic, Walking
  <1>4. CASE LeaveCollect \/ BeginFactories \/ BeginRegister \/ Override
    BY <1>2, <1>4 DEF LeaveCollect, BeginFactories, BeginRegister, Override
  <1>5. CASE \E s \in BOOLEAN : RunFactory(s)
    BY <1>2, <1>5 DEF RunFactory, Fail
  <1>6. CASE RegisterProviders
    BY <1>2, <1>6, PanicIsRight
  <1>7. CASE Validate
    BY <1>7, ValidateIsRight
  <1>8. CASE UNCHANGED vars
    BY <1>2, <1>8 DEF vars, AcceptsExactlyWellWired
  <1>9. QED
    BY <1>3, <1>4, <1>5, <1>6, <1>7, <1>8 DEF Next, Step, Terminated

-------------------------------------------------------------------------------
(***************************************************************************)
(* The theorems.                                                           *)
(***************************************************************************)

\* The invariant holds when the builder's `build` starts (app.rs:283-294) and
\* when `App::new` does (app.rs:35-44).
LEMMA InitInv ==
  ASSUME Init
  PROVE  IInv
  <1> USE DEF Init
  <1>1. IsApp(app) /\ app \in Apps
    BY AppTypes
  <1>2. /\ \A S : <<>> \in Seq(S)
        /\ Len(<<>>) = 0 /\ DOMAIN <<>> = {} /\ ToSet(<<>>) = {}
        /\ IsInjective(<<>>)
    BY DEF ToSet, IsInjective
  <1>3. TypeOK
    <2>1. Len(app.roots) \in Nat /\ 0 \in 0..Len(app.roots)
      BY <1>1, SetOfSeq DEF IsApp
    <2>2. QED
      BY <1>1, <1>2, <2>1 DEF TypeOK, IsApp
  <1>4. Active = {}
    BY <1>2 DEF Active
  <1>5. WalkInv
    BY <1>2, <1>4 DEF WalkInv
  <1>6. WalkedInv
    BY DEF WalkedInv
  <1>7. FactoryInv
    BY <1>1, <1>2 DEF FactoryInv, FactoryKeys, IsApp
  <1>8. RegisterInv
    <2>1. CASE app.builder
      BY <1>2, <2>1 DEF RegisterInv, Registering
    <2>2. CASE ~app.builder
      <3>1. Infrastructure = {} /\ have = {}
        BY <1>1, <2>2 DEF Infrastructure, IsApp
      <3>2. ProvidedBy({}) = {}
        BY DEF ProvidedBy, Provides
      <3>3. QED
        BY <1>2, <1>4, <2>2, <3>1, <3>2 DEF RegisterInv, Registering
    <2>3. QED
      BY <2>1, <2>2
  <1>9. FactoryRunsOnce
    BY <1>2 DEF FactoryRunsOnce
  <1>10. AcceptsExactlyWellWired
    BY DEF AcceptsExactlyWellWired
  <1>11. QED
    BY <1>3, <1>5, <1>6, <1>7, <1>8, <1>9, <1>10 DEF IInv

\* Every step of the build keeps the invariant.
LEMMA StepInv ==
  ASSUME IInv, [Next]_vars
  PROVE  IInv'
  <1>1. TypeOK'
    BY TypeStep DEF IInv
  <1>2. WalkInv' /\ WalkedInv'
    BY WalkStep DEF IInv
  <1>3. FactoryInv' /\ FactoryRunsOnce'
    BY FactoryStep DEF IInv
  <1>4. RegisterInv'
    BY RegisterStep DEF IInv
  <1>5. AcceptsExactlyWellWired'
    BY OutcomeStep DEF IInv
  <1>6. QED
    BY <1>1, <1>2, <1>3, <1>4, <1>5 DEF IInv

\* The inductive invariant of the build: the two traversals, the factory queue
\* and the container's keys (app.rs:283-332, module.rs:198-271).
THEOREM Invariance == Spec => []IInv
  <1>1. Init => IInv
    BY InitInv
  <1>2. IInv /\ [Next]_vars => IInv'
    BY StepInv
  <1>3. QED
    BY <1>1, <1>2, PTL DEF Spec

\* Every variable of the build keeps its type; the recursion's frames are of
\* modules, the queue and the container hold keys.
THEOREM TypeCorrect == Spec => []TypeOK
  <1>1. IInv => TypeOK
    BY DEF IInv
  <1>2. QED
    BY <1>1, Invariance, PTL

\* However often a dynamic module is imported, its resource is built once, and
\* not at all when a seed supplies the key (app.rs:295-307).
THEOREM ResourcesBuiltOnce == Spec => []FactoryRunsOnce
  <1>1. IInv => FactoryRunsOnce
    BY DEF IInv
  <1>2. QED
    BY <1>1, Invariance, PTL

\* In any import graph, cycles included, a module registers once, and an
\* accepted app has registered exactly what its roots reach
\* (module.rs:245-253).
THEOREM ModulesRegisteredOnce == Spec => []RegisteredOnce
  <1>1. ASSUME IInv PROVE RegisteredOnce
    <2>1. ASSUME result = "ok" PROVE ToSet(completed) = reachable(Roots)
      <3>1. Registering /\ Walked
        BY <1>1, <2>1 DEF IInv, RegisterInv, WalkedInv, Registering
      <3>2. QED
        BY <1>1, <3>1, RegisteredAll DEF IInv
    <2>2. QED
      BY <1>1, <2>1 DEF IInv, RegisterInv, RegisteredOnce
  <1>2. QED
    BY <1>1, Invariance, PTL

\* For every app whose imports have no cycle, `build` accepts it exactly when
\* it is well wired: the traversals, the fixpoint and the two access checks
\* together decide a predicate of the import graph alone, in which no order of
\* roots or imports appears (access.rs:13-21, app.rs:308-326).
THEOREM BuildIsExact == Spec => []AcceptsExactlyWellWired
  <1>1. IInv => AcceptsExactlyWellWired
    BY DEF IInv
  <1>2. QED
    BY <1>1, Invariance, PTL
===============================================================================
