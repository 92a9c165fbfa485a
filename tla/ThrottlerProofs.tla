--------------------------- MODULE ThrottlerProofs ---------------------------
(***************************************************************************)
(* Proofs about Throttler, for any number of threads, clients and routes   *)
(* and any limits.                                                         *)
(***************************************************************************)
EXTENDS Throttler, FiniteSetTheorems, TLAPS

\* Whole seconds of a duration: the division behind the Retry-After header
\* (guard.rs:45).
LEMMA WholeSeconds ==
  ASSUME NEW d \in Nat, NEW n \in Nat \ {0}
  PROVE  /\ d \div n \in Nat
         /\ (d \div n) * n <= d
         /\ d < ((d \div n) + 1) * n
  BY Z3T(20)

\* The limit of a route is a Throttle, its own or the default (guard.rs:32-35).
LEMMA LimitType ==
  ASSUME NEW r \in Routes
  PROVE  LimitOf(r).limit \in Nat /\ LimitOf(r).window \in Nat \ {0}
  BY ThrottleAssumption DEF LimitOf, Throttle

\* A key is one of the store's (guard.rs:55-70).
LEMMA KeyType ==
  ASSUME NEW o \in Origins
  PROVE  client_key(o) \in Keys
  BY OriginAssumption DEF client_key, Keys, Origin

\* What one hit makes of a window: a fresh one that starts at the clock
\* reading, or the same one with one more hit (store.rs:57-65).
LEMMA CountedCases ==
  ASSUME NEW w \in Window, NEW now \in Times, NEW length \in Nat \ {0}
  PROVE  /\ Counted(w, now, length) \in Window
         /\ \/ /\ Counted(w, now, length).start = now
               /\ Counted(w, now, length).count = 1
               /\ w.count = 0 \/ now - w.start >= length
            \/ /\ Counted(w, now, length).start = w.start
               /\ Counted(w, now, length).count = w.count + 1
               /\ w.count > 0
               /\ now - w.start < length
  <1>1. MaxClock \in Nat
    BY ThrottleAssumption
  <1>2. CASE w.count = 0
    BY <1>1, <1>2 DEF Counted, Window, Minus, Times
  <1>3. CASE w.count # 0
    BY <1>1, <1>3 DEF Counted, Window, Minus, Times
  <1>4. QED
    BY <1>2, <1>3

\* One more admission in a history: only its own key, route and instant move.
LEMMA OneMore ==
  ASSUME NEW f \in [Keys -> [Routes -> [Times -> Nat]]],
         NEW k \in Keys, NEW r \in Routes, NEW t \in Times,
         NEW g, g = [f EXCEPT ![k][r][t] = @ + 1]
  PROVE  /\ g \in [Keys -> [Routes -> [Times -> Nat]]]
         /\ g[k][r] = [f[k][r] EXCEPT ![t] = @ + 1]
         /\ \A kk \in Keys : kk # k => g[kk] = f[kk]
         /\ \A rr \in Routes : rr # r => g[k][rr] = f[k][rr]
  <1> DEFINE h == [f[k][r] EXCEPT ![t] = f[k][r][t] + 1]
             hh == [f[k] EXCEPT ![r] = h]
  <1>1. g = [f EXCEPT ![k] = hh]
    OBVIOUS
  <1>2. f[k] \in [Routes -> [Times -> Nat]] /\ f[k][r] \in [Times -> Nat]
    OBVIOUS
  <1>3. h \in [Times -> Nat]
    BY <1>2
  <1> HIDE DEF h
  <1>4. hh \in [Routes -> [Times -> Nat]]
    BY <1>2, <1>3
  <1>5. hh[r] = h /\ \A rr \in Routes : rr # r => hh[rr] = f[k][rr]
    BY <1>2
  <1> HIDE DEF hh
  <1>6. g \in [Keys -> [Routes -> [Times -> Nat]]]
    BY <1>1, <1>4
  <1>7. g[k] = hh /\ \A kk \in Keys : kk # k => g[kk] = f[kk]
    BY <1>1
  <1>8. QED
    BY <1>5, <1>6, <1>7 DEF h

(***************************************************************************)
(* The rate in real time.                                                  *)
(***************************************************************************)

\* A number of windows' worth of a limit.
LEMMA Products ==
  ASSUME NEW a \in Nat, NEW b \in Nat
  PROVE  /\ a * b \in Nat
         /\ (a + 1) * b = a * b + b
         /\ a > 0 => b <= a * b
         /\ \A c \in Nat : c <= a => c * b <= a * b
  <1>1. a * b \in Nat /\ (a + 1) * b = a * b + b
    BY Z3T(20)
  <1>2. a > 0 => b <= a * b
    BY Z3T(20)
  <1>3. \A c \in Nat : c <= a => c * b <= a * b
    BY Z3T(20)
  <1>4. QED
    BY <1>1, <1>2, <1>3

\* One more admission at an instant u is one more in every stretch that holds
\* u, and changes no other.
LEMMA OneMoreInStretch ==
  ASSUME NEW T \in SUBSET Times, NEW f \in [Times -> Nat], NEW u \in Times,
         NEW g, g = [f EXCEPT ![u] = @ + 1],
         NEW A, A = UNION {{v} \X (1..f[v]) : v \in T}, IsFiniteSet(A),
         NEW B, B = UNION {{v} \X (1..g[v]) : v \in T}
  PROVE  /\ IsFiniteSet(B)
         /\ Cardinality(A) \in Nat
         /\ Cardinality(B) = IF u \in T THEN Cardinality(A) + 1 ELSE Cardinality(A)
  <1> DEFINE e == <<u, f[u] + 1>>
  <1>0. Cardinality(A) \in Nat
    BY FS_CardinalityType
  <1>1. g[u] = f[u] + 1 /\ f[u] \in Nat /\ \A v \in Times : v # u => g[v] = f[v]
    OBVIOUS
  <1>2. CASE u \notin T
    <2>1. \A v \in T : g[v] = f[v]
      BY <1>1, <1>2
    <2>2. A = B
      BY <2>1
    <2>3. QED
      BY <1>0, <1>2, <2>2
  <1>3. CASE u \in T
    <2>1. 1..g[u] = (1..f[u]) \union {f[u] + 1} /\ f[u] + 1 \notin 1..f[u]
      BY <1>1
    <2>2. e \notin A
      BY <2>1
    <2>3. ASSUME NEW x \in B PROVE x \in A \union {e}
      <3>1. PICK v \in T : x \in {v} \X (1..g[v])
        OBVIOUS
      <3>2. CASE v = u
        <4>1. PICK i \in 1..g[u] : x = <<u, i>>
          BY <3>1, <3>2
        <4>2. i \in 1..f[u] \/ i = f[u] + 1
          BY <2>1
        <4>3. QED
          BY <1>3, <4>1, <4>2
      <3>3. CASE v # u
        BY <1>1, <3>1, <3>3
      <3>4. QED
        BY <3>2, <3>3
    <2>4. ASSUME NEW x \in A \union {e} PROVE x \in B
      <3>1. CASE x = e
        BY <1>3, <2>1, <3>1
      <3>2. CASE x \in A
        <4>1. PICK v \in T : x \in {v} \X (1..f[v])
          BY <3>2
        <4>2. 1..f[v] \subseteq 1..g[v]
          BY <1>1, <2>1
        <4>3. QED
          BY <4>1, <4>2
      <3>3. QED
        BY <3>1, <3>2
    <2>5. B = A \union {e}
      BY <2>3, <2>4
    <2> HIDE DEF e
    <2>6. IsFiniteSet(B) /\ Cardinality(B) = Cardinality(A) + 1
      <3>1. ASSUME NEW x, x \notin A
            PROVE  IsFiniteSet(A \union {x}) /\ Cardinality(A \union {x}) = Cardinality(A) + 1
        BY <3>1, FS_AddElement
      <3>2. QED
        BY <2>2, <2>5, <3>1
    <2>7. QED
      BY <1>0, <1>3, <2>6
  <1>4. QED
    BY <1>2, <1>3

\* What Paid says, in numbers: a admitted in the stretch from t on, c of them
\* at most in the current window, and spent windows' worth paid for.
Pays(a, c, slots, spent, limit, start, t, length) ==
  IF start >= t
  THEN a <= slots * limit + c
  ELSE \/ a = 0
       \/ spent > 0 /\ a + limit <= spent * limit + c
       \/ start + length > t /\ a <= c

\* A hit in the stretch is paid for: one with an old reading frees its slot, and
\* one with a reading from the stretch opens a window only as the last one
\* (store.rs:57-65).
LEMMA HitPays ==
  ASSUME NEW a \in Nat, NEW c \in Nat, NEW slots \in Nat, NEW spent \in Nat, NEW limit \in Nat,
         NEW start \in Nat, NEW t \in Nat, NEW length \in Nat, NEW now \in Nat, NEW time \in Nat,
         NEW d \in {0, 1}, NEW start2, NEW c2, NEW spent2 \in Nat,
         Pays(a, c, slots, spent, limit, start, t, length),
         slots > 0, spent <= slots, spent2 <= slots,
         spent2 = IF now < t THEN spent + 1 ELSE spent,
         t <= time, time < t + length, now <= time, c <= limit,
         \/ start2 = start /\ c2 = c + d /\ (d = 1 => now - start < length)
         \/ start2 = now /\ c2 = d /\ (a = 0 \/ now - start >= length)
  PROVE  Pays(a + d, c2, slots, spent2, limit, start2, t, length)
  <1> DEFINE all == slots * limit
             paid == spent * limit
             paid2 == spent2 * limit
  <1>1. all \in Nat /\ paid \in Nat /\ paid2 \in Nat /\ limit <= all
    BY Products
  <1>2. paid <= all /\ paid2 <= all /\ paid2 = IF now < t THEN paid + limit ELSE paid
    BY Products
  <1>3. spent2 > 0 => limit <= paid2
    BY Products
  <1>4. IF start >= t THEN a <= all + c
        ELSE \/ a = 0
             \/ spent > 0 /\ a + limit <= paid + c
             \/ start + length > t /\ a <= c
    BY DEF Pays
  <1> HIDE DEF all, paid, paid2
  <1>5. IF start2 >= t THEN a + d <= all + c2
        ELSE \/ a + d = 0
             \/ spent2 > 0 /\ a + d + limit <= paid2 + c2
             \/ start2 + length > t /\ a + d <= c2
    <2>1. CASE start2 = start /\ c2 = c + d /\ (d = 1 => now - start < length)
      BY <1>1, <1>2, <1>3, <1>4, <2>1
    <2>2. CASE start2 = now /\ c2 = d /\ (a = 0 \/ now - start >= length)
      BY <1>1, <1>2, <1>3, <1>4, <2>2
    <2>3. QED
      BY <2>1, <2>2
  <1>6. QED
    BY <1>5 DEF Pays, all, paid2

\* What a hit does, by its key, its route, its reading and the window it finds
\* or opens (store.rs:54-79).
LEMMA HitEffect ==
  ASSUME TypeOK, NothingAhead, NEW s \in Slots, hit(s),
         NEW k, k = call[s].key, NEW r, r = call[s].route, NEW now, now = call[s].now,
         NEW w, w = Counted(windows[k], now, LimitOf(r).window)
  PROVE  /\ k \in Keys /\ r \in Routes /\ now \in Times /\ now <= clock /\ clock \in Times
         /\ call[s] # None /\ windows[k] \in Window
         /\ windows' = [windows EXCEPT ![k] = w]
         /\ call' = [call EXCEPT ![s] = None]
         /\ clock' = clock
         /\ \/ inWindow' = inWindow /\ atTime' = atTime
            \/ /\ inWindow' = [inWindow EXCEPT ![k][r][w.start] = @ + 1]
               /\ atTime' = [atTime EXCEPT ![k][r][clock] = @ + 1]
         /\ w \in Window
         /\ \/ /\ w.start = now /\ w.count = 1
               /\ windows[k].count = 0 \/ now - windows[k].start >= LimitOf(r).window
            \/ /\ w.start = windows[k].start /\ w.count = windows[k].count + 1
               /\ windows[k].count > 0 /\ now - windows[k].start < LimitOf(r).window
  <1>1. /\ k \in Keys /\ r \in Routes /\ now \in Times /\ now <= clock /\ clock \in Times
        /\ call[s] # None /\ windows[k] \in Window
    BY DEF hit, TypeOK, Call, NothingAhead
  <1>2. /\ windows' = [windows EXCEPT ![k] = w]
        /\ call' = [call EXCEPT ![s] = None]
        /\ clock' = clock
    BY DEF hit
  <1>3. \/ inWindow' = inWindow /\ atTime' = atTime
        \/ /\ inWindow' = [inWindow EXCEPT ![k][r][w.start] = @ + 1]
           /\ atTime' = [atTime EXCEPT ![k][r][clock] = @ + 1]
    <2>1. CASE OverLimit(w, LimitOf(r).limit)
      BY <2>1 DEF hit
    <2>2. CASE ~OverLimit(w, LimitOf(r).limit)
      BY <2>2 DEF hit
    <2>3. QED
      BY <2>1, <2>2
  <1>4. LimitOf(r).window \in Nat \ {0}
    BY <1>1, LimitType
  <1>5. /\ w \in Window
        /\ \/ /\ w.start = now /\ w.count = 1
              /\ windows[k].count = 0 \/ now - windows[k].start >= LimitOf(r).window
           \/ /\ w.start = windows[k].start /\ w.count = windows[k].count + 1
              /\ windows[k].count > 0 /\ now - windows[k].start < LimitOf(r).window
    BY <1>1, <1>4, CountedCases
  <1>6. QED
    BY <1>1, <1>2, <1>3, <1>5

\* Whoever pays, the admissions stay within the bound.
LEMMA PaysBound ==
  ASSUME NEW a \in Nat, NEW c \in Nat, NEW slots \in Nat, NEW spent \in Nat, NEW limit \in Nat,
         NEW start, NEW t, NEW length,
         Pays(a, c, slots, spent, limit, start, t, length), spent <= slots, c <= limit
  PROVE  a <= (slots + 1) * limit
  <1> DEFINE all == slots * limit
             paid == spent * limit
  <1>1. all \in Nat /\ paid \in Nat /\ paid <= all /\ (slots + 1) * limit = all + limit
    BY Products
  <1>2. a <= all + c \/ a = 0 \/ a + limit <= paid + c \/ a <= c
    BY DEF Pays
  <1> HIDE DEF all, paid
  <1>3. QED
    BY <1>1, <1>2

\* The bound is a number.
LEMMA BoundType ==
  ASSUME NEW r \in Routes
  PROVE  RateBound(r) \in Nat
  <1>1. Cardinality(Slots) + 1 \in Nat
    BY ThrottleAssumption, FS_CardinalityType
  <1>2. QED
    BY <1>1, LimitType, Products DEF RateBound

\* The slots whose calls read the clock from t on: a number of all slots, and one
\* more when a call with an older reading is over.
LEMMA SlotFreed ==
  ASSUME TypeOK, NEW s \in Slots, call[s] # None, call' = [call EXCEPT ![s] = None],
         NEW t \in Times
  PROVE  /\ Cardinality(ReadFrom(t)) \in Nat /\ Cardinality(ReadFrom(t)') \in Nat
         /\ Cardinality(Slots) \in Nat /\ Cardinality(Slots) > 0
         /\ Cardinality(ReadFrom(t)) <= Cardinality(Slots)
         /\ Cardinality(ReadFrom(t)') <= Cardinality(Slots)
         /\ Cardinality(ReadFrom(t)') = IF call[s].now < t THEN Cardinality(ReadFrom(t)) + 1
                                        ELSE Cardinality(ReadFrom(t))
  <1> DEFINE A == ReadFrom(t)
             B == ReadFrom(t)'
  <1>1. A \subseteq Slots /\ B \subseteq Slots /\ IsFiniteSet(Slots)
    BY ThrottleAssumption DEF ReadFrom
  <1>2. call[s].now \in Nat /\ t \in Nat
    BY ThrottleAssumption DEF TypeOK, Call, Times
  <1>3. call'[s] = None /\ \A x \in Slots : x # s => call'[x] = call[x]
    BY DEF TypeOK
  <1>4. B = A \union {s}
    BY <1>3 DEF ReadFrom
  <1>5. s \in A <=> ~(call[s].now < t)
    BY <1>2 DEF ReadFrom
  <1> HIDE DEF A, B
  <1>6. IsFiniteSet(A) /\ IsFiniteSet(B)
    BY <1>1, FS_Subset
  <1>7. /\ Cardinality(A) \in Nat /\ Cardinality(B) \in Nat /\ Cardinality(Slots) \in Nat
        /\ Cardinality(A) <= Cardinality(Slots) /\ Cardinality(B) <= Cardinality(Slots)
    BY <1>1, <1>6, FS_Subset, FS_CardinalityType
  <1>8. Cardinality(B) = IF s \in A THEN Cardinality(A) ELSE Cardinality(A) + 1
    BY <1>4, <1>6, FS_AddElement
  <1>9. Cardinality(Slots) > 0
    BY <1>1, <1>7, FS_EmptySet
  <1>10. QED
    BY <1>5, <1>7, <1>8, <1>9 DEF A, B

\* What a hit adds to the history of one client and route: d requests, in the
\* window the hit was counted in and at the instant of the answer.
LEMMA HitAdmits ==
  ASSUME TypeOK, NothingAhead, CountCovers, NEW s \in Slots, hit(s),
         NEW k \in Keys, NEW r \in Routes
  PROVE  \E d \in {0, 1} :
            /\ atTime'[k][r] = IF d = 1 THEN [atTime[k][r] EXCEPT ![clock] = @ + 1]
                                        ELSE atTime[k][r]
            /\ \/ /\ windows'[k].start = windows[k].start
                  /\ inWindow'[k][r][windows'[k].start] = inWindow[k][r][windows[k].start] + d
                  /\ d = 1 => call[s].now - windows[k].start < LimitOf(r).window
               \/ /\ windows'[k].start = call[s].now
                  /\ inWindow'[k][r][windows'[k].start] = d
                  /\ \/ windows[k].count = 0
                     \/ \E q \in Routes : call[s].now - windows[k].start >= LimitOf(q).window
            /\ d = 0 \/ windows'[k].count # 0
            /\ windows[k].count # 0 => windows'[k].count # 0
  <1> DEFINE K == call[s].key
             R == call[s].route
             now == call[s].now
             w == Counted(windows[K], now, LimitOf(R).window)
  <1>1. /\ K \in Keys /\ R \in Routes /\ now \in Times /\ clock \in Times
        /\ windows[K] \in Window /\ windows' = [windows EXCEPT ![K] = w] /\ w \in Window
    BY HitEffect
  <1>1a. \/ inWindow' = inWindow /\ atTime' = atTime
         \/ /\ inWindow' = [inWindow EXCEPT ![K][R][w.start] = @ + 1]
            /\ atTime' = [atTime EXCEPT ![K][R][clock] = @ + 1]
    <2>1. CASE OverLimit(w, LimitOf(R).limit)
      BY <2>1 DEF hit
    <2>2. CASE ~OverLimit(w, LimitOf(R).limit)
      BY <2>2 DEF hit
    <2>3. QED
      BY <2>1, <2>2
  <1>2. \/ /\ w.start = now /\ w.count = 1
           /\ windows[K].count = 0 \/ now - windows[K].start >= LimitOf(R).window
        \/ /\ w.start = windows[K].start /\ w.count = windows[K].count + 1
           /\ windows[K].count > 0 /\ now - windows[K].start < LimitOf(R).window
    BY HitEffect
  <1> HIDE DEF w, now, K, R
  <1>3. /\ inWindow \in [Keys -> [Routes -> [Times -> Nat]]]
        /\ atTime \in [Keys -> [Routes -> [Times -> Nat]]]
        /\ windows \in [Keys -> Window] /\ w.start \in Times
    BY <1>1 DEF TypeOK, Window
  <1>4. CASE k # K
    <2>1. windows'[k] = windows[k] /\ inWindow'[k] = inWindow[k] /\ atTime'[k] = atTime[k]
      <3>1. windows'[k] = windows[k]
        BY <1>1, <1>3, <1>4
      <3>2. CASE inWindow' = inWindow /\ atTime' = atTime
        BY <3>1, <3>2
      <3>3. CASE /\ inWindow' = [inWindow EXCEPT ![K][R][w.start] = @ + 1]
                 /\ atTime' = [atTime EXCEPT ![K][R][clock] = @ + 1]
        <4>1. inWindow'[k] = inWindow[k]
          BY <1>1, <1>3, <1>4, <3>3, OneMore
        <4>2. atTime'[k] = atTime[k]
          BY <1>1, <1>3, <1>4, <3>3, OneMore
        <4>3. QED
          BY <3>1, <4>1, <4>2
      <3>4. QED
        BY <1>1a, <3>2, <3>3
    <2>2. inWindow[k][r][windows[k].start] \in Nat
      BY <1>3 DEF Window
    <2>3. QED
      BY <2>1, <2>2
  <1>5. CASE k = K
    <2>1. windows'[k] = w
      BY <1>1, <1>3, <1>5
    <2>2. inWindow[k][r] \in [Times -> Nat] /\ atTime[k][r] \in [Times -> Nat]
      BY <1>3
    <2>3. \E d \in {0, 1} :
             /\ d = 1 => r = R
             /\ atTime'[k][r] = IF d = 1 THEN [atTime[k][r] EXCEPT ![clock] = @ + 1]
                                         ELSE atTime[k][r]
             /\ inWindow'[k][r][w.start] = inWindow[k][r][w.start] + d
      <3>1. CASE inWindow' = inWindow /\ atTime' = atTime
        BY <1>3, <2>2, <3>1
      <3>2. CASE /\ inWindow' = [inWindow EXCEPT ![K][R][w.start] = @ + 1]
                 /\ atTime' = [atTime EXCEPT ![K][R][clock] = @ + 1]
        <4>0. clock \in Times /\ K \in Keys /\ R \in Routes /\ w.start \in Times
          BY <1>1, <1>3
        <4>1. /\ inWindow'[K][R] = [inWindow[K][R] EXCEPT ![w.start] = @ + 1]
              /\ r # R => inWindow'[K][r] = inWindow[K][r]
          <5>1. /\ inWindow \in [Keys -> [Routes -> [Times -> Nat]]]
                /\ inWindow' = [inWindow EXCEPT ![K][R][w.start] = @ + 1]
            BY <1>3, <3>2
          <5>2. inWindow'[K][R] = [inWindow[K][R] EXCEPT ![w.start] = @ + 1]
            <6>1. inWindow[K] \in [Routes -> [Times -> Nat]]
              BY ONLY <4>0, <5>1
            <6>2. inWindow'[K] = [inWindow[K] EXCEPT ![R][w.start] = @ + 1]
              BY ONLY <4>0, <5>1
            <6>3. QED
              BY ONLY <4>0, <6>1, <6>2
          <5>3. ASSUME NEW q \in Routes, q # R PROVE inWindow'[K][q] = inWindow[K][q]
            BY ONLY <4>0, <5>1, <5>3, OneMore
          <5>4. QED
            BY <5>2, <5>3
        <4>2. /\ atTime'[K][R] = [atTime[K][R] EXCEPT ![clock] = @ + 1]
              /\ r # R => atTime'[K][r] = atTime[K][r]
          <5>1. /\ atTime \in [Keys -> [Routes -> [Times -> Nat]]]
                /\ atTime' = [atTime EXCEPT ![K][R][clock] = @ + 1]
            BY <1>3, <3>2
          <5>2. atTime'[K][R] = [atTime[K][R] EXCEPT ![clock] = @ + 1]
            <6>1. atTime[K] \in [Routes -> [Times -> Nat]]
              BY ONLY <4>0, <5>1
            <6>2. atTime'[K] = [atTime[K] EXCEPT ![R][clock] = @ + 1]
              BY ONLY <4>0, <5>1
            <6>3. QED
              BY ONLY <4>0, <6>1, <6>2
          <5>3. ASSUME NEW q \in Routes, q # R PROVE atTime'[K][q] = atTime[K][q]
            BY ONLY <4>0, <5>1, <5>3, OneMore
          <5>4. QED
            BY <5>2, <5>3
        <4>3. CASE r = R
          BY <1>3, <1>5, <2>2, <4>1, <4>2, <4>3
        <4>4. CASE r # R
          BY <1>3, <1>5, <2>2, <4>1, <4>2, <4>4
        <4>5. QED
          BY <4>3, <4>4
      <3>3. QED
        BY <1>1a, <3>1, <3>2
    <2>4. PICK d \in {0, 1} :
             /\ d = 1 => r = R
             /\ atTime'[k][r] = IF d = 1 THEN [atTime[k][r] EXCEPT ![clock] = @ + 1]
                                         ELSE atTime[k][r]
             /\ inWindow'[k][r][w.start] = inWindow[k][r][w.start] + d
      BY <2>3
    <2>5. w.count # 0
      BY <1>1, <1>2, <1>5 DEF Window
    <2>6. CASE w.start = windows[K].start /\ now - windows[K].start < LimitOf(R).window
      BY <1>5, <2>1, <2>4, <2>5, <2>6 DEF now
    <2>7. CASE w.start = now /\ (windows[K].count = 0 \/ now - windows[K].start >= LimitOf(R).window)
      <3>1. inWindow[k][r][w.start] = 0
        <4>1. windows[K].count = 0 \/ w.start > windows[K].start
          BY <1>1, <2>7, LimitType, ThrottleAssumption DEF Window, Times
        <4>2. QED
          BY <1>3, <1>5, <4>1 DEF CountCovers
      <3>2. QED
        BY <1>1, <1>5, <2>1, <2>4, <2>5, <2>7, <3>1 DEF now
    <2>8. QED
      BY <1>2, <2>6, <2>7
  <1>6. QED
    BY <1>4, <1>5

\* A hit keeps every stretch paid for (store.rs:54-79).
LEMMA HitRate ==
  ASSUME TypeOK, NothingAhead, CountCovers, QuotaPerWindow, NEW s \in Slots, hit(s),
         TypeOK', QuotaPerWindow',
         NEW k \in Keys, NEW r \in Routes, NEW t \in Times, Shortest(r), RateInv(k, r, t)
  PROVE  RateInv(k, r, t)'
  <1> DEFINE now == call[s].now
             limit == LimitOf(r).limit
             length == LimitOf(r).window
             T == Stretch(r, t)
             a == AdmittedFrom(k, r, t)
             spent == Cardinality(ReadFrom(t))
             slots == Cardinality(Slots)
             start == windows[k].start
             c == inWindow[k][r][start]
  <1>1. PICK d \in {0, 1} :
            /\ atTime'[k][r] = IF d = 1 THEN [atTime[k][r] EXCEPT ![clock] = @ + 1]
                                        ELSE atTime[k][r]
            /\ \/ /\ windows'[k].start = start
                  /\ inWindow'[k][r][windows'[k].start] = c + d
                  /\ d = 1 => now - start < length
               \/ /\ windows'[k].start = now
                  /\ inWindow'[k][r][windows'[k].start] = d
                  /\ windows[k].count = 0 \/ \E q \in Routes : now - start >= LimitOf(q).window
            /\ d = 0 \/ windows'[k].count # 0
            /\ windows[k].count # 0 => windows'[k].count # 0
    BY HitAdmits
  <1>2. /\ now \in Nat /\ t \in Nat /\ clock \in Times /\ clock \in Nat /\ now <= clock
        /\ clock' = clock /\ call[s] # None /\ call' = [call EXCEPT ![s] = None]
    BY HitEffect, ThrottleAssumption DEF Times
  <1>3. limit \in Nat /\ length \in Nat \ {0}
    BY LimitType
  <1>4. start \in Nat /\ c \in Nat /\ c <= limit
    <2>1. start \in Times
      BY DEF TypeOK, Window
    <2>2. start \in Nat
      BY <2>1, ThrottleAssumption DEF Times
    <2>3. c \in Nat /\ c <= limit
      BY <2>1 DEF TypeOK, QuotaPerWindow
    <2>4. QED
      BY <2>2, <2>3
  <1>5. /\ windows'[k].start \in Times
        /\ inWindow'[k][r][windows'[k].start] \in Nat
        /\ inWindow'[k][r][windows'[k].start] <= limit
    BY DEF TypeOK, Window, QuotaPerWindow
  <1>6. /\ spent \in Nat /\ Cardinality(ReadFrom(t)') \in Nat /\ slots \in Nat /\ slots > 0
        /\ spent <= slots /\ Cardinality(ReadFrom(t)') <= slots
        /\ Cardinality(ReadFrom(t)') = IF now < t THEN spent + 1 ELSE spent
    BY <1>2, SlotFreed
  <1>7. /\ IsFiniteSet(Admissions(k, r, t)') /\ a \in Nat
        /\ AdmittedFrom(k, r, t)' = IF clock \in T THEN a + d ELSE a
    <2> DEFINE f == atTime[k][r]
               g == atTime'[k][r]
               A == UNION {{v} \X (1..f[v]) : v \in T}
               B == UNION {{v} \X (1..g[v]) : v \in T}
    <2>1. Admissions(k, r, t) = A /\ Admissions(k, r, t)' = B
      BY DEF Admissions, Stretch
    <2>2. f \in [Times -> Nat] /\ T \in SUBSET Times /\ IsFiniteSet(A)
      BY <2>1 DEF TypeOK, Stretch, RateInv
    <2>3. a = Cardinality(A) /\ AdmittedFrom(k, r, t)' = Cardinality(B)
      BY <2>1 DEF AdmittedFrom
    <2>4. Cardinality(A) \in Nat
      BY <2>2, FS_CardinalityType
    <2>5. CASE d = 0
      BY <1>1, <2>1, <2>2, <2>3, <2>4, <2>5
    <2>6. CASE d = 1
      <3>1. g = [f EXCEPT ![clock] = @ + 1]
        BY <1>1, <2>6
      <3>0. clock \in Times
        BY <1>2
      <3> HIDE DEF f, g, T
      <3>2. /\ IsFiniteSet(B)
            /\ Cardinality(B) = IF clock \in T THEN Cardinality(A) + 1 ELSE Cardinality(A)
        BY ONLY <2>2, <3>0, <3>1, OneMoreInStretch
      <3>3. QED
        BY <2>1, <2>3, <2>4, <2>6, <3>2
    <2>7. QED
      BY <2>5, <2>6
  <1>8. CASE clock \notin T
    <2>1. AdmittedFrom(k, r, t)' = a /\ ~(clock \in Stretch(r, t))'
      BY <1>2, <1>7, <1>8 DEF Stretch
    <2>2. (clock < t \/ windows[k].count = 0)' => clock < t \/ windows[k].count = 0
      BY <1>1, <1>2
    <2>3. QED
      BY <1>7, <2>1, <2>2 DEF RateInv, RateBound
  <1>9. CASE clock \in T
    <2>1. t <= clock /\ clock < t + length
      BY <1>9 DEF Stretch
    <2>2. Pays(a, c, slots, spent, limit, start, t, length)
      BY <1>9 DEF RateInv, Paid, Pays
    <2>3. \A q \in Routes : now - start >= LimitOf(q).window => now - start >= length
      BY <1>2, <1>3, <1>4, LimitType DEF Shortest
    <2>4. windows[k].count = 0 => a = 0
      BY DEF RateInv
    <2>5. \/ /\ windows'[k].start = start
             /\ inWindow'[k][r][windows'[k].start] = c + d
             /\ d = 1 => now - start < length
          \/ /\ windows'[k].start = now
             /\ inWindow'[k][r][windows'[k].start] = d
             /\ a = 0 \/ now - start >= length
      BY <1>1, <2>3, <2>4
    <2> DEFINE start2 == windows'[k].start
               c2 == inWindow'[k][r][start2]
               spent2 == Cardinality(ReadFrom(t)')
    <2> HIDE DEF a, c, slots, spent, limit, start, length, now, start2, c2, spent2
    <2>6. Pays(a + d, c2, slots, spent2, limit, start2, t, length)
      <3>1. /\ spent2 \in Nat /\ spent2 <= slots
            /\ spent2 = IF now < t THEN spent + 1 ELSE spent
        BY <1>6 DEF spent2
      <3>2. \/ start2 = start /\ c2 = c + d /\ (d = 1 => now - start < length)
            \/ start2 = now /\ c2 = d /\ (a = 0 \/ now - start >= length)
        BY <2>5 DEF start2, c2
      <3>3. /\ a \in Nat /\ c \in Nat /\ slots \in Nat /\ spent \in Nat /\ limit \in Nat
            /\ start \in Nat /\ t \in Nat /\ length \in Nat /\ now \in Nat /\ clock \in Nat
            /\ d \in {0, 1}
        BY <1>2, <1>3, <1>4, <1>6, <1>7
      <3>4. slots > 0 /\ spent <= slots /\ now <= clock /\ c <= limit
        BY <1>2, <1>4, <1>6
      <3>5. QED
        BY ONLY <2>1, <2>2, <3>1, <3>2, <3>3, <3>4, HitPays, ZenonT(60)
    <2>7. a + d <= (slots + 1) * limit
      <3>1. a + d \in Nat /\ c2 \in Nat /\ c2 <= limit /\ spent2 \in Nat /\ spent2 <= slots
        BY <1>5, <1>6, <1>7 DEF start2, c2, spent2
      <3>2. QED
        BY <1>3, <1>6, <2>6, <3>1, PaysBound
    <2>8. Paid(k, r, t)'
      BY <1>7, <1>9, <2>6 DEF Paid, Pays, start2, c2, spent2, slots, limit, length
    <2>9. ~(clock < t)' /\ (windows[k].count = 0 => AdmittedFrom(k, r, t) = 0)'
      BY <1>1, <1>2, <1>7, <1>9, <2>1, <2>4 DEF a
    <2>10. QED
      BY <1>7, <1>9, <2>7, <2>8, <2>9 DEF RateInv, RateBound, slots, limit
  <1>10. QED
    BY <1>8, <1>9

\* The empty store satisfies the inductive invariant.
LEMMA IInvInit == Init => IInv
  <1> SUFFICES ASSUME Init PROVE IInv
    OBVIOUS
  <1> USE ThrottleAssumption DEF Init, Times
  <1>1. TypeOK
    BY DEF TypeOK, Window
  <1>2. NothingAhead /\ CountCovers /\ RetryAfterHonest
    BY DEF NothingAhead, CountCovers, RetryAfterHonest
  <1>3. QuotaPerWindow
    BY LimitType DEF QuotaPerWindow
  <1>4. ASSUME NEW k \in Keys, NEW r \in Routes, NEW t \in Times PROVE RateInv(k, r, t)
    <2>1. \A u \in Times : atTime[k][r][u] = 0 /\ 1..0 = {}
      OBVIOUS
    <2>2. Admissions(k, r, t) = {}
      BY <2>1 DEF Admissions, Stretch
    <2>3. IsFiniteSet(Admissions(k, r, t)) /\ AdmittedFrom(k, r, t) = 0
      BY <2>2, FS_EmptySet DEF AdmittedFrom
    <2>4. RateBound(r) \in Nat
      BY BoundType
    <2>5. Paid(k, r, t)
      <3>1. clock = 0 /\ windows[k].start = 0 /\ inWindow[k][r][0] = 0 /\ 0 \in Times
        OBVIOUS
      <3>2. Cardinality(Slots) * LimitOf(r).limit \in Nat
        BY LimitType, FS_CardinalityType, Products
      <3>3. QED
        BY <2>3, <3>1, <3>2 DEF Paid
    <2>6. QED
      BY <2>3, <2>4, <2>5 DEF RateInv
  <1>5. QED
    BY <1>1, <1>2, <1>3, <1>4 DEF IInv, StretchesPaid

\* A hit keeps the inductive invariant (store.rs:54-79).
LEMMA HitStep ==
  ASSUME IInv, NEW s \in Slots, hit(s)
  PROVE  IInv'
  <1> DEFINE k == call[s].key
             r == call[s].route
             now == call[s].now
             limit == LimitOf(r)
             w == Counted(windows[k], now, limit.window)
             retry == RetryAfter(w, now, limit.window)
  <1> USE DEF IInv
  <1>0. MaxClock \in Nat /\ TicksPerSecond \in Nat \ {0}
    BY ThrottleAssumption
  <1>1. /\ k \in Keys /\ r \in Routes /\ now \in Times /\ now <= clock
        /\ clock \in Times
    BY DEF hit, TypeOK, Call, NothingAhead
  <1>2. limit.limit \in Nat /\ limit.window \in Nat \ {0}
    BY <1>1, LimitType
  <1>3. windows[k] \in Window /\ windows[k].start <= clock
    BY <1>1 DEF TypeOK, NothingAhead
  <1>4. /\ w \in Window
        /\ \/ /\ w.start = now /\ w.count = 1
              /\ windows[k].count = 0 \/ now - windows[k].start >= limit.window
           \/ /\ w.start = windows[k].start /\ w.count = windows[k].count + 1
              /\ windows[k].count > 0 /\ now - windows[k].start < limit.window
    BY <1>1, <1>2, <1>3, CountedCases
  <1>5. w.start \in Times /\ w.start <= clock /\ w.count \in Nat
    BY <1>1, <1>3, <1>4 DEF Window
  <1>6. /\ retry \in Nat
        /\ clock + retry >= w.start + limit.window
        /\ now + retry <= w.start + limit.window
    <2>1. now - w.start < limit.window
      BY <1>0, <1>1, <1>2, <1>3, <1>4 DEF Window, Times
    <2> HIDE DEF w, now, limit
    <2>2. QED
      BY <1>0, <1>1, <1>2, <1>5, <2>1 DEF RetryAfter, Minus, Times
  <1>7. /\ windows' = [windows EXCEPT ![k] = w]
        /\ call' = [call EXCEPT ![s] = None]
        /\ clock' = clock /\ arrived' = arrived
    BY DEF hit
  <1>8. \/ /\ w.count > limit.limit
           /\ denial' = [route |-> r, at |-> clock, now |-> now, start |-> w.start,
                         retry_after |-> retry, header |-> RetryAfterHeader(retry)]
           /\ inWindow' = inWindow /\ atTime' = atTime
        \/ /\ w.count <= limit.limit
           /\ denial' = None
           /\ inWindow' = [inWindow EXCEPT ![k][r][w.start] = @ + 1]
           /\ atTime' = [atTime EXCEPT ![k][r][clock] = @ + 1]
    <2>1. CASE OverLimit(w, limit.limit)
      <3>1. /\ denial' = [route |-> r, at |-> clock, now |-> now, start |-> w.start,
                          retry_after |-> retry, header |-> RetryAfterHeader(retry)]
            /\ inWindow' = inWindow /\ atTime' = atTime
        BY <2>1 DEF hit
      <3>2. QED
        BY <2>1, <3>1 DEF OverLimit
    <2>2. CASE ~OverLimit(w, limit.limit)
      <3>1. /\ denial' = None
            /\ inWindow' = [inWindow EXCEPT ![k][r][w.start] = @ + 1]
            /\ atTime' = [atTime EXCEPT ![k][r][clock] = @ + 1]
        BY <2>2 DEF hit
      <3>2. w.count <= limit.limit
        <4> HIDE DEF w, limit
        <4>1. QED
          BY <1>2, <1>5, <2>2 DEF OverLimit
      <3>3. QED
        BY <3>1, <3>2
    <2>3. QED
      BY <2>1, <2>2
  <1> HIDE DEF w, retry, limit, now, k, r
  <1>9. TypeOK'
    <2>1. RetryAfterHeader(retry) \in Nat
      BY <1>0, <1>6, WholeSeconds DEF RetryAfterHeader
    <2>2. call' \in [Slots -> Call \cup {None}] /\ windows' \in [Keys -> Window]
          /\ clock' \in Times /\ arrived' \in Nat
      BY <1>4, <1>7 DEF TypeOK
    <2>3. denial' \in Denial \cup {None}
      BY <1>1, <1>5, <1>6, <1>8, <2>1 DEF TypeOK, Denial
    <2>4. inWindow' \in [Keys -> [Routes -> [Times -> Nat]]]
          /\ atTime' \in [Keys -> [Routes -> [Times -> Nat]]]
      <3>1. CASE inWindow' = inWindow /\ atTime' = atTime
        BY <3>1 DEF TypeOK
      <3>2. CASE /\ inWindow' = [inWindow EXCEPT ![k][r][w.start] = @ + 1]
                 /\ atTime' = [atTime EXCEPT ![k][r][clock] = @ + 1]
        <4>1. inWindow' \in [Keys -> [Routes -> [Times -> Nat]]]
          BY <1>1, <1>5, <3>2, OneMore DEF TypeOK
        <4>2. atTime' \in [Keys -> [Routes -> [Times -> Nat]]]
          BY <1>1, <3>2, OneMore DEF TypeOK
        <4>3. QED
          BY <4>1, <4>2
      <3>3. QED
        BY <1>8, <3>1, <3>2
    <2>5. QED
      BY <2>2, <2>3, <2>4 DEF TypeOK
  <1>10. NothingAhead'
    BY <1>4, <1>5, <1>7 DEF NothingAhead, TypeOK
  <1>11. ASSUME NEW kk \in Keys, NEW rr \in Routes
         PROVE  /\ inWindow'[kk][rr][windows'[kk].start] <= windows'[kk].count
                /\ \A t \in Times : t > windows'[kk].start => inWindow'[kk][rr][t] = 0
                /\ windows'[kk].count = 0 => \A t \in Times : inWindow'[kk][rr][t] = 0
                /\ \A t \in Times : inWindow'[kk][rr][t] <= LimitOf(rr).limit
    <2>1. /\ inWindow[kk][rr] \in [Times -> Nat]
          /\ windows[kk] \in Window
          /\ inWindow[kk][rr][windows[kk].start] <= windows[kk].count
          /\ \A t \in Times : t > windows[kk].start => inWindow[kk][rr][t] = 0
          /\ windows[kk].count = 0 => \A t \in Times : inWindow[kk][rr][t] = 0
          /\ \A t \in Times : inWindow[kk][rr][t] <= LimitOf(rr).limit
      BY DEF TypeOK, CountCovers, QuotaPerWindow
    <2>2. CASE kk # k
      <3>1. windows'[kk] = windows[kk] /\ inWindow'[kk] = inWindow[kk]
        BY <1>7, <1>8, <2>2 DEF TypeOK
      <3>2. QED
        BY <2>1, <3>1
    <2>3. CASE kk = k
      <3>1. windows'[kk] = w
        BY <1>7, <2>3 DEF TypeOK
      <3>2. /\ inWindow[kk][rr][w.start] + 1 <= w.count
            /\ \A t \in Times : t > w.start => inWindow[kk][rr][t] = 0
            /\ w.count > 0
        <4>1. CASE w.start = windows[k].start /\ w.count = windows[k].count + 1
          BY <2>1, <2>3, <4>1 DEF Window
        <4>2. CASE w.start = now /\ w.count = 1 /\ windows[k].count = 0
          BY <1>1, <2>1, <2>3, <4>2
        <4>3. CASE w.start = now /\ w.count = 1 /\ now - windows[k].start >= limit.window
          <5>1. now > windows[k].start
            BY <1>0, <1>1, <1>2, <1>3, <4>3 DEF Window, Times
          <5>2. \A t \in Times : t > now => t > windows[k].start
            BY <1>0, <1>1, <1>3, <5>1 DEF Window, Times
          <5>3. QED
            BY <1>1, <2>1, <2>3, <4>3, <5>1, <5>2
        <4>4. QED
          BY <1>4, <4>1, <4>2, <4>3
      <3>3. CASE inWindow'[kk][rr] = inWindow[kk][rr]
        BY <1>5, <2>1, <3>1, <3>2, <3>3
      <3>4. CASE inWindow'[kk][rr] # inWindow[kk][rr]
        <4>1. /\ rr = r
              /\ w.count <= LimitOf(rr).limit
              /\ inWindow'[kk][rr] = [inWindow[kk][rr] EXCEPT ![w.start] = @ + 1]
          <5>1. /\ w.count <= limit.limit
                /\ inWindow' = [inWindow EXCEPT ![k][r][w.start] = @ + 1]
            BY <1>8, <3>4
          <5>2. inWindow \in [Keys -> [Routes -> [Times -> Nat]]]
            BY DEF TypeOK
          <5>3. inWindow'[k][r] = [inWindow[k][r] EXCEPT ![w.start] = @ + 1]
            <6>1. inWindow[k] \in [Routes -> [Times -> Nat]]
              BY ONLY <1>1, <5>2
            <6>2. inWindow'[k] = [inWindow[k] EXCEPT ![r][w.start] = @ + 1]
              BY ONLY <1>1, <5>1, <5>2
            <6>3. QED
              BY ONLY <1>1, <6>1, <6>2
          <5>4. rr # r => inWindow'[k][rr] = inWindow[k][rr]
            BY ONLY <1>1, <1>5, <1>11, <5>1, <5>2, OneMore
          <5>5. QED
            BY <2>3, <3>4, <5>1, <5>3, <5>4 DEF limit
        <4>2. \A t \in Times : inWindow'[kk][rr][t] =
                 IF t = w.start THEN inWindow[kk][rr][t] + 1 ELSE inWindow[kk][rr][t]
          BY <2>1, <4>1
        <4>3. LimitOf(rr).limit \in Nat
          BY LimitType
        <4>4. inWindow'[kk][rr][windows'[kk].start] <= windows'[kk].count
          BY <1>5, <3>1, <3>2, <4>2
        <4>5. \A t \in Times : t > w.start => t # w.start
          BY <1>0, <1>5 DEF Times
        <4>6. /\ \A t \in Times : t > windows'[kk].start => inWindow'[kk][rr][t] = 0
              /\ windows'[kk].count # 0
          BY <1>5, <3>1, <3>2, <4>2, <4>5
        <4>7. ASSUME NEW t \in Times PROVE inWindow'[kk][rr][t] <= LimitOf(rr).limit
          BY <1>5, <2>1, <3>2, <4>1, <4>2, <4>3
        <4>8. QED
          BY <4>4, <4>6, <4>7
      <3>5. QED
        BY <3>3, <3>4
    <2>4. QED
      BY <2>2, <2>3
  <1>12. CountCovers'
    BY <1>11 DEF CountCovers
  <1>13. QuotaPerWindow'
    BY <1>11 DEF QuotaPerWindow
  <1>14. RetryAfterHonest'
    <2>1. CASE denial' = None
      BY <2>1 DEF RetryAfterHonest
    <2>2. CASE denial' # None
      <3>1. /\ denial'.start = w.start /\ denial'.at = clock /\ denial'.now = now
            /\ denial'.route = r /\ denial'.retry_after = retry
            /\ denial'.header = retry \div TicksPerSecond
        BY <1>8, <2>2 DEF RetryAfterHeader
      <3>2. /\ (retry \div TicksPerSecond) * TicksPerSecond <= retry
            /\ retry < ((retry \div TicksPerSecond) + 1) * TicksPerSecond
        BY <1>0, <1>6, WholeSeconds
      <3>3. QED
        BY <1>6, <3>1, <3>2 DEF RetryAfterHonest, limit
    <2>3. QED
      BY <2>1, <2>2
  <1>15. StretchesPaid'
    <2>1. ASSUME NEW kk \in Keys, NEW rr \in Routes, NEW t \in Times, Shortest(rr)
          PROVE  RateInv(kk, rr, t)'
      BY <1>9, <1>13, <2>1, HitRate DEF StretchesPaid
    <2>2. QED
      BY <2>1 DEF StretchesPaid, Shortest, LimitOf
  <1>16. QED
    BY <1>9, <1>10, <1>12, <1>13, <1>14, <1>15

\* Time passes: nothing was admitted in a stretch that begins only now, and what
\* is paid for stays within the bound when the stretch is over.
LEMMA TickRate ==
  ASSUME TypeOK, NothingAhead, Tick,
         NEW k \in Keys, NEW r \in Routes, NEW t \in Times, RateInv(k, r, t)
  PROVE  RateInv(k, r, t)'
  <1>1. /\ clock \in Nat /\ t \in Nat /\ clock' = clock + 1 /\ windows[k].start \in Nat
        /\ windows[k].start <= clock
        /\ UNCHANGED <<call, windows, inWindow, atTime>>
    BY ThrottleAssumption DEF Tick, TypeOK, Times, Window, NothingAhead
  <1>2. AdmittedFrom(k, r, t)' = AdmittedFrom(k, r, t) /\ Admissions(k, r, t)' = Admissions(k, r, t)
    BY <1>1 DEF AdmittedFrom, Admissions, Stretch
  <1>3. (clock \in Stretch(r, t))' => clock \in Stretch(r, t) \/ clock < t
    <2>1. LimitOf(r).window \in Nat /\ clock \in Times
      BY LimitType DEF TypeOK
    <2>2. clock' < t + LimitOf(r).window => clock < t + LimitOf(r).window
      BY <1>1, <2>1
    <2>3. t <= clock \/ clock < t
      BY <1>1
    <2>4. QED
      BY <2>1, <2>2, <2>3 DEF Stretch
  <1>4. clock < t => Paid(k, r, t)
    BY <1>1 DEF RateInv, Paid
  <1>5. Paid(k, r, t) => Paid(k, r, t)'
    BY <1>1, <1>2 DEF Paid, ReadFrom
  <1>6. (clock < t \/ windows[k].count = 0)' => clock < t \/ windows[k].count = 0
    BY <1>1
  <1>7. QED
    BY <1>2, <1>3, <1>4, <1>5, <1>6 DEF RateInv, RateBound

\* An arrival reads the clock now, which is never before the beginning of a
\* stretch that has begun.
LEMMA CheckRate ==
  ASSUME TypeOK, NEW s \in Slots, NEW q \in Routes, NEW o \in Origins, check(s, q, o),
         NEW k \in Keys, NEW r \in Routes, NEW t \in Times, RateInv(k, r, t)
  PROVE  RateInv(k, r, t)'
  <1>1. /\ clock \in Nat /\ t \in Nat /\ UNCHANGED <<clock, windows, inWindow, atTime>>
        /\ call[s] = None /\ call'[s].now = clock
        /\ \A x \in Slots : x # s => call'[x] = call[x]
    <2>1. call' = [call EXCEPT ![s] = [key |-> client_key(o), route |-> q, now |-> clock]]
          /\ call[s] = None /\ UNCHANGED <<clock, windows, inWindow, atTime>>
      BY DEF check
    <2>2. clock \in Nat /\ t \in Nat
      BY ThrottleAssumption DEF TypeOK, Times
    <2>3. QED
      BY <2>1, <2>2 DEF TypeOK
  <1>2. AdmittedFrom(k, r, t)' = AdmittedFrom(k, r, t) /\ Admissions(k, r, t)' = Admissions(k, r, t)
    BY <1>1 DEF AdmittedFrom, Admissions, Stretch
  <1>3. (clock \in Stretch(r, t))' => clock \in Stretch(r, t) /\ t <= clock
    BY <1>1 DEF Stretch
  <1>4. t <= clock => ReadFrom(t)' = ReadFrom(t)
    BY <1>1 DEF ReadFrom
  <1>5. t <= clock /\ Paid(k, r, t) => Paid(k, r, t)'
    BY <1>1, <1>2, <1>4 DEF Paid
  <1>6. (clock < t \/ windows[k].count = 0)' => clock < t \/ windows[k].count = 0
    BY <1>1
  <1>7. QED
    BY <1>2, <1>3, <1>5, <1>6 DEF RateInv, RateBound

\* The clock, an arrival, a hit: none breaks the inductive invariant.
LEMMA IInvStep == IInv /\ [Next]_vars => IInv'
  <1> SUFFICES ASSUME IInv, [Next]_vars PROVE IInv'
    OBVIOUS
  <1>0. MaxClock \in Nat
    BY ThrottleAssumption
  <1>1. CASE Tick
    <2>1. TypeOK'
      BY <1>0, <1>1 DEF IInv, Tick, TypeOK, Times
    <2>2. NothingAhead'
      BY <1>0, <1>1 DEF IInv, Tick, TypeOK, NothingAhead, Times, Call, Window
    <2>3. CountCovers' /\ QuotaPerWindow' /\ RetryAfterHonest'
      BY <1>1 DEF IInv, Tick, CountCovers, QuotaPerWindow, RetryAfterHonest
    <2>4. StretchesPaid'
      BY <1>1, TickRate DEF IInv, StretchesPaid, Shortest, LimitOf
    <2>5. QED
      BY <2>1, <2>2, <2>3, <2>4 DEF IInv
  <1>2. ASSUME NEW s \in Slots, NEW r \in Routes, NEW o \in Origins, check(s, r, o)
        PROVE  IInv'
    <2>1. [key |-> client_key(o), route |-> r, now |-> clock] \in Call
      BY KeyType DEF IInv, TypeOK, Call
    <2>2. TypeOK'
      BY <1>2, <2>1 DEF IInv, check, TypeOK
    <2>3. NothingAhead'
      BY <1>0, <1>2 DEF IInv, check, TypeOK, NothingAhead, Times
    <2>4. CountCovers' /\ QuotaPerWindow' /\ RetryAfterHonest'
      BY <1>2 DEF IInv, check, CountCovers, QuotaPerWindow, RetryAfterHonest
    <2>5. StretchesPaid'
      <3>1. ASSUME NEW kk \in Keys, NEW rr \in Routes, NEW t \in Times, Shortest(rr)
            PROVE  RateInv(kk, rr, t)'
        BY <1>2, <3>1, CheckRate DEF IInv, StretchesPaid
      <3>2. QED
        BY <3>1 DEF StretchesPaid, Shortest, LimitOf
    <2>6. QED
      BY <2>2, <2>3, <2>4, <2>5 DEF IInv
  <1>3. ASSUME NEW s \in Slots, hit(s) PROVE IInv'
    BY <1>3, HitStep
  <1>4. CASE UNCHANGED vars
    <2>1. TypeOK' /\ NothingAhead' /\ CountCovers' /\ QuotaPerWindow' /\ RetryAfterHonest'
      BY <1>4 DEF IInv, vars, TypeOK, NothingAhead, CountCovers, QuotaPerWindow, RetryAfterHonest
    <2>2. ASSUME NEW k \in Keys, NEW r \in Routes, NEW t \in Times, RateInv(k, r, t)
          PROVE  RateInv(k, r, t)'
      <3>1. AdmittedFrom(k, r, t)' = AdmittedFrom(k, r, t) /\ Admissions(k, r, t)' = Admissions(k, r, t)
        BY <1>4 DEF vars, AdmittedFrom, Admissions, Stretch
      <3>2. Paid(k, r, t)' = Paid(k, r, t)
        BY <1>4, <3>1 DEF vars, Paid, ReadFrom
      <3>3. QED
        BY <1>4, <2>2, <3>1, <3>2 DEF vars, RateInv, RateBound, Stretch
    <2>3. StretchesPaid'
      BY <2>2 DEF IInv, StretchesPaid, Shortest, LimitOf
    <2>4. QED
      BY <2>1, <2>3 DEF IInv
  <1>5. QED
    BY <1>1, <1>2, <1>3, <1>4 DEF Next, Quiet

\* The inductive invariant holds throughout.
THEOREM Invariance == Spec => []IInv
  BY IInvInit, IInvStep, PTL DEF Spec

\* The store's fields keep their types.
THEOREM TypeCorrect == Spec => []TypeOK
  <1>1. IInv => TypeOK
    BY DEF IInv
  <1>2. QED
    BY <1>1, Invariance, PTL

\* For any number of threads, clients and routes, a route admits at most its
\* limit in one window (store.rs:51-53).
THEOREM QuotaHolds == Spec => []QuotaPerWindow
  <1>1. IInv => QuotaPerWindow
    BY DEF IInv
  <1>2. QED
    BY <1>1, Invariance, PTL

\* In real time: no stretch as long as a route's window sees more of a client's
\* requests admitted than one limit for each thread in the guard and one more,
\* as long as no other route has a shorter window (store.rs:55-65).
THEOREM RateIsBounded == Spec => []BoundedRate
  <1>1. IInv => BoundedRate
    BY DEF IInv, StretchesPaid, RateInv, BoundedRate
  <1>2. QED
    BY <1>1, Invariance, PTL

\* For any number of threads and any lengths, what a denied client is told
\* takes it to the end of the window (store.rs:67-72, guard.rs:43-46).
THEOREM RetryAfterIsHonest == Spec => []RetryAfterHonest
  <1>1. IInv => RetryAfterHonest
    BY DEF IInv
  <1>2. QED
    BY <1>1, Invariance, PTL

\* A window of a client is only ever replaced once it has elapsed
\* (store.rs:61-64).
THEOREM WindowsOnlyElapse == Spec => WindowsElapse
  <1> DEFINE Elapse ==
        \A k \in Keys :
          windows[k].count > 0 /\ windows'[k].start # windows[k].start =>
              \E s \in Slots :
                  /\ call[s] # None
                  /\ windows'[k].start - windows[k].start >= LimitOf(call[s].route).window
  <1>1. IInv /\ [Next]_vars => [Elapse]_vars
    <2> SUFFICES ASSUME IInv, [Next]_vars, NEW k \in Keys,
                        windows[k].count > 0, windows'[k].start # windows[k].start
                 PROVE  \E s \in Slots :
                          /\ call[s] # None
                          /\ windows'[k].start - windows[k].start >= LimitOf(call[s].route).window
      OBVIOUS
    <2>1. PICK s \in Slots : hit(s)
      BY DEF Next, Tick, check, Quiet, vars
    <2>2. /\ call[s] # None /\ call[s].route \in Routes /\ call[s].now \in Times
          /\ windows' = [windows EXCEPT ![call[s].key] =
                Counted(windows[call[s].key], call[s].now, LimitOf(call[s].route).window)]
          /\ windows[k] \in Window
      BY <2>1 DEF hit, IInv, TypeOK, Call
    <2>3. /\ k = call[s].key
          /\ windows'[k] = Counted(windows[k], call[s].now, LimitOf(call[s].route).window)
      BY <2>2 DEF IInv, TypeOK
    <2>4. windows'[k].start = call[s].now
          /\ call[s].now - windows[k].start >= LimitOf(call[s].route).window
      BY <2>2, <2>3, LimitType, CountedCases
    <2>5. QED
      BY <2>2, <2>4
  <1>2. QED
    BY <1>1, Invariance, PTL DEF Spec, WindowsElapse
=============================================================================
