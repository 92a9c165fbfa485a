--------------------------- MODULE BackgroundProofs ---------------------------
(***************************************************************************)
(* Proofs about Background, for any jobs, triggers, hooks, events and      *)
(* handlers.                                                               *)
(***************************************************************************)
EXTENDS Background, SequencesExt, SequenceTheorems, WellFoundedInduction, TLAPS

(***************************************************************************)
(* Least numbers, queues, and sequences used as stacks.                    *)
(***************************************************************************)

\* A set of naturals has a least element: induction by least counterexample.
LEMMA LeastNat ==
  ASSUME NEW T, T \subseteq Nat, T # {}
  PROVE  \E n \in T : \A m \in T : n <= m
  <1> DEFINE R == {ss \in Nat \X Nat : ss[1] < ss[2]}
  <1>1. IsWellFoundedOn(R, Nat)
    BY NatLessThanWellFounded DEF OpToRel
  <1>2. PICK x \in T : \A y \in T : ~ (<<y, x>> \in R)
    BY <1>1, WFMin
  <1>3. \A y \in T : ~(y < x)
    BY <1>2
  <1>4. QED
    BY <1>3

\* Moving the head of the second part to the end of the first keeps the whole.
LEMMA MoveHead ==
  ASSUME NEW S, NEW w \in Seq(S), NEW q \in Seq(S), q # <<>>
  PROVE  Append(w, Head(q)) \o Tail(q) = w \o q
  <1>1. /\ Head(q) \in S /\ Tail(q) \in Seq(S) /\ <<Head(q)>> \in Seq(S)
        /\ Len(Tail(q)) = Len(q) - 1
        /\ \A i \in 1..Len(Tail(q)) : Tail(q)[i] = q[i + 1]
    BY HeadTailProperties
  <1>2. <<Head(q)>> \o Tail(q) = q
    OBVIOUS
  <1>3. Append(w, Head(q)) = w \o <<Head(q)>>
    BY <1>1, AppendIsConcat
  <1>4. QED
    BY <1>1, <1>2, <1>3, ConcatAssociative

\* The parts of a nonempty sequence that is used as a stack.
LEMMA FrontLast ==
  ASSUME NEW S, NEW q \in Seq(S), q # <<>>
  PROVE  /\ Len(q) \in Nat \ {0} /\ Last(q) = q[Len(q)] /\ Last(q) \in S
         /\ Front(q) \in Seq(S) /\ Len(Front(q)) = Len(q) - 1
         /\ \A i \in 1..(Len(q) - 1) : Front(q)[i] = q[i]
  <1>1. Len(q) \in Nat \ {0} /\ \A i \in 1..Len(q) : q[i] \in S
    BY EmptySeq, ElementOfSeq
  <1>2. Last(q) = q[Len(q)] /\ Last(q) \in S
    BY <1>1 DEF Last
  <1>3. 1 \in Int /\ Len(q) - 1 \in Int /\ \A i \in 1..(Len(q) - 1) : q[i] \in S
    BY <1>1
  <1>4. Front(q) = SubSeq(q, 1, Len(q) - 1)
    BY DEF Front
  <1>5. /\ Front(q) \in Seq(S)
        /\ Len(Front(q)) = IF 1 <= Len(q) - 1 THEN Len(q) - 1 - 1 + 1 ELSE 0
        /\ \A i \in 1..(Len(q) - 1 - 1 + 1) : Front(q)[i] = q[1 + i - 1]
    BY <1>3, <1>4, SubSeqProperties
  <1>6. Len(Front(q)) = Len(q) - 1
    <2> DEFINE n == Len(q)
               l == Len(Front(q))
    <2>1. n \in Nat \ {0} /\ l = IF 1 <= n - 1 THEN n - 1 - 1 + 1 ELSE 0
      BY <1>1, <1>5
    <2> HIDE DEF n, l
    <2>2. l = n - 1
      BY <2>1
    <2>3. QED
      BY <2>2 DEF n, l
  <1>7. \A i \in 1..(Len(q) - 1) : Front(q)[i] = q[i]
    <2>1. Len(q) - 1 - 1 + 1 = Len(q) - 1 /\ \A i \in 1..(Len(q) - 1) : 1 + i - 1 = i
      BY <1>1
    <2>2. QED
      BY <1>5, <2>1
  <1>8. QED
    BY <1>1, <1>2, <1>5, <1>6, <1>7

\* Replacing the top of a stack keeps what lies below it.
LEMMA ReplaceTop ==
  ASSUME NEW S, NEW q \in Seq(S), q # <<>>, NEW m \in S
  PROVE  /\ Append(Front(q), m) \in Seq(S)
         /\ Len(Append(Front(q), m)) = Len(q)
         /\ \A i \in 1..Len(q) :
               Append(Front(q), m)[i] = IF i = Len(q) THEN m ELSE q[i]
  <1>1. /\ Len(q) \in Nat \ {0} /\ Front(q) \in Seq(S) /\ Len(Front(q)) = Len(q) - 1
        /\ \A i \in 1..(Len(q) - 1) : Front(q)[i] = q[i]
    BY FrontLast
  <1>2. /\ Append(Front(q), m) \in Seq(S)
        /\ Len(Append(Front(q), m)) = Len(Front(q)) + 1
        /\ \A i \in 1..Len(Front(q)) : Append(Front(q), m)[i] = Front(q)[i]
        /\ Append(Front(q), m)[Len(Front(q)) + 1] = m
    BY <1>1, AppendProperties
  <1>3. QED
    BY <1>1, <1>2

\* Two elements appended at once.
LEMMA TwoMore ==
  ASSUME NEW S, NEW q \in Seq(S), NEW x \in S, NEW y \in S
  PROVE  q \o <<x, y>> = Append(Append(q, x), y)
  <1>0. <<x>> \in Seq(S) /\ <<y>> \in Seq(S) /\ <<x, y>> \in Seq(S)
    OBVIOUS
  <1>1. <<x>> \o <<y>> = <<x, y>>
    <2> DEFINE u == <<x>>
               a == Append(u, y)
               t == <<x, y>>
    <2>1. u \o <<y>> = a
      BY <1>0, AppendIsConcat
    <2>2. Len(u) = 1 /\ u[1] = x /\ Len(t) = 2 /\ t[1] = x /\ t[2] = y
      OBVIOUS
    <2> HIDE DEF u
    <2>3. /\ a \in Seq(S) /\ Len(a) = Len(u) + 1 /\ a[Len(u) + 1] = y
          /\ \A i \in 1..Len(u) : a[i] = u[i]
      BY <1>0, AppendProperties DEF u
    <2> HIDE DEF a, t
    <2>4. Len(a) = Len(t) /\ \A i \in 1..Len(a) : a[i] = t[i]
      BY <2>2, <2>3
    <2>5. t \in Seq(S)
      BY <1>0 DEF t
    <2>6. a = t
      BY <2>3, <2>4, <2>5, SeqEqual
    <2>7. QED
      BY <2>1, <2>6 DEF t, u
  <1>2. Append(q, x) \in Seq(S) /\ Append(q, x) = q \o <<x>>
    BY AppendProperties, AppendIsConcat
  <1>3. Append(Append(q, x), y) = Append(q, x) \o <<y>>
    BY <1>2, AppendIsConcat
  <1>4. (q \o <<x>>) \o <<y>> = q \o (<<x>> \o <<y>>)
    BY <1>0, ConcatAssociative
  <1>5. QED
    BY <1>1, <1>2, <1>3, <1>4

-------------------------------------------------------------------------------
(***************************************************************************)
(* Arithmetic of periods.                                                  *)
(***************************************************************************)

\* The division of Slot and the remainder of NextTick.
LEMMA Division ==
  ASSUME NEW n \in Nat, NEW p \in Nat \ {0}
  PROVE  /\ n \div p \in Nat /\ n % p \in 0..(p - 1)
         /\ n = p * (n \div p) + (n % p)
  BY Z3T(20)

LEMMA Multiple ==
  ASSUME NEW p \in Nat \ {0}, NEW a \in Nat, NEW b \in Nat, a < b
  PROVE  p * a + p <= p * b
  BY Z3T(20)

\* A quotient is known by the interval its dividend lies in.
LEMMA Quotient ==
  ASSUME NEW p \in Nat \ {0}, NEW q \in Nat, NEW r \in 0..(p - 1), NEW n, n = p * q + r
  PROVE  n \in Nat /\ n \div p = q /\ n % p = r
  <1> DEFINE d == n \div p
             m == n % p
  <1>1. n \in Nat /\ p * q \in Nat
    BY Z3T(20)
  <1>2. d \in Nat /\ m \in 0..(p - 1) /\ n = p * d + m /\ p * d \in Nat
    <2>1. d \in Nat /\ m \in 0..(p - 1) /\ n = p * d + m
      BY <1>1, Division
    <2> HIDE DEF d, m
    <2>2. p * d \in Nat
      BY <2>1, Z3T(20)
    <2>3. QED
      BY <2>1, <2>2
  <1> HIDE DEF d, m
  <1>3. ~(d < q)
    <2>1. SUFFICES ASSUME d < q PROVE FALSE
      OBVIOUS
    <2>2. p * d + p <= p * q
      BY <1>2, <2>1, Multiple
    <2>3. QED
      BY <1>1, <1>2, <2>2
  <1>4. ~(q < d)
    <2>1. SUFFICES ASSUME q < d PROVE FALSE
      OBVIOUS
    <2>2. p * q + p <= p * d
      BY <1>2, <2>1, Multiple
    <2>3. QED
      BY <1>1, <1>2, <2>2
  <1>5. d = q
    BY <1>2, <1>3, <1>4
  <1>6. m = r
    BY <1>1, <1>2, <1>5
  <1>7. QED
    BY <1>1, <1>5, <1>6 DEF d, m

\* tokio's Skip: from a due instant k whole periods after the anchor, the next
\* one lies one period after the period that is current (scheduler.rs:199-208).
LEMMA NextTickSkips ==
  ASSUME NEW p \in Nat \ {0}, NEW a \in Nat, NEW due \in Nat, NEW now \in Nat,
         a <= due, due <= now, (due - a) % p = 0
  PROVE  /\ NextTick(due, now, p) \in Nat
         /\ a <= NextTick(due, now, p)
         /\ (NextTick(due, now, p) - a) % p = 0
         /\ (now - a) \div p >= (due - a) \div p
         /\ (NextTick(due, now, p) - a) \div p = (now - a) \div p + 1
  <1> DEFINE x == due - a
             y == now - due
             k == x \div p
             q == y \div p
             r == y % p
  <1>0. x \in Nat /\ y \in Nat /\ x % p = 0
    OBVIOUS
  <1> HIDE DEF x, y
  <1>1. k \in Nat /\ q \in Nat /\ r \in 0..(p - 1) /\ x = p * k + 0 /\ y = p * q + r
    BY <1>0, Division
  <1>2. due - a = p * k /\ now - due = p * q + r
    <2> HIDE DEF k, q, r
    <2>1. p * k \in Nat
      BY <1>1, Z3T(20)
    <2>2. QED
      BY <1>1, <2>1 DEF x, y
  <1>3. NextTick(due, now, p) = now + p - r
    BY DEF NextTick, y
  <1> HIDE DEF k, q, r
  <1>4. /\ p * (k + q) = p * k + p * q /\ p * (k + q + 1) = p * k + p * q + p
        /\ p * k \in Nat /\ p * q \in Nat
    BY <1>1, Z3T(20)
  <1>5. now - a = p * (k + q) + r
    BY <1>1, <1>2, <1>4
  <1>6. (now - a) \div p = k + q
    <2> DEFINE n == now - a
               j == k + q
    <2>1. j \in Nat /\ n = p * j + r
      BY <1>1, <1>5
    <2> HIDE DEF n, j
    <2>2. n \div p = j
      BY <1>1, <2>1, Quotient
    <2>3. QED
      BY <2>2 DEF n, j
  <1>7. now + p - r - a = p * (k + q + 1) + 0
    BY <1>1, <1>2, <1>4
  <1>8. (now + p - r - a) \div p = k + q + 1 /\ (now + p - r - a) % p = 0
    <2> DEFINE n == now + p - r - a
               j == k + q + 1
    <2>1. j \in Nat /\ 0 \in 0..(p - 1) /\ n = p * j + 0
      BY <1>1, <1>7
    <2> HIDE DEF n, j
    <2>2. n \div p = j /\ n % p = 0
      BY <2>1, Quotient
    <2>3. QED
      BY <2>2 DEF n, j
  <1>9. QED
    <2>1. (due - a) \div p = k
      BY DEF k, x
    <2>2. a <= now + p - r /\ now + p - r \in Nat
      BY <1>1
    <2>3. QED
      BY <1>1, <1>3, <1>6, <1>8, <2>1, <2>2

-------------------------------------------------------------------------------
(***************************************************************************)
(* What each action of a job's task makes of the task.                     *)
(***************************************************************************)

\* The task of job j moves to state s and waits, or waited, for d.
Moves(j, s, d) == task' = [task EXCEPT ![j] = [state |-> s, due |-> d]]

\* A change of state alone keeps the due instant.
LEMMA SetState ==
  ASSUME NEW t \in [state : TaskState, due : Nat], NEW s
  PROVE  [t EXCEPT !.state = s] = [state |-> s, due |-> t.due]
  OBVIOUS

\* next_delay picks an occurrence after now, if there is one
\* (scheduler.rs:223-256).
LEMMA NextDelay ==
  ASSUME NEW tr, NEW now \in Nat, tr.occurrences \subseteq Nat
  PROVE  \/ next_delay(tr, now) = [state |-> "idle", due |-> 0]
         \/ \E d \in tr.occurrences :
               d > now /\ next_delay(tr, now) = [state |-> "waiting", due |-> d]
  <1> DEFINE future == {t \in tr.occurrences : t > now}
  <1>1. CASE future = {}
    BY <1>1 DEF next_delay
  <1>2. CASE future # {}
    <2>1. \E x \in future : \A y \in future : x <= y
      BY <1>2, LeastNat
    <2>2. Min(future) \in future
      BY <2>1 DEF Min
    <2>3. next_delay(tr, now) = [state |-> "waiting", due |-> Min(future)]
      BY <1>2 DEF next_delay
    <2>4. QED
      BY <2>2, <2>3
  <1>3. QED
    BY <1>1, <1>2

\* No occurrence lies between now and the one next_delay picks; it picks none
\* only when none is left (scheduler.rs:243-256).
LEMMA NextDelayIsNext ==
  ASSUME NEW tr, NEW now \in Nat, tr.occurrences \subseteq Nat
  PROVE  LET next == next_delay(tr, now) IN
         /\ next.state = "waiting" => \A t \in tr.occurrences : now < t => next.due <= t
         /\ next.state = "idle" => \A t \in tr.occurrences : t <= now
  <1> DEFINE future == {t \in tr.occurrences : t > now}
  <1>1. CASE future = {}
    <2>1. next_delay(tr, now) = [state |-> "idle", due |-> 0]
      BY <1>1 DEF next_delay
    <2>2. \A t \in tr.occurrences : t <= now
      BY <1>1
    <2>3. QED
      BY <2>1, <2>2
  <1>2. CASE future # {}
    <2>1. \E x \in future : \A y \in future : x <= y
      BY <1>2, LeastNat
    <2>2. \A y \in future : Min(future) <= y
      BY <2>1 DEF Min
    <2>3. next_delay(tr, now) = [state |-> "waiting", due |-> Min(future)]
      BY <1>2 DEF next_delay
    <2>4. \A t \in tr.occurrences : now < t => t \in future
      OBVIOUS
    <2> HIDE DEF future
    <2>5. QED
      BY <2>2, <2>3, <2>4
  <1>3. QED
    BY <1>1, <1>2

\* The first poll anchors the job and computes its first due instant
\* (scheduler.rs:186-238).
LEMMA RunJobEffect ==
  ASSUME TypeOK, NEW j \in Jobs, run_job(j)
  PROVE  /\ task[j].state = "spawned" /\ anchor' = [anchor EXCEPT ![j] = clock]
         /\ UNCHANGED <<clock, cancelled, runs, served>>
         /\ \E s \in {"waiting", "idle"}, d \in Nat :
               /\ Moves(j, s, d)
               /\ Triggers[j].kind = "interval" => d = clock + Triggers[j].period
               /\ Triggers[j].kind = "timeout" => d = clock + Triggers[j].delay
               /\ Triggers[j].kind = "cron" /\ s = "waiting" =>
                     d \in Triggers[j].occurrences /\ clock < d
  <1> DEFINE t == Triggers[j]
  <1>1. clock \in Nat /\ IsTrigger(t)
    BY TriggerAssumption DEF TypeOK, SchedulerTypeOK, Times
  <1>2. CASE t.kind = "interval"
    <2>1. Moves(j, "waiting", clock + t.period) /\ clock + t.period \in Nat
      BY <1>1, <1>2 DEF run_job, Moves, IsTrigger
    <2>2. QED
      BY <1>2, <2>1 DEF run_job
  <1>3. CASE t.kind = "timeout"
    <2>1. Moves(j, "waiting", clock + t.delay) /\ clock + t.delay \in Nat
      BY <1>1, <1>3 DEF run_job, Moves, IsTrigger
    <2>2. QED
      BY <1>3, <2>1 DEF run_job
  <1>4. CASE t.kind = "cron"
    <2>1. t.occurrences \subseteq Nat
      BY <1>1, <1>4 DEF IsTrigger, Times
    <2>2. task' = [task EXCEPT ![j] = next_delay(t, clock)]
      BY <1>4 DEF run_job
    <2>3. PICK s \in {"waiting", "idle"}, d \in Nat :
             /\ next_delay(t, clock) = [state |-> s, due |-> d]
             /\ s = "waiting" => d \in t.occurrences /\ clock < d
      BY <1>1, <2>1, NextDelay
    <2>4. Moves(j, s, d)
      BY <2>2, <2>3 DEF Moves
    <2>5. QED
      BY <1>4, <2>3, <2>4 DEF run_job
  <1>5. QED
    BY <1>1, <1>2, <1>3, <1>4 DEF IsTrigger

\* A due run begins (scheduler.rs:199-238).
LEMMA FireEffect ==
  ASSUME TypeOK, NEW j \in Jobs, fire(j)
  PROVE  /\ task[j].state = "waiting" /\ clock >= task[j].due
         /\ runs' = [runs EXCEPT ![j] = Append(runs[j], clock)]
         /\ UNCHANGED <<clock, cancelled, anchor, served>>
         /\ Moves(j, "running",
                  IF Triggers[j].kind = "interval"
                  THEN NextTick(task[j].due, clock, Triggers[j].period) ELSE task[j].due)
  BY DEF fire, Moves

\* A run ends, with Ok or an Err (scheduler.rs:199-238).
LEMMA FireEndsEffect ==
  ASSUME TypeOK, NEW j \in Jobs, NEW o, FireEnds(j, o)
  PROVE  /\ task[j].state \in Running
         /\ UNCHANGED <<clock, cancelled, anchor, runs, served>>
         /\ \E s \in {"waiting", "idle"}, d \in Nat :
               /\ Moves(j, s, d)
               /\ Triggers[j].kind = "interval" => d = task[j].due
               /\ Triggers[j].kind = "timeout" => s = "idle"
               /\ Triggers[j].kind = "cron" /\ s = "waiting" =>
                     d \in Triggers[j].occurrences /\ clock < d
  <1> DEFINE t == Triggers[j]
  <1>1. /\ clock \in Nat /\ IsTrigger(t)
        /\ task[j] \in [state : TaskState, due : Nat]
    BY TriggerAssumption DEF TypeOK, SchedulerTypeOK, Times
  <1>2. CASE t.kind = "interval"
    <2>1. task' = [task EXCEPT ![j] = [task[j] EXCEPT !.state = "waiting"]]
      BY <1>2 DEF FireEnds
    <2>2. Moves(j, "waiting", task[j].due) /\ task[j].due \in Nat
      BY <1>1, <2>1, SetState DEF Moves
    <2>3. QED
      BY <1>2, <2>2 DEF FireEnds
  <1>3. CASE t.kind = "timeout"
    <2>1. task' = [task EXCEPT ![j] = [task[j] EXCEPT !.state = "idle"]]
      BY <1>3 DEF FireEnds
    <2>2. Moves(j, "idle", task[j].due) /\ task[j].due \in Nat
      BY <1>1, <2>1, SetState DEF Moves
    <2>3. QED
      BY <1>3, <2>2 DEF FireEnds
  <1>4. CASE t.kind = "cron"
    <2>1. t.occurrences \subseteq Nat
      BY <1>1, <1>4 DEF IsTrigger, Times
    <2>2. task' = [task EXCEPT ![j] = next_delay(t, clock)]
      BY <1>4 DEF FireEnds
    <2>3. PICK s \in {"waiting", "idle"}, d \in Nat :
             /\ next_delay(t, clock) = [state |-> s, due |-> d]
             /\ s = "waiting" => d \in t.occurrences /\ clock < d
      BY <1>1, <2>1, NextDelay
    <2>4. Moves(j, s, d)
      BY <2>2, <2>3 DEF Moves
    <2>5. QED
      BY <1>4, <2>3, <2>4 DEF FireEnds
  <1>5. QED
    BY <1>1, <1>2, <1>3, <1>4 DEF IsTrigger

\* A panic, the token and an emission change the state alone.
LEMMA StateEffect ==
  ASSUME TypeOK, NEW j \in Jobs, NEW s, task' = [task EXCEPT ![j].state = s]
  PROVE  Moves(j, s, task[j].due) /\ task[j].due \in Nat
  <1>1. task[j] \in [state : TaskState, due : Nat]
    BY DEF TypeOK, SchedulerTypeOK
  <1>2. task' = [task EXCEPT ![j] = [task[j] EXCEPT !.state = s]]
    OBVIOUS
  <1>3. QED
    BY <1>1, <1>2, SetState DEF Moves

\* A move leaves the other jobs' tasks alone.
LEMMA MoveEffect ==
  ASSUME TypeOK, NEW j \in Jobs, NEW s, NEW d, Moves(j, s, d)
  PROVE  \A i \in Jobs : /\ task'[i].state = IF i = j THEN s ELSE task[i].state
                         /\ task'[i].due = IF i = j THEN d ELSE task[i].due
  BY DEF Moves, TypeOK, SchedulerTypeOK

-------------------------------------------------------------------------------
(***************************************************************************)
(* What wiring makes of an empty registry, by induction on the handlers.   *)
(***************************************************************************)

\* g is the registry reg after each of the first n subscriptions.
Wires(g, reg, n) ==
  g = [i \in 0..n |-> IF i = 0 THEN reg ELSE subscribe(g[i - 1], Handlers[i])]

\* The loop of wire_handlers has a result (module.rs:52-59).
LEMMA WiresExists ==
  ASSUME NEW reg, NEW n \in Nat
  PROVE  \E g : Wires(g, reg, n)
  <1> DEFINE T == {k \in Nat : ~\E g : Wires(g, reg, k)}
  <1>1. SUFFICES ASSUME T # {} PROVE FALSE
    OBVIOUS
  <1>2. PICK k \in T : \A m \in T : k <= m
    BY <1>1, LeastNat
  <1>3. CASE k = 0
    <2> DEFINE g == [i \in 0..0 |-> reg]
    <2>1. g = [i \in 0..0 |-> IF i = 0 THEN reg ELSE subscribe(g[i - 1], Handlers[i])]
      OBVIOUS
    <2>2. Wires(g, reg, 0)
      BY <2>1 DEF Wires
    <2>3. QED
      BY <1>2, <1>3, <2>2
  <1>4. CASE k # 0
    <2>1. k - 1 \in Nat /\ k - 1 \notin T
      BY <1>2, <1>4
    <2>2. PICK g : Wires(g, reg, k - 1)
      BY <2>1
    <2> DEFINE h == [i \in 0..k |-> IF i = k THEN subscribe(g[k - 1], Handlers[k]) ELSE g[i]]
    <2>3. \A i \in 0..(k - 1) :
             h[i] = g[i] /\ g[i] = IF i = 0 THEN reg ELSE subscribe(g[i - 1], Handlers[i])
      BY <1>2, <2>2 DEF Wires
    <2>4. h[k] = subscribe(g[k - 1], Handlers[k]) /\ h[k - 1] = g[k - 1]
      BY <1>2, <1>4, <2>1
    <2>5. ASSUME NEW i \in 0..k
          PROVE  h[i] = IF i = 0 THEN reg ELSE subscribe(h[i - 1], Handlers[i])
      <3>1. CASE i = k
        BY <1>4, <2>4, <3>1
      <3>2. CASE i # k /\ i # 0
        <4>1. i \in 0..(k - 1) /\ i - 1 \in 0..(k - 1)
          BY <1>2, <3>2
        <4>2. QED
          BY <2>3, <3>2, <4>1
      <3>3. CASE i # k /\ i = 0
        <4>1. i \in 0..(k - 1)
          BY <1>2, <3>3
        <4>2. QED
          BY <2>3, <3>3, <4>1
      <3>4. QED
        BY <3>1, <3>2, <3>3
    <2>6. h = [i \in 0..k |-> h[i]]
      OBVIOUS
    <2> HIDE DEF h
    <2>7. Wires(h, reg, k)
      BY <2>5, <2>6 DEF Wires
    <2>8. QED
      BY <1>2, <2>7
  <1>5. QED
    BY <1>3, <1>4

\* q holds the handlers of e among the first n, each once and in order.
HandlersUpTo(q, e, n) ==
  /\ q \in Seq(HandlerSet)
  /\ \A i \in DOMAIN q : \E m \in 1..n : q[i] = Handlers[m] /\ EventOf[Handlers[m]] = e
  /\ \A m \in 1..n : EventOf[Handlers[m]] = e => \E i \in DOMAIN q : q[i] = Handlers[m]
  /\ \A i, j \in DOMAIN q : i < j =>
        \E m, k \in 1..n : m < k /\ q[i] = Handlers[m] /\ q[j] = Handlers[k]

\* One subscription appends the next handler to its event's list (bus.rs:49-53).
LEMMA OneSubscription ==
  ASSUME NEW n \in Nat, n + 1 <= Len(Handlers), NEW reg \in [Events -> Seq(HandlerSet)],
         \A e \in Events : HandlersUpTo(reg[e], e, n)
  PROVE  /\ subscribe(reg, Handlers[n + 1]) \in [Events -> Seq(HandlerSet)]
         /\ \A e \in Events : HandlersUpTo(subscribe(reg, Handlers[n + 1])[e], e, n + 1)
  <1> DEFINE h == Handlers[n + 1]
             r == subscribe(reg, h)
             f == EventOf[h]
  <1>1. h \in HandlerSet /\ f \in Events
    <2>1. Len(Handlers) \in Nat /\ n + 1 \in 1..Len(Handlers)
      BY BusAssumption, LenProperties
    <2>2. h \in HandlerSet
      BY <2>1, BusAssumption, ElementOfSeq
    <2>3. QED
      BY <2>2, BusAssumption
  <1> HIDE DEF h
  <1>2. /\ \A e \in Events : r[e] = IF e = f THEN Append(reg[e], h) ELSE reg[e]
        /\ r = [e \in Events |-> r[e]]
    BY <1>1 DEF subscribe
  <1> HIDE DEF r
  <1>3. ASSUME NEW e \in Events PROVE HandlersUpTo(r[e], e, n + 1)
    <2> DEFINE q == reg[e]
    <2>1. HandlersUpTo(q, e, n) /\ q \in Seq(HandlerSet)
      BY DEF HandlersUpTo
    <2>2. CASE e # f
      <3>1. r[e] = q /\ EventOf[Handlers[n + 1]] # e
        BY <1>2, <2>2 DEF h
      <3>2. \A m \in 1..(n + 1) : m \in 1..n \/ m = n + 1
        OBVIOUS
      <3>3. \A m \in 1..n : m \in 1..(n + 1)
        OBVIOUS
      <3> HIDE DEF q
      <3>4. QED
        BY <2>1, <3>1, <3>2, <3>3 DEF HandlersUpTo
    <2>3. CASE e = f
      <3> DEFINE a == Append(q, h)
                 l == Len(q)
      <3>1. /\ l \in Nat /\ DOMAIN q = 1..l /\ a \in Seq(HandlerSet) /\ DOMAIN a = 1..(l + 1)
            /\ \A i \in 1..l : a[i] = q[i]
            /\ a[l + 1] = h
        BY <1>1, <2>1, AppendProperties, LenProperties
      <3> HIDE DEF a, l, q
      <3>2. h = Handlers[n + 1] /\ EventOf[h] = e /\ n + 1 \in 1..(n + 1)
        BY <2>3 DEF h
      <3>3. ASSUME NEW i \in DOMAIN a
            PROVE  \E m \in 1..(n + 1) : a[i] = Handlers[m] /\ EventOf[Handlers[m]] = e
        <4>1. CASE i = l + 1
          BY <3>1, <3>2, <4>1
        <4>2. CASE i # l + 1
          <5>1. i \in 1..l /\ a[i] = q[i]
            BY <3>1, <3>3, <4>2
          <5>2. PICK m \in 1..n : q[i] = Handlers[m] /\ EventOf[Handlers[m]] = e
            BY <2>1, <3>1, <5>1 DEF HandlersUpTo
          <5>3. m \in 1..(n + 1)
            OBVIOUS
          <5>4. QED
            BY <5>1, <5>2, <5>3
        <4>3. QED
          BY <4>1, <4>2
      <3>4. ASSUME NEW m \in 1..(n + 1), EventOf[Handlers[m]] = e
            PROVE  \E i \in DOMAIN a : a[i] = Handlers[m]
        <4>1. CASE m = n + 1
          BY <3>1, <3>2, <4>1
        <4>2. CASE m # n + 1
          <5>1. m \in 1..n
            BY <4>2
          <5>2. PICK i \in DOMAIN q : q[i] = Handlers[m]
            BY <2>1, <3>4, <5>1 DEF HandlersUpTo
          <5>3. i \in DOMAIN a /\ a[i] = q[i]
            BY <3>1
          <5>4. QED
            BY <5>2, <5>3
        <4>3. QED
          BY <4>1, <4>2
      <3>5. ASSUME NEW i \in DOMAIN a, NEW j \in DOMAIN a, i < j
            PROVE  \E m, k \in 1..(n + 1) : m < k /\ a[i] = Handlers[m] /\ a[j] = Handlers[k]
        <4>1. i \in 1..l /\ a[i] = q[i]
          BY <3>1, <3>5
        <4>2. CASE j = l + 1
          <5>1. PICK m \in 1..n : q[i] = Handlers[m]
            BY <2>1, <3>1, <4>1 DEF HandlersUpTo
          <5>2. m \in 1..(n + 1) /\ m < n + 1
            OBVIOUS
          <5>3. QED
            BY <3>1, <3>2, <4>1, <4>2, <5>1, <5>2
        <4>3. CASE j # l + 1
          <5>1. j \in 1..l /\ a[j] = q[j]
            BY <3>1, <3>5, <4>3
          <5>2. PICK m \in 1..n, k \in 1..n : m < k /\ q[i] = Handlers[m] /\ q[j] = Handlers[k]
            <6>1. \A x, y \in DOMAIN q : x < y =>
                     \E m, k \in 1..n : m < k /\ q[x] = Handlers[m] /\ q[y] = Handlers[k]
              BY <2>1 DEF HandlersUpTo
            <6>2. i \in DOMAIN q /\ j \in DOMAIN q
              BY <3>1, <4>1, <5>1
            <6>3. QED
              BY <3>5, <6>1, <6>2
          <5>3. m \in 1..(n + 1) /\ k \in 1..(n + 1)
            OBVIOUS
          <5>4. QED
            BY <4>1, <5>1, <5>2, <5>3
        <4>4. QED
          BY <4>2, <4>3
      <3>6. HandlersUpTo(a, e, n + 1)
        BY <3>1, <3>3, <3>4, <3>5 DEF HandlersUpTo
      <3>7. QED
        BY <1>2, <2>3, <3>6 DEF a, q
    <2>4. QED
      BY <2>2, <2>3
  <1>4. r \in [Events -> Seq(HandlerSet)]
    BY <1>2, <1>3 DEF HandlersUpTo
  <1>5. QED
    BY <1>3, <1>4 DEF r, h

\* Wiring fills an empty registry with every discovered handler, in order
\* (module.rs:44-61).
LEMMA WiredInOrder ==
  ASSUME NEW reg, reg = [e \in Events |-> <<>>]
  PROVE  /\ Wired(reg) \in [Events -> Seq(HandlerSet)]
         /\ \A e \in Events : HandlersInOrder(Wired(reg)[e], e)
  <1> DEFINE N == Len(Handlers)
             w == CHOOSE g : Wires(g, reg, N)
  <1>1. N \in Nat /\ DOMAIN Handlers = 1..N /\ HandlerSet = {Handlers[m] : m \in 1..N}
    BY BusAssumption, LenProperties DEF HandlerSet, ToSet
  <1>2. Wires(w, reg, N)
    BY <1>1, WiresExists
  <1>3. Wired(reg) = w[N]
    BY DEF Wired, Wires
  <1> HIDE DEF w
  <1>4. /\ w[0] = reg
        /\ \A n \in 0..(N - 1) : w[n + 1] = subscribe(w[n], Handlers[n + 1])
    <2>1. \A i \in 0..N : w[i] = IF i = 0 THEN reg ELSE subscribe(w[i - 1], Handlers[i])
      BY <1>2 DEF Wires
    <2>2. \A n \in 0..(N - 1) : n + 1 \in 0..N /\ n + 1 # 0 /\ n + 1 - 1 = n
      BY <1>1
    <2>3. 0 \in 0..N
      BY <1>1
    <2>4. w[0] = reg
      BY <2>1, <2>3
    <2>5. ASSUME NEW n \in 0..(N - 1)
          PROVE  w[n + 1] = subscribe(w[n], Handlers[n + 1])
      BY <2>1, <2>2
    <2>6. QED
      BY <2>4, <2>5
  <1> DEFINE Ok(n) == /\ w[n] \in [Events -> Seq(HandlerSet)]
                      /\ \A e \in Events : HandlersUpTo(w[n][e], e, n)
             T == {n \in 0..N : ~Ok(n)}
  <1>5. Ok(0)
    <2>1. <<>> \in Seq(HandlerSet) /\ DOMAIN <<>> = {}
      BY EmptySeq
    <2>2. QED
      BY <1>4, <2>1 DEF HandlersUpTo
  <1>6. ASSUME NEW n \in 0..(N - 1), Ok(n) PROVE Ok(n + 1)
    <2>1. n \in Nat /\ n + 1 <= Len(Handlers)
      BY <1>1
    <2>2. QED
      BY <1>4, <1>6, <2>1, OneSubscription
  <1>7. Ok(N)
    <2>1. SUFFICES ASSUME T # {} PROVE FALSE
      BY <1>1
    <2>2. PICK k \in T : \A m \in T : k <= m
      <3>1. T \subseteq Nat
        BY <1>1
      <3> HIDE DEF T
      <3>2. QED
        BY <2>1, <3>1, LeastNat
    <2>3. k # 0
      BY <1>5, <2>2
    <2>4. k - 1 \in 0..(N - 1) /\ k - 1 \notin T /\ k - 1 \in 0..N
      BY <1>1, <2>2, <2>3
    <2>5. Ok(k - 1)
      BY <2>4
    <2> HIDE DEF Ok
    <2>6. Ok(k - 1 + 1)
      BY <1>6, <2>4, <2>5
    <2>7. k - 1 + 1 = k
      BY <2>2
    <2>8. QED
      BY <2>2, <2>6, <2>7
  <1>8. ASSUME NEW e \in Events PROVE HandlersInOrder(w[N][e], e)
    <2> DEFINE q == w[N][e]
    <2>1. HandlersUpTo(q, e, N)
      BY <1>7
    <2> HIDE DEF q
    <2>2. ToSet(q) = {h \in HandlerSet : EventOf[h] = e}
      BY <1>1, <2>1 DEF HandlersUpTo, ToSet
    <2>3. \A i, j \in DOMAIN q : i < j =>
             \E m, n \in DOMAIN Handlers : m < n /\ q[i] = Handlers[m] /\ q[j] = Handlers[n]
      <3> HIDE DEF N
      <3>1. \A i, j \in DOMAIN q : i < j =>
               \E m, n \in 1..N : m < n /\ q[i] = Handlers[m] /\ q[j] = Handlers[n]
        BY <2>1, Zenon DEF HandlersUpTo
      <3>2. DOMAIN Handlers = 1..N
        BY <1>1
      <3>3. QED
        BY <3>1, <3>2
    <2>4. HandlersInOrder(q, e)
      BY <2>2, <2>3 DEF HandlersInOrder
    <2>5. QED
      BY <2>4 DEF q
  <1>9. QED
    BY <1>3, <1>7, <1>8

-------------------------------------------------------------------------------
(***************************************************************************)
(* What each action of an emission makes of its actor's stack.             *)
(***************************************************************************)

\* Emission m is somewhere in the list its event has in the registry.
InList(m) == m \in Emission /\ Called(m) \o m.todo = registry[m.event]

\* The stack of actor a becomes q, whose emissions are all in their lists.
Restacks(a, q) ==
  /\ stack' = [stack EXCEPT ![a] = q] /\ registry' = registry
  /\ q \in Seq(Emission) /\ \A i \in DOMAIN q : InList(q[i])

\* A new emission is before the first handler of its list (bus.rs:59-66).
LEMMA BegunInList ==
  ASSUME BusTypeOK, NEW e \in Events
  PROVE  InList(Begun(e))
  <1>1. registry[e] \in Seq(HandlerSet) /\ <<>> \in Seq(HandlerSet)
    BY EmptySeq DEF BusTypeOK
  <1>2. Begun(e) \in Emission /\ Begun(e).current = None /\ Begun(e).done = <<>>
        /\ Begun(e).todo = registry[e] /\ Begun(e).event = e
    BY <1>1 DEF Begun, Emission
  <1>3. QED
    BY <1>1, <1>2, ConcatEmptySeq DEF InList, Called

\* The next handler of the list is called (bus.rs:67-68).
LEMMA CalledInList ==
  ASSUME BusTypeOK, NEW m, InList(m), m.current = None, m.todo # <<>>, NEW n,
         n = [m EXCEPT !.current = Head(m.todo), !.todo = Tail(@), !.nested = FALSE]
  PROVE  InList(n)
  <1>1. m \in Emission /\ Called(m) \o m.todo = registry[m.event]
    BY DEF InList
  <1>2. /\ m.todo \in Seq(HandlerSet) /\ m.done \in Seq(HandlerSet) /\ m.event \in Events
    BY <1>1 DEF Emission
  <1>3. Head(m.todo) \in HandlerSet /\ Tail(m.todo) \in Seq(HandlerSet)
    BY <1>2, HeadTailProperties
  <1>4. n = [event |-> m.event, todo |-> Tail(m.todo), done |-> m.done,
             current |-> Head(m.todo), nested |-> FALSE]
    BY <1>1 DEF Emission
  <1>5. n \in Emission /\ n.current # None
    BY <1>2, <1>3, <1>4, BusAssumption DEF Emission
  <1>6. Append(m.done, Head(m.todo)) \o Tail(m.todo) = m.done \o m.todo
    BY <1>2, MoveHead
  <1>7. Called(n) \o n.todo = Append(m.done, Head(m.todo)) \o Tail(m.todo)
    BY <1>4, <1>5 DEF Called
  <1>8. m.done \o m.todo = registry[m.event]
    BY <1>1 DEF Called
  <1>9. n.event = m.event
    BY <1>4
  <1>10. QED
    BY <1>5, <1>6, <1>7, <1>8, <1>9 DEF InList

\* The handler returns (bus.rs:68).
LEMMA ReturnedInList ==
  ASSUME BusTypeOK, NEW m, InList(m), m.current # None, NEW n,
         n = [m EXCEPT !.current = None, !.done = Append(@, m.current)]
  PROVE  InList(n)
  <1>1. m \in Emission /\ Called(m) \o m.todo = registry[m.event]
    BY DEF InList
  <1>2. m.done \in Seq(HandlerSet) /\ m.current \in HandlerSet
    BY <1>1 DEF Emission
  <1>3. Append(m.done, m.current) \in Seq(HandlerSet)
    BY <1>2, AppendProperties
  <1>4. n = [event |-> m.event, todo |-> m.todo, done |-> Append(m.done, m.current),
             current |-> None, nested |-> m.nested]
    BY <1>1 DEF Emission
  <1>5. n \in Emission
    BY <1>1, <1>3, <1>4 DEF Emission
  <1>6. Called(n) = Called(m) /\ n.todo = m.todo /\ n.event = m.event
    BY <1>4 DEF Called
  <1>7. QED
    BY <1>1, <1>5, <1>6 DEF InList

\* The handler has emitted: its place in the list is the same.
LEMMA NestedInList ==
  ASSUME BusTypeOK, NEW m, InList(m), NEW n, n = [m EXCEPT !.nested = TRUE]
  PROVE  InList(n)
  <1>1. m \in Emission /\ Called(m) \o m.todo = registry[m.event]
    BY DEF InList
  <1>2. n = [event |-> m.event, todo |-> m.todo, done |-> m.done,
             current |-> m.current, nested |-> TRUE]
    BY <1>1 DEF Emission
  <1>3. n \in Emission
    BY <1>1, <1>2 DEF Emission
  <1>4. Called(n) = Called(m) /\ n.todo = m.todo /\ n.event = m.event
    BY <1>2 DEF Called
  <1>5. QED
    BY <1>1, <1>3, <1>4 DEF InList

\* Replacing the top by an emission in its list.
LEMMA SetTopRestacks ==
  ASSUME BusTypeOK, NEW a \in Actors, Emitting(a), NEW m, InList(m), SetTop(a, m),
         \A i \in DOMAIN stack[a] : InList(stack[a][i]), registry' = registry
  PROVE  Restacks(a, Append(Front(stack[a]), m))
  <1> DEFINE q == stack[a]
             r == Append(Front(q), m)
  <1>1. q \in Seq(Emission) /\ q # <<>> /\ m \in Emission
    BY DEF BusTypeOK, Emitting, InList
  <1>2. stack' = [stack EXCEPT ![a] = r]
    BY DEF SetTop
  <1>3. /\ r \in Seq(Emission) /\ Len(r) = Len(q)
        /\ \A i \in 1..Len(q) : r[i] = IF i = Len(q) THEN m ELSE q[i]
    BY <1>1, ReplaceTop
  <1>4. DOMAIN q = 1..Len(q) /\ DOMAIN r = 1..Len(q)
    BY <1>1, <1>3, LenProperties
  <1> HIDE DEF r
  <1>5. \A i \in DOMAIN r : InList(r[i])
    BY <1>3, <1>4
  <1>6. Restacks(a, r)
    BY <1>2, <1>3, <1>5 DEF Restacks
  <1>7. QED
    BY <1>6 DEF r

\* Pushing a new emission on a stack.
LEMMA PushRestacks ==
  ASSUME BusTypeOK, NEW a \in Actors, NEW q \in Seq(Emission), NEW e \in Events,
         stack' = [stack EXCEPT ![a] = Append(q, Begun(e))],
         \A i \in DOMAIN q : InList(q[i]), registry' = registry
  PROVE  Restacks(a, Append(q, Begun(e)))
  <1>1. InList(Begun(e)) /\ Begun(e) \in Emission
    BY BegunInList DEF InList
  <1> DEFINE m == Begun(e)
             r == Append(q, m)
  <1>2. /\ Len(q) \in Nat /\ DOMAIN q = 1..Len(q) /\ DOMAIN r = 1..(Len(q) + 1)
        /\ r \in Seq(Emission) /\ \A i \in 1..Len(q) : r[i] = q[i]
        /\ r[Len(q) + 1] = m
    BY <1>1, AppendProperties, LenProperties
  <1>3. stack' = [stack EXCEPT ![a] = r]
    OBVIOUS
  <1> HIDE DEF m, r
  <1>4. InList(m)
    BY <1>1 DEF m
  <1>5. \A i \in DOMAIN r : InList(r[i])
    <2> TAKE i \in DOMAIN r
    <2>1. i \in 1..Len(q) \/ i = Len(q) + 1
      BY <1>2
    <2>2. QED
      BY <1>2, <1>4, <2>1
  <1>6. Restacks(a, r)
    BY <1>2, <1>3, <1>5 DEF Restacks
  <1>7. QED
    BY <1>6 DEF r, m

\* Every step of an emission keeps its actor's emissions in their lists
\* (bus.rs:59-70).
LEMMA DeliverRestacks ==
  ASSUME BusTypeOK, NEW a \in Actors, \A i \in DOMAIN stack[a] : InList(stack[a][i]),
         CallHandler(a) \/ NestedEmit(a) \/ HandlerReturns(a) \/ EmitReturns(a) \/ Unwind(a)
  PROVE  Emitting(a) /\ \E q : Restacks(a, q)
  <1> DEFINE q == stack[a]
  <1>1. Emitting(a) /\ registry' = registry
    BY DEF CallHandler, NestedEmit, HandlerReturns, EmitReturns, Unwind
  <1>2. q \in Seq(Emission) /\ q # <<>>
    BY <1>1 DEF BusTypeOK, Emitting
  <1>3. /\ Len(q) \in Nat \ {0} /\ Top(a) = q[Len(q)] /\ DOMAIN q = 1..Len(q)
        /\ Front(q) \in Seq(Emission) /\ DOMAIN Front(q) = 1..(Len(q) - 1)
        /\ \A i \in 1..(Len(q) - 1) : Front(q)[i] = q[i]
    BY <1>2, FrontLast, LenProperties DEF Top
  <1>4. InList(Top(a)) /\ Top(a) \in Emission
    <2>1. Len(q) \in DOMAIN q
      BY <1>3
    <2>2. QED
      BY <1>3, <2>1 DEF InList
  <1>5. CASE CallHandler(a)
    <2> DEFINE n == [Top(a) EXCEPT !.current = Head(Top(a).todo), !.todo = Tail(@),
                                   !.nested = FALSE]
    <2>1. SetTop(a, n) /\ Top(a).current = None /\ Top(a).todo # <<>>
      BY <1>5 DEF CallHandler
    <2>2. InList(n)
      BY <1>4, <2>1, CalledInList
    <2> HIDE DEF n
    <2>3. Restacks(a, Append(Front(q), n))
      BY <1>1, <2>1, <2>2, SetTopRestacks
    <2>4. QED
      BY <1>1, <2>3
  <1>6. CASE HandlerReturns(a)
    <2> DEFINE n == [Top(a) EXCEPT !.current = None, !.done = Append(@, Top(a).current)]
    <2>1. SetTop(a, n) /\ Top(a).current # None
      BY <1>6 DEF HandlerReturns
    <2>2. InList(n)
      BY <1>4, <2>1, ReturnedInList
    <2> HIDE DEF n
    <2>3. Restacks(a, Append(Front(q), n))
      BY <1>1, <2>1, <2>2, SetTopRestacks
    <2>4. QED
      BY <1>1, <2>3
  <1>7. CASE NestedEmit(a)
    <2> DEFINE n == [Top(a) EXCEPT !.nested = TRUE]
               e == Emits[Top(a).current]
               r == Append(Front(q), n)
    <2>1. /\ Top(a).current # None /\ e # None
          /\ stack' = [stack EXCEPT ![a] = Front(q) \o <<n, Begun(e)>>]
      BY <1>7 DEF NestedEmit
    <2>2. e \in Events
      BY <1>4, <2>1, BusAssumption DEF Emission
    <2>3. InList(n) /\ n \in Emission
      BY <1>4, NestedInList DEF InList
    <2>4. Begun(e) \in Emission
      BY <2>2, BegunInList DEF InList
    <2> HIDE DEF n, e
    <2>5. Front(q) \o <<n, Begun(e)>> = Append(r, Begun(e))
      BY <1>3, <2>3, <2>4, TwoMore
    <2>6. /\ r \in Seq(Emission) /\ Len(r) = Len(q)
          /\ \A i \in 1..Len(q) : r[i] = IF i = Len(q) THEN n ELSE q[i]
      BY <1>2, <2>3, ReplaceTop
    <2>7. DOMAIN r = 1..Len(q)
      BY <2>6, LenProperties
    <2> HIDE DEF r
    <2>8. \A i \in DOMAIN r : InList(r[i])
      BY <1>3, <2>3, <2>6, <2>7
    <2>9. Restacks(a, Append(r, Begun(e)))
      BY <1>1, <2>1, <2>2, <2>5, <2>6, <2>8, PushRestacks
    <2>10. QED
      BY <1>1, <2>9
  <1>8. CASE EmitReturns(a)
    <2>1. stack' = [stack EXCEPT ![a] = Front(q)]
      BY <1>8 DEF EmitReturns
    <2>2. \A i \in DOMAIN Front(q) : InList(Front(q)[i])
      BY <1>3
    <2>3. Restacks(a, Front(q))
      BY <1>1, <1>3, <2>1, <2>2 DEF Restacks
    <2>4. QED
      BY <1>1, <2>3
  <1>9. CASE Unwind(a)
    <2>1. stack' = [stack EXCEPT ![a] = <<>>]
      BY <1>9 DEF Unwind
    <2>2. <<>> \in Seq(Emission) /\ DOMAIN <<>> = {}
      BY EmptySeq
    <2>3. Restacks(a, <<>>)
      BY <1>1, <2>1, <2>2 DEF Restacks
    <2>4. QED
      BY <1>1, <2>3
  <1>10. QED
    BY <1>5, <1>6, <1>7, <1>8, <1>9

\* So does a new emission (bus.rs:59-66).
LEMMA EmitRestacks ==
  ASSUME BusTypeOK, NEW a \in Actors, \A i \in DOMAIN stack[a] : InList(stack[a][i]),
         NEW e \in Events, emit(a, e)
  PROVE  \E q : Restacks(a, q)
  <1>1. stack[a] \in Seq(Emission)
    BY DEF BusTypeOK
  <1>2. stack' = [stack EXCEPT ![a] = Append(stack[a], Begun(e))] /\ registry' = registry
    BY DEF emit
  <1>3. Restacks(a, Append(stack[a], Begun(e)))
    BY <1>1, <1>2, PushRestacks
  <1>4. QED
    BY <1>3

\* A restacked actor leaves the others alone.
LEMMA RestackEffect ==
  ASSUME BusTypeOK, NEW a \in Actors, NEW q, Restacks(a, q)
  PROVE  /\ BusTypeOK' /\ registry' = registry
         /\ \A b \in Actors : stack'[b] = IF b = a THEN q ELSE stack[b]
  BY DEF Restacks, BusTypeOK

-------------------------------------------------------------------------------
(***************************************************************************)
(* The schedule of one job: DueOf and NoBurstOf are kept by every step.    *)
(***************************************************************************)

\* The types of what the schedule of a job is made of.
LEMMA ScheduleTypes ==
  ASSUME TypeOK, NEW j \in Jobs
  PROVE  /\ clock \in Nat /\ anchor[j] \in Nat /\ task[j].due \in Nat
         /\ runs[j] \in Seq(Times) /\ \A i \in 1..Len(runs[j]) : runs[j][i] \in Nat
         /\ runs[j] # <<>> => Last(runs[j]) \in Nat
  <1>1. /\ clock \in Nat /\ anchor[j] \in Nat /\ task[j].due \in Nat
        /\ runs[j] \in Seq(Times) /\ Times \subseteq Nat
    BY DEF TypeOK, SchedulerTypeOK, Times
  <1>2. \A i \in 1..Len(runs[j]) : runs[j][i] \in Times
    BY <1>1, ElementOfSeq
  <1>3. runs[j] # <<>> => Last(runs[j]) \in Times
    BY <1>1, FrontLast
  <1>4. QED
    BY <1>1, <1>2, <1>3

\* The history of a job and its anchor decide whether it fired in a burst.
LEMMA NoBurstFrame ==
  ASSUME NEW j \in Jobs, NoBurstOf(j), anchor'[j] = anchor[j], runs'[j] = runs[j]
  PROVE  NoBurstOf(j)'
  <1>1. \A t : Slot(j, t)' = Slot(j, t)
    BY DEF Slot
  <1>2. IsTrigger(Triggers[j])
    BY TriggerAssumption
  <1>3. CASE Triggers[j].kind = "interval"
    BY <1>1, <1>3 DEF NoBurstOf
  <1>4. CASE Triggers[j].kind = "timeout"
    BY <1>4 DEF NoBurstOf
  <1>5. CASE Triggers[j].kind = "cron"
    BY <1>5 DEF NoBurstOf
  <1>6. QED
    BY <1>2, <1>3, <1>4, <1>5 DEF IsTrigger

\* A job no step touches keeps its schedule while time passes.
LEMMA ScheduleFrame ==
  ASSUME TypeOK, NEW j \in Jobs, DueOf(j), NoBurstOf(j), clock' \in Nat, clock <= clock',
         task'[j] = task[j], anchor'[j] = anchor[j], runs'[j] = runs[j]
  PROVE  DueOf(j)' /\ NoBurstOf(j)'
  <1>1. /\ clock \in Nat /\ anchor[j] \in Nat /\ runs[j] \in Seq(Times)
        /\ runs[j] # <<>> => Last(runs[j]) \in Nat
    BY ScheduleTypes
  <1>2. Began(j)' = Began(j) /\ Began(j) \in Nat
    BY <1>1 DEF Began
  <1>3. DueOf(j)'
    BY <1>1, <1>2 DEF DueOf, Slot
  <1>4. NoBurstOf(j)'
    BY NoBurstFrame
  <1>5. QED
    BY <1>3, <1>4

\* A task that has begun and does not begin a run keeps its schedule: a
\* one-shot waits no more and a cron job waits for an instant still to come.
LEMMA ScheduleMoves ==
  ASSUME TypeOK, NEW j \in Jobs, DueOf(j), NoBurstOf(j), NEW s, NEW d, Moves(j, s, d),
         UNCHANGED <<clock, anchor, runs>>,
         task[j].state \notin {"none", "spawned"}, s \notin {"none", "spawned"},
         Triggers[j].kind = "interval" => d = task[j].due,
         Triggers[j].kind = "timeout" => s # "waiting",
         Triggers[j].kind = "cron" /\ s = "waiting" => d \in Triggers[j].occurrences /\ clock < d
  PROVE  DueOf(j)' /\ NoBurstOf(j)'
  <1>1. task'[j].state = s /\ task'[j].due = d
    BY MoveEffect
  <1>2. /\ clock \in Nat /\ anchor[j] \in Nat /\ IsTrigger(Triggers[j])
        /\ runs[j] # <<>> => Last(runs[j]) \in Nat
    BY ScheduleTypes, TriggerAssumption
  <1>3. Began(j)' = Began(j) /\ Began(j) \in Nat /\ Began(j) <= clock
    BY <1>2 DEF Began, DueOf
  <1>4. /\ anchor[j] <= clock
        /\ Triggers[j].kind = "interval" =>
              /\ anchor[j] <= d /\ (d - anchor[j]) % Triggers[j].period = 0
              /\ Slot(j, d) >= 1
              /\ runs[j] # <<>> => Slot(j, Last(runs[j])) < Slot(j, d)
    BY DEF DueOf
  <1>5. \A t : Slot(j, t)' = Slot(j, t)
    BY DEF Slot
  <1>6. Triggers[j].kind = "cron" /\ s = "waiting" => d \in Nat
    BY <1>2 DEF IsTrigger, Times
  <1>7. DueOf(j)'
    BY <1>1, <1>2, <1>3, <1>4, <1>5, <1>6 DEF DueOf
  <1>8. NoBurstOf(j)'
    BY NoBurstFrame
  <1>9. QED
    BY <1>7, <1>8

\* The first poll of a task (scheduler.rs:186-238).
LEMMA ScheduleBegins ==
  ASSUME TypeOK, NEW j \in Jobs, DueOf(j), run_job(j)
  PROVE  DueOf(j)' /\ NoBurstOf(j)'
  <1> DEFINE t == Triggers[j]
  <1>1. /\ task[j].state = "spawned" /\ anchor'[j] = clock
        /\ UNCHANGED <<clock, runs>> /\ clock \in Nat
    BY RunJobEffect DEF TypeOK, SchedulerTypeOK, Times
  <1>2. PICK s \in {"waiting", "idle"}, d \in Nat :
               /\ Moves(j, s, d)
               /\ t.kind = "interval" => d = clock + t.period
               /\ t.kind = "timeout" => d = clock + t.delay
               /\ t.kind = "cron" /\ s = "waiting" => d \in t.occurrences /\ clock < d
    BY RunJobEffect
  <1>3. task'[j].state = s /\ task'[j].due = d
    BY <1>2, MoveEffect
  <1>4. runs[j] = <<>> /\ runs'[j] = <<>> /\ Len(<<>>) = 0
    BY <1>1 DEF DueOf
  <1>5. Began(j)' = clock
    BY <1>1, <1>4 DEF Began
  <1>6. IsTrigger(t)
    BY TriggerAssumption
  <1>7. t.kind = "interval" =>
           clock <= d /\ (d - clock) % t.period = 0 /\ (d - clock) \div t.period >= 1
    <2>1. SUFFICES ASSUME t.kind = "interval"
                   PROVE  clock <= d /\ (d - clock) % t.period = 0 /\ (d - clock) \div t.period >= 1
      OBVIOUS
    <2>2. t.period \in Nat \ {0} /\ d = clock + t.period
      BY <1>2, <1>6, <2>1 DEF IsTrigger
    <2> DEFINE p == t.period
               n == d - clock
    <2>3. p \in Nat \ {0} /\ n = p * 1 + 0 /\ 0 \in 0..(p - 1) /\ clock <= d
      BY <1>1, <2>2
    <2> HIDE DEF p, n
    <2>4. n \div p = 1 /\ n % p = 0
      BY <2>3, Quotient
    <2>5. QED
      BY <2>3, <2>4 DEF p, n
  <1>8. DueOf(j)'
    BY <1>1, <1>2, <1>3, <1>4, <1>5, <1>7 DEF DueOf, Slot
  <1>9. NoBurstOf(j)'
    <2>1. CASE t.kind = "interval"
      BY <1>4, <2>1 DEF NoBurstOf
    <2>2. CASE t.kind = "timeout"
      BY <1>4, <2>2 DEF NoBurstOf
    <2>3. CASE t.kind = "cron"
      BY <1>4, <2>3 DEF NoBurstOf
    <2>4. QED
      BY <1>6, <2>1, <2>2, <2>3 DEF IsTrigger
  <1>10. QED
    BY <1>8, <1>9
\* A run begins: of an interval job in a period later than every earlier run's,
\* of a one-shot for the first time, of a cron job for the occurrence it waited
\* for (scheduler.rs:199-238).
LEMMA ScheduleFires ==
  ASSUME TypeOK, NEW j \in Jobs, DueOf(j), NoBurstOf(j), fire(j)
  PROVE  DueOf(j)' /\ NoBurstOf(j)'
  <1> DEFINE t == Triggers[j]
             r == runs[j]
             n == Len(r)
             q == runs'[j]
  <1>1. /\ clock \in Nat /\ anchor[j] \in Nat /\ task[j].due \in Nat /\ r \in Seq(Times)
        /\ \A i \in 1..n : r[i] \in Nat
        /\ clock \in Times /\ n \in Nat /\ IsTrigger(t)
    BY ScheduleTypes, TriggerAssumption, LenProperties DEF TypeOK, SchedulerTypeOK
  <1>2. /\ task[j].state = "waiting" /\ clock >= task[j].due
        /\ UNCHANGED <<clock, anchor>>
        /\ q = Append(r, clock)
        /\ task'[j].state = "running"
        /\ task'[j].due = IF t.kind = "interval"
                          THEN NextTick(task[j].due, clock, t.period) ELSE task[j].due
    <2>1. runs' = [runs EXCEPT ![j] = Append(r, clock)]
      BY FireEffect
    <2>2. q = Append(r, clock)
      BY <2>1 DEF TypeOK, SchedulerTypeOK
    <2>3. QED
      BY <2>2, FireEffect, MoveEffect
  <1>3. /\ q \in Seq(Times) /\ Len(q) = n + 1 /\ q # <<>>
        /\ \A i \in 1..n : q[i] = r[i]
        /\ q[n + 1] = clock /\ Last(q) = clock
    <2>1. /\ Append(r, clock) \in Seq(Times) /\ Append(r, clock) # <<>>
          /\ Len(Append(r, clock)) = n + 1
          /\ \A i \in 1..n : Append(r, clock)[i] = r[i]
          /\ Append(r, clock)[n + 1] = clock
      BY <1>1, AppendProperties
    <2> HIDE DEF q
    <2>2. q \in Seq(Times) /\ Len(q) = n + 1 /\ q # <<>> /\ q[n + 1] = clock
          /\ \A i \in 1..n : q[i] = r[i]
      BY <1>2, <2>1
    <2>3. QED
      BY <2>2, FrontLast
  <1>4. Began(j)' = clock
    BY <1>3 DEF Began
  <1>5. anchor[j] <= clock
    BY DEF DueOf
  <1>6. r = <<>> => n = 0
    OBVIOUS
  <1>7. r # <<>> => n > 0 /\ Last(r) = r[n] /\ n \in 1..n
    <2>1. r # <<>> => n \in Nat \ {0} /\ Last(r) = r[n]
      BY <1>1, FrontLast
    <2> HIDE DEF n, r
    <2>2. QED
      BY <2>1
  <1>8. \A x : Slot(j, x)' = Slot(j, x)
    BY <1>2 DEF Slot
  <1> HIDE DEF q, n, r
  <1>9. CASE t.kind = "interval"
    <2> DEFINE d == task[j].due
               e == NextTick(d, clock, t.period)
    <2>1. t.period \in Nat \ {0}
      BY <1>1, <1>9 DEF IsTrigger
    <2>2. /\ anchor[j] <= d /\ (d - anchor[j]) % t.period = 0
          /\ Slot(j, d) >= 1
          /\ r # <<>> => Slot(j, Last(r)) < Slot(j, d)
      BY <1>2, <1>9 DEF DueOf, r
    <2>3. /\ e \in Nat /\ anchor[j] <= e /\ (e - anchor[j]) % t.period = 0
          /\ (clock - anchor[j]) \div t.period >= (d - anchor[j]) \div t.period
          /\ (e - anchor[j]) \div t.period = (clock - anchor[j]) \div t.period + 1
      <3> DEFINE p == t.period
                 a == anchor[j]
      <3>1. /\ p \in Nat \ {0} /\ a \in Nat /\ d \in Nat /\ a <= d /\ d <= clock
            /\ (d - a) % p = 0
        BY <1>1, <1>2, <2>1, <2>2
      <3> HIDE DEF p, a, d
      <3>2. /\ NextTick(d, clock, p) \in Nat /\ a <= NextTick(d, clock, p)
            /\ (NextTick(d, clock, p) - a) % p = 0
            /\ (clock - a) \div p >= (d - a) \div p
            /\ (NextTick(d, clock, p) - a) \div p = (clock - a) \div p + 1
        <4>1. ASSUME NEW now, now = clock
              PROVE  /\ NextTick(d, now, p) \in Nat /\ a <= NextTick(d, now, p)
                     /\ (NextTick(d, now, p) - a) % p = 0
                     /\ (now - a) \div p >= (d - a) \div p
                     /\ (NextTick(d, now, p) - a) \div p = (now - a) \div p + 1
          <5>1. now \in Nat /\ d <= now
            BY <1>1, <3>1, <4>1
          <5>2. QED
            BY <3>1, <5>1, NextTickSkips
        <4>2. QED
          BY <4>1
      <3>3. QED
        BY <3>2 DEF p, a
    <2>4. Slot(j, clock) >= Slot(j, d) /\ Slot(j, e) = Slot(j, clock) + 1
      BY <2>3 DEF Slot
    <2>5. Slot(j, clock) \in Int /\ Slot(j, d) \in Int
      BY <1>1, <2>1 DEF Slot
    <2>6. r # <<>> => Slot(j, Last(r)) \in Int
      <3>1. r # <<>> => Last(r) \in Nat
        BY <1>1, <1>7
      <3>2. \A x \in Nat : Slot(j, x) \in Int
        BY <1>1, <2>1 DEF Slot
      <3>3. QED
        BY <3>1, <3>2
    <2>7. task'[j].due = e /\ task'[j].state = "running"
      BY <1>2, <1>9
    <2> HIDE DEF d, e
    <2>8. DueOf(j)'
      <3>1. /\ Slot(j, e) >= 1 /\ Slot(j, Last(q)) < Slot(j, e)
        BY <1>3, <2>2, <2>4, <2>5
      <3>2. QED
        BY <1>1, <1>2, <1>4, <1>5, <1>8, <1>9, <2>3, <2>7, <3>1 DEF DueOf, q
    <2>9. Slot(j, q[1]) >= 1
      <3>1. CASE n = 0
        BY <1>3, <2>2, <2>4, <2>5, <3>1
      <3>2. CASE n > 0
        <4>1. 1 \in 1..n
          BY <1>1, <3>2
        <4>2. Slot(j, r[1]) >= 1
          BY <1>9, <3>2 DEF NoBurstOf, r, n
        <4>3. QED
          BY <1>3, <4>1, <4>2
      <3>3. QED
        BY <1>1, <3>1, <3>2
    <2>10. ASSUME NEW i \in 1..n PROVE Slot(j, q[i]) < Slot(j, q[i + 1])
      <3>1. CASE i = n
        <4>1. Slot(j, Last(r)) < Slot(j, clock)
          BY <1>1, <1>6, <2>2, <2>4, <2>5, <2>6, <3>1
        <4>2. QED
          BY <1>1, <1>3, <1>6, <1>7, <3>1, <4>1
      <3>2. CASE i # n
        <4>1. i \in 1..(n - 1) /\ i + 1 \in 1..n
          BY <1>1, <3>2
        <4>2. Slot(j, r[i]) < Slot(j, r[i + 1])
          BY <1>9, <4>1 DEF NoBurstOf, r, n
        <4>3. QED
          BY <1>3, <4>1, <4>2
      <3>3. QED
        BY <3>1, <3>2
    <2>11. NoBurstOf(j)'
      <3>1. 1..(n + 1) - 1 = 1..n
        BY <1>1
      <3>2. QED
        BY <1>1, <1>3, <1>8, <1>9, <2>9, <2>10, <3>1 DEF NoBurstOf, q
    <2>12. QED
      BY <2>8, <2>11
  <1>10. CASE t.kind = "timeout"
    <2>1. r = <<>> /\ task[j].due = anchor[j] + t.delay /\ n = 0
      BY <1>2, <1>6, <1>10 DEF DueOf, r
    <2>2. DueOf(j)'
      BY <1>1, <1>2, <1>4, <1>5, <1>10 DEF DueOf
    <2>3. Len(q) = 1 /\ q[1] = clock /\ clock >= anchor[j] + t.delay
      BY <1>2, <1>3, <2>1
    <2>4. NoBurstOf(j)'
      BY <1>2, <1>10, <2>3 DEF NoBurstOf, q
    <2>5. QED
      BY <2>2, <2>4
  <1>11. CASE t.kind = "cron"
    <2>1. task[j].due \in t.occurrences /\ Began(j) < task[j].due
      BY <1>2, <1>11 DEF DueOf
    <2>2. DueOf(j)'
      BY <1>1, <1>2, <1>4, <1>5, <1>11 DEF DueOf
    <2>3. ASSUME NEW i \in 1..(n + 1)
          PROVE  \E x \in t.occurrences :
                    (IF i = 1 THEN anchor[j] ELSE q[i - 1]) < x /\ x <= q[i]
      <3>1. CASE i = n + 1
        <4>1. Began(j) = IF i = 1 THEN anchor[j] ELSE q[i - 1]
          <5>1. CASE r = <<>>
            BY <1>6, <3>1, <5>1 DEF Began, r
          <5>2. CASE r # <<>>
            BY <1>1, <1>3, <1>7, <3>1, <5>2 DEF Began, r
          <5>3. QED
            BY <5>1, <5>2
        <4>2. task[j].due <= q[i]
          BY <1>1, <1>2, <1>3, <3>1
        <4>3. QED
          BY <2>1, <4>1, <4>2
      <3>2. CASE i # n + 1
        <4>1. i \in 1..n /\ (i # 1 => i - 1 \in 1..n)
          BY <1>1, <3>2
        <4>2. \E x \in t.occurrences :
                 (IF i = 1 THEN anchor[j] ELSE r[i - 1]) < x /\ x <= r[i]
          BY <1>11, <4>1 DEF NoBurstOf, r, n
        <4>3. QED
          BY <1>3, <4>1, <4>2
      <3>3. QED
        BY <3>1, <3>2
    <2>4. NoBurstOf(j)'
      BY <1>2, <1>3, <1>11, <2>3 DEF NoBurstOf, q
    <2>5. QED
      BY <2>2, <2>4
  <1>12. QED
    BY <1>1, <1>9, <1>10, <1>11 DEF IsTrigger
-------------------------------------------------------------------------------
(***************************************************************************)
(* Every step, as the scheduler sees it.                                   *)
(***************************************************************************)

\* The task of j, waiting or in its run, emits, panics or ends.
StateChanges(j) ==
  /\ task[j].state \in Waiting \cup Running
  /\ \E s \in {"emitted"} \cup Over : Moves(j, s, task[j].due)
  /\ UNCHANGED <<clock, cancelled, anchor, runs, served>>

\* No task moves and no time passes.
Quiet ==
  /\ UNCHANGED <<clock, task, anchor, runs>>
  /\ cancelled' \in BOOLEAN /\ served' \in {"no", "yes", "returned"}

\* A panic, the token and an emission are such changes of state.
LEMMA IsStateChange ==
  ASSUME TypeOK, NEW j \in Jobs, FirePanics(j) \/ SeeCancel(j) \/ JobEmit(j)
  PROVE  StateChanges(j)
  <1>1. CASE FirePanics(j)
    <2>1. task' = [task EXCEPT ![j].state = "panicked"]
      BY <1>1 DEF FirePanics
    <2>2. Moves(j, "panicked", task[j].due)
      BY <2>1, StateEffect
    <2>3. QED
      BY <1>1, <2>2 DEF FirePanics, StateChanges, Over, Running
  <1>2. CASE SeeCancel(j)
    <2>1. task' = [task EXCEPT ![j].state = "ended"]
      BY <1>2 DEF SeeCancel
    <2>2. Moves(j, "ended", task[j].due)
      BY <2>1, StateEffect
    <2>3. QED
      BY <1>2, <2>2 DEF SeeCancel, StateChanges, Over, Waiting
  <1>3. CASE JobEmit(j)
    <2>1. task' = [task EXCEPT ![j].state = "emitted"]
      BY <1>3 DEF JobEmit
    <2>2. Moves(j, "emitted", task[j].due)
      BY <2>1, StateEffect
    <2>3. QED
      BY <1>3, <2>2 DEF JobEmit, StateChanges, Running
  <1>4. QED
    BY <1>1, <1>2, <1>3

\* A panic of a handler takes the boot, or the task of the job that emitted.
LEMMA HandlerPanicCases ==
  ASSUME TypeOK, NEW a \in Actors, HandlerPanics(a)
  PROVE  \/ a = Boot /\ UNCHANGED schedulerVars /\ aborted'
         \/ a \in Jobs /\ FirePanics(a) /\ aborted' = aborted
  BY BackgroundAssumption DEF HandlerPanics

\* What a step does to the tasks.
LEMMA TaskCases ==
  ASSUME TypeOK, [Next]_vars
  PROVE  \/ Tick \/ Quiet \/ serve
         \/ \E j \in Jobs :
               run_job(j) \/ fire(j) \/ (\E o : FireEnds(j, o)) \/ StateChanges(j)
  <1>1. UNCHANGED schedulerVars => Quiet
    BY DEF schedulerVars, Quiet, TypeOK, SchedulerTypeOK
  <1>2. CASE UNCHANGED vars
    BY <1>1, <1>2 DEF vars
  <1>3. CASE SchedulerStep(Tick)
    BY <1>3 DEF SchedulerStep
  <1>4. CASE SchedulerStep(Cancel)
    BY <1>4 DEF SchedulerStep, Cancel, Quiet, TypeOK, SchedulerTypeOK
  <1>5. CASE WireHook \/ EmitHook \/ HookFails
    BY <1>1, <1>5 DEF WireHook, EmitHook, HookFails
  <1>6. CASE Spawn
    BY <1>6 DEF Spawn
  <1>7. ASSUME NEW j \in Jobs, SchedulerStep(run_job(j))
        PROVE  run_job(j)
    BY <1>7 DEF SchedulerStep
  <1>8. ASSUME NEW j \in Jobs, SchedulerStep(fire(j))
        PROVE  fire(j)
    BY <1>8 DEF SchedulerStep
  <1>9. ASSUME NEW j \in Jobs, SchedulerStep(SeeCancel(j))
        PROVE  StateChanges(j)
    BY <1>9, IsStateChange DEF SchedulerStep
  <1>10. ASSUME NEW j \in Jobs, JobEmit(j)
         PROVE  StateChanges(j)
    BY <1>10, IsStateChange
  <1>11. ASSUME NEW j \in Jobs, JobPanics(j)
         PROVE  StateChanges(j)
    BY <1>11, IsStateChange DEF JobPanics
  <1>12. ASSUME NEW a \in Actors, Deliver(a)
         PROVE  Quiet
    BY <1>1, <1>12 DEF Deliver
  <1>13. ASSUME NEW j \in Jobs, JobStep(j)
         PROVE  Quiet \/ \E o : FireEnds(j, o)
    <2>1. CASE Deliver(j)
      BY <1>12, <2>1, BackgroundAssumption
    <2>2. CASE \E o \in {"ok", "err"} : JobEnds(j, o)
      BY <2>2 DEF JobEnds
    <2>3. QED
      BY <1>13, <2>1, <2>2 DEF JobStep
  <1>14. ASSUME NEW a \in Actors, HandlerPanics(a)
         PROVE  Quiet \/ (a \in Jobs /\ StateChanges(a))
    BY <1>1, <1>14, HandlerPanicCases, IsStateChange
  <1>15. CASE SchedulerStep(ServeReturns)
    BY <1>15 DEF SchedulerStep, ServeReturns, Quiet, TypeOK, SchedulerTypeOK
  <1>16. Boot \in Actors
    BY BackgroundAssumption
  <1>17. CASE Next
    BY <1>3, <1>4, <1>5, <1>6, <1>7, <1>8, <1>9, <1>10, <1>11, <1>12, <1>13, <1>14,
       <1>15, <1>16, <1>17 DEF Next
  <1>18. QED
    BY <1>2, <1>17

\* Types of the scheduler's state.
LEMMA SchedulerTypes ==
  ASSUME TypeOK, [Next]_vars
  PROVE  SchedulerTypeOK'
  <1>1. /\ clock \in Times /\ cancelled \in BOOLEAN /\ clock \in Nat /\ MaxClock \in Nat
        /\ task \in [Jobs -> [state : TaskState, due : Nat]]
        /\ anchor \in [Jobs -> Times] /\ runs \in [Jobs -> Seq(Times)]
        /\ served \in {"no", "yes", "returned"}
    BY TriggerAssumption DEF TypeOK, SchedulerTypeOK, Times
  <1>2. ASSUME NEW j \in Jobs, NEW s \in TaskState, NEW d \in Nat, Moves(j, s, d)
        PROVE  task' \in [Jobs -> [state : TaskState, due : Nat]]
    BY <1>1, <1>2 DEF Moves
  <1>3. "waiting" \in TaskState /\ "idle" \in TaskState /\ "running" \in TaskState
        /\ "spawned" \in TaskState /\ {"emitted"} \cup Over \subseteq TaskState
    BY DEF TaskState, Waiting, Running, Over
  <1>4. CASE Tick
    <2>1. clock' \in Times
      BY <1>1, <1>4 DEF Tick, Times
    <2>2. QED
      BY <1>1, <1>4, <2>1 DEF Tick, SchedulerTypeOK
  <1>5. CASE Quiet
    BY <1>1, <1>5 DEF Quiet, SchedulerTypeOK
  <1>6. CASE serve
    BY <1>1, <1>3, <1>6 DEF serve, SchedulerTypeOK
  <1>7. ASSUME NEW j \in Jobs, run_job(j)
        PROVE  SchedulerTypeOK'
    <2>1. PICK s \in {"waiting", "idle"}, d \in Nat : Moves(j, s, d)
      BY <1>7, RunJobEffect
    <2>2. anchor' \in [Jobs -> Times] /\ UNCHANGED <<clock, cancelled, runs, served>>
      BY <1>1, <1>7, RunJobEffect
    <2>3. QED
      BY <1>1, <1>2, <1>3, <2>1, <2>2 DEF SchedulerTypeOK
  <1>8. ASSUME NEW j \in Jobs, fire(j)
        PROVE  SchedulerTypeOK'
    <2>1. runs' \in [Jobs -> Seq(Times)] /\ UNCHANGED <<clock, cancelled, anchor, served>>
      <3>1. Append(runs[j], clock) \in Seq(Times)
        BY <1>1, AppendProperties
      <3>2. QED
        BY <1>1, <1>8, <3>1, FireEffect
    <2> DEFINE d == IF Triggers[j].kind = "interval"
                    THEN NextTick(task[j].due, clock, Triggers[j].period) ELSE task[j].due
    <2>2. Moves(j, "running", d)
      BY <1>8, FireEffect
    <2>3. d \in Nat
      <3> DEFINE p == Triggers[j].period
                 y == clock - task[j].due
      <3>1. task[j].due \in Nat /\ y \in Nat
        BY <1>1, <1>8, FireEffect
      <3>2. CASE Triggers[j].kind = "interval"
        <4>1. p \in Nat \ {0}
          BY <3>2, TriggerAssumption DEF IsTrigger
        <4> HIDE DEF p, y
        <4>2. y % p \in 0..(p - 1)
          BY <3>1, <4>1, Division
        <4>3. clock + p - (y % p) \in Nat
          <5> DEFINE r == y % p
          <5> HIDE DEF r
          <5>1. r \in 0..(p - 1)
            BY <4>2 DEF r
          <5>2. clock + p - r \in Nat
            BY <1>1, <4>1, <5>1
          <5>3. QED
            BY <5>2 DEF r
        <4>4. QED
          BY <3>2, <4>3 DEF NextTick, p, y
      <3>3. QED
        BY <3>1, <3>2
    <2>4. QED
      BY <1>1, <1>2, <1>3, <2>1, <2>2, <2>3 DEF SchedulerTypeOK
  <1>9. ASSUME NEW j \in Jobs, NEW o, FireEnds(j, o)
        PROVE  SchedulerTypeOK'
    <2>1. PICK s \in {"waiting", "idle"}, d \in Nat : Moves(j, s, d)
      BY <1>9, FireEndsEffect
    <2>2. UNCHANGED <<clock, cancelled, anchor, runs, served>>
      BY <1>9, FireEndsEffect
    <2>3. QED
      BY <1>1, <1>2, <1>3, <2>1, <2>2 DEF SchedulerTypeOK
  <1>10. ASSUME NEW j \in Jobs, StateChanges(j)
         PROVE  SchedulerTypeOK'
    <2>1. PICK s \in {"emitted"} \cup Over : Moves(j, s, task[j].due)
      BY <1>10 DEF StateChanges
    <2>2. task[j].due \in Nat
      BY <1>1
    <2>3. QED
      BY <1>1, <1>2, <1>3, <1>10, <2>1, <2>2 DEF SchedulerTypeOK, StateChanges
  <1>11. QED
    BY <1>4, <1>5, <1>6, <1>7, <1>8, <1>9, <1>10, TaskCases
\* Every step keeps every job's schedule.
LEMMA ScheduleStep ==
  ASSUME TypeOK, TaskInv, DueInv, NoBurst, [Next]_vars
  PROVE  DueInv' /\ NoBurst'
  <1>1. SUFFICES ASSUME NEW i \in Jobs PROVE DueOf(i)' /\ NoBurstOf(i)'
    BY DEF DueInv, NoBurst
  <1>2. DueOf(i) /\ NoBurstOf(i)
    BY DEF DueInv, NoBurst
  <1>3. clock \in Nat
    BY DEF TypeOK, SchedulerTypeOK, Times
  <1>4. CASE Tick
    BY <1>2, <1>3, <1>4, ScheduleFrame DEF Tick
  <1>5. CASE Quiet
    BY <1>2, <1>3, <1>5, ScheduleFrame DEF Quiet
  <1>6. CASE serve
    <2>1. /\ task[i].state = "none" /\ task'[i].state = "spawned"
          /\ UNCHANGED <<clock, anchor, runs>>
      BY <1>6 DEF serve, TaskInv
    <2>2. Began(i)' = Began(i) /\ runs[i] = <<>>
      BY <1>2, <2>1 DEF Began, DueOf
    <2>3. DueOf(i)'
      BY <1>2, <2>1, <2>2 DEF DueOf
    <2>4. QED
      BY <1>2, <2>1, <2>3, NoBurstFrame
  <1>7. ASSUME NEW j \in Jobs, NEW s, NEW d, Moves(j, s, d), i # j, clock' = clock,
               \A k \in Jobs : k # j => anchor'[k] = anchor[k] /\ runs'[k] = runs[k]
        PROVE  DueOf(i)' /\ NoBurstOf(i)'
    <2>1. task'[i] = task[i]
      BY <1>7 DEF Moves, TypeOK, SchedulerTypeOK
    <2>2. QED
      BY <1>2, <1>3, <1>7, <2>1, ScheduleFrame
  <1>8. ASSUME NEW j \in Jobs, run_job(j)
        PROVE  DueOf(i)' /\ NoBurstOf(i)'
    <2>1. CASE i = j
      BY <1>2, <1>8, <2>1, ScheduleBegins
    <2>2. CASE i # j
      <3>1. PICK s, d : Moves(j, s, d)
        BY <1>8, RunJobEffect
      <3>2. clock' = clock /\ runs' = runs /\ \A k \in Jobs : k # j => anchor'[k] = anchor[k]
        BY <1>8, RunJobEffect DEF TypeOK, SchedulerTypeOK
      <3>3. QED
        BY <1>7, <2>2, <3>1, <3>2
    <2>3. QED
      BY <2>1, <2>2
  <1>9. ASSUME NEW j \in Jobs, fire(j)
        PROVE  DueOf(i)' /\ NoBurstOf(i)'
    <2>1. CASE i = j
      BY <1>2, <1>9, <2>1, ScheduleFires
    <2>2. CASE i # j
      <3>1. PICK s, d : Moves(j, s, d)
        BY <1>9, FireEffect
      <3>2. clock' = clock /\ anchor' = anchor /\ \A k \in Jobs : k # j => runs'[k] = runs[k]
        BY <1>9, FireEffect DEF TypeOK, SchedulerTypeOK
      <3>3. QED
        BY <1>7, <2>2, <3>1, <3>2
    <2>3. QED
      BY <2>1, <2>2
  <1>10. ASSUME NEW j \in Jobs, NEW o, FireEnds(j, o)
         PROVE  DueOf(i)' /\ NoBurstOf(i)'
    <2>1. task[j].state \in Running /\ UNCHANGED <<clock, anchor, runs>>
      BY <1>10, FireEndsEffect
    <2>2. PICK s \in {"waiting", "idle"}, d \in Nat :
               /\ Moves(j, s, d)
               /\ Triggers[j].kind = "interval" => d = task[j].due
               /\ Triggers[j].kind = "timeout" => s = "idle"
               /\ Triggers[j].kind = "cron" /\ s = "waiting" =>
                     d \in Triggers[j].occurrences /\ clock < d
      BY <1>10, FireEndsEffect
    <2>3. CASE i = j
      <3>1. task[j].state \notin {"none", "spawned"} /\ s \notin {"none", "spawned"}
            /\ (Triggers[j].kind = "timeout" => s # "waiting")
        BY <2>1, <2>2 DEF Running
      <3>2. QED
        BY <1>2, <2>1, <2>2, <2>3, <3>1, ScheduleMoves
    <2>4. CASE i # j
      BY <1>7, <2>1, <2>2, <2>4
    <2>5. QED
      BY <2>3, <2>4
  <1>11. ASSUME NEW j \in Jobs, StateChanges(j)
         PROVE  DueOf(i)' /\ NoBurstOf(i)'
    <2>1. /\ task[j].state \in Waiting \cup Running /\ UNCHANGED <<clock, anchor, runs>>
      BY <1>11 DEF StateChanges
    <2>2. PICK s \in {"emitted"} \cup Over : Moves(j, s, task[j].due)
      BY <1>11 DEF StateChanges
    <2>3. CASE i = j
      <3>1. task[j].state \notin {"none", "spawned"} /\ s \notin {"none", "spawned", "waiting"}
        BY <2>1, <2>2 DEF Running, Waiting, Over
      <3>2. QED
        BY <1>2, <2>1, <2>2, <2>3, <3>1, ScheduleMoves
    <2>4. CASE i # j
      BY <1>7, <2>1, <2>2, <2>4
    <2>5. QED
      BY <2>3, <2>4
  <1>12. QED
    BY <1>4, <1>5, <1>6, <1>8, <1>9, <1>10, <1>11, TaskCases

\* Every step keeps what a cron job waits for: time that passes only takes
\* occurrences from those ahead, and a wait that begins is for the next one.
LEMMA OccurrenceStep ==
  ASSUME TypeOK, TaskInv, NoOccurrenceMissed, [Next]_vars
  PROVE  NoOccurrenceMissed'
  <1>1. SUFFICES ASSUME NEW i \in Jobs, Triggers[i].kind = "cron" PROVE NextOccurrenceOf(i)'
    BY DEF NoOccurrenceMissed
  <1>2. NextOccurrenceOf(i)
    BY <1>1 DEF NoOccurrenceMissed
  <1>3. /\ clock \in Nat /\ DOMAIN task = Jobs /\ task[i] \in [state : TaskState, due : Nat]
        /\ Triggers[i].occurrences \subseteq Nat
    <2>1. clock \in Nat /\ DOMAIN task = Jobs /\ task[i] \in [state : TaskState, due : Nat]
      BY <1>1, TriggerAssumption DEF TypeOK, SchedulerTypeOK, Times
    <2>2. IsTrigger(Triggers[i])
      BY <1>1, TriggerAssumption
    <2>3. Triggers[i].occurrences \subseteq Times
      BY <1>1, <2>2 DEF IsTrigger
    <2>4. QED
      BY <2>1, <2>3 DEF Times
  <1>4. ASSUME task'[i] = task[i], clock' \in Nat, clock <= clock' PROVE NextOccurrenceOf(i)'
    BY <1>2, <1>3, <1>4 DEF NextOccurrenceOf
  <1>5. ASSUME task'[i].state \notin Waiting PROVE NextOccurrenceOf(i)'
    BY <1>5 DEF NextOccurrenceOf, Waiting
  <1>6. ASSUME task'[i] = next_delay(Triggers[i], clock), clock' = clock PROVE NextOccurrenceOf(i)'
    BY <1>3, <1>6, NextDelayIsNext DEF NextOccurrenceOf
  <1>7. CASE Tick
    BY <1>3, <1>4, <1>7 DEF Tick
  <1>8. CASE Quiet
    BY <1>3, <1>4, <1>8 DEF Quiet
  <1>9. CASE serve
    BY <1>5, <1>9 DEF serve, Waiting
  <1>10. ASSUME NEW j \in Jobs, run_job(j) PROVE NextOccurrenceOf(i)'
    <2>1. CASE i = j
      BY <1>1, <1>3, <1>6, <1>10, <2>1 DEF run_job
    <2>2. CASE i # j
      BY <1>3, <1>4, <1>10, <2>2 DEF run_job
    <2>3. QED
      BY <2>1, <2>2
  <1>11. ASSUME NEW j \in Jobs, fire(j) PROVE NextOccurrenceOf(i)'
    <2>1. CASE i = j
      BY <1>3, <1>5, <1>11, <2>1 DEF fire, Waiting
    <2>2. CASE i # j
      BY <1>3, <1>4, <1>11, <2>2 DEF fire
    <2>3. QED
      BY <2>1, <2>2
  <1>12. ASSUME NEW j \in Jobs, NEW o, FireEnds(j, o) PROVE NextOccurrenceOf(i)'
    <2>1. CASE i = j
      BY <1>1, <1>3, <1>6, <1>12, <2>1 DEF FireEnds
    <2>2. CASE i # j
      BY <1>3, <1>4, <1>12, <2>2 DEF FireEnds
    <2>3. QED
      BY <2>1, <2>2
  <1>13. ASSUME NEW j \in Jobs, StateChanges(j) PROVE NextOccurrenceOf(i)'
    <2>1. PICK s \in {"emitted"} \cup Over : Moves(j, s, task[j].due)
      BY <1>13 DEF StateChanges
    <2>2. CASE i = j
      BY <1>3, <1>5, <2>1, <2>2 DEF Moves, Waiting, Over
    <2>3. CASE i # j
      BY <1>3, <1>4, <1>13, <2>1, <2>3 DEF Moves, StateChanges
    <2>4. QED
      BY <2>2, <2>3
  <1>14. QED
    BY <1>7, <1>8, <1>9, <1>10, <1>11, <1>12, <1>13, TaskCases

-------------------------------------------------------------------------------
(***************************************************************************)
(* Every step, as the bus sees it.                                         *)
(***************************************************************************)

\* The hook that wires the bus is one of the bootstrap hooks, and the only one.
LEMMA WiredAtFacts ==
  /\ WiredAt \in 1..Len(BootHooks) /\ Len(BootHooks) \in Nat
  /\ \A i \in 1..Len(BootHooks) : BootHooks[i] = Wire <=> i = WiredAt
  <1>1. Len(BootHooks) \in Nat /\ DOMAIN BootHooks = 1..Len(BootHooks)
    BY BackgroundAssumption, LenProperties
  <1>2. PICK k \in 1..Len(BootHooks) : \A i \in 1..Len(BootHooks) : BootHooks[i] = Wire <=> i = k
    BY <1>1, BackgroundAssumption
  <1>3. WiredAt \in 1..Len(BootHooks) /\ BootHooks[WiredAt] = Wire
    BY <1>2 DEF WiredAt
  <1>4. QED
    BY <1>1, <1>2, <1>3

\* What a step does to the registry, the stacks and the hooks.
LEMMA BusCases ==
  ASSUME TypeOK, BusInv, [Next]_vars
  PROVE  \/ WireHook
         \/ UNCHANGED busVars /\ hook' = hook
         \/ \E a \in Actors : \E q : Restacks(a, q) /\ (hook' = hook \/ EmitHook)
  <1>1. \A a \in Actors : \A i \in DOMAIN stack[a] : InList(stack[a][i])
    <2> TAKE a \in Actors
    <2> TAKE i \in DOMAIN stack[a]
    <2>1. stack[a] \in Seq(Emission)
      BY DEF TypeOK, BusTypeOK
    <2>2. stack[a][i] \in Emission
      BY <2>1, LenProperties, ElementOfSeq
    <2>3. QED
      BY <2>2 DEF BusInv, InList
  <1>2. BusTypeOK
    BY DEF TypeOK
  <1>3. ASSUME NEW A, SchedulerStep(A) PROVE UNCHANGED busVars /\ hook' = hook
    BY <1>3 DEF SchedulerStep
  <1>4. CASE EmitHook
    <2>1. BootHooks[hook + 1] \in Events /\ Boot \in Actors /\ emit(Boot, BootHooks[hook + 1])
      <3>1. hook + 1 \in 1..Len(BootHooks)
        BY <1>4, WiredAtFacts DEF EmitHook, Booting, TypeOK
      <3>2. BootHooks[hook + 1] \in Events \cup {Wire}
        BY <3>1, BackgroundAssumption, ElementOfSeq
      <3>3. QED
        BY <1>4, <3>2, BackgroundAssumption DEF EmitHook
    <2>2. \E q : Restacks(Boot, q)
      BY <1>1, <1>2, <2>1, EmitRestacks
    <2>3. QED
      BY <1>4, <2>1, <2>2
  <1>5. CASE HookFails \/ Spawn \/ UNCHANGED vars
    BY <1>5 DEF HookFails, Spawn, vars
  <1>6. ASSUME NEW j \in Jobs, JobEmit(j)
        PROVE  hook' = hook /\ j \in Actors /\ \E q : Restacks(j, q)
    <2>1. JobEmits[j] \in Events /\ j \in Actors /\ emit(j, JobEmits[j]) /\ hook' = hook
      BY <1>6, BackgroundAssumption DEF JobEmit
    <2>2. QED
      BY <1>1, <1>2, <2>1, EmitRestacks
  <1>7. ASSUME NEW j \in Jobs, JobPanics(j) \/ \E o \in {"ok", "err"} : JobEnds(j, o)
        PROVE  UNCHANGED busVars /\ hook' = hook
    BY <1>7 DEF JobPanics, JobEnds
  <1>8. ASSUME NEW a \in Actors, Deliver(a) \/ HandlerPanics(a)
        PROVE  hook' = hook /\ \E q : Restacks(a, q)
    <2>1. hook' = hook
      BY <1>8 DEF Deliver, HandlerPanics
    <2>2. CallHandler(a) \/ NestedEmit(a) \/ HandlerReturns(a) \/ EmitReturns(a) \/ Unwind(a)
      BY <1>8 DEF Deliver, HandlerPanics
    <2>3. QED
      BY <1>1, <1>2, <2>1, <2>2, DeliverRestacks
  <1>9. ASSUME NEW j \in Jobs, JobStep(j)
        PROVE  Deliver(j) \/ \E o \in {"ok", "err"} : JobEnds(j, o)
    BY <1>9 DEF JobStep
  <1>10. Jobs \subseteq Actors /\ Boot \in Actors
    BY BackgroundAssumption
  <1>11. CASE Next
    <2>1. CASE WireHook \/ EmitHook \/ HookFails \/ Spawn
      BY <1>4, <1>5, <2>1
    <2>2. CASE SchedulerStep(Tick) \/ SchedulerStep(Cancel) \/ SchedulerStep(ServeReturns)
      BY <2>2 DEF SchedulerStep
    <2>3. CASE \E j \in Jobs : \/ SchedulerStep(run_job(j))
                               \/ SchedulerStep(fire(j))
                               \/ SchedulerStep(SeeCancel(j))
      BY <2>3 DEF SchedulerStep
    <2>4. CASE \E j \in Jobs : JobEmit(j) \/ JobPanics(j) \/ JobStep(j)
      BY <1>6, <1>7, <1>8, <1>9, <1>10, <2>4
    <2>5. CASE Deliver(Boot) \/ \E a \in Actors : HandlerPanics(a)
      BY <1>8, <1>10, <2>5
    <2>6. QED
      BY <1>11, <2>1, <2>2, <2>3, <2>4, <2>5 DEF Next
  <1>12. QED
    BY <1>5, <1>11

\* Every step keeps the bus's types and its invariant.
LEMMA BusStep ==
  ASSUME TypeOK, TaskInv, BusInv, [Next]_vars
  PROVE  BusTypeOK' /\ hook' \in 0..Len(BootHooks) /\ BusInv'
  <1>1. /\ BusTypeOK /\ hook \in 0..Len(BootHooks)
        /\ registry \in [Events -> Seq(HandlerSet)] /\ stack \in [Actors -> Seq(Emission)]
    BY DEF TypeOK, BusTypeOK
  <1>2. CASE WireHook
    <2>1. hook + 1 = WiredAt /\ hook < WiredAt /\ hook' = hook + 1
      BY <1>1, <1>2, WiredAtFacts DEF WireHook, Booting
    <2>2. registry = [e \in Events |-> <<>>]
      BY <1>1, <2>1 DEF BusInv
    <2>3. /\ registry' \in [Events -> Seq(HandlerSet)]
          /\ \A e \in Events : HandlersInOrder(registry'[e], e)
      BY <1>2, <2>2, WiredInOrder DEF WireHook, wire_handlers
    <2>4. \A a \in Actors : stack[a] = <<>>
      <3>1. served = "no" /\ ~Emitting(Boot)
        BY <1>1, <1>2, WiredAtFacts DEF WireHook, Booting, TaskInv
      <3>2. \A j \in Jobs : ~Emitting(j)
        BY <3>1 DEF TaskInv
      <3>3. QED
        BY <3>1, <3>2, BackgroundAssumption DEF Emitting
    <2>5. stack' = stack
      BY <1>2 DEF WireHook, wire_handlers
    <2>6. DOMAIN <<>> = {}
      OBVIOUS
    <2>7. BusTypeOK'
      BY <1>1, <2>3, <2>5 DEF BusTypeOK
    <2>8. hook' \in 0..Len(BootHooks) /\ ~(hook' < WiredAt)
      BY <1>1, <2>1, WiredAtFacts
    <2>9. BusInv'
      BY <2>3, <2>4, <2>5, <2>6, <2>8 DEF BusInv
    <2>10. QED
      BY <2>7, <2>8, <2>9
  <1>3. CASE UNCHANGED busVars /\ hook' = hook
    BY <1>1, <1>3 DEF busVars, BusTypeOK, BusInv, Called
  <1>4. ASSUME NEW a \in Actors, NEW q, Restacks(a, q), hook' = hook \/ EmitHook
        PROVE  BusTypeOK' /\ hook' \in 0..Len(BootHooks) /\ BusInv'
    <2>1. /\ BusTypeOK' /\ registry' = registry
          /\ \A b \in Actors : stack'[b] = IF b = a THEN q ELSE stack[b]
      BY <1>1, <1>4, RestackEffect
    <2>2. hook' \in 0..Len(BootHooks) /\ (hook' < WiredAt <=> hook < WiredAt)
      <3>1. CASE hook' = hook
        BY <1>1, <3>1
      <3>2. CASE EmitHook
        BY <1>1, <3>2, WiredAtFacts DEF EmitHook, Booting
      <3>3. QED
        BY <1>4, <3>1, <3>2
    <2>3. \A e \in Events : IF hook' < WiredAt THEN registry'[e] = <<>>
                                               ELSE HandlersInOrder(registry'[e], e)
      BY <2>1, <2>2 DEF BusInv
    <2>4. ASSUME NEW b \in Actors, NEW i \in DOMAIN stack'[b]
          PROVE  Called(stack'[b][i]) \o stack'[b][i].todo = registry'[stack'[b][i].event]
      <3>1. CASE b = a
        BY <1>4, <2>1, <2>4, <3>1 DEF Restacks, InList
      <3>2. CASE b # a
        <4>1. stack'[b] = stack[b] /\ registry' = registry
          BY <2>1, <3>2
        <4>2. i \in DOMAIN stack[b]
          BY <2>4, <4>1
        <4>3. Called(stack[b][i]) \o stack[b][i].todo = registry[stack[b][i].event]
          BY <4>2 DEF BusInv
        <4>4. QED
          BY <4>1, <4>3
      <3>3. QED
        BY <3>1, <3>2
    <2>5. QED
      BY <2>1, <2>2, <2>3, <2>4 DEF BusInv, Called
  <1>5. QED
    BY <1>2, <1>3, <1>4, BusCases
-------------------------------------------------------------------------------
(***************************************************************************)
(* Tasks, emissions and the end of serve.                                  *)
(***************************************************************************)

\* The task of a job that is neither unborn nor over moves, and only its own
\* emissions change with it.
LEMMA OneTaskMoves ==
  ASSUME TypeOK, TaskInv, ServeReturnsLast, NEW j \in Jobs, NEW s, NEW d, Moves(j, s, d),
         task[j].state \notin {"none"} \cup Over, s # "none",
         \A b \in Actors : b # j => stack'[b] = stack[b],
         stack'[j] # <<>> => s = "emitted", s = "ended" => cancelled,
         UNCHANGED <<cancelled, served, hook>>
  PROVE  TaskInv' /\ ServeReturnsLast'
  <1>1. \A i \in Jobs : task'[i].state = IF i = j THEN s ELSE task[i].state
    BY MoveEffect
  <1>2. Boot \in Actors /\ Boot \notin Jobs /\ Jobs \subseteq Actors
    BY BackgroundAssumption
  <1>3. served = "yes"
    BY DEF TaskInv, ServeReturnsLast, TypeOK, SchedulerTypeOK
  <1>4. TaskInv'
    BY <1>1, <1>2, <1>3 DEF TaskInv, Emitting
  <1>5. ServeReturnsLast'
    BY <1>3 DEF ServeReturnsLast
  <1>6. QED
    BY <1>4, <1>5

\* The stack of one actor changes and no task moves: a bootstrap hook emits
\* before serve, or an emission goes on.
LEMMA OneStackMoves ==
  ASSUME TypeOK, TaskInv, ServeReturnsLast, NEW a \in Actors,
         a \in Jobs => Emitting(a), a = Boot => served = "no",
         \A b \in Actors : b # a => stack'[b] = stack[b],
         UNCHANGED <<task, cancelled, served>>, hook' = hook \/ served = "no"
  PROVE  TaskInv' /\ ServeReturnsLast'
  <1>1. Boot \in Actors /\ Boot \notin Jobs /\ Jobs \subseteq Actors
    BY BackgroundAssumption
  <1>2. TaskInv'
    BY <1>1 DEF TaskInv, Emitting
  <1>3. served # "returned"
    <2>1. CASE a = Boot
      BY <2>1
    <2>2. CASE a \in Jobs
      BY <2>2 DEF TaskInv, ServeReturnsLast
    <2>3. QED
      BY <2>1, <2>2, BackgroundAssumption
  <1>4. QED
    BY <1>2, <1>3 DEF ServeReturnsLast

\* Every step keeps who may emit, and serve returning last
\* (scheduler.rs:162-183).
LEMMA TaskStep ==
  ASSUME TypeOK, TaskInv, BusInv, ServeReturnsLast, [Next]_vars
  PROVE  TaskInv' /\ ServeReturnsLast'
  <1>1. Boot \in Actors /\ Boot \notin Jobs /\ Jobs \subseteq Actors
    BY BackgroundAssumption
  <1>2. /\ BusTypeOK /\ stack \in [Actors -> Seq(Emission)] /\ hook \in 0..Len(BootHooks)
        /\ served \in {"no", "yes", "returned"} /\ Len(BootHooks) \in Nat
    BY WiredAtFacts DEF TypeOK, BusTypeOK, SchedulerTypeOK
  <1>3. ASSUME UNCHANGED <<task, stack, hook, served, cancelled>>
        PROVE  TaskInv' /\ ServeReturnsLast'
    BY <1>3 DEF TaskInv, ServeReturnsLast, Emitting
  <1>4. CASE UNCHANGED vars \/ HookFails
    BY <1>3, <1>4 DEF vars, schedulerVars, busVars, HookFails
  <1>5. CASE SchedulerStep(Tick)
    BY <1>3, <1>5 DEF SchedulerStep, Tick, busVars
  <1>6. CASE SchedulerStep(Cancel)
    BY <1>6 DEF SchedulerStep, Cancel, busVars, TaskInv, ServeReturnsLast, Emitting
  <1>7. CASE WireHook
    <2>1. served = "no" /\ UNCHANGED <<task, stack, served, cancelled>>
      BY <1>2, <1>7 DEF WireHook, Booting, TaskInv, wire_handlers, schedulerVars
    <2>2. QED
      BY <2>1 DEF TaskInv, ServeReturnsLast, Emitting
  <1>8. CASE EmitHook
    <2>1. served = "no" /\ UNCHANGED <<task, served, cancelled>>
      BY <1>2, <1>8 DEF EmitHook, Booting, TaskInv, schedulerVars
    <2>2. \A b \in Actors : b # Boot => stack'[b] = stack[b]
      BY <1>2, <1>8 DEF EmitHook, emit
    <2>3. QED
      BY <1>1, <2>1, <2>2, OneStackMoves
  <1>9. CASE Spawn
    <2>1. /\ served = "no" /\ served' = "yes" /\ UNCHANGED <<stack, hook, cancelled>>
          /\ hook = Len(BootHooks) /\ ~Emitting(Boot)
          /\ \A j \in Jobs : task'[j].state = "spawned"
      BY <1>9 DEF Spawn, serve, busVars
    <2>2. \A j \in Jobs : ~Emitting(j)
      BY <2>1 DEF TaskInv
    <2>3. QED
      BY <2>1, <2>2 DEF TaskInv, ServeReturnsLast, Emitting
  <1>10. ASSUME NEW j \in Jobs, SchedulerStep(run_job(j))
         PROVE  TaskInv' /\ ServeReturnsLast'
    <2>1. /\ run_job(j) /\ task[j].state = "spawned" /\ UNCHANGED <<cancelled, served, hook, stack>>
      BY <1>10, RunJobEffect DEF SchedulerStep, busVars
    <2>2. PICK s \in {"waiting", "idle"}, d \in Nat : Moves(j, s, d)
      BY <2>1, RunJobEffect
    <2>3. stack[j] = <<>> /\ stack'[j] = <<>>
      BY <2>1 DEF TaskInv, Emitting
    <2>4. task[j].state \notin {"none"} \cup Over
      BY <2>1 DEF Over
    <2>5. QED
      BY <2>1, <2>2, <2>3, <2>4, OneTaskMoves
  <1>11. ASSUME NEW j \in Jobs, SchedulerStep(fire(j))
         PROVE  TaskInv' /\ ServeReturnsLast'
    <2>1. /\ fire(j) /\ task[j].state = "waiting" /\ UNCHANGED <<cancelled, served, hook, stack>>
      BY <1>11, FireEffect DEF SchedulerStep, busVars
    <2>2. PICK d : Moves(j, "running", d)
      BY <2>1, FireEffect
    <2>3. stack[j] = <<>> /\ stack'[j] = <<>>
      BY <2>1 DEF TaskInv, Emitting
    <2>4. task[j].state \notin {"none"} \cup Over
      BY <2>1 DEF Over
    <2>5. QED
      BY <2>1, <2>2, <2>3, <2>4, OneTaskMoves
  <1>12. ASSUME NEW j \in Jobs, SchedulerStep(SeeCancel(j))
         PROVE  TaskInv' /\ ServeReturnsLast'
    <2>1. /\ task' = [task EXCEPT ![j].state = "ended"] /\ task[j].state \in Waiting
          /\ cancelled /\ UNCHANGED <<cancelled, served, hook, stack>>
      BY <1>12 DEF SchedulerStep, SeeCancel, busVars
    <2>2. Moves(j, "ended", task[j].due)
      BY <2>1, StateEffect
    <2>3. stack[j] = <<>> /\ stack'[j] = <<>>
      BY <2>1 DEF TaskInv, Emitting, Waiting
    <2>4. task[j].state \notin {"none"} \cup Over
      BY <2>1 DEF Over, Waiting
    <2>5. QED
      BY <2>1, <2>2, <2>3, <2>4, OneTaskMoves
  <1>13. ASSUME NEW j \in Jobs, JobEmit(j)
         PROVE  TaskInv' /\ ServeReturnsLast'
    <2>1. /\ task' = [task EXCEPT ![j].state = "emitted"] /\ task[j].state = "running"
          /\ UNCHANGED <<cancelled, served, hook>>
      BY <1>13 DEF JobEmit
    <2>2. Moves(j, "emitted", task[j].due)
      BY <2>1, StateEffect
    <2>3. \A b \in Actors : b # j => stack'[b] = stack[b]
      BY <1>2, <1>13 DEF JobEmit, emit
    <2>4. task[j].state \notin {"none"} \cup Over
      BY <2>1 DEF Over
    <2>5. QED
      BY <2>1, <2>2, <2>3, <2>4, OneTaskMoves
  <1>14. ASSUME NEW j \in Jobs, FirePanics(j), stack'[j] = <<>>, hook' = hook,
                \A b \in Actors : b # j => stack'[b] = stack[b]
         PROVE  TaskInv' /\ ServeReturnsLast'
    <2>1. /\ task' = [task EXCEPT ![j].state = "panicked"] /\ task[j].state \in Running
          /\ UNCHANGED <<cancelled, served>>
      BY <1>14 DEF FirePanics
    <2>2. Moves(j, "panicked", task[j].due)
      BY <2>1, StateEffect
    <2>3. task[j].state \notin {"none"} \cup Over
      BY <2>1 DEF Over, Running
    <2>4. QED
      BY <1>14, <2>1, <2>2, <2>3, OneTaskMoves
  <1>15. ASSUME NEW j \in Jobs, JobPanics(j)
         PROVE  TaskInv' /\ ServeReturnsLast'
    <2>1. FirePanics(j) /\ stack' = stack /\ hook' = hook /\ stack[j] = <<>>
      BY <1>15 DEF JobPanics, busVars, Emitting
    <2>2. QED
      BY <1>14, <2>1
  <1>16. ASSUME NEW j \in Jobs, NEW o, JobEnds(j, o)
         PROVE  TaskInv' /\ ServeReturnsLast'
    <2>1. FireEnds(j, o) /\ stack' = stack /\ hook' = hook /\ stack[j] = <<>>
      BY <1>16 DEF JobEnds, busVars, Emitting
    <2>2. PICK s \in {"waiting", "idle"}, d \in Nat : Moves(j, s, d)
      BY <2>1, FireEndsEffect
    <2>3. task[j].state \in Running /\ UNCHANGED <<cancelled, served>>
      BY <2>1, FireEndsEffect
    <2>4. task[j].state \notin {"none"} \cup Over
      BY <2>3 DEF Over, Running
    <2>5. QED
      BY <2>1, <2>2, <2>3, <2>4, OneTaskMoves
  <1>17. ASSUME NEW a \in Actors, Deliver(a)
         PROVE  TaskInv' /\ ServeReturnsLast'
    <2>1. Emitting(a) /\ UNCHANGED <<task, cancelled, served, hook>>
      BY <1>17 DEF Deliver, CallHandler, NestedEmit, HandlerReturns, EmitReturns, schedulerVars
    <2>2. \A b \in Actors : b # a => stack'[b] = stack[b]
      BY <1>2, <1>17 DEF Deliver, CallHandler, NestedEmit, HandlerReturns, EmitReturns, SetTop
    <2>3. a = Boot => served = "no"
      BY <2>1 DEF TaskInv
    <2>4. QED
      BY <2>1, <2>2, <2>3, OneStackMoves
  <1>18. ASSUME NEW a \in Actors, HandlerPanics(a)
         PROVE  TaskInv' /\ ServeReturnsLast'
    <2>1. /\ Emitting(a) /\ hook' = hook /\ stack'[a] = <<>>
          /\ \A b \in Actors : b # a => stack'[b] = stack[b]
      BY <1>2, <1>18 DEF HandlerPanics, Unwind
    <2>2. CASE a = Boot /\ UNCHANGED schedulerVars
      <3>1. served = "no" /\ UNCHANGED <<task, cancelled, served>>
        BY <2>1, <2>2 DEF TaskInv, schedulerVars
      <3>2. QED
        BY <1>1, <2>1, <2>2, <3>1, OneStackMoves
    <2>3. CASE a \in Jobs /\ FirePanics(a)
      BY <1>14, <2>1, <2>3
    <2>4. QED
      BY <1>18, <2>2, <2>3, HandlerPanicCases
  <1>19. CASE SchedulerStep(ServeReturns)
    <2>1. /\ served = "yes" /\ served' = "returned" /\ UNCHANGED <<task, stack, hook, cancelled>>
          /\ IF Jobs = {} THEN cancelled ELSE \A j \in Jobs : task[j].state \in Over
      BY <1>19 DEF SchedulerStep, ServeReturns, busVars
    <2>2. TaskInv'
      BY <2>1 DEF TaskInv, Emitting
    <2>3. \A j \in Jobs : task[j].state \in Over /\ ~Emitting(j)
      BY <2>1 DEF TaskInv, Over
    <2>4. cancelled \/ (Jobs # {} /\ \A j \in Jobs : task[j].state = "panicked")
      BY <2>1, <2>3 DEF TaskInv, Over
    <2>5. QED
      BY <2>1, <2>2, <2>3, <2>4 DEF ServeReturnsLast, Emitting
  <1>20. ASSUME NEW j \in Jobs, JobStep(j)
         PROVE  TaskInv' /\ ServeReturnsLast'
    BY <1>1, <1>16, <1>17, <1>20 DEF JobStep
  <1>21. CASE Next
    BY <1>1, <1>4, <1>5, <1>6, <1>7, <1>8, <1>9, <1>10, <1>11, <1>12, <1>13, <1>15, <1>17,
       <1>18, <1>19, <1>20, <1>21 DEF Next
  <1>22. QED
    BY <1>4, <1>21

-------------------------------------------------------------------------------
(***************************************************************************)
(* The theorems.                                                           *)
(***************************************************************************)

\* The first state: no hook was called, nothing emits and no task exists.
LEMMA InitInv ==
  ASSUME Init
  PROVE  IInv
  <1>1. 0 \in Times /\ Len(BootHooks) \in Nat /\ 0 \in 0..Len(BootHooks) /\ 0 < WiredAt
    BY TriggerAssumption, WiredAtFacts DEF Times
  <1>2. <<>> \in Seq(Times) /\ <<>> \in Seq(HandlerSet) /\ <<>> \in Seq(Emission)
        /\ DOMAIN <<>> = {} /\ Len(<<>>) = 0
    BY EmptySeq
  <1>3. SchedulerTypeOK /\ BusTypeOK
    BY <1>1, <1>2 DEF Init, SchedulerInit, BusInit, SchedulerTypeOK, BusTypeOK, TaskState
  <1>4. TypeOK
    BY <1>1, <1>3 DEF Init, TypeOK
  <1>5. TaskInv /\ ServeReturnsLast
    BY BackgroundAssumption DEF Init, SchedulerInit, BusInit, TaskInv, ServeReturnsLast, Emitting
  <1>6. BusInv
    BY <1>1, <1>2 DEF Init, BusInit, BusInv
  <1>7. ASSUME NEW j \in Jobs PROVE DueOf(j) /\ NoBurstOf(j)
    <2>1. runs[j] = <<>> /\ anchor[j] = 0 /\ clock = 0 /\ task[j].state = "none"
      BY DEF Init, SchedulerInit
    <2>2. DueOf(j)
      BY <2>1 DEF DueOf, Began
    <2>3. NoBurstOf(j)
      <3>1. IsTrigger(Triggers[j])
        BY TriggerAssumption
      <3>2. CASE Triggers[j].kind = "interval"
        BY <1>2, <2>1, <3>2 DEF NoBurstOf
      <3>3. CASE Triggers[j].kind = "timeout"
        BY <1>2, <2>1, <3>3 DEF NoBurstOf
      <3>4. CASE Triggers[j].kind = "cron"
        BY <1>2, <2>1, <3>4 DEF NoBurstOf
      <3>5. QED
        BY <3>1, <3>2, <3>3, <3>4 DEF IsTrigger
    <2>4. QED
      BY <2>2, <2>3
  <1>8. NoOccurrenceMissed
    BY DEF Init, SchedulerInit, NoOccurrenceMissed, NextOccurrenceOf
  <1>9. QED
    BY <1>4, <1>5, <1>6, <1>7, <1>8 DEF IInv, DueInv, NoBurst

\* Every step keeps the inductive invariant.
LEMMA StepInv ==
  ASSUME IInv, [Next]_vars
  PROVE  IInv'
  <1>1. TypeOK /\ TaskInv /\ BusInv /\ DueInv /\ NoBurst /\ NoOccurrenceMissed /\ ServeReturnsLast
    BY DEF IInv
  <1>2. SchedulerTypeOK' /\ BusTypeOK' /\ hook' \in 0..Len(BootHooks) /\ BusInv'
    BY <1>1, SchedulerTypes, BusStep
  <1>3. DueInv' /\ NoBurst' /\ NoOccurrenceMissed'
    BY <1>1, ScheduleStep, OccurrenceStep
  <1>4. TaskInv' /\ ServeReturnsLast'
    BY <1>1, TaskStep
  <1>5. aborted' \in BOOLEAN
    <2>1. aborted \in BOOLEAN
      BY <1>1 DEF TypeOK
    <2>2. ASSUME NEW a \in Actors, HandlerPanics(a) PROVE aborted' \in BOOLEAN
      BY <2>1, <2>2 DEF HandlerPanics
    <2>3. QED
      BY <2>1, <2>2 DEF Next, vars, SchedulerStep, WireHook, EmitHook, HookFails, Spawn,
         JobEmit, JobPanics, JobStep, JobEnds, Deliver
  <1>6. QED
    BY <1>2, <1>3, <1>4, <1>5 DEF IInv, TypeOK

\* The inductive invariant holds in every state of every run.
THEOREM Invariance == Spec => []IInv
  <1>1. Init => IInv
    BY InitInv
  <1>2. IInv /\ [Next]_vars => IInv'
    BY StepInv
  <1>3. QED
    BY <1>1, <1>2, PTL DEF Spec

\* Jobs, the bus and the boot keep their types: the due instants stay natural
\* numbers whatever a late run does to the arithmetic of the next tick.
THEOREM TypeCorrect == Spec => []TypeOK
  <1>1. IInv => TypeOK
    BY DEF IInv
  <1>2. QED
    BY <1>1, Invariance, PTL

\* No job of any application fires in a burst, whatever its period, however
\* late the task is polled and however long its runs take (scheduler.rs:186-256).
THEOREM JobsNeverBurst == Spec => []NoBurst
  <1>1. IInv => NoBurst
    BY DEF IInv
  <1>2. QED
    BY <1>1, Invariance, PTL

\* A cron job loses occurrences to its own runs only: it never lets one pass
\* while it waits, and stops waiting for one only when none is left
\* (scheduler.rs:223-238, 243-257).
THEOREM CronMissesNothing == Spec => []NoOccurrenceMissed
  <1>1. IInv => NoOccurrenceMissed
    BY DEF IInv
  <1>2. QED
    BY <1>1, Invariance, PTL

\* When serve returns nothing it started is running (scheduler.rs:162-183).
THEOREM ServeIsLast == Spec => []ServeReturnsLast
  <1>1. IInv => ServeReturnsLast
    BY DEF IInv
  <1>2. QED
    BY <1>1, Invariance, PTL

\* Only a return of emit, or a panic, takes an emission off a stack.
LEMMA Shortens ==
  ASSUME TypeOK, [Next]_vars, NEW a \in Actors, Len(stack'[a]) < Len(stack[a])
  PROVE  EmitReturns(a) \/ Unwind(a)
  <1>1. /\ stack \in [Actors -> Seq(Emission)] /\ stack[a] \in Seq(Emission)
        /\ Len(stack[a]) \in Nat /\ BusTypeOK
        /\ Boot \in Actors /\ Jobs \subseteq Actors
    BY BackgroundAssumption, LenProperties DEF TypeOK, BusTypeOK
  <1>2. stack'[a] # stack[a]
    BY <1>1
  <1>3. ASSUME NEW b \in Actors, NEW e, emit(b, e) PROVE FALSE
    <2>1. CASE b # a
      BY <1>1, <1>2, <1>3, <2>1 DEF emit
    <2>2. CASE b = a
      <3>1. stack'[a] = Append(stack[a], Begun(e))
        BY <1>1, <1>3, <2>2 DEF emit
      <3>2. Len(Append(stack[a], Begun(e))) = Len(stack[a]) + 1
        BY <1>1
      <3>3. QED
        BY <1>1, <3>1, <3>2
    <2>3. QED
      BY <2>1, <2>2
  <1>4. ASSUME NEW b \in Actors, NEW m, Emitting(b), SetTop(b, m) PROVE FALSE
    <2>1. CASE b # a
      BY <1>1, <1>2, <1>4, <2>1 DEF SetTop
    <2>2. CASE b = a
      <3>1. stack'[a] = Append(Front(stack[a]), m)
        BY <1>1, <1>4, <2>2 DEF SetTop
      <3>2. Front(stack[a]) \in Seq(Emission) /\ Len(Front(stack[a])) = Len(stack[a]) - 1
        BY <1>1, <1>4, <2>2, FrontLast DEF Emitting
      <3>3. Len(Append(Front(stack[a]), m)) = Len(Front(stack[a])) + 1
        BY <3>2
      <3>4. QED
        BY <1>1, <3>1, <3>2, <3>3
    <2>3. QED
      BY <2>1, <2>2
  <1>5. ASSUME NEW b \in Actors, NestedEmit(b) PROVE FALSE
    <2>1. CASE b # a
      BY <1>1, <1>2, <1>5, <2>1 DEF NestedEmit
    <2>2. CASE b = a
      <3> DEFINE m == [Top(a) EXCEPT !.nested = TRUE]
                 k == Begun(Emits[Top(a).current])
                 f == Front(stack[a])
      <3>1. stack'[a] = f \o <<m, k>>
        BY <1>1, <1>5, <2>2 DEF NestedEmit
      <3>2. Top(a) \in Emission /\ f \in Seq(Emission) /\ Len(f) = Len(stack[a]) - 1
        BY <1>1, <1>5, <2>2, FrontLast DEF NestedEmit, Emitting, Top
      <3> HIDE DEF m, k, f
      <3>3. Len(f \o <<m, k>>) = Len(f) + 2
        BY <3>2
      <3>4. QED
        BY <1>1, <3>1, <3>2, <3>3
    <2>3. QED
      BY <2>1, <2>2
  <1>6. ASSUME NEW b \in Actors, EmitReturns(b) PROVE EmitReturns(a)
    <2>1. b = a
      BY <1>1, <1>2, <1>6 DEF EmitReturns
    <2>2. QED
      BY <1>6, <2>1
  <1>7. ASSUME NEW b \in Actors, Unwind(b) PROVE Unwind(a)
    <2>1. b = a
      BY <1>1, <1>2, <1>7 DEF Unwind
    <2>2. QED
      BY <1>7, <2>1
  <1>8. ASSUME NEW b \in Actors, Deliver(b) PROVE EmitReturns(a)
    <2>1. CASE CallHandler(b) \/ HandlerReturns(b)
      BY <1>4, <2>1 DEF CallHandler, HandlerReturns
    <2>2. QED
      BY <1>5, <1>6, <1>8, <2>1 DEF Deliver
  <1>9. ASSUME NEW b \in Actors, HandlerPanics(b) PROVE Unwind(a)
    BY <1>7, <1>9 DEF HandlerPanics
  <1>10. ASSUME UNCHANGED stack PROVE FALSE
    BY <1>2, <1>10
  <1>11. CASE UNCHANGED vars
    BY <1>10, <1>11 DEF vars, busVars
  <1>12. CASE Next
    <2>1. CASE WireHook \/ EmitHook \/ HookFails \/ Spawn
      BY <1>1, <1>3, <1>10, <2>1 DEF WireHook, wire_handlers, EmitHook, HookFails, Spawn, busVars
    <2>2. CASE SchedulerStep(Tick) \/ SchedulerStep(Cancel) \/ SchedulerStep(ServeReturns)
      BY <1>10, <2>2 DEF SchedulerStep, busVars
    <2>3. CASE \E j \in Jobs : \/ SchedulerStep(run_job(j))
                               \/ SchedulerStep(fire(j))
                               \/ SchedulerStep(SeeCancel(j))
      BY <1>10, <2>3 DEF SchedulerStep, busVars
    <2>4. CASE \E j \in Jobs : JobEmit(j)
      BY <1>1, <1>3, <2>4 DEF JobEmit
    <2>5. CASE \E j \in Jobs : JobPanics(j) \/ \E o \in {"ok", "err"} : JobEnds(j, o)
      BY <1>10, <2>5 DEF JobPanics, JobEnds, busVars
    <2>6. CASE Deliver(Boot) \/ \E j \in Jobs : Deliver(j)
      BY <1>1, <1>8, <2>6
    <2>7. CASE \E b \in Actors : HandlerPanics(b)
      BY <1>9, <2>7
    <2>8. QED
      BY <1>12, <2>1, <2>2, <2>3, <2>4, <2>5, <2>6, <2>7 DEF Next, JobStep
  <1>13. QED
    BY <1>11, <1>12

\* An emission that completes has called every handler subscribed to its event,
\* once each and in discovery order (bus.rs:56-70, module.rs:44-61).
THEOREM EmissionsAreComplete == Spec => EveryHandlerOnce
  <1> DEFINE Complete(a) ==
        Emitting(a) /\ Top(a).current = None /\ Len(stack'[a]) < Len(stack[a]) =>
            IF a = Boot /\ hook < WiredAt
            THEN Top(a).done = <<>> ELSE HandlersInOrder(Top(a).done, Top(a).event)
  <1>1. ASSUME IInv, [Next]_vars, NEW a \in Actors PROVE Complete(a)
    <2>1. SUFFICES ASSUME Emitting(a), Top(a).current = None, Len(stack'[a]) < Len(stack[a])
                   PROVE  IF a = Boot /\ hook < WiredAt
                          THEN Top(a).done = <<>> ELSE HandlersInOrder(Top(a).done, Top(a).event)
      OBVIOUS
    <2>2. TypeOK /\ TaskInv /\ BusInv
      BY <1>1 DEF IInv
    <2>3. Top(a).todo = <<>>
      BY <1>1, <2>1, <2>2, Shortens DEF EmitReturns, Unwind
    <2>4. Top(a) \in Emission /\ \E i \in DOMAIN stack[a] : Top(a) = stack[a][i]
      <3>1. stack[a] \in Seq(Emission) /\ stack[a] # <<>>
        BY <2>1, <2>2 DEF TypeOK, BusTypeOK, Emitting
      <3>2. /\ Top(a) = stack[a][Len(stack[a])] /\ Top(a) \in Emission
            /\ Len(stack[a]) \in Nat \ {0} /\ DOMAIN stack[a] = 1..Len(stack[a])
        BY <3>1, FrontLast, LenProperties DEF Top
      <3>3. Len(stack[a]) \in DOMAIN stack[a]
        BY <3>2
      <3>4. QED
        BY <3>2, <3>3
    <2>5. Called(Top(a)) \o Top(a).todo = registry[Top(a).event]
      BY <2>2, <2>4 DEF BusInv
    <2>6. Top(a).done \in Seq(HandlerSet) /\ Top(a).event \in Events
      BY <2>4 DEF Emission
    <2>7. Top(a).done = registry[Top(a).event]
      BY <2>1, <2>3, <2>5, <2>6, ConcatEmptySeq DEF Called
    <2>8. CASE hook < WiredAt
      <3>1. a = Boot
        <4>1. a \in Jobs => hook = Len(BootHooks)
          BY <2>1, <2>2 DEF TaskInv
        <4>2. QED
          BY <2>8, <4>1, WiredAtFacts, BackgroundAssumption
      <3>2. QED
        BY <2>2, <2>6, <2>7, <2>8, <3>1 DEF BusInv
    <2>9. CASE ~(hook < WiredAt)
      BY <2>2, <2>6, <2>7, <2>9 DEF BusInv
    <2>10. QED
      BY <2>8, <2>9
  <1>2. IInv /\ [Next]_vars => [\A a \in Actors : Complete(a)]_vars
    BY <1>1
  <1>3. QED
    BY <1>2, Invariance, PTL DEF Spec, EveryHandlerOnce
===============================================================================
