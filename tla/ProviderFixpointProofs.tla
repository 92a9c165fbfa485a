------------------------ MODULE ProviderFixpointProofs ------------------------
(***************************************************************************)
(* Proofs about ProviderFixpoint, for a module of any size whose providers *)
(* have any keys and dependencies.                                         *)
(***************************************************************************)
EXTENDS ProviderFixpoint, TLAPS

\* The generated loop starts with every provider pending (module.rs:198-205),
\* which is a state of the right type.
LEMMA TypeInit == Init => TypeOK
  BY PAssumption, CatalogAssumption DEF Init, TypeOK, Slots

\* No step of the loop leaves the types.
LEMMA TypeStep == TypeOK /\ [Next]_vars => TypeOK'
  <1> SUFFICES ASSUME TypeOK, [Next]_vars PROVE TypeOK'
    OBVIOUS
  <1> USE PAssumption, CatalogAssumption DEF TypeOK, Slots, Provider
  <1>1. CASE StartRound
    BY <1>1 DEF StartRound
  <1>2. CASE SkipDone
    BY <1>2 DEF SkipDone
  <1>3. CASE Build
    <2>1. list[at].key \in Keys /\ list[at].opt \subseteq Keys
      BY <1>3 DEF Build
    <2>2. have' \subseteq Keys
      BY <1>3, <2>1 DEF Build
    <2>3. QED
      BY <1>3, <2>1, <2>2 DEF Build
  <1>4. CASE LeavePending
    BY <1>4 DEF LeavePending
  <1>5. CASE EndRound
    BY <1>5 DEF EndRound, Stalled
  <1>6. CASE UNCHANGED vars
    BY <1>6 DEF vars
  <1>7. QED
    BY <1>1, <1>2, <1>3, <1>4, <1>5, <1>6 DEF Next, Step, Terminated

\* Every variable of the registration loop keeps its type.
THEOREM TypeCorrect == SafetySpec => []TypeOK
  BY TypeInit, TypeStep, PTL DEF SafetySpec

-------------------------------------------------------------------------------
\* Building more providers never makes one unbuildable: a provider the loop may
\* build now belongs to every closed set that holds what was built before.
LEMMA ReadyIsMonotone ==
  ASSUME IInv, at > 0, NEW i \in Slots, RequiredReady(i), OptionalReady(i),
         NEW S \in SUBSET Slots, done \subseteq S
  PROVE  ReadyAfter(i, S)
  <1>1. have \subseteq before \union Provided(S)
    BY DEF IInv, Provided
  <1>2. ASSUME NEW k \in list[i].opt, k \notin before \union Provided(S), NEW j \in Slots \ S
        PROVE  list[j].key # k
    BY <1>1, <1>2 DEF OptionalReady, IInv, RoundInv
  <1>3. QED
    BY <1>1, <1>2 DEF ReadyAfter, RequiredReady

\* When a round that built nothing is over, nothing outside `done` can be built.
LEMMA StallIsClosed ==
  ASSUME IInv, at = P + 1, builtNow = {}
  PROVE  Closed(done)
  <1> SUFFICES ASSUME NEW i \in Slots, ReadyAfter(i, done), i \notin done PROVE FALSE
    BY DEF Closed
  <1>1. i \in waiting
    BY PAssumption DEF IInv, RoundInv, Slots
  <1>2. ~(RequiredReady(i) /\ OptionalReady(i))
    BY <1>1, PAssumption DEF IInv, RoundInv
  <1>3. RequiredReady(i)
    BY DEF ReadyAfter, RequiredReady, IInv
  <1>4. OptionalReady(i)
    BY PAssumption DEF ReadyAfter, OptionalReady, IInv, RoundInv
  <1>5. QED
    BY <1>2, <1>3, <1>4

\* Before the first round nothing is built, and the inductive invariant holds.
LEMMA IInvInit == Init => IInv
  <1> SUFFICES ASSUME Init PROVE IInv
    OBVIOUS
  <1>1. TypeOK
    BY TypeInit
  <1>2. QED
    BY <1>1, PAssumption
       DEF Init, IInv, Provided, RoundInv, OptionalInv, OptionalSettled, RequiredPresent,
           Forced, StatusInv, WaitingInv

\* Every step of the loop preserves the inductive invariant.
LEMMA IInvStep == IInv /\ [Next]_vars => IInv'
  <1> SUFFICES ASSUME IInv, [Next]_vars PROVE IInv'
    OBVIOUS
  <1>0. TypeOK /\ TypeOK'
    BY TypeStep DEF IInv
  <1> USE <1>0, PAssumption
  <1>1. CASE StartRound
    <2> USE <1>1 DEF StartRound
    <2>1. RoundInv'
      BY DEF RoundInv, Slots
    <2>2. OptionalInv' /\ OptionalSettled' /\ RequiredPresent' /\ Forced' /\ StatusInv'
      BY DEF IInv, OptionalInv, OptionalSettled, RequiredPresent, Forced, StatusInv, Closed,
             ReadyAfter, Provided
    <2>3. have' = before' \union Provided(done)' /\ WaitingInv'
      <3>1. have' = before' \union Provided(done)'
        BY DEF IInv, Provided
      <3>2. WaitingInv'
        BY DEF IInv, WaitingInv, TypeOK, Slots
      <3>3. QED
        BY <3>1, <3>2
    <2>4. QED
      BY <2>1, <2>2, <2>3 DEF IInv
  <1>2. CASE SkipDone
    <2> USE <1>2 DEF SkipDone
    <2>1. RoundInv'
      BY DEF IInv, RoundInv, TypeOK, Slots, RequiredReady, OptionalReady
    <2>2. OptionalInv' /\ OptionalSettled' /\ RequiredPresent' /\ Forced'
      BY DEF IInv, OptionalInv, OptionalSettled, RequiredPresent, Forced, Closed,
             ReadyAfter, Provided
    <2>3. StatusInv'
      BY DEF IInv, StatusInv, Slots
    <2>4. have' = before' \union Provided(done)' /\ WaitingInv'
      <3>1. have' = before' \union Provided(done)'
        BY DEF IInv, Provided
      <3>2. WaitingInv'
        BY DEF IInv, WaitingInv, TypeOK, Slots
      <3>3. QED
        BY <3>1, <3>2
    <2>5. QED
      BY <2>1, <2>2, <2>3, <2>4 DEF IInv
  <1>3. CASE Build
    <2> USE <1>3 DEF Build
    <2>0. at \in Slots /\ at > 0 /\ at # P + 1 /\ status = "running"
      BY DEF IInv, StatusInv, Slots
    <2>1. have' = before' \union Provided(done)'
      <3>1. Provided(done)' = IF list[at].provides THEN Provided(done) \union {list[at].key}
                                                   ELSE Provided(done)
        BY <2>0 DEF Provided
      <3>2. QED
        BY <3>1 DEF IInv
    <2>2. \A j \in Slots \ done : list[j].key \in pendingKeys
      BY <2>0 DEF IInv, RoundInv
    <2>3. RoundInv'
      BY <2>0, <2>2 DEF IInv, RoundInv, TypeOK, Slots
    <2>4. OptionalInv'
      <3>1. ASSUME NEW k \in list[at].opt, k \notin got'[at], NEW j \in Slots \ done
            PROVE  list[j].key # k
        BY <2>0, <2>2, <3>1 DEF OptionalReady, TypeOK
      <3>2. QED
        BY <2>0, <3>1 DEF IInv, OptionalInv, TypeOK
    <2>5. OptionalSettled'
      <3>1. ASSUME NEW i \in done PROVE got'[i] = list[i].opt \intersect have'
        BY <2>0, <3>1 DEF IInv, OptionalInv, OptionalSettled, TypeOK
      <3>2. got'[at] = list[at].opt \intersect have'
        <4>1. got'[at] = list[at].opt \intersect have
          BY <2>0 DEF TypeOK
        <4>2. list[at].key \in list[at].opt => list[at].key \in have
          BY <2>0, <2>2 DEF OptionalReady
        <4>3. QED
          BY <4>1, <4>2
      <3>3. QED
        BY <2>0, <3>1, <3>2 DEF OptionalSettled
    <2>6. RequiredPresent'
      BY <2>0 DEF IInv, RequiredPresent, RequiredReady
    <2>7. Forced'
      <3> SUFFICES ASSUME NEW S \in SUBSET Slots, Closed(S)' PROVE done' \subseteq S
        BY DEF Forced
      <3>1. Closed(S)
        BY DEF Closed, ReadyAfter, Provided
      <3>2. done \subseteq S
        BY <3>1 DEF IInv, Forced
      <3>3. ReadyAfter(at, S)
        BY <2>0, <3>2, ReadyIsMonotone
      <3>4. QED
        BY <2>0, <3>1, <3>2, <3>3 DEF Closed
    <2>8. StatusInv' /\ WaitingInv'
      <3>1. at \notin waiting
        BY <2>0 DEF IInv, WaitingInv, TypeOK
      <3>2. QED
        BY <2>0, <3>1 DEF StatusInv, WaitingInv, IInv, TypeOK, Slots
    <2>9. QED
      BY <2>1, <2>3, <2>4, <2>5, <2>6, <2>7, <2>8 DEF IInv
  <1>4. CASE LeavePending
    <2> USE <1>4 DEF LeavePending
    <2>1. RoundInv'
      BY DEF IInv, RoundInv, TypeOK, Slots, RequiredReady, OptionalReady
    <2>2. OptionalInv' /\ OptionalSettled' /\ RequiredPresent' /\ Forced'
      BY DEF IInv, OptionalInv, OptionalSettled, RequiredPresent, Forced, Closed,
             ReadyAfter, Provided
    <2>3. StatusInv'
      BY DEF IInv, StatusInv, Slots
    <2>4. have' = before' \union Provided(done)' /\ WaitingInv'
      <3>1. have' = before' \union Provided(done)'
        BY DEF IInv, Provided
      <3>2. WaitingInv'
        BY DEF IInv, WaitingInv, TypeOK, Slots
      <3>3. QED
        BY <3>1, <3>2
    <2>5. QED
      BY <2>1, <2>2, <2>3, <2>4 DEF IInv
  <1>5. CASE EndRound
    <2> USE <1>5 DEF EndRound
    <2>1. RoundInv'
      BY DEF IInv, RoundInv, RequiredReady, OptionalReady
    <2>2. OptionalInv' /\ OptionalSettled' /\ RequiredPresent' /\ Forced'
      BY DEF IInv, OptionalInv, OptionalSettled, RequiredPresent, Forced, Closed,
             ReadyAfter, Provided
    <2>3. Closed(done)' <=> Closed(done)
      BY DEF Closed, ReadyAfter, Provided
    <2>4. Slots \subseteq done \union waiting
      BY DEF IInv, RoundInv, Slots
    <2>5. StatusInv'
      <3>1. waiting = {} => done = Slots
        BY <2>4 DEF TypeOK
      <3>2. waiting # {} => done # Slots
        BY DEF IInv, WaitingInv, TypeOK
      <3>3. waiting # {} /\ builtNow = {} => Closed(done)
        BY StallIsClosed
      <3>4. QED
        BY <2>3, <3>1, <3>2, <3>3 DEF IInv, StatusInv, Stalled
    <2>6. have' = before' \union Provided(done)' /\ WaitingInv'
      <3>1. have' = before' \union Provided(done)'
        BY DEF IInv, Provided
      <3>2. WaitingInv'
        BY DEF IInv, WaitingInv, TypeOK, Slots
      <3>3. QED
        BY <3>1, <3>2
    <2>7. QED
      BY <2>1, <2>2, <2>5, <2>6 DEF IInv
  <1>6. CASE UNCHANGED vars
    <2> USE <1>6 DEF vars
    <2>1. RoundInv' /\ WaitingInv' /\ OptionalInv' /\ OptionalSettled' /\ RequiredPresent'
      BY DEF IInv, RoundInv, WaitingInv, OptionalInv, OptionalSettled, RequiredPresent,
             RequiredReady, OptionalReady
    <2>2. Forced' /\ StatusInv' /\ have' = before' \union Provided(done)'
      BY DEF IInv, Forced, StatusInv, Closed, ReadyAfter, Provided
    <2>3. QED
      BY <2>1, <2>2 DEF IInv
  <1>7. QED
    BY <1>1, <1>2, <1>3, <1>4, <1>5, <1>6 DEF Next, Step, Terminated

\* The inductive invariant holds in every reachable state.
THEOREM Inductive == SafetySpec => []IInv
  BY IInvInit, IInvStep, PTL DEF SafetySpec

-------------------------------------------------------------------------------
\* The loop builds exactly the providers that some order can build, so the
\* written order of `providers` decides nothing (module.rs:198-235).
THEOREM OrderIrrelevantHolds == SafetySpec => []OrderIrrelevant
  <1>1. IInv => OrderIrrelevant
    <2> SUFFICES ASSUME IInv PROVE OrderIrrelevant
      OBVIOUS
    <2>1. done \subseteq Slots
      BY DEF IInv, TypeOK
    <2>2. done \subseteq Buildable
      BY <2>1 DEF IInv, Forced, Buildable
    <2>3. ASSUME status # "running" PROVE Closed(done)
      <3>1. CASE status = "ok"
        BY <3>1 DEF IInv, StatusInv, Closed
      <3>2. CASE status # "ok"
        BY <2>3, <3>2 DEF IInv, StatusInv, TypeOK
      <3>3. QED
        BY <3>1, <3>2
    <2>4. status # "running" => Buildable \subseteq done
      BY <2>1, <2>3 DEF Buildable
    <2>5. QED
      BY <2>2, <2>4 DEF OrderIrrelevant, IInv, StatusInv
  <1>2. QED
    BY <1>1, Inductive, PTL

\* An optional dependency that the module itself registers is always handed
\* over (module.rs:133-144).
THEOREM OptionalSettledHolds == SafetySpec => []OptionalSettled
  <1>1. IInv => OptionalSettled
    BY DEF IInv
  <1>2. QED
    BY <1>1, Inductive, PTL

\* from_container always finds every required dependency (module.rs:137-147).
THEOREM RequiredPresentHolds == SafetySpec => []RequiredPresent
  <1>1. IInv => RequiredPresent
    BY DEF IInv
  <1>2. QED
    BY <1>1, Inductive, PTL

-------------------------------------------------------------------------------
\* The loop starts where the order-free registration starts.
LEMMA AbstractInit == Init => Abstract!Init
  BY DEF Init, Abstract!Init

\* Every step of the loop is a step or a stutter of the order-free
\* registration.
LEMMA AbstractStep == IInv /\ [Next]_vars => [Abstract!Next]_(Abstract!vars)
  <1> SUFFICES ASSUME IInv, [Next]_vars PROVE Abstract!Next \/ UNCHANGED Abstract!vars
    OBVIOUS
  <1>1. CASE StartRound \/ SkipDone \/ LeavePending \/ UNCHANGED vars
    BY <1>1 DEF StartRound, SkipDone, LeavePending, vars, Abstract!vars
  <1>2. CASE Build
    <2> USE <1>2 DEF Build
    <2>1. at \in Slots /\ at > 0 /\ status = "running"
      BY PAssumption DEF IInv, StatusInv, Slots
    <2>2. Abstract!Ready(at)
      BY <2>1 DEF Abstract!Ready, RequiredReady, OptionalReady, IInv, RoundInv
    <2>3. Abstract!Build(at)
      BY <2>1, <2>2 DEF Abstract!Build
    <2>4. QED
      BY <2>1, <2>3 DEF Abstract!Next
  <1>3. CASE EndRound
    <2> USE <1>3 DEF EndRound
    <2>1. CASE waiting # {} /\ builtNow # {}
      BY <2>1 DEF Abstract!vars
    <2>2. CASE waiting = {}
      <3>1. done = Slots
        <4>1. \A j \in Slots : j < at /\ at > 0
          BY PAssumption DEF Slots
        <4>2. QED
          BY <2>2, <4>1, PAssumption DEF IInv, RoundInv, TypeOK
      <3>2. QED
        BY <2>2, <3>1 DEF Abstract!Next, Abstract!Finish
    <2>3. CASE waiting # {} /\ builtNow = {}
      <3>1. done # Slots
        BY <2>3, PAssumption DEF IInv, WaitingInv, TypeOK
      <3>2. Closed(done)
        BY <2>3, StallIsClosed
      <3>3. ASSUME NEW i \in Slots \ done PROVE ~Abstract!Ready(i)
        BY <3>2 DEF Closed, ReadyAfter, Abstract!Ready, IInv
      <3>4. status' \in {"unprovided", "cycle"}
        BY <2>3 DEF Stalled
      <3>5. status = "running" /\ UNCHANGED <<list, have, done, got>>
        OBVIOUS
      <3>6. Abstract!Finish
        BY <3>1, <3>3, <3>4, <3>5 DEF Abstract!Finish
      <3>7. QED
        BY <3>6 DEF Abstract!Next
    <2>4. QED
      BY <2>1, <2>2, <2>3
  <1>4. QED
    BY <1>1, <1>2, <1>3 DEF Next, Step, Terminated

\* The generated loop implements DependencyOrder.
THEOREM Refinement == SafetySpec => ImplementsAnyOrder
  BY AbstractInit, AbstractStep, Inductive, PTL
     DEF SafetySpec, ImplementsAnyOrder, Abstract!Spec

===============================================================================
