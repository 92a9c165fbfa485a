-------------------------- MODULE AppLifecycleProofs --------------------------
(***************************************************************************)
(* Proofs about AppLifecycle, for any number of transports and any set of  *)
(* hooks.                                                                  *)
(***************************************************************************)
EXTENDS AppLifecycle, TLAPS

(***************************************************************************)
(* The numbering of the program points, expanded everywhere below.         *)
(***************************************************************************)
USE DEF Configure, OnModuleInit, OnApplicationBootstrap, Spawn, Join,
        OnModuleDestroy, BeforeApplicationShutdown, OnApplicationShutdown, Exited

\* The fields `run` starts with (app.rs:62-90) have their types.
LEMMA TypeInit == Init => TypeOK
  <1> SUFFICES ASSUME Init PROVE TypeOK
    OBVIOUS
  <1>1. cancelled \in BOOLEAN
    BY Zenon DEF Init
  <1>2. QED
    BY <1>1, NAssumption DEF Init, TypeOK, Transports, Outcome, Failure

\* No step of `run`, of a transport or of the signal listener leaves the types.
LEMMA TypeStep == TypeOK /\ [Next]_vars => TypeOK'
  <1> SUFFICES ASSUME TypeOK, [Next]_vars PROVE TypeOK'
    OBVIOUS
  <1> USE NAssumption, HookAssumption DEF TypeOK, Outcome, Failure, Transports
  <1>1. ASSUME NEW o \in Outcome, ConfigureTransport(o) PROVE TypeOK'
    BY <1>1 DEF ConfigureTransport, Exit
  <1>2. CASE BeginInit
    BY <1>2 DEF BeginInit
  <1>3. ASSUME NEW h \in Hooks, NEW o \in Outcome, run_phase(h, o) PROVE TypeOK'
    BY <1>3 DEF run_phase, CallHook, Exit
  <1>4. ASSUME NEW h \in Hooks, NEW o \in Outcome, run_phase_lenient(h, o) PROVE TypeOK'
    BY <1>4 DEF run_phase_lenient, CallHook, Exit
  <1>5. CASE EndPhase
    <2>1. stage' \in Configure..Exited
      BY <1>5 DEF EndPhase, Exit, HookPhase, InitPhase, ShutdownPhase
    <2>2. QED
      BY <1>5, <2>1 DEF EndPhase, Exit
  <1>6. ASSUME NEW t \in Transports, SpawnTransport(t) PROVE TypeOK'
    BY <1>6 DEF SpawnTransport
  <1>7. CASE BeginJoin
    BY <1>7 DEF BeginJoin
  <1>8. ASSUME NEW t \in Transports, JoinNext(t) PROVE TypeOK'
    <2>1. cancelled' \in BOOLEAN
      BY <1>8, Zenon DEF JoinNext
    <2>2. QED
      BY <1>8, <2>1 DEF JoinNext
  <1>9. CASE BeginShutdown
    BY <1>9 DEF BeginShutdown
  <1>10. ASSUME NEW i \in BOOLEAN, InstallSignalHandler(i) PROVE TypeOK'
    BY <1>10 DEF InstallSignalHandler
  <1>11. CASE ReceiveSignal
    BY <1>11 DEF ReceiveSignal
  <1>12. ASSUME NEW t \in Transports, NEW o \in Outcome, ServeEnds(t, o) PROVE TypeOK'
    BY <1>12 DEF ServeEnds
  <1>13. CASE UNCHANGED vars
    BY <1>13 DEF vars
  <1>14. QED
    BY <1>1, <1>2, <1>3, <1>4, <1>5, <1>6, <1>7, <1>8, <1>9, <1>10, <1>11, <1>12, <1>13
       DEF Next, Run, SignalTask, Serve, Terminated

\* The type invariant holds for any number of transports and hooks.
THEOREM TypeCorrect == SafetySpec => []TypeOK
  BY TypeInit, TypeStep, PTL DEF SafetySpec

-------------------------------------------------------------------------------
\* The inductive invariant holds in the initial state of `run`.
LEMMA IInvInit == Init => IInv
  <1> SUFFICES ASSUME Init PROVE IInv
    OBVIOUS
  <1>1. TypeOK
    BY TypeInit
  <1>2. QED
    BY <1>1, NAssumption, HookAssumption
       DEF Init, IInv, RunningInv, ExitedInv, JoinInv, CancelHasCause, HookOrder, Called,
           HookPhase, InitPhase, ShutdownPhase, InitHooks, Transports

\* Every step of `run`, of a transport and of the signal listener preserves the
\* inductive invariant.
LEMMA IInvStep == IInv /\ [Next]_vars => IInv'
  <1> SUFFICES ASSUME IInv, [Next]_vars PROVE IInv'
    OBVIOUS
  <1>0. TypeOK /\ TypeOK'
    BY TypeStep DEF IInv
  <1> USE <1>0, NAssumption, HookAssumption
  <1> USE DEF IInv, Called, InitOK
  <1>1. ASSUME NEW o \in Outcome, ConfigureTransport(o) PROVE IInv'
    <2> USE <1>1 DEF ConfigureTransport, Exit
    <2>1. RunningInv'
      BY DEF RunningInv, TypeOK
    <2>2. ExitedInv'
      BY DEF RunningInv, ExitedInv, Outcome, Failure, HookPhase, ShutdownPhase, InitPhase,
             ShutdownHooks, TypeOK
    <2>3. JoinInv' /\ CancelHasCause' /\ HookOrder'
      BY DEF JoinInv, CancelHasCause, HookOrder
    <2>4. QED
      BY <2>1, <2>2, <2>3
  <1>2. CASE BeginInit
    <2> USE <1>2 DEF BeginInit
    <2>1. RunningInv'
      BY DEF RunningInv, HookPhase, InitPhase, ShutdownPhase, TypeOK
    <2>2. ExitedInv' /\ JoinInv' /\ CancelHasCause' /\ HookOrder'
      BY DEF ExitedInv, JoinInv, CancelHasCause, HookOrder
    <2>3. QED
      BY <2>1, <2>2
  <1>3. ASSUME NEW h \in Hooks, NEW o \in Outcome, run_phase(h, o) PROVE IInv'
    <2> USE <1>3 DEF run_phase, CallHook, Exit, NextHooks, Due, hooks_for
    <2>1. /\ h \in InitHooks
          /\ PhaseOf[h] = stage
          /\ stage # Exited
          /\ \A g \in Hooks : g # h => (Called(g)' <=> Called(g))
          /\ Called(h)'
      BY DEF TypeOK, InitHooks, InitPhase, Outcome, Failure
    <2>2. RunningInv'
      BY <2>1 DEF RunningInv, TypeOK, InitPhase, InitHooks
    <2>3. ExitedInv'
      BY <2>1 DEF RunningInv, ExitedInv, TypeOK, InitPhase, ShutdownPhase, InitHooks,
                  ShutdownHooks, Outcome, Failure
    <2>4. HookOrder'
      BY <2>1 DEF HookOrder, RunningInv, TypeOK, HookPhase, InitPhase, ShutdownPhase
    <2>5. JoinInv' /\ CancelHasCause'
      BY DEF JoinInv, CancelHasCause
    <2>6. QED
      BY <2>2, <2>3, <2>4, <2>5
  <1>4. ASSUME NEW h \in Hooks, NEW o \in Outcome, run_phase_lenient(h, o) PROVE IInv'
    <2> USE <1>4 DEF run_phase_lenient, CallHook, Exit, NextHooks, Due, hooks_for
    <2>1. /\ h \notin InitHooks
          /\ PhaseOf[h] = stage
          /\ stage # Exited
          /\ \A g \in Hooks : g # h => (Called(g)' <=> Called(g))
          /\ \A g \in InitHooks : hookState'[g] = hookState[g]
          /\ Called(h)'
      BY DEF TypeOK, InitHooks, InitPhase, ShutdownPhase, Outcome, Failure
    <2>2. RunningInv'
      BY <2>1 DEF RunningInv, TypeOK, ShutdownPhase, InitHooks
    <2>3. ExitedInv'
      BY <2>1 DEF RunningInv, ExitedInv, TypeOK, InitPhase, ShutdownPhase, InitHooks
    <2>4. HookOrder'
      BY <2>1 DEF HookOrder, RunningInv, TypeOK, HookPhase, InitPhase, ShutdownPhase
    <2>5. JoinInv' /\ CancelHasCause'
      BY DEF JoinInv, CancelHasCause
    <2>6. QED
      BY <2>2, <2>3, <2>4, <2>5
  <1>5. CASE EndPhase
    <2> USE <1>5 DEF EndPhase, Exit, Due, hooks_for
    <2>1. \A h \in Hooks : PhaseOf[h] <= stage => Called(h)
      BY DEF RunningInv, HookPhase, InitPhase, ShutdownPhase, TypeOK
    <2>2. RunningInv'
      BY <2>1 DEF RunningInv, HookPhase, InitPhase, ShutdownPhase, TypeOK
    <2>3. ExitedInv'
      BY <2>1 DEF RunningInv, ExitedInv, HookPhase, InitPhase, ShutdownPhase, InitHooks, TypeOK
    <2>4. JoinInv' /\ HookOrder'
      BY DEF JoinInv, HookOrder
    <2>5. CancelHasCause'
      BY DEF CancelHasCause, RunningInv
    <2>6. QED
      BY <2>2, <2>3, <2>4, <2>5
  <1>6. ASSUME NEW t \in Transports, SpawnTransport(t) PROVE IInv'
    <2> USE <1>6 DEF SpawnTransport
    <2>1. RunningInv'
      BY DEF RunningInv, TypeOK
    <2>2. ExitedInv' /\ CancelHasCause' /\ HookOrder'
      BY DEF ExitedInv, CancelHasCause, HookOrder
    <2>3. JoinInv'
      BY DEF JoinInv, RunningInv, TypeOK, Transports
    <2>4. QED
      BY <2>1, <2>2, <2>3
  <1>7. CASE BeginJoin
    BY <1>7 DEF BeginJoin, RunningInv, ExitedInv, JoinInv, CancelHasCause, HookOrder,
                HookPhase, InitPhase, ShutdownPhase, TypeOK
  <1>8. ASSUME NEW t \in Transports, JoinNext(t) PROVE IInv'
    <2> USE <1>8 DEF JoinNext
    <2>1. RunningInv' /\ ExitedInv' /\ HookOrder'
      BY DEF RunningInv, ExitedInv, HookOrder
    <2>2. JoinInv'
      BY DEF JoinInv, TypeOK, Transports, Outcome, Failure
    <2>3. CancelHasCause'
      BY DEF CancelHasCause, TypeOK, Transports
    <2>4. QED
      BY <2>1, <2>2, <2>3
  <1>9. CASE BeginShutdown
    BY <1>9 DEF BeginShutdown, RunningInv, ExitedInv, JoinInv, CancelHasCause, HookOrder,
                HookPhase, InitPhase, ShutdownPhase, TypeOK
  <1>10. ASSUME NEW i \in BOOLEAN, InstallSignalHandler(i) PROVE IInv'
    BY <1>10 DEF InstallSignalHandler, RunningInv, ExitedInv, JoinInv, CancelHasCause, HookOrder
  <1>11. CASE ReceiveSignal
    BY <1>11 DEF ReceiveSignal, RunningInv, ExitedInv, JoinInv, CancelHasCause, HookOrder
  <1>12. ASSUME NEW t \in Transports, NEW o \in Outcome, ServeEnds(t, o) PROVE IInv'
    <2> USE <1>12 DEF ServeEnds
    <2>1. RunningInv'
      BY DEF RunningInv, TypeOK, Outcome, Failure
    <2>2. ExitedInv'
      BY DEF ExitedInv, JoinInv, TypeOK, Outcome, Failure
    <2>3. CancelHasCause' /\ HookOrder'
      BY DEF CancelHasCause, HookOrder
    <2>4. JoinInv'
      BY DEF JoinInv, TypeOK, Outcome, Failure, Transports
    <2>5. QED
      BY <2>1, <2>2, <2>3, <2>4
  <1>13. CASE UNCHANGED vars
    BY <1>13 DEF vars, RunningInv, ExitedInv, JoinInv, CancelHasCause, HookOrder
  <1>14. QED
    BY <1>1, <1>2, <1>3, <1>4, <1>5, <1>6, <1>7, <1>8, <1>9, <1>10, <1>11, <1>12, <1>13
       DEF Next, Run, SignalTask, Serve, Terminated

\* The inductive invariant holds in every reachable state.
THEOREM Inductive == SafetySpec => []IInv
  BY IInvInit, IInvStep, PTL DEF SafetySpec

-------------------------------------------------------------------------------
\* No transport serves before the app is fully initialised, for any number of
\* transports and hooks (app.rs:88-104).
THEOREM ServeOnlyAfterInitHolds == SafetySpec => []ServeOnlyAfterInit
  <1>1. IInv => ServeOnlyAfterInit
    BY HookAssumption DEF IInv, TypeOK, RunningInv, ExitedInv, InitOK, ServeOnlyAfterInit,
       InitHooks, InitPhase, Called
  <1>2. QED
    BY <1>1, Inductive, PTL

\* Cleanup never overlaps a serving transport (app.rs:125-129).
THEOREM CleanupAfterStopHolds == SafetySpec => []CleanupAfterStop
  <1>1. IInv => CleanupAfterStop
    BY HookAssumption DEF IInv, TypeOK, RunningInv, ExitedInv, JoinInv, CleanupAfterStop,
       ShutdownHooks, ShutdownPhase
  <1>2. QED
    BY <1>1, Inductive, PTL

\* A run that got through init and returns has called every shutdown hook
\* (app.rs:125-129, lifecycle.rs:85-101).
THEOREM EveryCleanupRunsHolds == SafetySpec => []EveryCleanupRuns
  <1>1. IInv => EveryCleanupRuns
    BY DEF IInv, RunningInv, ExitedInv, InitOK, EveryCleanupRuns, ShutdownHooks
  <1>2. QED
    BY <1>1, Inductive, PTL

\* Hooks are called in (phase, provider, method) order (lifecycle.rs:54-62).
THEOREM HookOrderHolds == SafetySpec => []HookOrder
  <1>1. IInv => HookOrder
    BY DEF IInv
  <1>2. QED
    BY <1>1, Inductive, PTL

\* `run` returns Ok exactly when configuration, init and every transport
\* succeeded (app.rs:106-134).
THEOREM ResultIsHonestHolds == SafetySpec => []ResultIsHonest
  <1>1. IInv => ResultIsHonest
    <2> SUFFICES ASSUME IInv, result \in {"ok", "err"}
                 PROVE (result = "ok") <=> InitOK /\ \A t \in Transports : task[t] = "ok"
      BY DEF ResultIsHonest, InitOK
    <2>1. stage = Exited
      BY DEF IInv, RunningInv
    <2>2. CASE ~InitOK
      BY <2>1, <2>2 DEF IInv, ExitedInv, Failure
    <2>3. CASE InitOK
      <3>1. joined = Transports /\ result = IF firstErr = 0 THEN "ok" ELSE "err"
        BY <2>1, <2>3 DEF IInv, ExitedInv
      <3>2. QED
        BY <2>3, <3>1 DEF IInv, JoinInv, Failure
    <2>4. QED
      BY <2>2, <2>3
  <1>2. QED
    BY <1>1, Inductive, PTL

\* The token is cancelled exactly when a signal arrived or a transport failure
\* was kept (app.rs:111-119, 357).
THEOREM CancelHasCauseHolds == SafetySpec => []CancelHasCause
  <1>1. IInv => CancelHasCause
    BY DEF IInv
  <1>2. QED
    BY <1>1, Inductive, PTL

\* The error `run` will return never changes once it is set (app.rs:111-119).
THEOREM FirstErrorKeptHolds == SafetySpec => FirstErrorKept
  <1>1. [Next]_vars => [firstErr # 0 => firstErr' = firstErr]_vars
    BY DEF Next, Run, SignalTask, Serve, Terminated, ConfigureTransport, BeginInit, run_phase,
           run_phase_lenient, CallHook, EndPhase, SpawnTransport, BeginJoin, JoinNext,
           BeginShutdown, InstallSignalHandler, ReceiveSignal, ServeEnds, vars
  <1>2. QED
    BY <1>1, PTL DEF SafetySpec, FirstErrorKept

-------------------------------------------------------------------------------
(***************************************************************************)
(* Refinement.                                                             *)
(***************************************************************************)

Live    == {t \in Transports : task[t] = "serving"}
Ended   == {t \in Transports : task[t] \in Outcome}
Cleaned == {h \in ShutdownHooks : Called(h)}

\* The initial state of `run` is an initial state of the contract.
LEMMA ContractInit == Init => Contract!Init
  BY DEF Init, Contract!Init, Mode, Called, Outcome, Failure, ShutdownHooks, ShutdownPhase

\* Every step of AppLifecycle is a step or a stutter of the contract.
LEMMA ContractStep == IInv /\ [Next]_vars => [Contract!Next]_(Contract!vars)
  <1> SUFFICES ASSUME IInv, [Next]_vars PROVE Contract!Next \/ UNCHANGED Contract!vars
    OBVIOUS
  <1> USE NAssumption, HookAssumption
  <1>0. stage \in 0..8 /\ TypeOK
    BY DEF IInv, TypeOK
  <1>1. ASSUME UNCHANGED <<Mode, Live, Ended, Cleaned>> PROVE UNCHANGED Contract!vars
    BY <1>1 DEF Contract!vars, Live, Ended, Cleaned
  <1>2. ASSUME stage < Spawn, Mode' \in {"serving", "stopped", "crashed"},
               UNCHANGED <<Live, Ended, Cleaned>>
        PROVE  Contract!Next
    <2>1. Mode = "booting"
      BY <1>0, <1>2 DEF Mode, ShutdownPhase
    <2>2. QED
      BY <1>2, <2>1 DEF Contract!Next, Contract!Boot, Live, Ended, Cleaned
  <1>3. ASSUME NEW o \in Outcome, ConfigureTransport(o) PROVE Contract!Next \/ UNCHANGED Contract!vars
    <2>1. UNCHANGED <<Live, Ended, Cleaned>>
      BY <1>3 DEF ConfigureTransport, Live, Ended, Cleaned, Called
    <2>2. CASE o = "ok"
      BY <1>1, <1>3, <2>1, <2>2 DEF ConfigureTransport, Mode
    <2>3. CASE o # "ok"
      <3>1. Mode' \in {"stopped", "crashed"}
        BY <1>3, <2>3 DEF ConfigureTransport, Exit, Mode, ShutdownPhase
      <3>2. QED
        BY <1>2, <1>3, <2>1, <3>1 DEF ConfigureTransport
    <2>4. QED
      BY <2>2, <2>3
  <1>4. CASE BeginInit
    <2>1. UNCHANGED <<Mode, Live, Ended, Cleaned>>
      BY <1>4 DEF BeginInit, Mode, Live, Ended, Cleaned, Called
    <2>2. QED
      BY <1>1, <2>1
  <1>5. ASSUME NEW h \in Hooks, NEW o \in Outcome, run_phase(h, o)
        PROVE Contract!Next \/ UNCHANGED Contract!vars
    <2> USE <1>5 DEF run_phase, CallHook, NextHooks, Due, hooks_for, InitPhase
    <2>1. UNCHANGED <<Live, Ended>>
      BY DEF Live, Ended
    <2>2. UNCHANGED Cleaned
      BY <1>0 DEF Cleaned, Called, ShutdownHooks, ShutdownPhase, TypeOK
    <2>3. CASE o = "ok"
      BY <1>1, <2>1, <2>2, <2>3 DEF Mode
    <2>4. CASE o # "ok"
      <3>1. Mode' \in {"stopped", "crashed"}
        BY <2>4 DEF Exit, Mode, ShutdownPhase
      <3>2. QED
        BY <1>2, <2>1, <2>2, <3>1
    <2>5. QED
      BY <2>3, <2>4
  <1>6. ASSUME NEW h \in Hooks, NEW o \in Outcome, run_phase_lenient(h, o)
        PROVE Contract!Next
    <2> USE <1>6 DEF run_phase_lenient, CallHook, NextHooks, Due, hooks_for
    <2>1. UNCHANGED <<Live, Ended>>
      BY DEF Live, Ended
    <2>2. h \in ShutdownHooks /\ h \notin Cleaned /\ Cleaned' = Cleaned \union {h}
      BY <1>0 DEF Cleaned, Called, ShutdownHooks, TypeOK, Outcome, Failure
    <2>3. Mode = "cleaning" /\ Mode' \in {"cleaning", "crashed"}
      BY DEF Mode, Exit, ShutdownPhase
    <2>4. QED
      BY <2>1, <2>2, <2>3 DEF Contract!Next, Contract!Clean, Live, Ended, Cleaned
  <1>7. CASE EndPhase
    <2> USE <1>7 DEF EndPhase, Exit, Due, hooks_for
    <2>1. UNCHANGED <<Live, Ended, Cleaned>>
      BY DEF Live, Ended, Cleaned, Called
    <2>2. CASE stage \in {OnModuleInit, OnModuleDestroy, BeforeApplicationShutdown}
      <3>1. UNCHANGED Mode
        BY <2>2 DEF Mode, ShutdownPhase
      <3>2. QED
        BY <1>1, <2>1, <3>1
    <2>3. CASE stage = OnApplicationBootstrap
      <3>1. Mode' = "serving"
        BY <2>3 DEF Mode, ShutdownPhase
      <3>2. QED
        BY <1>2, <2>1, <2>3, <3>1
    <2>4. CASE stage = OnApplicationShutdown
      <3>1. Cleaned = ShutdownHooks
        BY <2>4 DEF Cleaned, IInv, RunningInv, ShutdownHooks, ShutdownPhase, HookPhase,
                    InitPhase, Called
      <3>2. Mode = "cleaning" /\ Mode' = "stopped"
        BY <2>4 DEF Mode, ShutdownPhase
      <3>3. QED
        BY <2>1, <3>1, <3>2 DEF Contract!Next, Contract!Stop, Live, Ended, Cleaned
    <2>5. QED
      BY <2>2, <2>3, <2>4 DEF HookPhase, InitPhase, ShutdownPhase
  <1>8. ASSUME NEW t \in Transports, SpawnTransport(t) PROVE Contract!Next
    <2> USE <1>8 DEF SpawnTransport
    <2>1. t \notin Live \union Ended /\ Live' = Live \union {t} /\ UNCHANGED <<Ended, Cleaned>>
      BY <1>0 DEF Live, Ended, Cleaned, Called, TypeOK, Outcome, Failure
    <2>2. Mode = "serving" /\ Mode' = "serving"
      BY DEF Mode, ShutdownPhase
    <2>3. QED
      BY <2>1, <2>2 DEF Contract!Next, Contract!Start, Live, Ended, Cleaned
  <1>9. CASE BeginJoin
    <2>1. UNCHANGED <<Mode, Live, Ended, Cleaned>>
      BY <1>9 DEF BeginJoin, Mode, Live, Ended, Cleaned, Called
    <2>2. QED
      BY <1>1, <2>1
  <1>10. ASSUME NEW t \in Transports, JoinNext(t) PROVE UNCHANGED Contract!vars
    <2>1. UNCHANGED <<Mode, Live, Ended, Cleaned>>
      BY <1>10 DEF JoinNext, Mode, Live, Ended, Cleaned, Called
    <2>2. QED
      BY <1>1, <2>1
  <1>11. CASE BeginShutdown
    <2> USE <1>11 DEF BeginShutdown
    <2>1. UNCHANGED <<Live, Ended, Cleaned>>
      BY DEF Live, Ended, Cleaned, Called
    <2>2. Ended = Transports
      BY DEF Ended, IInv, JoinInv
    <2>3. Mode = "serving" /\ Mode' = "cleaning"
      BY DEF Mode, ShutdownPhase
    <2>4. QED
      BY <2>1, <2>2, <2>3 DEF Contract!Next, Contract!BeginCleanup, Live, Ended, Cleaned
  <1>12. ASSUME NEW i \in BOOLEAN, InstallSignalHandler(i) PROVE UNCHANGED Contract!vars
    <2>1. UNCHANGED <<Mode, Live, Ended, Cleaned>>
      BY <1>12 DEF InstallSignalHandler, Mode, Live, Ended, Cleaned, Called
    <2>2. QED
      BY <1>1, <2>1
  <1>13. CASE ReceiveSignal
    <2>1. UNCHANGED <<Mode, Live, Ended, Cleaned>>
      BY <1>13 DEF ReceiveSignal, Mode, Live, Ended, Cleaned, Called
    <2>2. QED
      BY <1>1, <2>1
  <1>14. ASSUME NEW t \in Transports, NEW o \in Outcome, ServeEnds(t, o) PROVE Contract!Next
    <2> USE <1>14 DEF ServeEnds
    <2>1. t \in Live /\ Live' = Live \ {t} /\ Ended' = Ended \union {t}
      BY <1>0 DEF Live, Ended, TypeOK, Outcome, Failure
    <2>2. UNCHANGED <<Mode, Cleaned>>
      BY DEF Mode, Cleaned, Called
    <2>3. QED
      BY <2>1, <2>2 DEF Contract!Next, Contract!End, Live, Ended, Cleaned
  <1>15. CASE UNCHANGED vars
    <2>1. UNCHANGED <<Mode, Live, Ended, Cleaned>>
      BY <1>15 DEF vars, Mode, Live, Ended, Cleaned, Called
    <2>2. QED
      BY <1>1, <2>1
  <1>16. QED
    BY <1>3, <1>4, <1>5, <1>6, <1>7, <1>8, <1>9, <1>10, <1>11, <1>12, <1>13, <1>14, <1>15
       DEF Next, Run, SignalTask, Serve, Terminated

\* `App::run` implements AppContract, for any number of transports and hooks.
THEOREM Refinement == SafetySpec => ImplementsContract
  BY ContractInit, ContractStep, Inductive, PTL DEF SafetySpec, ImplementsContract, Contract!Spec

===============================================================================
