----------------------------- MODULE AppLifecycle -----------------------------
(***************************************************************************)
(* `App::run` (nestrs-core/src/app.rs) and the lifecycle hook runner       *)
(* (nestrs-core/src/lifecycle.rs).                                         *)
(*                                                                         *)
(* `run` is one sequential task.  It configures the transports in          *)
(* registration order, runs the two init phases, spawns the signal         *)
(* listener and one task per transport, joins the transport tasks as they  *)
(* end, and then runs the three shutdown phases.  The transport tasks and  *)
(* the signal listener run concurrently with it and share one cancellation *)
(* token.                                                                  *)
(*                                                                         *)
(* What a hook, a `configure` or a `serve` does is user code: its result   *)
(* (Ok, Err, or a panic that unwinds) is a nondeterministic choice.        *)
(***************************************************************************)
EXTENDS Naturals

CONSTANTS
    N,           \* transports attached with App::transport, named 1..N in that order
    Hooks,       \* every LifecycleHook linked into the binary
    PhaseOf,     \* [Hooks -> HookPhase]
    SortKey,     \* [Hooks -> Nat]: rank of (provider, method); equal names tie
    Registered   \* hooks whose provider is in the container

Transports == 1..N

(***************************************************************************)
(* The program points of `run`, numbered in program order.  The five       *)
(* LifecyclePhase variants are the points at which their hooks run.        *)
(***************************************************************************)
Configure                 == 0
OnModuleInit              == 1
OnApplicationBootstrap    == 2
Spawn                     == 3
Join                      == 4
OnModuleDestroy           == 5
BeforeApplicationShutdown == 6
OnApplicationShutdown     == 7
Exited                    == 8

InitPhase     == {OnModuleInit, OnApplicationBootstrap}
ShutdownPhase == {OnModuleDestroy, BeforeApplicationShutdown, OnApplicationShutdown}
HookPhase     == InitPhase \union ShutdownPhase

ASSUME NAssumption == N \in Nat
ASSUME HookAssumption ==
    /\ PhaseOf \in [Hooks -> HookPhase]
    /\ SortKey \in [Hooks -> Nat]
    /\ Registered \subseteq Hooks

InitHooks     == {h \in Hooks : PhaseOf[h] \in InitPhase}
ShutdownHooks == {h \in Hooks : PhaseOf[h] \in ShutdownPhase}

Failure == {"err", "panic"}
Outcome == {"ok"} \union Failure

VARIABLES
    stage,       \* where `run` is
    configured,  \* how many transports have been configured
    hookState,   \* per hook: "pending" until called, then what the call returned
    task,        \* per transport: "none" | "serving" | how its serve task ended
    joined,      \* transports whose end `run` has taken from the JoinSet
    sig,         \* the signal listener: "none" | "arming" | "armed" | "failed" | "done"
    cancelled,   \* the shared CancellationToken
    firstErr,    \* the transport whose failure `run` will return, 0 for None
    result       \* "none" while running, else how `run` ended

vars == <<stage, configured, hookState, task, joined, sig, cancelled, firstErr, result>>

TypeOK ==
    /\ stage \in Configure..Exited
    /\ configured \in 0..N
    /\ hookState \in [Hooks -> {"pending"} \union Outcome]
    /\ task \in [Transports -> {"none", "serving"} \union Outcome]
    /\ joined \subseteq Transports
    /\ sig \in {"none", "arming", "armed", "failed", "done"}
    /\ cancelled \in BOOLEAN
    /\ firstErr \in 0..N
    /\ result \in {"none"} \union Outcome

Init ==
    /\ stage = Configure
    /\ configured = 0
    /\ hookState = [h \in Hooks |-> "pending"]
    /\ task = [t \in Transports |-> "none"]
    /\ joined = {}
    /\ sig = "none"
    /\ cancelled = FALSE
    /\ firstErr = 0
    /\ result = "none"

(***************************************************************************)
(* `run` returns or unwinds.                                               *)
(***************************************************************************)
Exit(outcome) == stage' = Exited /\ result' = outcome

(***************************************************************************)
(* for t in transports.iter_mut() { t.configure(&container).await?; }      *)
(***************************************************************************)
ConfigureTransport(outcome) ==
    /\ stage = Configure
    /\ configured < N
    /\ IF outcome = "ok"
       THEN configured' = configured + 1 /\ UNCHANGED <<stage, result>>
       ELSE Exit(outcome) /\ UNCHANGED configured
    /\ UNCHANGED <<hookState, task, joined, sig, cancelled, firstErr>>

BeginInit ==
    /\ stage = Configure
    /\ configured = N
    /\ stage' = OnModuleInit
    /\ UNCHANGED <<configured, hookState, task, joined, sig, cancelled, firstErr, result>>

(***************************************************************************)
(* hooks_for(phase): the phase's hooks in (provider, method) order.  Hooks *)
(* with equal names keep the registry's order, which the linker chooses:   *)
(* either may be next.                                                     *)
(***************************************************************************)
hooks_for(phase) == {h \in Hooks : PhaseOf[h] = phase}

Due(phase) == {h \in hooks_for(phase) : hookState[h] = "pending"}

\* Fault: hooks run in link order, unsorted.
UnsortedHooks(phase) == Due(phase)

NextHooks(phase) == {h \in Due(phase) : \A g \in Due(phase) : SortKey[h] <= SortKey[g]}

(***************************************************************************)
(* The thunk `#[hooks]` submits: the method's own result, or Ok when the   *)
(* provider is in no module.                                               *)
(***************************************************************************)
HookOutcome(h) == IF h \in Registered THEN Outcome ELSE {"ok"}

CallHook(h, outcome) ==
    /\ h \in NextHooks(stage)
    /\ outcome \in HookOutcome(h)
    /\ hookState' = [hookState EXCEPT ![h] = outcome]
    /\ UNCHANGED <<configured, task, joined, sig, cancelled, firstErr>>

\* Fault: an init hook's error is only logged.
LenientInit(h, outcome) ==
    /\ stage \in InitPhase
    /\ CallHook(h, outcome)
    /\ IF outcome = "panic" THEN Exit(outcome) ELSE UNCHANGED <<stage, result>>

(***************************************************************************)
(* run_phase: an init hook's error or panic ends `run`.                    *)
(***************************************************************************)
run_phase(h, outcome) ==
    /\ stage \in InitPhase
    /\ CallHook(h, outcome)
    /\ IF outcome = "ok" THEN UNCHANGED <<stage, result>> ELSE Exit(outcome)

(***************************************************************************)
(* run_phase_lenient: a shutdown hook's error is logged.  Nothing catches  *)
(* a panic, which unwinds `run`.                                           *)
(***************************************************************************)
run_phase_lenient(h, outcome) ==
    /\ stage \in ShutdownPhase
    /\ CallHook(h, outcome)
    /\ IF outcome = "panic" THEN Exit(outcome) ELSE UNCHANGED <<stage, result>>

\* Fault: before_application_shutdown is left out.
EndPhaseSkipsOne ==
    /\ stage \in HookPhase
    /\ Due(stage) = {}
    /\ CASE stage = OnApplicationShutdown ->
                Exit(IF firstErr = 0 THEN "ok" ELSE "err")
         [] stage = OnModuleDestroy ->
                stage' = OnApplicationShutdown /\ UNCHANGED result
         [] OTHER -> stage' = stage + 1 /\ UNCHANGED result
    /\ sig' = IF stage = OnApplicationBootstrap THEN "arming" ELSE sig
    /\ UNCHANGED <<configured, hookState, task, joined, cancelled, firstErr>>

(***************************************************************************)
(* A phase's loop ends.  After the second init phase `run` creates the     *)
(* token and spawns the signal listener; after the last shutdown phase it  *)
(* returns first_err, or Ok.                                               *)
(***************************************************************************)
EndPhase ==
    /\ stage \in HookPhase
    /\ Due(stage) = {}
    /\ IF stage = OnApplicationShutdown
       THEN Exit(IF firstErr = 0 THEN "ok" ELSE "err")
       ELSE stage' = stage + 1 /\ UNCHANGED result
    /\ sig' = IF stage = OnApplicationBootstrap THEN "arming" ELSE sig
    /\ UNCHANGED <<configured, hookState, task, joined, cancelled, firstErr>>

(***************************************************************************)
(* for transport in transports { join.spawn(transport.serve(token)); }     *)
(* A task may run, and end, while later ones are still to be spawned.      *)
(***************************************************************************)
SpawnTransport(t) ==
    /\ stage = Spawn
    /\ task[t] = "none"
    /\ \A u \in 1..(t - 1) : task[u] # "none"
    /\ task' = [task EXCEPT ![t] = "serving"]
    /\ UNCHANGED <<stage, configured, hookState, joined, sig, cancelled, firstErr, result>>

BeginJoin ==
    /\ stage = Spawn
    /\ \A t \in Transports : task[t] # "none"
    /\ stage' = Join
    /\ UNCHANGED <<configured, hookState, task, joined, sig, cancelled, firstErr, result>>

(***************************************************************************)
(* A transport's serve future ends: on its own, or because it observed the *)
(* token (Fairness obliges it to).                                         *)
(***************************************************************************)
ServeEnds(t, outcome) ==
    /\ task[t] = "serving"
    /\ task' = [task EXCEPT ![t] = outcome]
    /\ UNCHANGED <<stage, configured, hookState, joined, sig, cancelled, firstErr, result>>

\* Fault: a panicked task (a JoinError) counts as a clean end.
JoinIgnoresPanic(t) ==
    /\ stage = Join
    /\ t \notin joined
    /\ task[t] \in Outcome
    /\ joined' = joined \union {t}
    /\ IF task[t] = "err" /\ firstErr = 0
       THEN firstErr' = t /\ cancelled' = TRUE
       ELSE UNCHANGED <<firstErr, cancelled>>
    /\ UNCHANGED <<stage, configured, hookState, task, sig, result>>

\* Fault: an ended task stays in the set and is polled again.
JoinNeverRemoves(t) ==
    /\ stage = Join
    /\ t \notin joined
    /\ task[t] \in Outcome
    /\ joined' = joined
    /\ IF task[t] \in Failure /\ firstErr = 0
       THEN firstErr' = t /\ cancelled' = TRUE
       ELSE UNCHANGED <<firstErr, cancelled>>
    /\ UNCHANGED <<stage, configured, hookState, task, sig, result>>

\* Fault: a failure is kept but the token is not cancelled.
JoinDoesNotCancel(t) ==
    /\ stage = Join
    /\ t \notin joined
    /\ task[t] \in Outcome
    /\ joined' = joined \union {t}
    /\ IF task[t] \in Failure /\ firstErr = 0
       THEN firstErr' = t /\ UNCHANGED cancelled
       ELSE UNCHANGED <<firstErr, cancelled>>
    /\ UNCHANGED <<stage, configured, hookState, task, sig, result>>

(***************************************************************************)
(* join.join_next(): any ended task.  The first Err or panic is kept and   *)
(* cancels the token; later ones are dropped; Ok(()) does nothing.         *)
(***************************************************************************)
JoinNext(t) ==
    /\ stage = Join
    /\ t \notin joined
    /\ task[t] \in Outcome
    /\ joined' = joined \union {t}
    /\ IF task[t] \in Failure /\ firstErr = 0
       THEN firstErr' = t /\ cancelled' = TRUE
       ELSE UNCHANGED <<firstErr, cancelled>>
    /\ UNCHANGED <<stage, configured, hookState, task, sig, result>>

(***************************************************************************)
(* join_next() is None: every spawned task has been joined.                *)
(***************************************************************************)
BeginShutdown ==
    /\ stage = Join
    /\ joined = Transports
    /\ stage' = OnModuleDestroy
    /\ UNCHANGED <<configured, hookState, task, joined, sig, cancelled, firstErr, result>>

(***************************************************************************)
(* spawn_shutdown_signal: the listener task installs its handlers (or      *)
(* gives up), waits for SIGINT or SIGTERM, cancels the token and ends.     *)
(***************************************************************************)
InstallSignalHandler(installed) ==
    /\ sig = "arming"
    /\ result = "none"
    /\ sig' = IF installed THEN "armed" ELSE "failed"
    /\ UNCHANGED <<stage, configured, hookState, task, joined, cancelled, firstErr, result>>

ReceiveSignal ==
    /\ sig = "armed"
    /\ result = "none"
    /\ sig' = "done"
    /\ cancelled' = TRUE
    /\ UNCHANGED <<stage, configured, hookState, task, joined, firstErr, result>>

(***************************************************************************)
(* The process is over.                                                    *)
(***************************************************************************)
Terminated ==
    /\ result # "none"
    /\ UNCHANGED vars

Run ==
    \/ \E o \in Outcome : ConfigureTransport(o)
    \/ BeginInit
    \/ \E h \in Hooks, o \in Outcome : run_phase(h, o)
    \/ \E h \in Hooks, o \in Outcome : run_phase_lenient(h, o)
    \/ EndPhase
    \/ \E t \in Transports : SpawnTransport(t)
    \/ BeginJoin
    \/ \E t \in Transports : JoinNext(t)
    \/ BeginShutdown

SignalTask ==
    \/ \E i \in BOOLEAN : InstallSignalHandler(i)
    \/ ReceiveSignal

Serve(t) == \E o \in Outcome : ServeEnds(t, o)

Next ==
    \/ Run
    \/ SignalTask
    \/ \E t \in Transports : Serve(t)
    \/ Terminated

(***************************************************************************)
(* Fairness.  Tokio polls a woken task, so `run` and the listener's        *)
(* installation make progress as long as user futures resolve.  A          *)
(* transport is obliged to end only once the token is cancelled            *)
(* (transport.rs: "transports must observe it and shut down gracefully").  *)
(* No signal is ever promised.                                             *)
(***************************************************************************)
Fairness ==
    /\ WF_vars(Run)
    /\ WF_vars(\E i \in BOOLEAN : InstallSignalHandler(i))
    /\ \A t \in Transports : WF_vars(cancelled /\ Serve(t))

SafetySpec == Init /\ [][Next]_vars

Spec == SafetySpec /\ Fairness

-------------------------------------------------------------------------------
(***************************************************************************)
(* Properties                                                              *)
(***************************************************************************)

Called(h) == hookState[h] # "pending"

\* No transport task exists before every transport is configured and every
\* init hook returned Ok (app.rs:92-104: a failed init aborts the boot while
\* nothing is listening).
ServeOnlyAfterInit ==
    (\E t \in Transports : task[t] # "none") =>
        /\ configured = N
        /\ \A h \in InitHooks : hookState[h] = "ok"

\* A shutdown hook is only ever called when no transport task is running:
\* cleanup never races a request (app.rs:125-129, lifecycle.rs:27-29).
CleanupAfterStop ==
    (\E h \in ShutdownHooks : Called(h)) =>
        \A t \in Transports : task[t] \in Outcome

\* Once the app got through its init phases, `run` does not return before it
\* has called every hook of every phase, whatever transports and shutdown
\* hooks returned (app.rs:125-126 "every provider's cleanup runs even if one
\* fails or a transport errored").  A hook that panics makes `run` unwind and
\* is the one exception.
EveryCleanupRuns ==
    result \in {"ok", "err"} /\ configured = N /\ (\A h \in InitHooks : hookState[h] = "ok")
        => \A h \in ShutdownHooks : Called(h)

\* Hooks are called in (phase, provider, method) order, skipping none: a
\* called hook has every hook that sorts before it behind it
\* (lifecycle.rs:54-62, app.rs:94-95 and 127-129).
HookOrder ==
    \A g, h \in Hooks :
        /\ Called(h)
        /\ \/ PhaseOf[g] < PhaseOf[h]
           \/ PhaseOf[g] = PhaseOf[h] /\ SortKey[g] < SortKey[h]
        => Called(g)

\* `run` returns Ok exactly when nothing before the shutdown phases failed; a
\* transport's error or panic is never lost, and a shutdown hook's error never
\* turns a clean run into a failed one (app.rs:106-134).
ResultIsHonest ==
    result \in {"ok", "err"} =>
        ((result = "ok") <=>
            /\ configured = N
            /\ \A h \in InitHooks : hookState[h] = "ok"
            /\ \A t \in Transports : task[t] = "ok")

\* The token is only cancelled for a reason: a signal, or a transport failure
\* that `run` has kept to return (app.rs:78-81).
CancelHasCause == cancelled <=> sig = "done" \/ firstErr # 0

\* The error `run` returns is the first one it joined; a later failure, such as
\* one caused by the cancellation itself, never replaces it (app.rs:111-119).
FirstErrorKept == [][firstErr # 0 => firstErr' = firstErr]_vars

\* Once the token is cancelled, `run` ends (app.rs:78-81).
CancelEndsRun == cancelled ~> result # "none"

\* Once any transport has failed, `run` ends even if no signal ever arrives and
\* every other transport would serve for ever (app.rs:79-80 "the first
\* transport that errors also cancels the others").
FailureEndsRun == (\E t \in Transports : task[t] \in Failure) ~> result # "none"

-------------------------------------------------------------------------------
(***************************************************************************)
(* The inductive invariant behind the safety properties.  It ties `stage`  *)
(* to how far hooks, tasks and joins have got; the properties above speak  *)
(* of those only.                                                          *)
(***************************************************************************)
InitOK == configured = N /\ \A h \in InitHooks : hookState[h] = "ok"

RunningInv ==
    stage # Exited =>
        /\ result = "none"
        /\ stage # Configure => configured = N
        /\ \A h \in Hooks : PhaseOf[h] < stage => Called(h)
        /\ \A h \in Hooks : Called(h) => PhaseOf[h] <= stage
        /\ \A h \in InitHooks : Called(h) => hookState[h] = "ok"
        /\ stage < Spawn => \A t \in Transports : task[t] = "none"
        /\ stage > Spawn => \A t \in Transports : task[t] # "none"
        /\ stage < Join => joined = {}
        /\ stage > Join => joined = Transports
        /\ stage < Spawn => sig = "none"

ExitedInv ==
    stage = Exited =>
        \/ /\ result \in Failure
           /\ ~InitOK
           /\ \A t \in Transports : task[t] = "none"
           /\ \A h \in ShutdownHooks : ~Called(h)
           /\ joined = {}
        \/ /\ InitOK
           /\ joined = Transports
           /\ \/ result = "panic"
              \/ /\ \A h \in Hooks : Called(h)
                 /\ result = IF firstErr = 0 THEN "ok" ELSE "err"

JoinInv ==
    /\ \A t \in joined : task[t] \in Outcome
    /\ firstErr = 0 => \A t \in joined : task[t] = "ok"
    /\ firstErr # 0 => firstErr \in joined /\ task[firstErr] \in Failure

IInv ==
    /\ TypeOK
    /\ RunningInv
    /\ ExitedInv
    /\ JoinInv
    /\ CancelHasCause
    /\ HookOrder

-------------------------------------------------------------------------------
(***************************************************************************)
(* The refinement of AppContract.                                          *)
(***************************************************************************)
Mode ==
    CASE stage < Spawn                 -> "booting"
      [] stage \in {Spawn, Join}       -> "serving"
      [] stage \in ShutdownPhase       -> "cleaning"
      [] stage = Exited                -> IF result = "panic" THEN "crashed" ELSE "stopped"

Contract ==
    INSTANCE AppContract WITH
        Cleanup <- ShutdownHooks,
        mode    <- Mode,
        live    <- {t \in Transports : task[t] = "serving"},
        ended   <- {t \in Transports : task[t] \in Outcome},
        cleaned <- {h \in ShutdownHooks : Called(h)}

\* `run` implements AppContract: boot completely or not at all, clean up only
\* when nothing serves, and stop only when all cleanup was done (app.rs:78-81).
ImplementsContract == Contract!Spec

===============================================================================
