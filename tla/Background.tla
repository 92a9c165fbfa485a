------------------------------ MODULE Background ------------------------------
(***************************************************************************)
(* The work an application does outside requests: scheduled jobs that emit *)
(* events, and the handlers those reach (Scheduler and EventBus), from the *)
(* bootstrap hooks that wire the bus to the end of the scheduler's serve.  *)
(*                                                                         *)
(* Handlers run inside the task that emits.  A handler that is slow makes  *)
(* the job's run long, and one that panics unwinds the job's task, or the  *)
(* boot when a hook emitted.                                               *)
(***************************************************************************)
EXTENDS Scheduler, EventBus

CONSTANTS
    Boot,        \* App::run while it runs the bootstrap hooks
    Wire,        \* the hook EventModule.wire_handlers
    BootHooks,   \* the bootstrap hooks that matter, in (provider, method) order:
                 \* Wire, and for each hook that emits the event it emits
    JobEmits     \* [Jobs -> Events or None]: what a run of the job may emit

ASSUME BackgroundAssumption ==
    /\ Actors = Jobs \cup {Boot} /\ Boot \notin Jobs
    /\ BootHooks \in Seq(Events \cup {Wire}) /\ Wire \notin Events
    /\ \E k \in DOMAIN BootHooks : \A i \in DOMAIN BootHooks : BootHooks[i] = Wire <=> i = k
    /\ JobEmits \in [Jobs -> Events \cup {None}]

VARIABLES
    hook,      \* the bootstrap hooks called so far
    aborted    \* a bootstrap hook failed or panicked and took App::run with it

vars == <<schedulerVars, busVars, hook, aborted>>

TypeOK ==
    /\ SchedulerTypeOK
    /\ BusTypeOK
    /\ hook \in 0..Len(BootHooks)
    /\ aborted \in BOOLEAN

Init == SchedulerInit /\ BusInit /\ hook = 0 /\ aborted = FALSE

Booting == hook < Len(BootHooks) /\ ~Emitting(Boot) /\ ~aborted

(* run_phase calls the next bootstrap hook once the one before returned.   *)
WireHook ==
    /\ Booting
    /\ BootHooks[hook + 1] = Wire
    /\ wire_handlers
    /\ hook' = hook + 1
    /\ UNCHANGED <<schedulerVars, aborted>>

EmitHook ==
    /\ Booting
    /\ BootHooks[hook + 1] # Wire
    /\ emit(Boot, BootHooks[hook + 1])
    /\ hook' = hook + 1
    /\ UNCHANGED <<schedulerVars, aborted>>

(* A bootstrap hook that has emitted fails: run_phase ends the boot.       *)
HookFails ==
    /\ hook > 0 /\ ~Emitting(Boot) /\ ~aborted /\ served = "no"
    /\ BootHooks[hook] # Wire
    /\ aborted' = TRUE
    /\ UNCHANGED <<schedulerVars, busVars, hook>>

\* Fault: the transports are spawned before the bootstrap hooks.
SpawnEarly ==
    /\ ~aborted
    /\ serve
    /\ UNCHANGED <<busVars, hook, aborted>>

(* Every hook has returned: App::run spawns the scheduler's serve.         *)
Spawn ==
    /\ hook = Len(BootHooks) /\ ~Emitting(Boot) /\ ~aborted
    /\ serve
    /\ UNCHANGED <<busVars, hook, aborted>>

(* The run of a job emits.                                                 *)
JobEmit(j) ==
    /\ task[j].state = "running"
    /\ JobEmits[j] # None
    /\ emit(j, JobEmits[j])
    /\ task' = [task EXCEPT ![j].state = "emitted"]
    /\ UNCHANGED <<clock, cancelled, anchor, runs, served, hook, aborted>>

JobEnds(j, outcome) ==
    /\ ~Emitting(j)
    /\ FireEnds(j, outcome)
    /\ UNCHANGED <<busVars, hook, aborted>>

JobPanics(j) ==
    /\ ~Emitting(j)
    /\ FirePanics(j)
    /\ UNCHANGED <<busVars, hook, aborted>>

(* A panic of a handler goes through emit into the task that emitted.      *)
HandlerPanics(a) ==
    /\ Unwind(a)
    /\ IF a = Boot THEN aborted' = TRUE /\ UNCHANGED schedulerVars
                   ELSE FirePanics(a) /\ UNCHANGED aborted
    /\ UNCHANGED hook

Deliver(a) ==
    /\ CallHandler(a) \/ NestedEmit(a) \/ HandlerReturns(a) \/ EmitReturns(a)
    /\ UNCHANGED <<schedulerVars, hook, aborted>>

SchedulerStep(A) == A /\ UNCHANGED <<busVars, hook, aborted>>

JobStep(j) == (\E outcome \in {"ok", "err"} : JobEnds(j, outcome)) \/ Deliver(j)

Next ==
    \/ SchedulerStep(Tick)
    \/ SchedulerStep(Cancel)
    \/ WireHook \/ EmitHook \/ HookFails \/ Spawn
    \/ \E j \in Jobs :
        \/ SchedulerStep(run_job(j))
        \/ SchedulerStep(fire(j))
        \/ SchedulerStep(SeeCancel(j))
        \/ JobEmit(j) \/ JobPanics(j) \/ JobStep(j)
    \/ Deliver(Boot)
    \/ \E a \in Actors : HandlerPanics(a)
    \/ SchedulerStep(ServeReturns)

(***************************************************************************)
(* Time passes, tasks are polled when they can proceed, and what a hook, a *)
(* job or a handler does ends, with an error if need be.  select! looks at *)
(* its branches in random order, so one that is ready again and again is   *)
(* taken.                                                                  *)
(***************************************************************************)
Fairness ==
    /\ WF_vars(SchedulerStep(Tick))
    /\ WF_vars(WireHook \/ EmitHook \/ Spawn \/ Deliver(Boot))
    /\ WF_vars(SchedulerStep(ServeReturns))
    /\ \A j \in Jobs :
        /\ WF_vars(SchedulerStep(run_job(j)))
        /\ WF_vars(SchedulerStep(fire(j)))
        /\ SF_vars(SchedulerStep(SeeCancel(j)))
        /\ WF_vars(JobStep(j))

Spec == Init /\ [][Next]_vars /\ Fairness

-------------------------------------------------------------------------------
(***************************************************************************)
(* Properties                                                              *)
(***************************************************************************)

Slot(j, t) == (t - anchor[j]) \div Triggers[j].period

NoBurstOf(j) ==
    LET n == Len(runs[j]) IN
    CASE Triggers[j].kind = "interval" ->
            /\ n > 0 => Slot(j, runs[j][1]) >= 1
            /\ \A i \in 1..n - 1 : Slot(j, runs[j][i]) < Slot(j, runs[j][i + 1])
      [] Triggers[j].kind = "timeout" ->
            n <= 1 /\ (n = 1 => runs[j][1] >= anchor[j] + Triggers[j].delay)
      [] Triggers[j].kind = "cron" ->
            \A i \in 1..n : \E t \in Triggers[j].occurrences :
                (IF i = 1 THEN anchor[j] ELSE runs[j][i - 1]) < t /\ t <= runs[j][i]

\* A job never fires in a burst, however long its runs and their handlers
\* take: an interval job begins at most one run per period and the first a
\* whole period in, a one-shot runs once and not early, and a cron job begins
\* each run for an occurrence no earlier run can have been for
\* (scheduler.rs:199-208, 212-218, 223-238, 254).
NoBurst == \A j \in Jobs : NoBurstOf(j)

NextOccurrenceOf(j) ==
    /\ task[j].state = "waiting" =>
          \A t \in Triggers[j].occurrences : clock < t => task[j].due <= t
    /\ task[j].state = "idle" =>
          \A t \in Triggers[j].occurrences : t <= clock

\* A cron job loses occurrences to its own runs only: whenever it waits, after
\* the start or after a run of any length, the instant it waits for is not
\* later than the next occurrence, and it waits for shutdown alone only when
\* no occurrence is left (scheduler.rs:223-238, 243-257).
NoOccurrenceMissed ==
    \A j \in Jobs : Triggers[j].kind = "cron" => NextOccurrenceOf(j)

\* When serve returns, and App::run goes on to the cleanup hooks, no job and
\* no handler a job called is still running; and it returns only at shutdown,
\* or when every job has panicked (scheduler.rs:162-183).
ServeReturnsLast ==
    served = "returned" =>
        /\ \A j \in Jobs : task[j].state \in Over /\ ~Emitting(j)
        /\ cancelled \/ (Jobs # {} /\ \A j \in Jobs : task[j].state = "panicked")

WiredAt == CHOOSE i \in 1..Len(BootHooks) : BootHooks[i] = Wire

\* An emission that completes has called every handler of its event once and
\* in discovery order, from whichever task it came and whatever else was being
\* emitted; only a bootstrap hook that sorts before EventModule's reaches
\* nobody (bus.rs:56-69, module.rs:44-61).
EveryHandlerOnce ==
    [][\A a \in Actors :
          Emitting(a) /\ Top(a).current = None /\ Len(stack'[a]) < Len(stack[a]) =>
              IF a = Boot /\ hook < WiredAt
              THEN Top(a).done = <<>> ELSE HandlersInOrder(Top(a).done, Top(a).event)]_vars

CaughtUp(j) ==
    CASE Triggers[j].kind = "interval" ->
            Slot(j, MaxClock) >= 1 =>
                runs[j] # <<>> /\ Slot(j, Last(runs[j])) = Slot(j, MaxClock)
      [] Triggers[j].kind = "timeout" ->
            anchor[j] + Triggers[j].delay <= MaxClock => runs[j] # <<>>
      [] Triggers[j].kind = "cron" ->
            task[j].state \in Waiting

\* Until shutdown, the schedule goes on: runs that failed, and runs that took
\* longer than a period, do not keep a job that has not panicked from its
\* current period, its one run or its next occurrence (scheduled.rs:5-8,
\* scheduler.rs:30-31).
KeepsSchedule ==
    \A j \in Jobs :
        <>[](aborted \/ cancelled \/ task[j].state = "panicked" \/ CaughtUp(j))

\* Once the token is cancelled, serve returns: the promise AppLifecycle asks
\* of a transport (scheduler.rs:164-166, 182-183, 207, 214, 218, 231, 236).
CancelEndsServe == cancelled ~> served = "returned"

-------------------------------------------------------------------------------
(***************************************************************************)
(* The inductive invariant behind the safety properties.                   *)
(***************************************************************************)

(* Tasks exist once every hook has returned, only a task in its run emits, *)
(* and a task ends only at shutdown.                                       *)
TaskInv ==
    /\ served = "no" => \A j \in Jobs : task[j].state = "none"
    /\ served # "no" => hook = Len(BootHooks) /\ ~Emitting(Boot)
    /\ \A j \in Jobs :
          /\ Emitting(j) => task[j].state = "emitted"
          /\ task[j].state = "ended" => cancelled

(* The registry is empty until it holds every handler, and an emission is  *)
(* somewhere in the list its event had when it began.                      *)
Called(m) == IF m.current = None THEN m.done ELSE Append(m.done, m.current)

BusInv ==
    /\ \A e \in Events : IF hook < WiredAt THEN registry[e] = <<>>
                                           ELSE HandlersInOrder(registry[e], e)
    /\ \A a \in Actors : \A i \in DOMAIN stack[a] :
          Called(stack[a][i]) \o stack[a][i].todo = registry[stack[a][i].event]

(* What a task waits for lies after every run it began.                    *)
Began(j) == IF runs[j] = <<>> THEN anchor[j] ELSE Last(runs[j])

DueOf(j) ==
    LET d == task[j].due IN
    /\ anchor[j] <= clock /\ Began(j) <= clock
    /\ task[j].state \in {"none", "spawned"} => runs[j] = <<>>
    /\ task[j].state \notin {"none", "spawned"} /\ Triggers[j].kind = "interval" =>
          /\ anchor[j] <= d /\ (d - anchor[j]) % Triggers[j].period = 0
          /\ Slot(j, d) >= 1
          /\ runs[j] # <<>> => Slot(j, Last(runs[j])) < Slot(j, d)
    /\ task[j].state = "waiting" /\ Triggers[j].kind = "timeout" =>
          runs[j] = <<>> /\ d = anchor[j] + Triggers[j].delay
    /\ task[j].state = "waiting" /\ Triggers[j].kind = "cron" =>
          d \in Triggers[j].occurrences /\ Began(j) < d

DueInv == \A j \in Jobs : DueOf(j)

IInv ==
    /\ TypeOK
    /\ TaskInv
    /\ BusInv
    /\ DueInv
    /\ NoBurst
    /\ NoOccurrenceMissed
    /\ ServeReturnsLast
===============================================================================
