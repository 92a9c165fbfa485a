------------------------------ MODULE Scheduler ------------------------------
(***************************************************************************)
(* The scheduler transport of nestrs-schedule (scheduler.rs): `serve`      *)
(* spawns one task per job, and `run_job` drives it by its trigger until   *)
(* the shared token is cancelled.                                          *)
(*                                                                         *)
(* A task waits in `select!` for the token or for its next due instant.    *)
(* While a run is in progress it waits for nothing else, so cancellation   *)
(* is seen between runs only.  A run's Err is logged; a panic ends the     *)
(* task, and `serve` drops the JoinError.                                  *)
(*                                                                         *)
(* Time is discrete, and a tick is longer than the 5 ms by which tokio     *)
(* lets an interval be late.  The wall clock that cron reads and the       *)
(* monotonic clock that sleeps are one clock.                              *)
(***************************************************************************)
EXTENDS Integers, Sequences, FiniteSets, FiniteSetsExt, SequencesExt

CONSTANTS
    Jobs,
    Triggers,   \* [Jobs -> Trigger]
    MaxStart,   \* bound: the last instant at which a task is first polled
    MaxClock    \* bound: the last instant

Times == 0..MaxClock

(* Trigger: Interval(period), Timeout(delay), or Cron, given by the        *)
(* instants its expression matches.  #[cron_job] rejects a zero period.    *)
IsTrigger(t) ==
    \/ t.kind = "interval" /\ t.period \in Nat \ {0}
    \/ t.kind = "timeout" /\ t.delay \in Nat
    \/ t.kind = "cron" /\ t.occurrences \subseteq Times

ASSUME TriggerAssumption ==
    /\ MaxClock \in Nat /\ MaxStart \in Nat
    /\ \A j \in Jobs : IsTrigger(Triggers[j])

VARIABLES
    clock,
    cancelled,   \* the shared CancellationToken
    task,        \* per job: its task and the instant it waits for
    anchor,      \* per job: when its task was first polled
    runs,        \* history, per job: when its runs began
    served       \* "no" before serve is called | "yes" | "returned"

schedulerVars == <<clock, cancelled, task, anchor, runs, served>>

Waiting == {"waiting", "idle"}      \* in select!, or for the token alone
Running == {"running", "emitted"}   \* in the job's run
Over    == {"ended", "panicked"}
TaskState == {"none", "spawned"} \cup Waiting \cup Running \cup Over

SchedulerTypeOK ==
    /\ clock \in Times
    /\ cancelled \in BOOLEAN
    /\ task \in [Jobs -> [state : TaskState, due : Nat]]
    /\ anchor \in [Jobs -> Times]
    /\ runs \in [Jobs -> Seq(Times)]
    /\ served \in {"no", "yes", "returned"}

SchedulerInit ==
    /\ clock = 0
    /\ cancelled = FALSE
    /\ task = [j \in Jobs |-> [state |-> "none", due |-> 0]]
    /\ anchor = [j \in Jobs |-> 0]
    /\ runs = [j \in Jobs |-> <<>>]
    /\ served = "no"

(* Time counts while serve runs.                                           *)
Tick ==
    /\ served = "yes"
    /\ clock < MaxClock
    /\ clock >= MaxStart => \A j \in Jobs : task[j].state # "spawned"
    /\ clock' = clock + 1
    /\ UNCHANGED <<cancelled, task, anchor, runs, served>>

(* The token exists from just before serve is spawned.                     *)
Cancel ==
    /\ served # "no"
    /\ ~cancelled
    /\ cancelled' = TRUE
    /\ UNCHANGED <<clock, task, anchor, runs, served>>

(* serve: one task per job.                                                *)
serve ==
    /\ served = "no"
    /\ served' = "yes"
    /\ task' = [j \in Jobs |-> [state |-> "spawned", due |-> 0]]
    /\ UNCHANGED <<clock, cancelled, anchor, runs>>

(* next_delay: wait for the first occurrence strictly after now, or for    *)
(* the token alone when there is none.                                     *)
next_delay(trigger, now) ==
    LET future == {t \in trigger.occurrences : t > now}
    IN  IF future = {} THEN [state |-> "idle", due |-> 0]
                       ELSE [state |-> "waiting", due |-> Min(future)]

(* The task's first poll.  An interval's immediate first tick is dropped.  *)
run_job(j) ==
    /\ task[j].state = "spawned"
    /\ anchor' = [anchor EXCEPT ![j] = clock]
    /\ task' = [task EXCEPT ![j] =
           CASE Triggers[j].kind = "interval" ->
                    [state |-> "waiting", due |-> clock + Triggers[j].period]
             [] Triggers[j].kind = "timeout" ->
                    [state |-> "waiting", due |-> clock + Triggers[j].delay]
             [] Triggers[j].kind = "cron" -> next_delay(Triggers[j], clock)]
    /\ UNCHANGED <<clock, cancelled, runs, served>>

\* Fault: every missed tick is made up for (MissedTickBehavior::Burst).
BurstTick(due, now, period) == due + period

(* tokio's Interval with MissedTickBehavior::Skip: the next multiple of    *)
(* the period after now.                                                   *)
NextTick(due, now, period) == now + period - ((now - due) % period)

(* select! takes the branch of the due instant.  It may do so after the    *)
(* token was cancelled: with both branches ready it picks at random.       *)
fire(j) ==
    /\ task[j].state = "waiting"
    /\ clock >= task[j].due
    /\ runs' = [runs EXCEPT ![j] = Append(@, clock)]
    /\ task' = [task EXCEPT ![j] =
           [state |-> "running",
            due   |-> IF Triggers[j].kind = "interval"
                      THEN NextTick(@.due, clock, Triggers[j].period) ELSE @.due]]
    /\ UNCHANGED <<clock, cancelled, anchor, served>>

\* Fault: an Err ends the job.
ErrEndsJob(j, outcome) ==
    /\ task[j].state \in Running
    /\ task' = [task EXCEPT ![j] =
           CASE outcome = "err" -> [@ EXCEPT !.state = "ended"]
             [] outcome = "ok" /\ Triggers[j].kind = "interval" -> [@ EXCEPT !.state = "waiting"]
             [] outcome = "ok" /\ Triggers[j].kind = "timeout"  -> [@ EXCEPT !.state = "idle"]
             [] outcome = "ok" /\ Triggers[j].kind = "cron"     -> next_delay(Triggers[j], clock)]
    /\ UNCHANGED <<clock, cancelled, anchor, runs, served>>

\* Fault: a cron job computes its wait once, before the loop.
SameWaitAgain(j, outcome) ==
    /\ task[j].state \in Running
    /\ outcome \in {"ok", "err"}
    /\ task' = [task EXCEPT ![j] =
           CASE Triggers[j].kind = "interval" -> [@ EXCEPT !.state = "waiting"]
             [] Triggers[j].kind = "timeout"  -> [@ EXCEPT !.state = "idle"]
             [] Triggers[j].kind = "cron"     ->
                    LET wait == next_delay(Triggers[j], anchor[j]).due - anchor[j]
                    IN  [state |-> "waiting", due |-> clock + wait]]
    /\ UNCHANGED <<clock, cancelled, anchor, runs, served>>

(* A run ends.  Err is logged, and the task goes on as after Ok; a one-    *)
(* shot idles until shutdown.                                              *)
FireEnds(j, outcome) ==
    /\ task[j].state \in Running
    /\ outcome \in {"ok", "err"}
    /\ task' = [task EXCEPT ![j] =
           CASE Triggers[j].kind = "interval" -> [@ EXCEPT !.state = "waiting"]
             [] Triggers[j].kind = "timeout"  -> [@ EXCEPT !.state = "idle"]
             [] Triggers[j].kind = "cron"     -> next_delay(Triggers[j], clock)]
    /\ UNCHANGED <<clock, cancelled, anchor, runs, served>>

FirePanics(j) ==
    /\ task[j].state \in Running
    /\ task' = [task EXCEPT ![j].state = "panicked"]
    /\ UNCHANGED <<clock, cancelled, anchor, runs, served>>

\* Fault: a one-shot that has run does not listen for shutdown.
OneShotSleepsOn(j) ==
    /\ task[j].state = "waiting"
    /\ cancelled
    /\ task' = [task EXCEPT ![j].state = "ended"]
    /\ UNCHANGED <<clock, cancelled, anchor, runs, served>>

SeeCancel(j) ==
    /\ task[j].state \in Waiting
    /\ cancelled
    /\ task' = [task EXCEPT ![j].state = "ended"]
    /\ UNCHANGED <<clock, cancelled, anchor, runs, served>>

\* Fault: serve returns with the first task that ends.
ReturnWithFirst ==
    /\ served = "yes"
    /\ IF Jobs = {} THEN cancelled ELSE \E j \in Jobs : task[j].state \in Over
    /\ served' = "returned"
    /\ UNCHANGED <<clock, cancelled, task, anchor, runs>>

(* join_next has taken every task, however it ended.  Without jobs, serve  *)
(* waits for the token.                                                    *)
ServeReturns ==
    /\ served = "yes"
    /\ IF Jobs = {} THEN cancelled ELSE \A j \in Jobs : task[j].state \in Over
    /\ served' = "returned"
    /\ UNCHANGED <<clock, cancelled, task, anchor, runs>>
===============================================================================
