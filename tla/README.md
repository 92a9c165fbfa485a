# A TLA+ verification of nestrs

nestrs is a modular application framework for Rust (`crates/nestrs-*`): modules
declare providers and imports, a builder turns the module tree into a dependency
injection container, and an `App` serves the result through transports (HTTP,
scheduler, queue worker) between init and shutdown hooks. Feature crates add
WebSocket gateways, GraphQL, an ORM data context, authorization, throttling,
events, and so on.

This directory holds TLA+ specifications of the framework's own control logic,
TLC configurations that check them on small instances, and TLAPS proofs of the
most important properties for every instance. All source paths below are
relative to the repository's root (`src/` here).

Run everything from this directory:

    tlc -workers 2 -config MC_AppLifecycle.cfg MC_AppLifecycle
    tlapm AppLifecycleProofs.tla

`PROJECT.json` lists the components, the runs, the definition-to-source map, the
hazards, the findings and the theorems in machine-readable form.

## 1. Inventory

| component | state it keeps | operations | interacts with |
|---|---|---|---|
| **App run loop** (`nestrs-core/app.rs`, `lifecycle.rs`) | transports, JoinSet, cancellation token, first error | `configure`, init phases, spawn, join, signal, shutdown phases | every transport, every `#[hooks]` provider |
| **Module registration loop** (generated by `nestrs-macros/module.rs`) | `__done`, pending keys, round progress | round, build, leave pending, stall diagnosis | container builder, `Discoverable` of each provider |
| **App builder, container, access graph** (`nestrs-core/app.rs`, `container.rs`, `access.rs`) | provider keys, collected/registered modules, factory queue, overrides | collect, factories, register, override, validate | module registration loop; its container is what everything else resolves from |
| **WebSocket gateways** (`nestrs-ws`) | connection registry, rooms, id counter; per socket a task, an outbox, a writer | connect, hooks, guard, dispatch, push, disconnect, flush | HTTP transport (upgrade), services pushing from outside |
| **Request data context** (`nestrs-orm`) | per-request executor: pool or open transaction | intercept, commit/rollback, repository reads, paging | HTTP/GraphQL handlers, authorization |
| **Authorization** (`nestrs-authz*`) | per-request ability (rules) | build, can, SQL condition, bridges | data context, guards of each transport |
| **Authentication** (`nestrs-auth`) | strategy chain, OAuth state | guard, strategies, login flow | HTTP pipeline, authorization |
| **Throttler** (`nestrs-throttler`) | window per client key | `hit`, `check`, `Retry-After` | HTTP guards |
| **Scheduler** (`nestrs-schedule`) | one task per job | configure, tick, fire, cancel | App run loop (is a transport) |
| **Queue worker** (`nestrs-queue`) | worker set, Redis connection | configure, push, process | App run loop (is a transport) |
| **Event bus** (`nestrs-events`) | handlers by event type | subscribe, emit | bootstrap hooks, handlers |
| **Request scope, discovery** (`nestrs-core/scope.rs`, `discovery.rs`) | per-request instance cache | get | HTTP pipeline |
| **HTTP transport, middleware** (`nestrs-http`, `nestrs-middleware`) | assembled routes and layers | configure, serve | App run loop |
| **GraphQL** (`nestrs-graphql`) | schema, loaders, request context | execute | data context, authorization |
| MCP, OpenAPI, health, telemetry, config, pipes | none shared between steps | conversions and I/O | - |

What is hard here, and therefore what the properties are about:

* *Concurrency*: transports that end, fail or panic in any order while `run`
  joins them; connection tasks, writer tasks and services that share the
  WebSocket registry; requests that read the clock before they take the
  throttler's lock; rows that change between two pages.
* *Failure of one part of several*: one hook of a phase, one transport, one
  factory, one socket's writer, one handler that panics.
* *Ordering*: hooks collected from a link-time registry; providers and imports
  that may be written in any order; a reply and the pushes made before it.
* *Termination*: a registration fixpoint, recursive imports with cycles, a
  shutdown in which a task awaits a writer that waits for the task's sender.
* *Snapshots*: the set of "global" keys is taken between two phases and judged
  against in a third.

`PROJECT.json` lists each of these at the line where it bites ("hazards").

## 2. Modules

| module | models | proofs |
|---|---|---|
| `AppLifecycle` | `App::run`, `run_phase`, `run_phase_lenient`, the signal listener, the transport tasks | `AppLifecycleProofs` |
| `AppContract` | abstract: what `App::run` promises (boot fully or not at all, serve, clean up only after everything stopped, stop only when cleaned) | refinement in `AppLifecycleProofs` |
| `ProviderFixpoint` | the loop `#[module]` generates for one module's providers | `ProviderFixpointProofs` |
| `DependencyOrder` | abstract: registration in any order that respects dependencies, no rounds and no list | refinement in `ProviderFixpointProofs` |
| `AppBoot` | `App::new`, `AppBuilder::build`, `register`/`collect` over the import tree, factories, overrides, access validation | `AppBootProofs` |
| `WsGateway` | `WsServer`, `serve_connection`, the writer task, message guards, dispatch | `WsGatewayProofs` |
| `RequestPath` | a request through `DbContext`, filters, guards, `Authorize`, the generated handlers and resolvers, `CrudService`/`Repo`, and back to commit or rollback | `RequestPathProofs` |
| `AtomicRequests` | abstract: what a client may rely on, a request that happens at once or not at all | refinement in `RequestPathProofs` |
| `AbilityRules` | `Ability`: `rules_for`, `can_class`, `condition_for`, `can` as operators | `RequestPathProofs` |
| `Throttler` | `ThrottlerGuard::check`, `client_key`, `InMemoryThrottler::hit` | `ThrottlerProofs` |
| `Scheduler` | `Scheduler::serve`, `run_job` for its three triggers, `next_delay`, `fire` | `BackgroundProofs` |
| `EventBus` | `EventBus::subscribe` and `emit`, `wire_handlers` | `BackgroundProofs` |
| `Background` | composes `Scheduler` and `EventBus`: bootstrap hooks and jobs that emit, handlers that run in the emitter's task | `BackgroundProofs` |
| `Predicates` | `Predicate::to_condition` and `matches`, and `condition_for`, `can`, `permitted_fields` on top of them | `ListingProofs` |
| `Listing` | the generated cursor list: `PageParams`, `Repo::page`, the handler, `mask_many`, beside other transactions | `ListingProofs` |

`AppBoot` uses the result of `ProviderFixpoint`: one module's loop is a single
step that succeeds exactly when every provider is buildable, and the definition
of "buildable" is the one `ProviderFixpoint` proves the loop computes.
`Background` shows of the scheduler what `AppLifecycle` assumes of every
transport: once the token is cancelled, `serve` returns (`CancelEndsServe`).
`RequestPath` takes a rule's predicate as the set of rows it matches; `Predicates`
and `Listing` open it up.

Operators commented `Fault:` are deliberately broken variants of the definition
that follows them (a dropped guard, a lost update, a wrong order). No
specification uses them; they document what each property would notice:
substituting a fault for its definition makes the property fail.

### AppLifecycle

`stage` is the program point of `run`, numbered in program order so that "before"
and "after" are `<`. `configured` counts the configure loop, `hookState` records
each hook's call and its result, `task` each transport's serve task, `joined`
what `run` took from the `JoinSet`, `cancelled` the token, `firstErr` the error
`run` will return (0 for `None`), and `sig` the listener task.

| action | code |
|---|---|
| `ConfigureTransport`, `BeginInit` | `for t in transports { t.configure(..).await?; }` |
| `run_phase` | an init hook; error or panic ends `run` |
| `run_phase_lenient` | a shutdown hook; an error is logged, a panic unwinds |
| `EndPhase` | a phase's loop ends; after bootstrap the token and the listener are created, after the last phase `run` returns |
| `SpawnTransport`, `BeginJoin` | one task per transport; it may run and end while others are still to be spawned |
| `ServeEnds` | a serve future returns Ok, Err or panics |
| `JoinNext`, `BeginShutdown` | `join.join_next()`: keep the first failure and cancel; `None` begins shutdown |
| `InstallSignalHandler`, `ReceiveSignal` | `spawn_shutdown_signal` |

What a hook, a `configure` or a `serve` does is user code: its outcome is chosen
nondeterministically. A hook whose provider is in no module (`Registered`)
always returns Ok, as the generated thunk does.

### ProviderFixpoint

`list` is the written provider list, each provider reduced to what
`Discoverable` reports (key, whether it enters the container, required and
optional dependencies); `have` is the container's key set; `done`, `pendingKeys`,
`waiting` and `builtNow` are the generated code's locals; `at` is the slot a
round is at. `StartRound`, `SkipDone`, `Build`, `LeavePending` and `EndRound` are
the loop's branches; `Stalled` is its diagnosis.

### AppBoot

`app` (chosen in `Init`, then fixed) is a whole application: roots, imports per
module, providers per module, seeds, factories, overrides, resolvers. `stack` is
the recursion of `register`/`collect`; `marked` is the visited set; `queue` and
`ran` are the factories; `global` is the snapshot taken before registration.
`App::new` starts in the register phase; the builder starts in collect.

### WsGateway

Each socket has a connection task (`pc`, `id`, `read`, `check`), a writer task
(`writer`) and an outbox. `next` and `conns` are the registry. `connect` is two
steps because the id is drawn before the lock is taken; every other registry
call holds the mutex for its whole effect and is one step. User code (hooks,
guards, handlers) may call the registry in any number of steps (`ClientCall`),
and may panic. `accepted` and `joined` are history variables.

### RequestPath

Each request is a future: `pc` says which layer it is in, `shape` what it is
(chosen when it arrives), `ability` what the guards put in its extensions, `step`
the handler's next service call, `result` and `body` what is on its way out, the
rows queries returned and the rows a create or update answers with (`Echo`). The
database is external: `table` is what is committed, `txn` and `writes` are the
request's transaction, `leaked` the requests whose executor a detached task still
holds, `pool` the configured pool size. `persisted`, `unsure` and `fault` are
history variables.

| action | code |
|---|---|
| `Arrive`, `Open`, `OpenFails` | `RequestScopeEndpoint::call`; `DbContext::intercept` up to `next.run` |
| `PassGuards`, `Challenge` | `AuthGuard` and `AbilityGuard` of a route |
| `Bridge` | `GraphqlAbilityBridge::before`, which goes on when authentication fails |
| `Authorize`, `BadInput` | the class gate and the other extractors |
| `RefuseField`, `BadId` | `authorize` of a generated resolver; an id that does not parse |
| `List`, `Access`, `Create`, `Write` | `Repo::all`; `CrudService::access` (the load); `create`; the scoped `UPDATE`/`DELETE`. `Access` and `Write` are two steps: other requests commit between them |
| `StatementFails`, `MustFail` | any `DbErr`; deadlock, doomed transaction, taken key, pool timeout |
| `Leak`, `Unleak` | a clone of the executor in a spawned task, and its end |
| `Return`, `Mask`, `Filter` | the handler's answer; `mask_response`, which checks the rows of a list and reduces any other row to its permitted fields, for the route's action; an exception filter |
| `Conclude`, `Commit`, `CommitFails` | the tail of `intercept` |
| `Drop` | the future is dropped: disconnect or panic, at any await |

A route handler stops at the first call that fails; a GraphQL operation records
the error and runs the next field. Handlers marked `custom` are the developer's:
they answer with any status, may return a body of another type, and may leak.

`AtomicRequests` is the same without layers: a request prepares rows that nobody
else prepares meanwhile (`intent`), a failed statement may spoil it, and one step
both answers it and applies all it prepared: a success applies everything (a
spoilt one may apply nothing), an error nothing, and only a dropped request or an
unacknowledged COMMIT leaves the choice open. In the mapping, what a request has
prepared is what its transaction has written while its future is not over, and its
reply is the status it was answered with. The contract sees what the other
properties do not: they ask which transactions were applied, it asks where every
visible row came from, so that a statement outside the transaction violates it.

### Throttler

`windows` is the store's map, one window per client key whatever the route; an
entry with count 0 stands for an absent one. `call` holds the requests inside the
guard, between the clock reading of `hit` (`check`) and its locked part (`hit`).
`inWindow`, `atTime` and `denial` are history variables: what was admitted in each
window, at each instant, and what the last denied client was told.

### Scheduler, EventBus, Background

`task` is each job's task and the instant it waits for, `anchor` when it was first
polled, `runs` when its runs began. A job is `waiting` in `select!`, `idle`
(waiting for the token alone), `running`, `emitted` (running, and it has emitted),
`ended` or `panicked`. `registry` is the bus's handler table and `stack` each
emitting task's emissions in progress: a handler that emits pushes another one.

| action | code |
|---|---|
| `WireHook`, `EmitHook`, `HookFails` | the bootstrap hooks in their order; the bus is wired by one of them |
| `Spawn` | `App::run` spawns `serve`, which spawns one task per job |
| `run_job`, `fire`, `SeeCancel` | a task's first poll; the due branch and the token branch of `select!` |
| `JobEmit`, `JobEnds`, `JobPanics` | what a run does; Err is logged, a panic ends the task |
| `Deliver` | `emit`'s loop: `CallHandler`, `NestedEmit`, `HandlerReturns`, `EmitReturns` |
| `HandlerPanics` | `Unwind`: through `emit` into the job's task, or into `App::run` |
| `ServeReturns` | `join_next` has taken every task |

### Predicates, Listing

A predicate is a record tagged by its variant; `Conditions` is a set of them that
holds the parts of each, `Depth` says that they are finite, and `to_condition` and
`matches` are recursive functions on it. `to_condition` evaluates a predicate as the
database would, in three-valued logic; `matches` as the code does, where NULL is a
`Value` equal to itself. A page is the set of its keys: their order is the
statement's ORDER BY. `Listing` is one client paging with `list` (one statement,
one committed state) while `Change` commits other transactions; `Forbidden` is the
class gate. `got`, `inOrder` and `steady` are history variables.

## 3. What the runs check

| run | instance | checks |
|---|---|---|
| `lifecycle` | 3 transports; 7 hooks over all 5 phases, two in one phase twice, one of an unregistered provider | nothing serves before init is complete; hook order; the returned result; `AppContract` implemented (so cleanup only when nothing serves, and none skipped); cancellation and failure each end `run` |
| `fixpoint` | every module of 3 providers with at most 2 dependencies each, eager or lazy, one foreign key present or absent | written order is irrelevant; optional dependencies consistent; the loop ends; `DependencyOrder` implemented (so required dependencies are present) |
| `boot` | every placement of a service, a repository and a controller over 3 modules, 36 import shapes (chain, diamond, swapped, cyclic, dynamic), 4 ways to start | exactly the well-wired apps are accepted; modules register once; factories run once; the build ends |
| `websocket` | 2 sockets, 1 room, 2 events (one with a guard and a handler, one unknown), 1 push, up to 2 messages | ids name one socket; the registry follows the task; frames in order; accepted frames flushed; a leaving connection ends |
| `requests` | 2 requests of 13 shapes (generated list, get, create, update, delete; a refused one; a hand-written one with two writes; a public one; two miswired ones; three GraphQL operations), 4 rows, 2 values, a pool of 1 or 2 | `AtomicRequests` implemented; a success is in the database; an error left nothing; writes stay in the caller's scope although rows change between load and write; responses hold rows the caller may read or has just written, and on a route only what a grant for its action matches; anonymous GraphQL is closed; every request ends and returns its connection |
| `throttle` | 2 requests in the guard at once, 5 in all, 2 routes with different limits and one window length, 1 client seen directly and through a proxy, 5 instants | a route's quota per window; its rate in real time; windows end only by elapsing; `Retry-After` is honest |
| `background` | an interval, a one-shot and a cron job; 3 handlers of 2 events, one of them emitting; a hook that emits before the bus is wired and one after; 5 instants | no bursts; a cron job loses occurrences only to its own runs; `serve` returns last; every handler once per completed emission; the schedule goes on; cancellation ends `serve` |
| `listing` | 3 keys, one column with 2 values and NULL, every initial table, 2 changes by others, 30 abilities, page sizes asked for below and above the limits | types (a page never exceeds the largest size); rows that stay readable arrive once and in order; the mask removes nothing the query returned and agrees with it without NULL; paging ends |

Type correctness is proved for every module; the runs check it only where a type
says more than its name (a page's size).

### Bounds and why they are enough

* `lifecycle`: three transports give a first failure, a second failure to be
  ignored and a survivor to be cancelled, in every order of ending and joining.
  Two hooks in one phase give an order and a successor that a failure could skip.
  The safety properties are proved for every number of transports and hooks.
* `fixpoint`: three providers give chains, cycles of two and three, and a cycle
  beside a provider that can be built; slot *i* has key *i*, which loses nothing
  because dependencies range over all keys. The safety properties are proved for
  every number of providers.
* `boot`: three modules give diamonds, chains and two-module cycles. The
  reference `WellWired` reads the module tree without phases or order, so each of
  the 62,208 apps is a separate test of the traversal. Acceptance is
  compared for acyclic imports only: inside an import cycle the module reached
  second registers before the one reached first, which is what the code does.
  The safety properties are proved for every module tree.
* `websocket`: one push (`MaxPushes`) is enough for every race of a push with a
  connect, a reply, a disconnect and a panic; one connection reads up to two
  messages (`MaxMsgs`) so that frames of consecutive messages can be compared,
  the other only connects and leaves. The bounds limit the environment (peer and
  user code), never the framework's own steps. The safety properties are proved
  for any connections, rooms, events and bounds.
* `requests`: two requests give every race of a load, a write and a commit on one
  row, and the circle of two transactions that take two rows in opposite order;
  a pool of one makes the second wait for the first, or for the task the first
  leaked into. Two values are enough for a row to enter and leave a caller's
  scope; one ability has a grant and a denial, the other the wildcard. Of the rows,
  one starts outside what either ability covers, so that an unscoped query shows. The
  safety properties are proved for any requests, rows, rules, shapes and pool.
* `throttle`: windows of two ticks within five instants give a window, its
  successor and a stretch that straddles both; half a second per tick makes
  `Retry-After` round. Two requests in the guard (`Slots`) are enough for a stale
  clock reading to meet a newer window. `MaxHits` is one more than two windows of
  the larger limit. `RateBound`, (requests in the guard + 1) times the limit,
  is what that race allows. All four properties are proved for every value of the
  constants.
* `background`: the interval job's period fits twice into `MaxClock`, so that a run
  can miss a tick; the cron job's occurrences follow each other, so that a run can
  miss one; tasks are first polled up to `MaxStart` after they are spawned. The
  safety properties are proved for any jobs, hooks and handlers.
* `listing`: three keys and pages of one or two give a page in the middle, a cursor
  whose row is deleted, and a row that moves into or out of the caller's filter on
  either side of the cursor. `DefaultPage` and `LargestPage` stand for 20 and 100.
  `MCConditions` nests two deep (a junction of a negation of a comparison); the
  agreement of the two readings is proved for every depth, and paging for every
  table, ability and page size. Keys are bounded, so `TraversalEnds` speaks of a
  table that does not outgrow the client for ever.

Deadlock is checked in every passing run but `background` and `listing`, which end
where the program does: the boot failed or `serve` returned, the traversal is
done. In the others `Terminated` (`Quiet` in `RequestPath` and `Throttler`) is the
only stuttering step and is enabled only where the program or every task is over.

### Fairness

* `AppLifecycle`: weak fairness of `run`'s own steps and of the handler's
  installation (tokio polls a woken task; hooks and `configure` are assumed to
  return). A transport is obliged to end only once the token is cancelled, which
  is what `transport.rs` requires of implementations. No signal is promised.
* `ProviderFixpoint`, `AppBoot`: weak fairness of the step: sequential code keeps
  running, and factories resolve, Ok or Err.
* `WsGateway`: weak fairness of each connection task's own steps and of each
  writer: user code returns, and a send on the socket completes or fails. Nothing
  is assumed of the peer (it may stop sending for ever) or of services.
* `RequestPath`: weak fairness of each request's steps: the runtime polls it, user
  code returns, the database answers, resolves a circle of waiting transactions
  and hands out a connection or times out; and of `Unleak`: a detached task ends
  some day. No request is promised to arrive, and none is promised to be dropped.
* `Background`: time passes; hooks, runs and handlers end (Ok or Err); a task that
  can proceed is polled. The token's branch of `select!` has strong fairness,
  because `select!` polls its branches in random order and a job whose runs are
  always overdue would otherwise never look at the token. No cancellation and no
  panic is promised.
* `Listing`: the client asks for the next page while there is one. `Throttler` has
  no liveness property and no fairness.

### Findings

Each of these is a run in which TLC refutes what a comment or a document of the
repository says.

| run | claim | what the code does |
|---|---|---|
| `import_order` | "import order never matters" (`README.md:114`) | an optional dependency on another module resolves to None or Some depending on import order |
| `failed_mutation` | "a failed mutation never half-persists" (`nestrs-orm/interceptor.rs:8-9`) | a GraphQL operation with field errors is answered 200, so that the fields that succeeded are committed |
| `shared_window` | "at most `limit` requests per `window`, per client" (`throttle.rs:6`), with a route's own limit overriding the default | the window is per client only: a request to a route with a short window resets the count of a stricter route, which then admits more than even `BoundedRate` allows |
| `null_drift` | one AST keeps the query's rows and the response check's rows "from drifting apart" (`predicate.rs:4-6`) | under a denial on a nullable column, SQL's NOT of unknown leaves out a row that the check accepts |

The passing properties state what holds beside these: `OptionalSettled` speaks of
one module, `FailurePersistsNothing` judges a request by its status, `BoundedRate`
speaks of the routes with the shortest window, and `FilterWithinCheck` says that
the drift only ever hides rows. Five further limits of the code show in the models
as exceptions of properties rather than as runs of their own:

* a shutdown hook that panics unwinds `run` and skips the hooks behind it
  (`AppContract`'s `crashed` mode; `app.rs:125-126` promises every cleanup);
* two providers of one type name tie in the hook order, and link order decides
  (`HookOrder` compares different names only);
* a dependency nobody provides passes the build for controllers, processors and
  request-scoped providers (`WellWired` asks of them only what the build asks);
* a panic in a gateway's user code skips `disconnect`, and the dead entry keeps its
  writer (`RegistryFollowsTask` says nothing of a panicked task);
* a generated create or update answers with the row it wrote, and nothing checks
  Read on it: GraphQL shows it whole, a route reduces it to the fields permitted for
  Create or Update. An update that moves a row to a value its caller may not read
  shows the caller that row (`ReadsWithinAbility` excepts a request's own writes,
  `OwnWrite`; without the exception TLC finds the GraphQL update that does this).

`SuccessPersists` excepts a request one of whose statements failed: a handler that
hides the error and answers 200 has its COMMIT turned into a rollback by the
database. `FailurePersistsNothing` excepts a COMMIT that was not acknowledged.

## 4. What is proved

TLAPS checks the theorems of the eight `...Proofs` modules for all values of the
constants. Each rests on an inductive invariant `IInv`, which TLC was first asked
to confirm (on the instance of the module's run, for `AppBoot` on a smaller set of
apps). Every safety property a passing run checks, and every refinement, is also a
theorem.

**AppLifecycle** (assumptions: `N \in Nat`; hooks have a phase and a rank;
registered hooks are hooks. `N = 0` and empty `Hooks` are allowed.)
Type correctness, `ServeOnlyAfterInit`, `CleanupAfterStop`, `EveryCleanupRuns`,
`HookOrder`, `ResultIsHonest`, `CancelHasCause`, `FirstErrorKept` and the
refinement `SafetySpec => Contract!Spec`.

The safety properties speak of hooks, tasks and results but not of the program
point, so none but `HookOrder` says enough about the step before. `IInv` adds the
link:

* `RunningInv`: while running, hooks of earlier phases were called and of later
  ones not, called init hooks returned Ok, tasks exist exactly from `Spawn` on,
  and nothing is joined before `Join` nor left out after it;
* `ExitedInv`: `run` left either during boot, with no task ever spawned and no
  cleanup called, or after joining everything, with all cleanup called unless a
  hook panicked;
* `JoinInv`: `firstErr` is a joined transport that failed, and while it is 0
  every joined transport ended well;
* `CancelHasCause` and `HookOrder`, inductive beside these.

The refinement needs `IInv` in two places: `BeginShutdown` must map to a step that
requires every transport ended, and the last `EndPhase` to one that requires all
cleanup done.

**ProviderFixpoint** (assumptions: `P` is a positive natural; the catalogue holds
provider records.) Type correctness, `OrderIrrelevant`, `OptionalSettled`,
`RequiredPresent` and the refinement of `DependencyOrder`.

The central fact is that the loop computes the least closed set. `Forced` says
that `done` is inside every closed set: a provider built now is ready after every
larger set (`ReadyIsMonotone`), since a required key stays present and an
optional key that is neither present nor pending stays so. `RoundInv` says what a
round has learned: in a round that built nothing, the pending keys are still
exact and every visited slot is still blocked, so at its end nothing outside
`done` is ready (`StallIsClosed`) and a stall leaves `done` closed. Together:
`done` is the least closed set, whatever the order of `list`. `OptionalInv` keeps
`got` right when `have` grows later.

**Throttler** (assumptions: limits are naturals and windows positive, a second has
at least one tick, and finitely many requests are in the guard at once; any routes,
clients and origins.) Type correctness, `QuotaPerWindow`, `RetryAfterHonest`,
`WindowsElapse` and `BoundedRate`.

The quota speaks of what was admitted, the code of what it counted: `CountCovers`
says that in the current window no route was admitted more often than the window
counts hits, and that nothing was admitted in a window that has not begun yet, so
that a reset starts from zero. The latter needs `NothingAhead` (no clock reading
and no window lies ahead of the clock), as does `RetryAfterHonest`, because a
denial may be computed from a reading older than the answer. `WindowsElapse`
needs only that subtraction saturates.

`BoundedRate` is about real time, the code about clock readings that may be older.
`StretchesPaid` follows one stretch as long as the window while the clock is inside
it. A window that admits in it was current when the stretch began, or starts in it,
which happens once, or was opened by a request that had read the clock before.
Such a request leaves its slot, and nobody reads that time again: the slots freed
of old readings (`ReadFrom`) pay one limit each for the windows behind them. The
window current at the beginning needs no payment as long as nothing but it
admitted. Admissions are counted as a set of pairs, instant and number, so that
cardinality lemmas do the arithmetic and no sum has to be unrolled.

**AppBoot** (assumptions: `AppAssumption`, an app has the record type of the
module's header and `App::new` takes neither seeds nor factories; `OneDeclaration`,
a provider is declared once, by one module. Nothing in the code checks the latter:
a second declaration replaces the instance of the first, and the build then judges
the second.) Type correctness, `FactoryRunsOnce`, `RegisteredOnce` and
`AcceptsExactlyWellWired`.

`WellWired` reads the import graph, the code walks it twice, recursively, with a set
of marks. `WalkInv` says what the recursion knows: its stack is a path of the import
graph without repetition, and whatever is marked and no longer on the stack has had
all its imports visited. With an empty stack the marked modules are closed under
imports, so they are exactly those the roots reach (`VisitedAll`, `WalkedAll`).
`FactoryInv` carries the keys from the queue into the container. `RegisterInv` says
that the container holds the infrastructure and what the registered modules
provide, and that where imports have no cycle a module registers after everything it
imports (`ImportsDone`): the path property of the stack makes an import that is
marked but unfinished a cycle. Three lemmas compare the outcome: a loop that builds
all its providers found no cycle among them (`BuiltIsAcyclic`), one that gets stuck
shows the app ill wired (`StuckIsIllWired`), and validation of a registered app
accepts exactly the well-wired (`ValidationIsExact`).

**WsGateway** (assumption `WsAssumption`: finitely many connections, a service is
not one of them, bounds and guard counts are naturals, `NoId` is no number.)
Type correctness, `IdNamesOneSocket`, `RegistryFollowsTask`, `AcceptedIsFlushed` and
`OwnFramesInOrder`.

An id is drawn before the entry is inserted, and other tasks run in between;
`RegistryInv` therefore speaks of ids from the moment they are drawn: below `next`,
pairwise different, and in the registry with the rooms joined as long as the task is
between insertion and disconnect. `WriterInv` is what makes flushing last to the
end: a writer ends by itself only with an empty queue and after its task has let go
of the outbox. The order of frames is a matter of what a frame sent earlier bears:
`StampInv` bounds the message number of everything in the outbox's history by the
messages read so far, strictly for answers while the current message is still being
handled, so that the next frame can be appended behind all of them.

**Background** (assumptions: `TriggerAssumption`, an interval is positive;
`BusAssumption`, every handler is discovered once; `BackgroundAssumption`, the
bus is wired by exactly one hook; `NoEmitCycle`, which no proof uses.)
Type correctness, `NoBurst`, `NoOccurrenceMissed`, `ServeReturnsLast` and
`EveryHandlerOnce`.

`DueInv` says that what a task waits for lies on its schedule and in a later slot than
every run it began; `NextTickSkips` is the arithmetic of the skipped ticks, from the
definition of division. `NoOccurrenceMissed` is inductive: a wait begins with the
least occurrence ahead (`NextDelayIsNext`), and time only shortens what is ahead.
`TaskInv` orders boot, tasks and shutdown. `BusInv` says that
the registry is empty until it is wired and complete from then on, and that the
handlers an emission has called, followed by those it has still to call, are the
list its event has. That the wiring, a fold over the discovered handlers, gives
each event its handlers in order is proved by taking the least position at which it
does not (`LeastNat`), since induction schemes are out of the prover's reach.

**RequestPath** (assumption `RequestAssumption`: requests, rows and values are
finite sets; a request's shape has the declared type and makes at least one call; a
GraphQL operation is a POST; a handler of a safe method writes nothing, which the
framework leaves to the developer.) Type correctness, `SuccessPersists`,
`FailurePersistsNothing`, `ReadsWithinAbility`, `AnonymousGraphqlClosed`, the action
property `ScopedWrites` and the refinement of `AtomicRequests`.

A step belongs to one request and leaves what others own alone (`OthersSame`), so
most of `IInv` is stated per request: `TxnInv` ties the life of the transaction to
the place of the request, `ResultInv` the status to the commit, `HandlerInv` what was
read and written to the gates passed, `MaskInv` what is left of it behind a route's
mask. A row in the answer passed the Read check when it was loaded or is one the
request wrote (`OwnWrite`, which later writes keep: `WritesGrow`). `LockInv` alone relates two requests: the
committed row under a written one is still the row its first write found, because
nobody else can write it before the transaction ends. `ScopedWrites` needs just
that: the filter was evaluated at the write, the property speaks of the row the
commit replaces. `FilterIsCheck` shows that the query filter `condition_for` and the
instance check `can` select the same rows for every set of rules, and
`GateIsNecessary` that whatever passes the check passes the class gate.

For the refinement, `SeenOfOne` reduces a step to what the contract sees of one
request. The layers are stutters (`LayersUnseen`); a write is a `Prepare`, whose
exclusion is the row lock; `EffectIsCommit` says that what the contract applies is
what COMMIT applies. `IInv` is needed where a request ends: one that leaves without
a commit has an error's status or no transaction (`ConcludeSeen`), and one whose
doomed COMMIT applies nothing has a failed statement (`CommitSeen`).

**Predicates, Listing** (assumptions: `PredicateAssumption`, the parts of a condition
are conditions and less deep; `ListingAssumption`, keys are numbers from 1 on, rules
are made of conditions, and the default page size is between 1 and the largest.) Type
correctness, `StableRowsOnce` and `FilterWithinCheck`, and of the predicates
`CertainAgrees`: where SQL's answer is not unknown, it is the answer of `matches`;
`NullFreeCertain`: without a NULL in the row or the predicate it never is.

Both readings of a predicate are recursive functions. That each satisfies its
defining equation (`PredicateRecursion`), and induction over predicates
(`PredicateInduction`), are proved here from the least depth at which they would
fail, because the library's induction theorems cannot be instantiated by the
installed provers. `FilterSound` lifts the agreement to an ability's grants and
denials: a selected row always passes the check, so that the mask drops nothing.
Paging rests on `UpToCursor`: until the last page, the client has every steady row
up to its cursor and nothing beyond it. `LowestDownward` and `LowestCount` say what
cutting to a limit does: what is kept lies below what is cut, and a cut page is
full.

**Only model-checked**: all liveness (`CancelEndsRun`, `FailureEndsRun`,
`Terminates`, `BuildEnds`, `LeavingConnectionEnds`, `EveryRequestEnds`,
`KeepsSchedule`, `CancelEndsServe`, `TraversalEnds`), since fairness and ENABLED are
beyond the prover.

## 5. What is not modelled, and why

* `AppBoot` abstracts the container to its key set: values, metadata and `get`
  decide nothing in the build. Factories do not depend on each other. A dynamic
  module's `register` adds nothing; the ORM module's registration of a job
  context is left out. One provider per key and module.
* `WsGateway` has one namespace (namespaces share nothing) and no ambient socket
  context. Outboxes are unbounded in the code and in the model; `MaxPushes` and
  `MaxMsgs` bound what is put into them. Frame contents are abstracted to sender,
  message and kind.
* `AppLifecycle` has no bound on how long a transport may take to stop, as the
  code has none.
* `RequestPath` has one table and rows without NULL, so that a rule's SQL condition
  and its in-memory match agree (`Predicates` treats NULL). A response is the set of
  rows in it. Grants are of every field there, so that an object's mask shows all of
  it or nothing; field masks and pages are in `Listing`. What a developer's handler
  returns beside the rows of its calls is left out. A GraphQL operation goes on with
  the next field after an error; a serial mutation may stop there, which is the case
  of an operation with fewer fields. In `failed_mutation` the last field is the one
  refused, so that either way leads there.
  The query and write filters are those of `Repo`; a handler that drives the
  executor by hand (`Repo::conn`) is not scoped by the framework and not modelled.
  A leaked task holds its clone but issues no statements.
* `Throttler`: a window of no length is left out (it limits nothing), counts do not
  overflow 32 bits, keys are never evicted (as in the code), addresses are parsed.
* `Background`: the wall clock that cron reads and the monotonic clock that sleeps
  are one clock, and a tick is longer than tokio's 5 ms leeway. `NoEmitCycle`
  assumes that no handler emits, directly or through others, the event it handles.
  `App::init` followed by `run` on one container, which would wire the bus twice, is
  left out. Jobs run without a database context.
* `Predicates`: a column and the values it is compared with have one variant. In
  memory `Value` equality is strict about variants (`Int` is not `BigInt`,
  `predicate.rs:53`) while SQL compares the numbers: a rule that mixes them is left
  out.
* `Listing`: one column and one client; an unparsable cursor, which starts over, is
  left out; the output type serializes to what the entity's model deserializes. A
  key that commits after the cursor has passed it is missed, as with any keyset
  page; `StableRowsOnce` speaks of rows that were readable from the start.
* Queue worker: job storage, retries and acknowledgement live in apalis and Redis;
  what is left is a fail-fast `configure` and a `serve` that idles without
  processors. The request scope is one lock around a factory that sees the root
  container only.
* The swagger-ui scripts under `crates/nestrs-openapi/assets` are vendored
  third-party files, served as they are; they hold none of this program's logic.
* OpenAPI documents, configuration loading, telemetry set-up, pipes and the
  compile-time macros convert data or rewrite tokens without shared state.
  Signature checking, HTTP serving, job storage and SQL execution belong to other
  libraries.

## 6. Plan

Done: the run loop, the registration loop, the build, the WebSocket gateway, the
request path and its atomic contract, the throttler, background work, predicates and
paging; proofs of all their safety properties. Next:

1. **Rest of the pipeline**: the OAuth login flow, batched loaders, the ambient
   ability of a WebSocket, the worker's database context.
