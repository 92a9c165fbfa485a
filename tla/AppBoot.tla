-------------------------------- MODULE AppBoot -------------------------------
(***************************************************************************)
(* Building an app: `App::new` and `AppBuilder::build`                     *)
(* (nestrs-core/src/app.rs), the `register` / `collect` functions          *)
(* `#[module]` generates (nestrs-macros/src/module.rs), the builder's      *)
(* key set (nestrs-core/src/container.rs) and the access-graph checks      *)
(* (nestrs-core/src/access.rs).                                            *)
(*                                                                         *)
(* The phases are: collect (depth-first over the imports, queueing async   *)
(* factories), factories, register (depth-first again; each module's       *)
(* providers after its imports), overrides, validation.                    *)
(*                                                                         *)
(* One module's own registration loop is a single step here: it builds the *)
(* providers that can be built, whatever order they are written in, which  *)
(* ProviderFixpoint shows of the generated loop.                           *)
(*                                                                         *)
(* An app is a record:                                                     *)
(*   builder    made with App::builder (TRUE) or App::new (FALSE)          *)
(*   roots      the modules passed to `.module`, in order                  *)
(*   imports    per module, its `imports = [...]`: modules, and dynamic    *)
(*              modules given by the container key of the factory their    *)
(*              `collect` queues                                           *)
(*   providers  per module, its `providers = [...]`, at most one per key   *)
(*   seeds      keys provided on the AppBuilder                            *)
(*   factories  keys of the factories queued on the AppBuilder, in order   *)
(*   overrides  keys given to override_value / override_dyn                *)
(*   resolvers  keys of the #[resolver]s linked into the binary            *)
(***************************************************************************)
EXTENDS Naturals, Sequences, FiniteSets, SequencesExt

CONSTANTS Modules, Keys, Apps

Provider == [key : Keys, kind : {"eager", "lazy", "scoped"}, req : SUBSET Keys, opt : SUBSET Keys]

(* App::new takes neither seeds nor factories.                             *)
IsApp(a) ==
    /\ a.builder \in BOOLEAN
    /\ a.roots \in Seq(Modules)
    /\ a.imports \in [Modules -> Seq(Modules \union Keys)]
    /\ a.providers \in [Modules -> SUBSET Provider]
    /\ a.seeds \subseteq Keys /\ a.factories \in Seq(Keys)
    /\ a.overrides \subseteq Keys /\ a.resolvers \subseteq Keys
    /\ ~a.builder => a.seeds = {} /\ a.factories = <<>>

ASSUME AppAssumption == \A a \in Apps : IsApp(a)

(* A provider is declared once, by one module.  Nothing checks this: a     *)
(* second declaration replaces the instance the first one registered.      *)
ASSUME OneDeclaration ==
    \A a \in Apps : \A m, n \in Modules :
        \A p \in a.providers[m], q \in a.providers[n] : p.key = q.key => m = n /\ p = q

VARIABLES
    app,         \* the app being built, fixed
    phase,       \* "collect" | "factories" | "register" | "validate" | "done"
    root,        \* how many roots the current phase has visited
    stack,       \* the active register/collect calls: frames [mod, next import]
    marked,      \* collected_modules in the collect phase, then registered_modules
    queue,       \* ContainerBuilder.factories
    ran,         \* keys of the factories awaited so far, in order
    have,        \* keys in ContainerBuilder.providers
    global,      \* provider_ids() taken before the register phase
    completed,   \* modules whose providers are registered, in order
    got,         \* <<module, provider key, optional key>>: optional found present
    result       \* "building" | "ok" | "factory" | "panic" | "access" | "resolver"

vars == <<app, phase, root, stack, marked, queue, ran, have, global, completed, got, result>>

Eager(p) == p.kind = "eager"

(***************************************************************************)
(* Provider records: key, kind ("eager": built by `register` into the      *)
(* container; "lazy": built later from the final container; "scoped":      *)
(* built per request), req (#[inject] keys) and opt (optional ones).       *)
(* `Discoverable::dependencies` is empty unless the provider is eager;     *)
(* `Discoverable::injected` is always req.                                 *)
(***************************************************************************)
dependencies(p) == IF Eager(p) THEN p.req ELSE {}

optional_dependencies(p) == IF Eager(p) THEN p.opt ELSE {}

injected(p) == p.req

Provides(S) == {p.key : p \in {q \in S : Eager(q)}}

IsModule(import) == import \in Modules

Init ==
    /\ app \in Apps
    /\ phase = IF app.builder THEN "collect" ELSE "register"
    /\ root = 0
    /\ stack = <<>>
    /\ marked = {}
    /\ queue = app.factories
    /\ ran = <<>>
    /\ have = app.seeds
    /\ global = {}
    /\ completed = <<>>
    /\ got = {}
    /\ result = "building"

Top == stack[Len(stack)]

Advance == [stack EXCEPT ![Len(stack)].next = @ + 1]

Fail(why) == result' = why /\ phase' = "done"

-------------------------------------------------------------------------------
(***************************************************************************)
(* The recursion shared by the collect and register phases.                *)
(***************************************************************************)
Walking == phase \in {"collect", "register"}

\* mark_collected / mark_registered: TRUE the first time only.
VisitRoot ==
    /\ Walking
    /\ stack = <<>>
    /\ root < Len(app.roots)
    /\ root' = root + 1
    /\ LET m == app.roots[root + 1] IN
          IF m \in marked
          THEN UNCHANGED <<stack, marked>>
          ELSE /\ stack' = <<[mod |-> m, next |-> 1]>>
               /\ marked' = marked \union {m}
    /\ UNCHANGED <<app, phase, queue, ran, have, global, completed, got, result>>

ImportsLeft == stack # <<>> /\ Top.next <= Len(app.imports[Top.mod])

ThisImport == app.imports[Top.mod][Top.next]

\* Fault: a module is skipped only while it is being visited.
VisitUnlessActive ==
    /\ Walking
    /\ ImportsLeft
    /\ IsModule(ThisImport)
    /\ IF \E i \in DOMAIN stack : stack[i].mod = ThisImport
       THEN stack' = Advance /\ UNCHANGED marked
       ELSE /\ stack' = Append(Advance, [mod |-> ThisImport, next |-> 1])
            /\ marked' = marked \union {ThisImport}
    /\ UNCHANGED <<app, phase, root, queue, ran, have, global, completed, got, result>>

VisitModule ==
    /\ Walking
    /\ ImportsLeft
    /\ IsModule(ThisImport)
    /\ IF ThisImport \in marked
       THEN stack' = Advance /\ UNCHANGED marked
       ELSE /\ stack' = Append(Advance, [mod |-> ThisImport, next |-> 1])
            /\ marked' = marked \union {ThisImport}
    /\ UNCHANGED <<app, phase, root, queue, ran, have, global, completed, got, result>>

(***************************************************************************)
(* A dynamic module: its `collect` queues a factory every time it is       *)
(* imported; its `register` adds nothing injectable.                       *)
(***************************************************************************)
VisitDynamic ==
    /\ Walking
    /\ ImportsLeft
    /\ ~IsModule(ThisImport)
    /\ stack' = Advance
    /\ queue' = IF phase = "collect" THEN Append(queue, ThisImport) ELSE queue
    /\ UNCHANGED <<app, phase, root, marked, ran, have, global, completed, got, result>>

LeaveCollect ==
    /\ phase = "collect"
    /\ stack # <<>> /\ ~ImportsLeft
    /\ stack' = Front(stack)
    /\ UNCHANGED <<app, phase, root, marked, queue, ran, have, global, completed, got, result>>

(***************************************************************************)
(* The module's own providers: see ProviderFixpoint.                       *)
(***************************************************************************)
ReadyAfter(p, S, all) ==
    LET present == have \union Provides(S) IN
    /\ dependencies(p) \subseteq present
    /\ \A k \in optional_dependencies(p) : k \in present \/ \A q \in all \ S : q.key # k

Buildable(all) ==
    {p \in all : \A S \in SUBSET all : (\A q \in all : ReadyAfter(q, S, all) => q \in S) => p \in S}

RegisterProviders ==
    /\ phase = "register"
    /\ stack # <<>> /\ ~ImportsLeft
    /\ LET m   == Top.mod
           all == app.providers[m]
       IN  IF Buildable(all) = all
           THEN /\ have' = have \union Provides(all)
                /\ got' = got \union UNION {{<<m, p.key, k>> : k \in optional_dependencies(p) \intersect have'}
                                              : p \in all}
                /\ completed' = Append(completed, m)
                /\ stack' = Front(stack)
                /\ UNCHANGED <<phase, result>>
           ELSE Fail("panic") /\ UNCHANGED <<have, got, completed, stack>>
    /\ UNCHANGED <<app, root, marked, queue, ran, global>>

Walked == stack = <<>> /\ root = Len(app.roots)

-------------------------------------------------------------------------------
(***************************************************************************)
(* The factory phase.                                                      *)
(***************************************************************************)
BeginFactories ==
    /\ phase = "collect"
    /\ Walked
    /\ phase' = "factories"
    /\ UNCHANGED <<app, root, stack, marked, queue, ran, have, global, completed, got, result>>

\* Fault: a key already present does not skip the factory.
RunFactoryAlways(succeeds) ==
    /\ phase = "factories"
    /\ queue # <<>>
    /\ ran' = Append(ran, Head(queue))
    /\ IF succeeds
       THEN /\ queue' = Tail(queue)
            /\ have' = have \union {Head(queue)}
            /\ UNCHANGED <<phase, result>>
       ELSE Fail("factory") /\ UNCHANGED <<queue, have>>
    /\ UNCHANGED <<app, root, stack, marked, global, completed, got>>

\* Fault: a skipped factory is not taken off the queue.
RunFactoryStuck(succeeds) ==
    /\ phase = "factories"
    /\ queue # <<>>
    /\ IF Head(queue) \in have
       THEN UNCHANGED <<queue, ran, have, phase, result>>
       ELSE /\ ran' = Append(ran, Head(queue))
            /\ IF succeeds
               THEN /\ queue' = Tail(queue)
                    /\ have' = have \union {Head(queue)}
                    /\ UNCHANGED <<phase, result>>
               ELSE Fail("factory") /\ UNCHANGED <<queue, have>>
    /\ UNCHANGED <<app, root, stack, marked, global, completed, got>>

\* A key already present (a seed's, or an earlier factory's) skips the factory;
\* a factory error ends the build.
RunFactory(succeeds) ==
    /\ phase = "factories"
    /\ queue # <<>>
    /\ IF Head(queue) \in have
       THEN queue' = Tail(queue) /\ UNCHANGED <<ran, have, phase, result>>
       ELSE /\ ran' = Append(ran, Head(queue))
            /\ IF succeeds
               THEN /\ queue' = Tail(queue)
                    /\ have' = have \union {Head(queue)}
                    /\ UNCHANGED <<phase, result>>
               ELSE Fail("factory") /\ UNCHANGED <<queue, have>>
    /\ UNCHANGED <<app, root, stack, marked, global, completed, got>>

BeginRegister ==
    /\ phase = "factories"
    /\ queue = <<>>
    /\ global' = have
    /\ phase' = "register"
    /\ root' = 0
    /\ marked' = {}
    /\ UNCHANGED <<app, stack, queue, ran, have, completed, got, result>>

Override ==
    /\ phase = "register"
    /\ Walked
    /\ have' = have \union app.overrides
    /\ phase' = "validate"
    /\ UNCHANGED <<app, root, stack, marked, queue, ran, global, completed, got, result>>

-------------------------------------------------------------------------------
(***************************************************************************)
(* access.rs.  Every module of `Modules` is linked into the binary and has *)
(* a descriptor; dynamic imports are not in it.                            *)
(***************************************************************************)
StaticImports(m) == {i \in ToSet(app.imports[m]) : IsModule(i)}

\* The modules reached from `from`: the smallest set that holds `from` and the
\* imports of its members.
reachable(from) ==
    {m \in Modules :
        \A S \in SUBSET Modules :
            from \subseteq S /\ (\A x \in S : StaticImports(x) \subseteq S) => m \in S}

Roots == ToSet(app.roots)

Declared(S) == {p.key : p \in UNION {app.providers[m] : m \in S}}

\* Fault: visibility is judged from the roots, not from the provider's module.
AccessFromRoots(m, p, d) ==
    /\ d \in injected(p)
    /\ d \notin global
    /\ d \notin Declared(reachable(Roots))
    /\ d \in Declared(Modules)

AccessViolation(m, p, d) ==
    /\ d \in injected(p)
    /\ d \notin global
    /\ d \notin Declared(reachable({m}))
    /\ d \in Declared(Modules)

validate_access_graph ==
    \A m \in reachable(Roots) : \A p \in app.providers[m] : \A d \in Keys :
        ~AccessViolation(m, p, d)

validate_resolver_membership == app.resolvers \subseteq Declared(reachable(Roots))

Validate ==
    /\ phase = "validate"
    /\ IF ~validate_access_graph THEN Fail("access")
       ELSE IF ~validate_resolver_membership THEN Fail("resolver")
       ELSE Fail("ok")
    /\ UNCHANGED <<app, root, stack, marked, queue, ran, have, global, completed, got>>

-------------------------------------------------------------------------------
Step ==
    \/ VisitRoot \/ VisitModule \/ VisitDynamic
    \/ LeaveCollect \/ BeginFactories
    \/ \E s \in BOOLEAN : RunFactory(s)
    \/ BeginRegister \/ RegisterProviders \/ Override \/ Validate

Terminated == phase = "done" /\ UNCHANGED vars

Next == Step \/ Terminated

\* `build` is sequential code that keeps running; its factories resolve.
Spec == Init /\ [][Next]_vars /\ WF_vars(Step)

-------------------------------------------------------------------------------
(***************************************************************************)
(* Properties                                                              *)
(***************************************************************************)
TypeOK ==
    /\ app \in Apps
    /\ phase \in {"collect", "factories", "register", "validate", "done"}
    /\ root \in 0..Len(app.roots)
    /\ stack \in Seq([mod : Modules, next : Nat \ {0}])
    /\ marked \subseteq Modules
    /\ queue \in Seq(Keys) /\ ran \in Seq(Keys)
    /\ have \subseteq Keys /\ global \subseteq Keys
    /\ completed \in Seq(Modules)
    /\ result \in {"building", "ok", "factory", "panic", "access", "resolver"}

Acyclic == \A m \in Modules : \A x \in StaticImports(m) : m \notin reachable({x})

(***************************************************************************)
(* The reference: which apps are wired correctly, read off the module tree *)
(* with no phases, no traversal and no import order.                       *)
(***************************************************************************)
FactoryKeys ==
    ToSet(app.factories) \union
    {i \in UNION {ToSet(app.imports[m]) : m \in reachable(Roots)} : ~IsModule(i)}

Infrastructure == IF app.builder THEN app.seeds \union FactoryKeys ELSE {}

Visible(m) == Infrastructure \union Provides(UNION {app.providers[x] : x \in reachable({m})})

Waits(p, q) == q.key \in dependencies(p) \union optional_dependencies(p)

\* No group of a module's eager providers each waits for another of the group.
NoCycle(m) ==
    \A S \in (SUBSET app.providers[m]) \ {{}} :
        \E p \in S : \A q \in S : ~Waits(p, q) \/ q.key \in Infrastructure

WellWired ==
    /\ \A m \in reachable(Roots) : NoCycle(m)
    /\ \A m \in reachable(Roots) : \A p \in app.providers[m] :
          IF Eager(p)
          THEN p.req \subseteq Visible(m)
          ELSE \A d \in p.req :
                  d \in Infrastructure \union Declared(reachable({m})) \/ d \notin Declared(Modules)
    /\ app.resolvers \subseteq Declared(reachable(Roots))

\* For modules that do not import each other in a cycle, the build accepts
\* exactly the well-wired apps: the outcome depends on the import graph and not
\* on the order of imports or roots, a dependency that only an unimported module
\* provides is refused even when that module happened to register first, and
\* nothing correct is refused (access.rs:13-21, README.md:114).
AcceptsExactlyWellWired ==
    phase = "done" /\ result # "factory" /\ Acyclic => (result = "ok" <=> WellWired)

\* A module imported along several paths, or in a cycle, registers its providers
\* once, and an accepted app has registered every module it reaches
\* (module.rs:245-253).
RegisteredOnce ==
    /\ IsInjective(completed)
    /\ result = "ok" => ToSet(completed) = reachable(Roots)

\* A resource is built at most once however many times its module is imported,
\* and never when a seed supplies it (app.rs:295-307).
FactoryRunsOnce ==
    /\ IsInjective(ran)
    /\ ToSet(ran) \intersect app.seeds = {}

\* The build ends, module cycles included.
BuildEnds == <>(phase = "done")

\* README.md:114 "import order never matters": what an accepted app's provider
\* was given for an optional dependency is what the container holds, not what
\* it held when the provider's module happened to register.
ImportOrderIrrelevant ==
    result = "ok" =>
        \A m \in reachable(Roots) : \A p \in app.providers[m] :
            \A k \in optional_dependencies(p) \intersect have :
                <<m, p.key, k>> \in got

-------------------------------------------------------------------------------
(***************************************************************************)
(* The inductive invariant behind the safety properties.                   *)
(***************************************************************************)
Active == {stack[i].mod : i \in DOMAIN stack}

(* The first n imports of m have been visited in this phase.               *)
Visited(m, n) ==
    \A i \in 1..n : LET x == app.imports[m][i] IN
        IF IsModule(x) THEN x \in marked ELSE phase = "collect" => x \in ToSet(queue)

(* The recursion is on a path of the import graph, and what it has marked  *)
(* and left again is complete.                                             *)
WalkInv ==
    /\ marked \subseteq reachable(Roots)
    /\ \A i \in 1..root : app.roots[i] \in marked
    /\ \A i \in DOMAIN stack :
          /\ stack[i].mod \in marked
          /\ stack[i].next <= Len(app.imports[stack[i].mod]) + 1
          /\ Visited(stack[i].mod, stack[i].next - 1)
    /\ \A i, k \in DOMAIN stack :
          /\ stack[i].mod = stack[k].mod => i = k
          /\ i <= k => stack[k].mod \in reachable({stack[i].mod})
    /\ \A m \in marked \ Active : Visited(m, Len(app.imports[m]))

(* A phase ends with every root visited and every call returned.           *)
WalkedInv ==
    phase \in {"factories", "validate"} \/ result \in {"ok", "access", "resolver"} => Walked

(* What was queued, or built from the queue, is the app's factories.       *)
FactoryInv ==
    /\ app.seeds \subseteq have
    /\ phase # "done" => ToSet(ran) \subseteq have
    /\ phase \in {"collect", "factories"} => app.builder
    /\ phase = "collect" =>
          /\ have = app.seeds
          /\ ToSet(app.factories) \subseteq ToSet(queue) /\ ToSet(queue) \subseteq FactoryKeys
    /\ phase = "factories" => have \union ToSet(queue) = app.seeds \union FactoryKeys

Registering == phase \in {"register", "validate", "done"} /\ result # "factory"

ProvidedBy(S) == Provides(UNION {app.providers[m] : m \in S})

(* The container holds the infrastructure and what the modules done with   *)
(* provide, and those modules had all they need.                           *)
RegisterInv ==
    /\ IsInjective(completed)
    /\ phase = "done" <=> result # "building"
    /\ IF Registering
       THEN /\ global = Infrastructure
            /\ marked = ToSet(completed) \union Active /\ ToSet(completed) \intersect Active = {}
            /\ phase = "register" => have = Infrastructure \union ProvidedBy(ToSet(completed))
            /\ \A m \in ToSet(completed) :
                  /\ NoCycle(m)
                  /\ \A p \in app.providers[m] :
                        dependencies(p) \subseteq Infrastructure \union ProvidedBy(ToSet(completed))
            /\ Acyclic => \A m \in ToSet(completed) : StaticImports(m) \subseteq ToSet(completed)
       ELSE completed = <<>>

IInv ==
    /\ TypeOK
    /\ WalkInv
    /\ WalkedInv
    /\ FactoryInv
    /\ RegisterInv
    /\ FactoryRunsOnce
    /\ AcceptsExactlyWellWired
===============================================================================
