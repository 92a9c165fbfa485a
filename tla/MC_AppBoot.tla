------------------------------ MODULE MC_AppBoot ------------------------------
(***************************************************************************)
(* Apps for TLC: a root module and two feature modules, with a service, a  *)
(* repository and a controller placed among them in every way, and the     *)
(* imports in every shape (chain, diamond, both orders, missing, cyclic).  *)
(* Each provider key is declared by at most one module.                    *)
(***************************************************************************)
EXTENDS AppBoot

MCModules == {"root", "a", "b"}

MCKeys == {"svc", "repo", "ctl", "pool"}

Injects(k, kind, req, opt) == [key |-> k, kind |-> kind, req |-> req, opt |-> opt]

Services ==
    {Injects("svc", "eager", {}, {}), Injects("svc", "eager", {"repo"}, {}),
     Injects("svc", "eager", {"pool"}, {}), Injects("svc", "eager", {}, {"repo"})}

Repositories ==
    {Injects("repo", "eager", {}, {}), Injects("repo", "eager", {"svc"}, {}),
     Injects("repo", "eager", {}, {"svc"})}

Controllers ==
    {Injects("ctl", "lazy", {"svc"}, {}), Injects("ctl", "scoped", {"repo"}, {}),
     Injects("ctl", "lazy", {"pool"}, {})}

ImportShapes ==
    {[root |-> r, a |-> a, b |-> b] :
        r \in {<<"a">>, <<"a", "b">>, <<"b", "a">>, <<"pool", "a", "b">>},
        a \in {<<>>, <<"b">>, <<"pool">>},
        b \in {<<>>, <<"pool">>, <<"a">>}}

Placement(s, r, c, svc, repo, ctl) ==
    [m \in MCModules |->
        (IF s = m THEN {svc} ELSE {}) \union (IF r = m THEN {repo} ELSE {})
            \union (IF c = m THEN {ctl} ELSE {})]

Places == [s : {"root", "a"}, r : {"a", "b", "none"}, c : {"root", "b"}]

\* How the app is started: App::new; the builder; the builder with a second
\* root module and a factory for the pool of its own; the builder with the pool
\* seeded and the controller (as a resolver) linked.
Starts ==
    {[builder |-> FALSE, roots |-> <<"root">>, seeds |-> {},       factories |-> <<>>,       resolvers |-> {}],
     [builder |-> TRUE,  roots |-> <<"root">>, seeds |-> {},       factories |-> <<>>,       resolvers |-> {}],
     [builder |-> TRUE,  roots |-> <<"b", "root">>, seeds |-> {},  factories |-> <<"pool">>, resolvers |-> {}],
     [builder |-> TRUE,  roots |-> <<"root">>, seeds |-> {"pool"}, factories |-> <<>>,       resolvers |-> {"ctl"}]}

MCApps ==
    {[builder   |-> start.builder,
      roots     |-> start.roots,
      imports   |-> imports,
      providers |-> Placement(at.s, at.r, at.c, svc, repo, ctl),
      seeds     |-> start.seeds,
      factories |-> start.factories,
      overrides |-> IF start.builder THEN {"svc"} ELSE {},
      resolvers |-> start.resolvers] :
        start \in Starts, imports \in ImportShapes, at \in Places,
        svc \in Services, repo \in Repositories, ctl \in Controllers}

\* One app in two writings that differ in the order of the root's imports only:
\* `svc`, in module a, takes `repo`, in module b, optionally.
SwapApps ==
    {[builder   |-> TRUE,
      roots     |-> <<"root">>,
      imports   |-> [root |-> order, a |-> <<>>, b |-> <<>>],
      providers |-> Placement("a", "b", "root", Injects("svc", "eager", {}, {"repo"}),
                              Injects("repo", "eager", {}, {}), Injects("ctl", "lazy", {}, {})),
      seeds     |-> {},
      factories |-> <<>>,
      overrides |-> {},
      resolvers |-> {}] : order \in {<<"a", "b">>, <<"b", "a">>}}

===============================================================================
