--------------------------- MODULE ProviderFixpoint ---------------------------
(***************************************************************************)
(* The registration loop `#[module]` generates for one module's            *)
(* `providers = [...]` (nestrs-macros/src/module.rs), run after the        *)
(* module's imports have registered.                                       *)
(*                                                                         *)
(* The loop makes rounds over the written list.  A round first collects    *)
(* the keys of the providers still to build, then visits each provider in  *)
(* order and builds it if its dependencies allow.  A round that leaves     *)
(* nothing pending ends the loop; a round that builds nothing panics, and  *)
(* says whether a provider is missing or the providers form a cycle.       *)
(*                                                                         *)
(* A provider is what `Discoverable` reports of it: the container key it   *)
(* is listed under, whether registering it puts that key into the          *)
(* container (an eager #[injectable] or a `dyn` binding does; a            *)
(* controller, a job or a request-scoped provider does not), and its       *)
(* required and optional dependency keys.                                  *)
(***************************************************************************)
EXTENDS Naturals

CONSTANTS
    P,         \* how many providers the module lists
    Keys,      \* container keys (TypeIds)
    Catalog,   \* the providers a module may list
    Before     \* the container's possible key sets when the loop starts

Slots == 1..P

Provider == [key : Keys, provides : BOOLEAN, req : SUBSET Keys, opt : SUBSET Keys]

ASSUME PAssumption == P \in Nat \ {0}
ASSUME CatalogAssumption == Catalog \subseteq Provider /\ Before \subseteq SUBSET Keys

VARIABLES
    list,         \* the module's providers in written order
    before,       \* the container's keys when the loop started
    have,         \* the container's keys now
    done,         \* __done: slots already built
    got,          \* the optional keys each built provider found present
    at,           \* 0: round about to start; 1..P: slot visited; P+1: round over
    pendingKeys,  \* __pending_keys
    waiting,      \* slots this round left pending  (__any_pending: not empty)
    builtNow,     \* slots this round built         (__progressed: not empty)
    status        \* "running" | "ok" | "unprovided" | "cycle" (the two panics)

vars == <<list, before, have, done, got, at, pendingKeys, waiting, builtNow, status>>

TypeOK ==
    /\ list \in [Slots -> Catalog]
    /\ before \in Before
    /\ have \subseteq Keys
    /\ done \subseteq Slots
    /\ got \in [Slots -> SUBSET Keys]
    /\ at \in 0..(P + 1)
    /\ pendingKeys \subseteq Keys
    /\ waiting \subseteq Slots
    /\ builtNow \subseteq Slots
    /\ status \in {"running", "ok", "unprovided", "cycle"}

Init ==
    /\ list \in [Slots -> Catalog]
    /\ before \in Before
    /\ have = before
    /\ done = {}
    /\ got = [i \in Slots |-> {}]
    /\ at = 0
    /\ pendingKeys = {}
    /\ waiting = {}
    /\ builtNow = {}
    /\ status = "running"

\* Fault: the pending keys are collected in the first round only.
StartRoundStale ==
    /\ status = "running"
    /\ at = 0
    /\ at' = 1
    /\ pendingKeys' = IF done = {} THEN {list[i].key : i \in Slots} ELSE pendingKeys
    /\ waiting' = {}
    /\ builtNow' = {}
    /\ UNCHANGED <<list, before, have, done, got, status>>

StartRound ==
    /\ status = "running"
    /\ at = 0
    /\ at' = 1
    /\ pendingKeys' = {list[i].key : i \in Slots \ done}
    /\ waiting' = {}
    /\ builtNow' = {}
    /\ UNCHANGED <<list, before, have, done, got, status>>

RequiredReady(i) == list[i].req \subseteq have

\* Fault: optional dependencies are not waited for.
OptionalIgnored(i) == i \in Slots

OptionalReady(i) == \A k \in list[i].opt : k \in have \/ k \notin pendingKeys

SkipDone ==
    /\ at \in Slots
    /\ at \in done
    /\ at' = at + 1
    /\ UNCHANGED <<list, before, have, done, got, pendingKeys, waiting, builtNow, status>>

(***************************************************************************)
(* #register_action: from_container over a snapshot, then provide.         *)
(***************************************************************************)
Build ==
    /\ at \in Slots
    /\ at \notin done
    /\ RequiredReady(at)
    /\ OptionalReady(at)
    /\ have' = IF list[at].provides THEN have \union {list[at].key} ELSE have
    /\ got' = [got EXCEPT ![at] = list[at].opt \intersect have]
    /\ done' = done \union {at}
    /\ builtNow' = builtNow \union {at}
    /\ at' = at + 1
    /\ UNCHANGED <<list, before, pendingKeys, waiting, status>>

LeavePending ==
    /\ at \in Slots
    /\ at \notin done
    /\ ~(RequiredReady(at) /\ OptionalReady(at))
    /\ waiting' = waiting \union {at}
    /\ at' = at + 1
    /\ UNCHANGED <<list, before, have, done, got, pendingKeys, builtNow, status>>

(***************************************************************************)
(* The stall classification: cyclic when a provider still lacks something  *)
(* and all it lacks is a pending provider's key.                           *)
(***************************************************************************)
Missing(i) == list[i].req \ have

Cyclic(i) == Missing(i) # {} /\ Missing(i) \subseteq pendingKeys

Stalled == IF \E i \in Slots \ done : ~Cyclic(i) THEN "unprovided" ELSE "cycle"

\* Fault: one round only; whatever it left pending is a stall.
EndAfterOneRound ==
    /\ status = "running"
    /\ at = P + 1
    /\ status' = IF waiting = {} THEN "ok" ELSE Stalled
    /\ UNCHANGED <<list, before, have, done, got, at, pendingKeys, waiting, builtNow>>

\* Fault: a round without progress is not noticed.
EndRoundNoStall ==
    /\ status = "running"
    /\ at = P + 1
    /\ \/ waiting = {} /\ status' = "ok" /\ UNCHANGED at
       \/ waiting # {} /\ at' = 0 /\ UNCHANGED status
    /\ UNCHANGED <<list, before, have, done, got, pendingKeys, waiting, builtNow>>

EndRound ==
    /\ status = "running"
    /\ at = P + 1
    /\ \/ waiting = {} /\ status' = "ok" /\ UNCHANGED at
       \/ waiting # {} /\ builtNow # {} /\ at' = 0 /\ UNCHANGED status
       \/ waiting # {} /\ builtNow = {} /\ status' = Stalled /\ UNCHANGED at
    /\ UNCHANGED <<list, before, have, done, got, pendingKeys, waiting, builtNow>>

Terminated == status # "running" /\ UNCHANGED vars

Step == StartRound \/ SkipDone \/ Build \/ LeavePending \/ EndRound

Next == Step \/ Terminated

SafetySpec == Init /\ [][Next]_vars

\* The loop is straight-line synchronous code: it keeps running.
Spec == SafetySpec /\ WF_vars(Step)

-------------------------------------------------------------------------------
(***************************************************************************)
(* The reference: which providers can be built at all, with no rounds and  *)
(* no order.  A set of slots is closed when nothing outside it could be    *)
(* built after it; the buildable slots are those in every closed set.      *)
(***************************************************************************)
Provided(S) == {list[i].key : i \in {j \in S : list[j].provides}}

ReadyAfter(i, S) ==
    /\ list[i].req \subseteq before \union Provided(S)
    /\ \A k \in list[i].opt :
          k \in before \union Provided(S) \/ \A j \in Slots \ S : list[j].key # k

Closed(S) == \A i \in Slots : ReadyAfter(i, S) => i \in S

Buildable == {i \in Slots : \A S \in SUBSET Slots : Closed(S) => i \in S}

\* Whether registration succeeds, and how far it gets when it does not, does
\* not depend on the written order of `providers`: the loop builds exactly the
\* providers some order can build (module.rs:131-153, container.rs:188-191 "so
\* providers can be listed in any order").
OrderIrrelevant ==
    /\ done \subseteq Buildable
    /\ status # "running" => done = Buildable
    /\ status = "ok" => done = Slots
    /\ status \in {"unprovided", "cycle"} => done # Slots

\* A provider is never handed None for an optional dependency that its own
\* module registers, before it or after it (module.rs:133-136 "so it resolves
\* to None rather than racing a same-module provider").
OptionalSettled == \A i \in done : got[i] = list[i].opt \intersect have

\* A provider is only ever built with everything it requires in the container,
\* so from_container's `expect` cannot fire (inject.rs:101-125).
RequiredPresent == \A i \in done : list[i].req \subseteq have

\* The loop ends: each round but the last builds something (module.rs:201-233).
Terminates == <>(status # "running")

-------------------------------------------------------------------------------
(***************************************************************************)
(* The inductive invariant.  RoundInv says what a round has established so *)
(* far; Forced that nothing was built which some order could not build.    *)
(***************************************************************************)
RoundInv ==
    at > 0 =>
        /\ \A j \in Slots \ done : list[j].key \in pendingKeys
        /\ builtNow = {} => \A k \in pendingKeys : \E j \in Slots \ done : list[j].key = k
        /\ \A j \in Slots : j < at => j \in done \union waiting
        /\ builtNow = {} => \A j \in waiting : ~(RequiredReady(j) /\ OptionalReady(j))

WaitingInv == at > 0 => \A j \in waiting : j < at /\ j \notin done

OptionalInv ==
    \A i \in done : \A k \in list[i].opt :
        k \in got[i] \/ \A j \in Slots \ done : list[j].key # k

Forced == \A S \in SUBSET Slots : Closed(S) => done \subseteq S

StatusInv ==
    /\ status # "running" => at = P + 1
    /\ status = "ok" => done = Slots
    /\ status \in {"unprovided", "cycle"} => done # Slots /\ Closed(done)

IInv ==
    /\ TypeOK
    /\ have = before \union Provided(done)
    /\ WaitingInv
    /\ RoundInv
    /\ OptionalInv
    /\ OptionalSettled
    /\ RequiredPresent
    /\ Forced
    /\ StatusInv

-------------------------------------------------------------------------------
Abstract ==
    INSTANCE DependencyOrder WITH
        outcome <- IF status \in {"unprovided", "cycle"} THEN "failed" ELSE status

\* The round-by-round loop only ever does what an order-free registration may
\* do (module.rs:198-235).
ImplementsAnyOrder == Abstract!Spec

===============================================================================
