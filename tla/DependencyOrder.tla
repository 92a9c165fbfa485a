---------------------------- MODULE DependencyOrder ---------------------------
(***************************************************************************)
(* What `#[module]` promises of the registration of one module's           *)
(* providers, with the written order of `providers = [...]` left out: a    *)
(* provider is built once everything it requires is in the container and   *)
(* everything it optionally takes either is there or will never come from  *)
(* this module; registration fails only when no provider can be built.     *)
(* Any buildable provider may be built next.                               *)
(***************************************************************************)
CONSTANTS Slots, Keys

VARIABLES
    list,      \* [Slots -> [key, provides, req, opt]], fixed
    have,      \* keys in the container
    done,      \* providers built
    got,       \* per provider, the optional keys it was given
    outcome    \* "running" | "ok" | "failed"

vars == <<list, have, done, got, outcome>>

Ready(i) ==
    /\ list[i].req \subseteq have
    /\ \A k \in list[i].opt : k \in have \/ \A j \in Slots \ done : list[j].key # k

Init ==
    /\ done = {}
    /\ got = [i \in Slots |-> {}]
    /\ outcome = "running"

Build(i) ==
    /\ outcome = "running"
    /\ i \notin done
    /\ Ready(i)
    /\ done' = done \union {i}
    /\ have' = IF list[i].provides THEN have \union {list[i].key} ELSE have
    /\ got' = [got EXCEPT ![i] = list[i].opt \intersect have]
    /\ UNCHANGED <<list, outcome>>

Finish ==
    /\ outcome = "running"
    /\ \/ done = Slots /\ outcome' = "ok"
       \/ done # Slots /\ (\A i \in Slots \ done : ~Ready(i)) /\ outcome' = "failed"
    /\ UNCHANGED <<list, have, done, got>>

Next == (\E i \in Slots : Build(i)) \/ Finish

Spec == Init /\ [][Next]_vars

===============================================================================
