------------------------- MODULE MC_ProviderFixpoint --------------------------
(***************************************************************************)
(* Instances of ProviderFixpoint for TLC: every module of P providers in   *)
(* which slot i is listed under key i (which slot has which key is only a  *)
(* renaming, since the dependencies range over all keys), with at most     *)
(* MaxDeps dependencies each; key 0 belongs to another module and may or   *)
(* may not be in the container.                                            *)
(***************************************************************************)
EXTENDS ProviderFixpoint, FiniteSets

CONSTANT MaxDeps

MCKeys == 0..P

Eager ==
    {p \in Provider :
        /\ p.provides
        /\ p.key # 0
        /\ p.req \intersect p.opt = {}
        /\ Cardinality(p.req) + Cardinality(p.opt) <= MaxDeps}

\* A controller, job or request-scoped provider: listed, but its key never
\* enters the container, and it declares no registration dependencies.
Lazy == {p \in Provider : ~p.provides /\ p.key # 0 /\ p.req = {} /\ p.opt = {}}

MCCatalog == Eager \union Lazy

MCBefore == {{}, {0}}

\* One slot per key.
MCInit == Init /\ \A i \in Slots : list[i].key = i

MCSpec == MCInit /\ [][Next]_vars /\ WF_vars(Step)

===============================================================================
