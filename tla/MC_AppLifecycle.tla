--------------------------- MODULE MC_AppLifecycle ----------------------------
(***************************************************************************)
(* Instances of AppLifecycle for TLC.                                      *)
(*                                                                         *)
(* Hooks: two init hooks in one phase, one of the next phase, and one or   *)
(* two per shutdown phase; `audit` belongs to a provider no module lists.  *)
(***************************************************************************)
EXTENDS AppLifecycle

MCHooks == {"migrate", "seed", "wire", "flush", "drain", "audit", "close"}

MCPhaseOf ==
    [h \in MCHooks |->
        CASE h \in {"migrate", "seed"} -> OnModuleInit
          [] h = "wire"                -> OnApplicationBootstrap
          [] h \in {"flush", "drain"}  -> OnModuleDestroy
          [] h = "audit"               -> BeforeApplicationShutdown
          [] h = "close"               -> OnApplicationShutdown]

MCSortKey ==
    [h \in MCHooks |-> IF h \in {"migrate", "flush"} THEN 0 ELSE 1]

MCRegistered == MCHooks \ {"audit"}

===============================================================================
