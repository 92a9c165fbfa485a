---------------------------- MODULE MC_Background ----------------------------
EXTENDS Background

(* An interval job whose runs emit, a one-shot, and a cron job with two    *)
(* occurrences in a row.                                                   *)
MCTriggers == [j \in Jobs |->
    CASE j = "every"  -> [kind |-> "interval", period |-> 2]
      [] j = "once"   -> [kind |-> "timeout", delay |-> 1]
      [] j = "hourly" -> [kind |-> "cron", occurrences |-> {2, 3}]]
MCJobEmits == [j \in Jobs |-> IF j = "every" THEN "created" ELSE None]

(* Two handlers of one event, the first of which emits another event.      *)
MCHandlers == <<"index", "notify", "audit">>
MCEventOf == [h \in {"index", "notify", "audit"} |-> IF h = "audit" THEN "indexed" ELSE "created"]
MCEmits == [h \in {"index", "notify", "audit"} |-> IF h = "index" THEN "indexed" ELSE None]

(* One hook emits before the bus is wired and one after.                   *)
MCBootHooks == <<"created", "wire_handlers", "created">>
MCActors == Jobs \cup {Boot}
===============================================================================
