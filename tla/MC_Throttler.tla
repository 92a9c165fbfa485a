----------------------------- MODULE MC_Throttler -----------------------------
EXTENDS Throttler, TLC

SlotSymmetry == Permutations(Slots)

(* Two routes under one guard.  The first overrides the default with a     *)
(* shorter limit of its own.                                               *)
MCMetas == [r \in Routes |-> IF r = "login" THEN [limit |-> 1, window |-> 2] ELSE None]
MCDefault == [limit |-> 2, window |-> 2]

(* A strict route beside one with a much shorter window.                   *)
MixedMetas == [r \in Routes |-> IF r = "ping" THEN [limit |-> 1, window |-> 1] ELSE None]
MixedDefault == [limit |-> 2, window |-> 4]

(* One client, seen directly and through a proxy.                          *)
MCOrigins == {[forwarded |-> None, peer |-> "a"], [forwarded |-> "a", peer |-> "b"]}
OneOrigin == {[forwarded |-> None, peer |-> "a"]}
===============================================================================
