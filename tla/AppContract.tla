------------------------------ MODULE AppContract -----------------------------
(***************************************************************************)
(* What `App::run` promises its transports and its providers, with its     *)
(* program points, signals and errors left out: boot completely or not at  *)
(* all; serve; clean up only when nothing serves; do all of the cleanup    *)
(* before stopping.  A crash (a hook that panics) is the only way out that *)
(* leaves cleanup undone.                                                  *)
(***************************************************************************)
CONSTANTS Transports, Cleanup

VARIABLES
    mode,     \* "booting" | "serving" | "cleaning" | "stopped" | "crashed"
    live,     \* transports now serving
    ended,    \* transports that served and ended
    cleaned   \* cleanup hooks called

vars == <<mode, live, ended, cleaned>>

Init ==
    /\ mode = "booting"
    /\ live = {}
    /\ ended = {}
    /\ cleaned = {}

Boot ==
    /\ mode = "booting"
    /\ mode' \in {"serving", "stopped", "crashed"}
    /\ UNCHANGED <<live, ended, cleaned>>

Start(t) ==
    /\ mode = "serving"
    /\ t \notin live \union ended
    /\ live' = live \union {t}
    /\ UNCHANGED <<mode, ended, cleaned>>

End(t) ==
    /\ t \in live
    /\ live' = live \ {t}
    /\ ended' = ended \union {t}
    /\ UNCHANGED <<mode, cleaned>>

BeginCleanup ==
    /\ mode = "serving"
    /\ ended = Transports
    /\ mode' = "cleaning"
    /\ UNCHANGED <<live, ended, cleaned>>

Clean(h) ==
    /\ mode = "cleaning"
    /\ h \notin cleaned
    /\ cleaned' = cleaned \union {h}
    /\ mode' \in {"cleaning", "crashed"}
    /\ UNCHANGED <<live, ended>>

Stop ==
    /\ mode = "cleaning"
    /\ cleaned = Cleanup
    /\ mode' = "stopped"
    /\ UNCHANGED <<live, ended, cleaned>>

Next ==
    \/ Boot
    \/ \E t \in Transports : Start(t) \/ End(t)
    \/ BeginCleanup
    \/ \E h \in Cleanup : Clean(h)
    \/ Stop

Spec == Init /\ [][Next]_vars

===============================================================================
