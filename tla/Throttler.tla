------------------------------- MODULE Throttler -------------------------------
(***************************************************************************)
(* The rate limit of nestrs-throttler: `ThrottlerGuard::check` (guard.rs)  *)
(* and the fixed-window counter `InMemoryThrottler::hit` (store.rs) it     *)
(* consults.                                                               *)
(*                                                                         *)
(* One store is shared by every route and every worker thread.  `hit`      *)
(* reads the clock before it takes the lock, so requests may be counted in *)
(* another order than the one in which they read the clock.  There is one  *)
(* window per client key, whichever route the request is for, while the    *)
(* limit is the route's own.                                               *)
(*                                                                         *)
(* Time is a count of ticks, TicksPerSecond of them in a second.           *)
(***************************************************************************)
EXTENDS Integers, FiniteSets

CONSTANTS
    Slots,           \* requests that can be in the guard at once
    Routes,
    Metas,           \* [Routes -> Throttle or None]: each route's #[meta(Throttle)]
    Default,         \* the Throttle given to ThrottlerModule::for_root
    Addresses,       \* client addresses, in a header or as a peer
    None,
    Origins,         \* what the requests that arrive carry
    TicksPerSecond,
    MaxClock,        \* bound: the last instant
    MaxHits          \* bound: how many requests arrive

(* Throttle: at most `limit` requests per `window`.  A window of no length *)
(* is a limit that limits nothing, and is left out.                        *)
Throttle == [limit : Nat, window : Nat \ {0}]

Global == "global"
Keys == Addresses \cup {Global}
Times == 0..MaxClock

ASSUME ThrottleAssumption ==
    /\ Default \in Throttle
    /\ None \notin Throttle \cup Addresses
    /\ Metas \in [Routes -> Throttle \cup {None}]
    /\ IsFiniteSet(Slots)
    /\ TicksPerSecond \in Nat \ {0}
    /\ MaxClock \in Nat
    /\ MaxHits \in Nat

(* What of a request decides its key: the first X-Forwarded-For hop, if    *)
(* the header is there and not empty, and the address of the peer.         *)
Origin == [forwarded : Addresses \cup {None}, peer : Addresses \cup {None}]

ASSUME OriginAssumption == Origins \subseteq Origin

client_key(origin) ==
    CASE origin.forwarded # None -> origin.forwarded
      [] origin.forwarded = None /\ origin.peer # None -> origin.peer
      [] OTHER -> Global

(* Reflector::get::<Throttle>, else the module's default.                  *)
LimitOf(route) == IF Metas[route] = None THEN Default ELSE Metas[route]

VARIABLES
    clock,
    arrived,    \* how many requests have entered the guard
    call,       \* per slot: the call of `hit` between its clock reading and the lock
    windows,    \* per key: its Window; a count of 0 stands for an absent entry
    inWindow,   \* history: requests admitted per key, route and window (by its start)
    atTime,     \* history: requests admitted per key, route and instant
    denial      \* history: what the last hit was told, None if it was admitted

vars == <<clock, arrived, call, windows, inWindow, atTime, denial>>

Window == [start : Times, count : Nat]
Call   == [key : Keys, route : Routes, now : Times]
Denial == [route : Routes, at : Times, now : Times, start : Times,
           retry_after : Nat, header : Nat]

TypeOK ==
    /\ clock \in Times
    /\ arrived \in Nat
    /\ call \in [Slots -> Call \cup {None}]
    /\ windows \in [Keys -> Window]
    /\ inWindow \in [Keys -> [Routes -> [Times -> Nat]]]
    /\ atTime \in [Keys -> [Routes -> [Times -> Nat]]]
    /\ denial \in Denial \cup {None}

Init ==
    /\ clock = 0
    /\ arrived = 0
    /\ call = [s \in Slots |-> None]
    /\ windows = [k \in Keys |-> [start |-> 0, count |-> 0]]
    /\ inWindow = [k \in Keys |-> [r \in Routes |-> [t \in Times |-> 0]]]
    /\ atTime = [k \in Keys |-> [r \in Routes |-> [t \in Times |-> 0]]]
    /\ denial = None

Tick ==
    /\ clock < MaxClock
    /\ clock' = clock + 1
    /\ UNCHANGED <<arrived, call, windows, inWindow, atTime, denial>>

(***************************************************************************)
(* A request reaches the guard: its limit and its key are looked up, and   *)
(* `hit` reads the clock.                                                  *)
(***************************************************************************)
check(s, route, origin) ==
    /\ call[s] = None
    /\ arrived < MaxHits
    /\ arrived' = arrived + 1
    /\ call' = [call EXCEPT ![s] = [key |-> client_key(origin), route |-> route, now |-> clock]]
    /\ UNCHANGED <<clock, windows, inWindow, atTime, denial>>

(* Instant::duration_since and Duration::saturating_sub: never below zero. *)
Minus(a, b) == IF a >= b THEN a - b ELSE 0

\* Fault: a window is over one instant before its length has elapsed.
ResetOneEarly(window, now, length) ==
    LET entry == IF window.count = 0 THEN [start |-> now, count |-> 0] ELSE window
    IN  IF Minus(now, entry.start) >= length - 1
        THEN [start |-> now, count |-> 1]
        ELSE [entry EXCEPT !.count = @ + 1]

\* Fault: the clock readings are compared as they come, a late one included.
LateReadingResets(window, now, length) ==
    LET entry == IF window.count = 0 THEN [start |-> now, count |-> 0] ELSE window
    IN  IF now - entry.start >= length \/ now < entry.start
        THEN [start |-> now, count |-> 1]
        ELSE [entry EXCEPT !.count = @ + 1]

(***************************************************************************)
(* The entry after one more hit: opened if absent, reset once `length` has *)
(* elapsed, then counted.                                                  *)
(***************************************************************************)
Counted(window, now, length) ==
    LET entry == IF window.count = 0 THEN [start |-> now, count |-> 0] ELSE window
    IN  IF Minus(now, entry.start) >= length
        THEN [start |-> now, count |-> 1]
        ELSE [entry EXCEPT !.count = @ + 1]

\* Fault: the whole window, whatever has elapsed of it.
WholeWindow(window, now, length) == length

(* Decision::retry_after of a denied hit.                                  *)
RetryAfter(window, now, length) == Minus(length, Minus(now, window.start))

(* The Retry-After header: Duration::as_secs.                              *)
RetryAfterHeader(duration) == duration \div TicksPerSecond

\* Fault: off by one, one request too many is let through.
OverLimitByOne(window, limit) == window.count > limit + 1

OverLimit(window, limit) == window.count > limit

(***************************************************************************)
(* The locked part of `hit`, and what the guard answers: Ok, or 429 with   *)
(* Retry-After.  A denied hit is counted too.                              *)
(***************************************************************************)
hit(s) ==
    /\ call[s] # None
    /\ LET k      == call[s].key
           r      == call[s].route
           now    == call[s].now
           limit  == LimitOf(r)
           window == Counted(windows[k], now, limit.window)
           retry  == RetryAfter(window, now, limit.window)
       IN  /\ windows' = [windows EXCEPT ![k] = window]
           /\ IF OverLimit(window, limit.limit)
              THEN /\ denial' = [route |-> r, at |-> clock, now |-> now, start |-> window.start,
                                 retry_after |-> retry, header |-> RetryAfterHeader(retry)]
                   /\ UNCHANGED <<inWindow, atTime>>
              ELSE /\ inWindow' = [inWindow EXCEPT ![k][r][window.start] = @ + 1]
                   /\ atTime' = [atTime EXCEPT ![k][r][clock] = @ + 1]
                   /\ denial' = None
    /\ call' = [call EXCEPT ![s] = None]
    /\ UNCHANGED <<clock, arrived>>

(* The bounds are reached and nothing is in the guard.                     *)
Quiet ==
    /\ clock = MaxClock
    /\ arrived = MaxHits
    /\ \A s \in Slots : call[s] = None
    /\ UNCHANGED vars

Next ==
    \/ Tick
    \/ \E s \in Slots, r \in Routes, o \in Origins : check(s, r, o)
    \/ \E s \in Slots : hit(s)
    \/ Quiet

Spec == Init /\ [][Next]_vars

-------------------------------------------------------------------------------
(***************************************************************************)
(* Properties                                                              *)
(***************************************************************************)

\* However hits interleave, and whichever other routes share the client's
\* window, a route lets at most `limit` requests of a client through in one
\* window (store.rs:51-53, throttle.rs:6).
QuotaPerWindow ==
    \A k \in Keys, r \in Routes, t \in Times : inWindow[k][r][t] <= LimitOf(r).limit

\* A window only ends by elapsing: the start of a client's window moves only
\* forward, by at least the window of the route that was hit, even when a
\* thread applies a clock reading older than the window (store.rs:55-64).
WindowsElapse ==
    [][\A k \in Keys :
          windows[k].count > 0 /\ windows'[k].start # windows[k].start =>
              \E s \in Slots :
                  /\ call[s] # None
                  /\ windows'[k].start - windows[k].start >= LimitOf(call[s].route).window]_vars

Shortest(r) == \A q \in Routes : LimitOf(r).window <= LimitOf(q).window

(* A stretch of time as long as r's window.                                *)
Stretch(r, t) == {u \in Times : t <= u /\ u < t + LimitOf(r).window}

(* The requests admitted in it, each by its instant and its number there.  *)
Admissions(k, r, t) == UNION {{u} \X (1..atTime[k][r][u]) : u \in Stretch(r, t)}

AdmittedFrom(k, r, t) == Cardinality(Admissions(k, r, t))

(* Two windows' worth meet at a boundary, and every further request in     *)
(* flight may open one more window with an old clock reading.              *)
RateBound(r) == (Cardinality(Slots) + 1) * LimitOf(r).limit

\* What a limit means to a client in real time: in any stretch as long as the
\* window, a route admits at most RateBound requests, as long as no other
\* route has a shorter window (throttle.rs:6 "at most `limit` requests per
\* `window`, per client"; store.rs:55 reads the clock before the lock).
BoundedRate ==
    \A k \in Keys, r \in Routes, t \in Times :
        Shortest(r) => AdmittedFrom(k, r, t) <= RateBound(r)

\* A denied client is told when to come back: waiting retry_after from the
\* answer takes it past the end of the window that denied it, and never asks it to wait
\* beyond that end as of the clock `hit` read; the header says the same in
\* whole seconds, short of it by less than one (store.rs:67-72, guard.rs:43-46).
RetryAfterHonest ==
    denial # None =>
        LET end == denial.start + LimitOf(denial.route).window
        IN  /\ denial.at + denial.retry_after >= end
            /\ denial.now + denial.retry_after <= end
            /\ denial.header * TicksPerSecond <= denial.retry_after
            /\ denial.retry_after < (denial.header + 1) * TicksPerSecond

(***************************************************************************)
(* The inductive invariant behind QuotaPerWindow: nothing in the store is  *)
(* ahead of the clock, and no route has been admitted more often in the    *)
(* current window than the window counts hits.                             *)
(***************************************************************************)
NothingAhead ==
    /\ \A s \in Slots : call[s] # None => call[s].now <= clock
    /\ \A k \in Keys : windows[k].start <= clock

CountCovers ==
    \A k \in Keys, r \in Routes :
        /\ inWindow[k][r][windows[k].start] <= windows[k].count
        /\ \A t \in Times : t > windows[k].start => inWindow[k][r][t] = 0
        /\ windows[k].count = 0 => \A t \in Times : inWindow[k][r][t] = 0

(***************************************************************************)
(* Behind BoundedRate: within the stretch from t on, every window but the  *)
(* one that was current when it began and the one that starts in it was    *)
(* opened by a request that read the clock before t.  Each such request    *)
(* leaves its slot for good, so that the slots freed of them (ReadFrom)    *)
(* pay for the windows.  The first window is paid for by such a request    *)
(* too, unless one that read the clock later was counted in it: then it    *)
(* outlasts every older reading.                                           *)
(***************************************************************************)
ReadFrom(t) == {s \in Slots : call[s] = None \/ call[s].now >= t}

Paid(k, r, t) ==
    LET start   == windows[k].start
        limit   == LimitOf(r).limit
        current == inWindow[k][r][start]
    IN  IF start >= t
        THEN AdmittedFrom(k, r, t) <= Cardinality(Slots) * limit + current
        ELSE \/ AdmittedFrom(k, r, t) = 0
             \/ /\ Cardinality(ReadFrom(t)) > 0
                /\ AdmittedFrom(k, r, t) + limit <= Cardinality(ReadFrom(t)) * limit + current
             \/ /\ start + LimitOf(r).window > t
                /\ AdmittedFrom(k, r, t) <= current

RateInv(k, r, t) ==
    /\ IsFiniteSet(Admissions(k, r, t))
    /\ clock < t \/ windows[k].count = 0 => AdmittedFrom(k, r, t) = 0
    /\ clock \in Stretch(r, t) => Paid(k, r, t)
    /\ AdmittedFrom(k, r, t) <= RateBound(r)

StretchesPaid ==
    \A k \in Keys, r \in Routes, t \in Times : Shortest(r) => RateInv(k, r, t)

IInv ==
    /\ TypeOK
    /\ NothingAhead
    /\ CountCovers
    /\ QuotaPerWindow
    /\ RetryAfterHonest
    /\ StretchesPaid

\* throttle.rs:6: "at most `limit` requests per `window`, per client", read as
\* generously as BoundedRate reads it, for every route.
EveryRouteBounded ==
    \A k \in Keys, r \in Routes, t \in Times :
        AdmittedFrom(k, r, t) <= RateBound(r)
===============================================================================
