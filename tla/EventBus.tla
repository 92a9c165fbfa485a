------------------------------- MODULE EventBus -------------------------------
(***************************************************************************)
(* The in-process event bus of nestrs-events: `EventBus::emit` and         *)
(* `subscribe` (bus.rs), and the bootstrap hook `wire_handlers` that fills *)
(* its registry (module.rs).                                               *)
(*                                                                         *)
(* `emit` clones the list of handlers under the read lock and then awaits  *)
(* them one after another in the task that emits.  A handler may emit in   *)
(* turn, so an actor has a stack of emissions; nothing catches a panic,    *)
(* which unwinds the whole stack.                                          *)
(***************************************************************************)
EXTENDS Naturals, Sequences, SequencesExt

CONSTANTS
    Events,
    Handlers,   \* the #[on_event] handlers in discovery order
    EventOf,    \* [Range of Handlers -> Events]
    Emits,      \* [Range of Handlers -> Events or None]: what a handler emits when called
    Actors,     \* the tasks that emit
    None

HandlerSet == ToSet(Handlers)

ASSUME BusAssumption ==
    /\ Handlers \in Seq(HandlerSet) /\ IsInjective(Handlers)
    /\ EventOf \in [HandlerSet -> Events]
    /\ Emits \in [HandlerSet -> Events \cup {None}]
    /\ None \notin Events \cup HandlerSet

(* No handler emits, through others or by itself, the event it handles.    *)
(* Nothing in the code checks this: a cycle recurses in the emitter's task *)
(* without end.                                                            *)
Cycle(chain) ==
    /\ \A i \in 1..Len(chain) - 1 : EventOf[chain[i + 1]] = Emits[chain[i]]
    /\ EventOf[chain[1]] = Emits[chain[Len(chain)]]

ASSUME NoEmitCycle ==
    \A n \in 1..Len(Handlers) : \A chain \in [1..n -> HandlerSet] : ~Cycle(chain)

VARIABLES
    registry,    \* per event: the handlers subscribed, in order
    stack        \* per actor: its emissions in progress, the innermost last

busVars == <<registry, stack>>

(* One call of emit: the cloned list still to call, the handlers that have *)
(* returned, and the one being awaited, which has emitted or not.          *)
Emission == [event : Events, todo : Seq(HandlerSet), done : Seq(HandlerSet),
             current : HandlerSet \cup {None}, nested : BOOLEAN]

BusTypeOK ==
    /\ registry \in [Events -> Seq(HandlerSet)]
    /\ stack \in [Actors -> Seq(Emission)]

BusInit ==
    /\ registry = [e \in Events |-> <<>>]
    /\ stack = [a \in Actors |-> <<>>]

(* EventBus::subscribe: the handler goes last in its event's list.         *)
subscribe(reg, h) == [reg EXCEPT ![EventOf[h]] = Append(@, h)]

(* The registry after every discovered handler was subscribed in turn.     *)
Wired(reg) ==
    LET wired[n \in 0..Len(Handlers)] ==
            IF n = 0 THEN reg ELSE subscribe(wired[n - 1], Handlers[n])
    IN  wired[Len(Handlers)]

(* Nothing awaits between one subscription and the next.                   *)
wire_handlers ==
    /\ registry' = Wired(registry)
    /\ UNCHANGED stack

(* emit up to its first await: the handlers subscribed now are the ones    *)
(* that will be called.                                                    *)
Begun(e) == [event |-> e, todo |-> registry[e], done |-> <<>>, current |-> None, nested |-> FALSE]

emit(a, e) ==
    /\ stack' = [stack EXCEPT ![a] = Append(@, Begun(e))]
    /\ UNCHANGED registry

Emitting(a) == stack[a] # <<>>
Top(a) == Last(stack[a])
SetTop(a, emission) == stack' = [stack EXCEPT ![a] = Append(Front(@), emission)]

CallHandler(a) ==
    /\ Emitting(a)
    /\ Top(a).current = None
    /\ Top(a).todo # <<>>
    /\ SetTop(a, [Top(a) EXCEPT !.current = Head(Top(a).todo), !.todo = Tail(@), !.nested = FALSE])
    /\ UNCHANGED registry

(* The handler being awaited emits.                                        *)
NestedEmit(a) ==
    /\ Emitting(a)
    /\ Top(a).current # None
    /\ ~Top(a).nested
    /\ Emits[Top(a).current] # None
    /\ stack' = [stack EXCEPT ![a] =
           Front(@) \o <<[Top(a) EXCEPT !.nested = TRUE], Begun(Emits[Top(a).current])>>]
    /\ UNCHANGED registry

HandlerReturns(a) ==
    /\ Emitting(a)
    /\ Top(a).current # None
    /\ Top(a).nested \/ Emits[Top(a).current] = None
    /\ SetTop(a, [Top(a) EXCEPT !.current = None, !.done = Append(@, Top(a).current)])
    /\ UNCHANGED registry

EmitReturns(a) ==
    /\ Emitting(a)
    /\ Top(a).current = None
    /\ Top(a).todo = <<>>
    /\ stack' = [stack EXCEPT ![a] = Front(@)]
    /\ UNCHANGED registry

(* The handler being awaited panics: every emission of its actor unwinds.  *)
Unwind(a) ==
    /\ Emitting(a)
    /\ Top(a).current # None
    /\ stack' = [stack EXCEPT ![a] = <<>>]
    /\ UNCHANGED registry

(* q holds the handlers of event e, each once and in discovery order.      *)
HandlersInOrder(q, e) ==
    /\ ToSet(q) = {h \in HandlerSet : EventOf[h] = e}
    /\ \A i, j \in DOMAIN q : i < j =>
          \E m, n \in DOMAIN Handlers : m < n /\ q[i] = Handlers[m] /\ q[j] = Handlers[n]
===============================================================================
