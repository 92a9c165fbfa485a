----------------------------- MODULE WsGateway -----------------------------
(***************************************************************************)
(* The connection registry `WsServer` (nestrs-ws/src/server.rs) and the    *)
(* connection tasks of `serve_connection` (nestrs-ws/src/gateway.rs) that  *)
(* share it.  Every upgraded socket runs two tasks: the connection task    *)
(* (register, on_connect, read loop, on_disconnect, unregister, await the  *)
(* writer) and a writer task draining the socket's unbounded outbox.       *)
(* Any handler, hook, guard or service may call the registry at any time;  *)
(* each call holds the registry's mutex for its whole effect and is one    *)
(* step, except `connect`, which draws the id before it takes the lock.    *)
(*                                                                         *)
(* A frame is abstracted to who sent it, during which of its messages, and *)
(* whether it is a push, a reply or an error reply.                        *)
(***************************************************************************)
EXTENDS Naturals, Sequences, SequencesExt, FiniteSets

CONSTANTS
    Conns,      \* the sockets that may upgrade; each runs one connection task
    Rooms,      \* room names
    Handlers,   \* event names with a #[subscribe_message] handler
    by_event,   \* MessageGuardTable: the number of guards of each event
    Service,    \* an injected service pushing from outside any connection
    NoId,       \* the id of a connection that has not drawn one yet
    Idle,       \* no message is under guard
    MaxMsgs,    \* bound: text messages read by each connection
    MaxPushes   \* bound: registry pushes over the whole run

ASSUME WsAssumption ==
    /\ IsFiniteSet(Conns) /\ Service \notin Conns
    /\ MaxMsgs \in [Conns -> Nat] /\ MaxPushes \in Nat
    /\ NoId \notin Nat
    /\ \A e \in DOMAIN by_event : by_event[e] \in Nat

VARIABLES
    pc,         \* where each connection task is
    id,         \* the ConnId each connection task holds
    next,       \* WsServer::next
    conns,      \* WsServer::conns: ConnId -> the socket's outbox and its rooms
    writer,     \* each socket's writer task
    outbox,     \* frames queued for each writer
    wire,       \* frames each writer has put on its socket
    read,       \* text messages each connection has read
    check,      \* the event whose guards run, and how many have passed
    pushes,     \* pushes made so far, bounded by MaxPushes
    accepted,   \* history: every frame an outbox accepted, in order
    joined      \* history: the rooms a live connection has joined

vars == <<pc, id, next, conns, writer, outbox, wire, read, check, pushes,
          accepted, joined>>

Events == DOMAIN by_event

Frames == [src : Conns \cup {Service}, at : Nat, kind : {"push", "answer"}]

(* Where a connection task is.  "allocated" lies between fetch_add and the *)
(* insertion; "draining" awaits the writer after the connection was        *)
(* dropped from the registry; "panicked" is an unwound task.               *)
Stages == {"none", "upgraded", "allocated", "connecting", "reading",
           "guarding", "handling", "leaving", "draining", "done", "panicked"}

(* The stages in which user code holds the connection's WsClient. *)
UserCode == {"connecting", "guarding", "handling", "leaving"}

(* The stages in which the task still owns its own sender of the outbox. *)
HoldsOutbox == UserCode \cup {"upgraded", "allocated", "reading"}

TypeOK ==
    /\ pc \in [Conns -> Stages]
    /\ id \in [Conns -> Nat \cup {NoId}]
    /\ next \in Nat
    /\ DOMAIN conns \subseteq 0..(next - 1)
    /\ conns \in [DOMAIN conns -> [conn : Conns, rooms : SUBSET Rooms]]
    /\ writer \in [Conns -> {"none", "running", "dead", "ended"}]
    /\ outbox \in [Conns -> Seq(Frames)]
    /\ wire \in [Conns -> Seq(Frames)]
    /\ accepted \in [Conns -> Seq(Frames)]
    /\ read \in [Conns -> Nat]
    /\ \A c \in Conns : read[c] <= MaxMsgs[c]
    /\ check \in [Conns -> [event : Events, passed : Nat] \cup {Idle}]
    /\ pushes \in 0..MaxPushes
    /\ joined \in [Conns -> SUBSET Rooms]

Init ==
    /\ pc = [c \in Conns |-> "none"]
    /\ id = [c \in Conns |-> NoId]
    /\ next = 0
    /\ conns = [i \in {} |-> {}]
    /\ writer = [c \in Conns |-> "none"]
    /\ outbox = [c \in Conns |-> <<>>]
    /\ wire = [c \in Conns |-> <<>>]
    /\ read = [c \in Conns |-> 0]
    /\ check = [c \in Conns |-> Idle]
    /\ pushes = 0
    /\ accepted = [c \in Conns |-> <<>>]
    /\ joined = [c \in Conns |-> {}]

(***************************************************************************)
(* Outboxes.  UnboundedSender::send succeeds exactly while the receiver,   *)
(* owned by the writer task, exists.                                       *)
(***************************************************************************)

SendOk(c) == writer[c] = "running"

(* Queue frame f on the outboxes of the sockets in S that still accept. *)
Queue(S, f) ==
    LET ok == {c \in S : SendOk(c)}
        Put(q) == [c \in Conns |-> IF c \in ok THEN Append(q[c], f) ELSE q[c]]
    IN  outbox' = Put(outbox) /\ accepted' = Put(accepted)

Sockets(I) == {conns[i].conn : i \in I}

(***************************************************************************)
(* The Registry: what a handler, a hook, a guard or a service can call.    *)
(***************************************************************************)

(* The sender's place in its own conversation: on_connect comes before the *)
(* first message and on_disconnect after the last; a service has none.     *)
Stamp(src) ==
    IF src = Service THEN 0
    ELSE IF pc[src] = "leaving" THEN read[src] + 1 ELSE read[src]

Push(src, I) ==
    /\ pushes < MaxPushes
    /\ pushes' = pushes + 1
    /\ Queue(Sockets(I), [src |-> src, at |-> Stamp(src), kind |-> "push"])
    /\ UNCHANGED <<pc, id, next, conns, writer, wire, read, check, joined>>

broadcast_value(src) == Push(src, DOMAIN conns)

emit_to_value(src, room) ==
    Push(src, {i \in DOMAIN conns : room \in conns[i].rooms})

emit_value(src, i) == Push(src, {i} \cap DOMAIN conns)

(* join and leave do nothing for an id that is not registered. *)
Enrol(c, rooms) ==
    /\ IF id[c] \in DOMAIN conns
       THEN conns' = [conns EXCEPT ![id[c]].rooms = rooms]
       ELSE UNCHANGED conns
    /\ UNCHANGED <<pc, id, next, writer, outbox, wire, read, check, pushes,
                   accepted>>

RoomsOf(c) == IF id[c] \in DOMAIN conns THEN conns[id[c]].rooms ELSE {}

join(c, room) ==
    /\ Enrol(c, RoomsOf(c) \cup {room})
    /\ joined' = [joined EXCEPT ![c] = @ \cup {room}]

leave(c, room) ==
    /\ Enrol(c, RoomsOf(c) \ {room})
    /\ joined' = [joined EXCEPT ![c] = @ \ {room}]

(* One call of user code on the WsClient it was handed. *)
ClientCall(c) ==
    /\ pc[c] \in UserCode
    /\ \/ \E r \in Rooms : join(c, r) \/ leave(c, r) \/ emit_to_value(c, r)
       \/ emit_value(c, id[c])
       \/ broadcast_value(c)

(* A service holding Arc<WsServer> pushes; it may hold an id of a          *)
(* connection that has left since.                                         *)
ServiceCall ==
    \/ broadcast_value(Service)
    \/ \E r \in Rooms : emit_to_value(Service, r)
    \/ \E i \in 0..(next - 1) : emit_value(Service, i)

(***************************************************************************)
(* The connection task.                                                    *)
(***************************************************************************)

(* The upgrade starts serve_connection: split, channel, spawned writer. *)
Upgrade(c) ==
    /\ pc[c] = "none"
    /\ pc' = [pc EXCEPT ![c] = "upgraded"]
    /\ writer' = [writer EXCEPT ![c] = "running"]
    /\ UNCHANGED <<id, next, conns, outbox, wire, read, check, pushes,
                   accepted, joined>>

(* Fault: the id is the number of live connections, not a counter. *)
AllocateByCount(c) ==
    /\ pc[c] = "upgraded"
    /\ id' = [id EXCEPT ![c] = Cardinality(DOMAIN conns)]
    /\ next' = next + 1
    /\ pc' = [pc EXCEPT ![c] = "allocated"]
    /\ UNCHANGED <<conns, writer, outbox, wire, read, check, pushes, accepted,
                   joined>>

(* WsServer::connect, before the lock: the id is drawn atomically. *)
ConnectAllocate(c) ==
    /\ pc[c] = "upgraded"
    /\ id' = [id EXCEPT ![c] = next]
    /\ next' = next + 1
    /\ pc' = [pc EXCEPT ![c] = "allocated"]
    /\ UNCHANGED <<conns, writer, outbox, wire, read, check, pushes,
                   accepted, joined>>

(* WsServer::connect, under the lock; on_connect is called at once. *)
ConnectInsert(c) ==
    /\ pc[c] = "allocated"
    /\ conns' = [i \in DOMAIN conns \cup {id[c]} |->
                    IF i = id[c] THEN [conn |-> c, rooms |-> {}] ELSE conns[i]]
    /\ pc' = [pc EXCEPT ![c] = "connecting"]
    /\ UNCHANGED <<id, next, writer, outbox, wire, read, check, pushes,
                   accepted, joined>>

OnConnectReturns(c) ==
    /\ pc[c] = "connecting"
    /\ pc' = [pc EXCEPT ![c] = "reading"]
    /\ UNCHANGED <<id, next, conns, writer, outbox, wire, read, check,
                   pushes, accepted, joined>>

(* The break out of the read loop, and on_disconnect called next. *)
LeaveLoop(c) ==
    /\ pc' = [pc EXCEPT ![c] = "leaving"]

(* Fault: the answer is written to the socket directly, past the outbox. *)
AnswerOnSocket(c) ==
    LET f == [src |-> c, at |-> read'[c], kind |-> "answer"]
    IN  /\ IF SendOk(c)
           THEN /\ pc' = [pc EXCEPT ![c] = "reading"]
                /\ wire' = [wire EXCEPT ![c] = Append(@, f)]
           ELSE LeaveLoop(c) /\ UNCHANGED wire
        /\ check' = [check EXCEPT ![c] = Idle]
        /\ UNCHANGED <<id, next, conns, writer, outbox, accepted, pushes,
                       joined>>

(* The tail of the Text arm: an answer, a reply or an error frame, is sent *)
(* on the task's own outbox and a refused send breaks the loop.            *)
Answer(c) ==
    /\ IF SendOk(c)
       THEN pc' = [pc EXCEPT ![c] = "reading"]
       ELSE LeaveLoop(c)
    /\ Queue({c}, [src |-> c, at |-> read'[c], kind |-> "answer"])
    /\ check' = [check EXCEPT ![c] = Idle]
    /\ UNCHANGED <<id, next, conns, writer, wire, pushes, joined>>

(* A text frame that is no envelope is answered with an error. *)
InvalidEnvelope(c) ==
    /\ pc[c] = "reading" /\ read[c] < MaxMsgs[c]
    /\ read' = [read EXCEPT ![c] = @ + 1]
    /\ Answer(c)

ReadEnvelope(c, e) ==
    /\ pc[c] = "reading" /\ read[c] < MaxMsgs[c]
    /\ read' = [read EXCEPT ![c] = @ + 1]
    /\ check' = [check EXCEPT ![c] = [event |-> e, passed |-> 0]]
    /\ pc' = [pc EXCEPT ![c] = "guarding"]
    /\ UNCHANGED <<id, next, conns, writer, outbox, wire, pushes, accepted,
                   joined>>

(* MessageGuardTable::check: the guards in order, the first rejection ends *)
(* the message.                                                            *)
GuardPasses(c) ==
    /\ pc[c] = "guarding" /\ check[c].passed < by_event[check[c].event]
    /\ check' = [check EXCEPT ![c].passed = @ + 1]
    /\ UNCHANGED <<pc, id, next, conns, writer, outbox, wire, read, pushes,
                   accepted, joined>>

GuardRejects(c) ==
    /\ pc[c] = "guarding" /\ check[c].passed < by_event[check[c].event]
    /\ UNCHANGED read
    /\ Answer(c)

Guarded(c) ==
    pc[c] = "guarding" /\ check[c].passed = by_event[check[c].event]

(* Gateway::dispatch: an unknown event or a payload that does not          *)
(* deserialize is an error; otherwise the handler starts.                  *)
DispatchFails(c) ==
    /\ Guarded(c)
    /\ UNCHANGED read
    /\ Answer(c)

DispatchRuns(c) ==
    /\ Guarded(c) /\ check[c].event \in Handlers
    /\ check' = [check EXCEPT ![c] = Idle]
    /\ pc' = [pc EXCEPT ![c] = "handling"]
    /\ UNCHANGED <<id, next, conns, writer, outbox, wire, read, pushes,
                   accepted, joined>>

(* The handler returned a value; one that does not serialize is an error. *)
HandlerReplies(c) ==
    /\ pc[c] = "handling"
    /\ UNCHANGED read
    /\ Answer(c)

(* The handler returned (): nothing is sent. *)
HandlerIsSilent(c) ==
    /\ pc[c] = "handling"
    /\ pc' = [pc EXCEPT ![c] = "reading"]
    /\ UNCHANGED <<id, next, conns, writer, outbox, wire, read, check,
                   pushes, accepted, joined>>

(* A close frame, a read error or the end of the stream. *)
ReadEnds(c) ==
    /\ pc[c] = "reading"
    /\ LeaveLoop(c)
    /\ UNCHANGED <<id, next, conns, writer, outbox, wire, read, check,
                   pushes, accepted, joined>>

(* Fault: the connection is never removed from the registry. *)
DisconnectForgotten(c) ==
    /\ pc[c] = "leaving"
    /\ pc' = [pc EXCEPT ![c] = "draining"]
    /\ joined' = [joined EXCEPT ![c] = {}]
    /\ UNCHANGED <<id, next, conns, writer, outbox, wire, read, check,
                   pushes, accepted>>

(* on_disconnect returns; the connection and its rooms leave the registry  *)
(* and the task drops its own sender.                                      *)
disconnect(c) ==
    /\ pc[c] = "leaving"
    /\ conns' = [i \in DOMAIN conns \ {id[c]} |-> conns[i]]
    /\ pc' = [pc EXCEPT ![c] = "draining"]
    /\ joined' = [joined EXCEPT ![c] = {}]
    /\ UNCHANGED <<id, next, writer, outbox, wire, read, check, pushes,
                   accepted>>

(* Fault: the task returns without waiting for its writer. *)
ReturnWithoutWriter(c) ==
    /\ pc[c] = "draining"
    /\ pc' = [pc EXCEPT ![c] = "done"]
    /\ UNCHANGED <<id, next, conns, writer, outbox, wire, read, check,
                   pushes, accepted, joined>>

AwaitWriter(c) ==
    /\ pc[c] = "draining"
    /\ writer[c] \in {"dead", "ended"}
    /\ pc' = [pc EXCEPT ![c] = "done"]
    /\ UNCHANGED <<id, next, conns, writer, outbox, wire, read, check,
                   pushes, accepted, joined>>

(* User code panics: the task unwinds, dropping its own sender, and runs   *)
(* neither on_disconnect nor disconnect.                                   *)
Panic(c) ==
    /\ pc[c] \in UserCode
    /\ pc' = [pc EXCEPT ![c] = "panicked"]
    /\ check' = [check EXCEPT ![c] = Idle]
    /\ UNCHANGED <<id, next, conns, writer, outbox, wire, read, pushes,
                   accepted, joined>>

(***************************************************************************)
(* The writer task.                                                        *)
(***************************************************************************)

WriterSends(c) ==
    /\ writer[c] = "running" /\ outbox[c] # <<>>
    /\ wire' = [wire EXCEPT ![c] = Append(@, Head(outbox[c]))]
    /\ outbox' = [outbox EXCEPT ![c] = Tail(@)]
    /\ UNCHANGED <<pc, id, next, conns, writer, read, check, pushes,
                   accepted, joined>>

(* The sink refuses a frame: the writer ends and drops its receiver, so    *)
(* what was queued is gone and later sends fail.                           *)
WriterFails(c) ==
    /\ writer[c] = "running" /\ outbox[c] # <<>>
    /\ writer' = [writer EXCEPT ![c] = "dead"]
    /\ outbox' = [outbox EXCEPT ![c] = <<>>]
    /\ UNCHANGED <<pc, id, next, conns, wire, read, check, pushes, accepted,
                   joined>>

(* recv() yields None once every sender is dropped and the queue is empty. *)
WriterEnds(c) ==
    /\ writer[c] = "running" /\ outbox[c] = <<>>
    /\ pc[c] \notin HoldsOutbox
    /\ c \notin Sockets(DOMAIN conns)
    /\ writer' = [writer EXCEPT ![c] = "ended"]
    /\ UNCHANGED <<pc, id, next, conns, outbox, wire, read, check, pushes,
                   accepted, joined>>

----------------------------------------------------------------------------

(* Every socket was served to its end, or lost to a panic. *)
Terminated ==
    /\ \A c \in Conns : pc[c] \in {"done", "panicked"}
    /\ UNCHANGED vars

ConnStep(c) ==
    \/ ConnectAllocate(c) \/ ConnectInsert(c) \/ OnConnectReturns(c)
    \/ GuardPasses(c) \/ GuardRejects(c) \/ DispatchFails(c)
    \/ DispatchRuns(c) \/ HandlerReplies(c) \/ HandlerIsSilent(c)
    \/ disconnect(c) \/ AwaitWriter(c)

PeerStep(c) ==
    \/ Upgrade(c)
    \/ InvalidEnvelope(c)
    \/ \E e \in Events : ReadEnvelope(c, e)
    \/ ReadEnds(c)

WriterStep(c) == WriterSends(c) \/ WriterFails(c) \/ WriterEnds(c)

Next ==
    \/ \E c \in Conns : \/ ConnStep(c) \/ PeerStep(c) \/ WriterStep(c)
                        \/ ClientCall(c) \/ Panic(c)
    \/ ServiceCall
    \/ Terminated

(***************************************************************************)
(* The runtime polls every ready task, user code returns, and a writer's   *)
(* send completes or fails (the peer reads or the socket errors).  Nothing *)
(* is assumed of the peer's messages or of the services.                   *)
(***************************************************************************)
Fairness ==
    \A c \in Conns : WF_vars(ConnStep(c)) /\ WF_vars(WriterStep(c))

Spec == Init /\ [][Next]_vars /\ Fairness

----------------------------------------------------------------------------
(***************************************************************************)
(* Properties.                                                             *)
(***************************************************************************)

(* The stages between the registry insertion and the removal. *)
Registered == {"connecting", "reading", "guarding", "handling", "leaving"}

(* Whatever tasks connect, leave or panic in between, an id names one      *)
(* socket for the whole run: two connections never hold the same id, and a *)
(* registry entry feeds the outbox of the connection that drew its id.     *)
(* (`ConnId`: "never reused within a process run", server.rs.)             *)
IdNamesOneSocket ==
    /\ \A c, d \in Conns : c # d /\ id[c] # NoId => id[c] # id[d]
    /\ \A i \in DOMAIN conns : id[conns[i].conn] = i

(* A connection is in the registry, with exactly the rooms it joined, for  *)
(* all of its user code including on_disconnect, and is out of it before   *)
(* its task ends: no push counts a connection whose task has returned.     *)
RegistryFollowsTask ==
    \A c \in Conns :
       /\ pc[c] \in Registered =>
             /\ id[c] \in DOMAIN conns
             /\ conns[id[c]] = [conn |-> c, rooms |-> joined[c]]
       /\ pc[c] \in {"none", "upgraded", "allocated", "draining", "done"} =>
             c \notin Sockets(DOMAIN conns)

(* The frames of q that c sent itself, at the positions i < j: an earlier  *)
(* message's, or a push made before the same message was answered.         *)
OwnInOrder(c, q) ==
    \A i, j \in DOMAIN q :
       i < j /\ q[i].src = c /\ q[j].src = c =>
          \/ q[i].at < q[j].at
          \/ q[i].at = q[j].at /\ q[i].kind = "push"

(* What a connection sends to itself keeps its order on the socket: a      *)
(* reply comes after every push its handler made before returning, and     *)
(* before anything a later message caused (serve_connection: "ordering     *)
(* relative to broadcasts the handler triggered is preserved").            *)
OwnFramesInOrder ==
    \A c \in Conns : OwnInOrder(c, wire[c])

(* A frame an outbox accepted reaches the socket in the order of           *)
(* acceptance, and when serve_connection returns with a healthy socket all *)
(* of them have: a broadcast racing the disconnect is either refused or    *)
(* flushed, never dropped in between.                                      *)
AcceptedIsFlushed ==
    \A c \in Conns :
       /\ IsPrefix(wire[c], accepted[c])
       /\ writer[c] # "dead" => accepted[c] = wire[c] \o outbox[c]
       /\ pc[c] = "done" /\ writer[c] # "dead" => wire[c] = accepted[c]

(* A connection whose read loop ended is eventually dropped from the       *)
(* registry and its task and writer end, unless on_disconnect panics.      *)
LeavingConnectionEnds ==
    \A c \in Conns :
       pc[c] = "leaving" ~> pc[c] = "panicked" \/
                            (pc[c] = "done" /\ writer[c] \in {"dead", "ended"})

----------------------------------------------------------------------------
(***************************************************************************)
(* The inductive invariant behind the safety properties.                   *)
(***************************************************************************)

(* An id is drawn once, from a counter that has moved past it since; a     *)
(* registry entry outlives its task only when the task panicked.           *)
RegistryInv ==
    /\ \A c \in Conns : /\ id[c] = NoId <=> pc[c] \in {"none", "upgraded"}
                        /\ id[c] # NoId => id[c] < next
                        /\ pc[c] \in {"none", "upgraded", "allocated"} => joined[c] = {}
    /\ IdNamesOneSocket
    /\ \A i \in DOMAIN conns : pc[conns[i].conn] \in Registered \cup {"panicked"}
    /\ \A c \in Conns : pc[c] \in Registered =>
          /\ id[c] \in DOMAIN conns
          /\ conns[id[c]] = [conn |-> c, rooms |-> joined[c]]

(* The guards run for an event of the guard table. *)
GuardInv ==
    \A c \in Conns : pc[c] = "guarding" =>
        check[c] \in [event : Events, passed : Nat]

(* The writer ends on an empty queue, after its task let go of the outbox: *)
(* a live task's sends fail only on a dead socket.  The task returns last. *)
WriterInv ==
    \A c \in Conns :
       /\ writer[c] = "ended" => outbox[c] = <<>> /\ pc[c] \notin HoldsOutbox
       /\ pc[c] = "done" => writer[c] \in {"dead", "ended"}
       /\ pc[c] = "none" => writer[c] = "none"

(* What a frame c sent itself bears when c has read n messages and is at s: *)
(* a message is answered once, after its pushes, and on_disconnect comes    *)
(* after every message.                                                     *)
StampOk(f, n, s) ==
    /\ s \notin {"none", "upgraded", "allocated"}
    /\ f.at <= IF s \in {"leaving", "draining", "done", "panicked"} THEN n + 1 ELSE n
    /\ f.kind = "answer" =>
          IF s \in UserCode \ {"leaving"} THEN f.at < n ELSE f.at <= n

StampInv ==
    \A c \in Conns :
       /\ OwnInOrder(c, accepted[c])
       /\ \A i \in DOMAIN accepted[c] : accepted[c][i].src = c =>
             StampOk(accepted[c][i], read[c], pc[c])

IInv ==
    /\ TypeOK
    /\ GuardInv
    /\ RegistryInv
    /\ WriterInv
    /\ AcceptedIsFlushed
    /\ StampInv

=============================================================================
