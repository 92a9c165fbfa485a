--------------------------- MODULE WsGatewayProofs ---------------------------
(***************************************************************************)
(* Proofs about WsGateway, for any number of sockets, rooms, events and    *)
(* guards, and any number of messages and pushes.                          *)
(***************************************************************************)
EXTENDS WsGateway, SequenceTheorems, TLAPS

(***************************************************************************)
(* Queues split in two parts.                                              *)
(***************************************************************************)

\* An element queued last comes last in what the parts hold.
LEMMA QueueLast ==
  ASSUME NEW S, NEW w \in Seq(S), NEW q \in Seq(S), NEW a, a = w \o q, NEW f \in S
  PROVE  Append(a, f) = w \o Append(q, f)
  <1>1. w \o q \in Seq(S) /\ <<f>> \in Seq(S)
    BY ConcatProperties
  <1>2. Append(w \o q, f) = (w \o q) \o <<f>> /\ Append(q, f) = q \o <<f>>
    BY <1>1, AppendIsConcat
  <1>3. QED
    BY <1>1, <1>2, ConcatAssociative

\* Moving the head of the second part to the end of the first keeps the whole.
LEMMA MoveHead ==
  ASSUME NEW S, NEW w \in Seq(S), NEW q \in Seq(S), q # <<>>
  PROVE  Append(w, Head(q)) \o Tail(q) = w \o q
  <1>1. /\ Head(q) \in S /\ Tail(q) \in Seq(S) /\ <<Head(q)>> \in Seq(S)
        /\ Len(Tail(q)) = Len(q) - 1
        /\ \A i \in 1..Len(Tail(q)) : Tail(q)[i] = q[i + 1]
    BY HeadTailProperties
  <1>2. <<Head(q)>> \o Tail(q) = q
    OBVIOUS
  <1>3. Append(w, Head(q)) = w \o <<Head(q)>>
    BY <1>1, AppendIsConcat
  <1>4. QED
    BY <1>1, <1>2, <1>3, ConcatAssociative

\* The first part is a prefix of the whole.
LEMMA PrefixOfConcat ==
  ASSUME NEW S, NEW w \in Seq(S), NEW q \in Seq(S)
  PROVE  IsPrefix(w, w \o q)
  <1>1. Len(w) \in Nat /\ Len(q) \in Nat /\ Len(w \o q) = Len(w) + Len(q)
    BY ConcatProperties, LenProperties
  <1>2. CASE Len(w) = 0
    <2>1. SubSeq(w, 1, Len(w)) = <<>> /\ SubSeq(w \o q, 1, Len(w)) = <<>>
      BY <1>2, SubSeqEmpty
    <2>2. QED
      BY <1>1, <2>1 DEF IsPrefix
  <1>3. CASE Len(w) # 0
    <2>1. 1 \in 1..Len(w) /\ Len(w) \in 1..Len(w)
      BY <1>1, <1>3
    <2>2. SubSeq(w \o q, 1, Len(w)) = SubSeq(w, 1, Len(w))
      BY <2>1, SubSeqOfConcat1
    <2>3. QED
      BY <1>1, <2>2 DEF IsPrefix
  <1>4. QED
    BY <1>2, <1>3

\* A prefix agrees with the whole, position by position.
LEMMA PrefixElements ==
  ASSUME NEW S, NEW w \in Seq(S), NEW a \in Seq(S), IsPrefix(w, a)
  PROVE  /\ DOMAIN w \subseteq DOMAIN a
         /\ \A i \in DOMAIN w : w[i] = a[i]
  <1>1. /\ Len(w) \in Nat /\ Len(a) \in Nat /\ Len(w) <= Len(a)
        /\ DOMAIN w = 1..Len(w) /\ DOMAIN a = 1..Len(a)
    BY LenProperties DEF IsPrefix
  <1>2. SubSeq(w, 1, Len(w)) = SubSeq(a, 1, Len(w))
    BY DEF IsPrefix
  <1>3. ASSUME NEW i \in 1..Len(w) PROVE w[i] = a[i]
    <2>1. \A j \in 1..Len(w) : w[j] \in S /\ a[j] \in S
      BY <1>1, ElementOfSeq
    <2>2. SubSeq(w, 1, Len(w))[i] = w[i]
      BY <1>1, <2>1, SubSeqProperties
    <2>3. SubSeq(a, 1, Len(w))[i] = a[i]
      BY <1>1, <2>1, SubSeqProperties
    <2>4. QED
      BY <1>2, <2>2, <2>3
  <1>4. QED
    BY <1>1, <1>3

\* The stamp of whoever calls the registry is a number of messages.
LEMMA StampType ==
  ASSUME TypeOK, NEW src \in Conns \cup {Service}
  PROVE  Stamp(src) \in Nat
  <1>1. CASE src = Service
    BY <1>1 DEF Stamp
  <1>2. CASE src # Service /\ pc[src] = "leaving"
    BY <1>2 DEF Stamp, TypeOK
  <1>3. CASE src # Service /\ pc[src] # "leaving"
    BY <1>3 DEF Stamp, TypeOK
  <1>4. QED
    BY <1>1, <1>2, <1>3

\* A send is appended to the outbox of each addressed socket whose writer
\* still runs, and to no other (server.rs:171-203).
LEMMA QueueEffect ==
  ASSUME TypeOK, NEW S, NEW f \in Frames, Queue(S, f)
  PROVE  /\ outbox' \in [Conns -> Seq(Frames)]
         /\ accepted' \in [Conns -> Seq(Frames)]
         /\ \A c \in Conns :
               \/ /\ c \in S /\ writer[c] = "running"
                  /\ outbox'[c] = Append(outbox[c], f)
                  /\ accepted'[c] = Append(accepted[c], f)
               \/ /\ c \notin S \/ writer[c] # "running"
                  /\ outbox'[c] = outbox[c]
                  /\ accepted'[c] = accepted[c]
  <1> DEFINE ok == {c \in S : SendOk(c)}
             Put(q) == [c \in Conns |-> IF c \in ok THEN Append(q[c], f) ELSE q[c]]
  <1>1. outbox' = Put(outbox) /\ accepted' = Put(accepted)
    BY DEF Queue
  <1>2. ASSUME NEW q \in [Conns -> Seq(Frames)], NEW c \in Conns
        PROVE  Append(q[c], f) \in Seq(Frames) /\ q[c] \in Seq(Frames)
    BY <1>2, AppendProperties
  <1>3. ASSUME NEW q \in [Conns -> Seq(Frames)]
        PROVE  Put(q) \in [Conns -> Seq(Frames)]
    BY <1>2
  <1>4. \A c \in Conns : c \in ok <=> c \in S /\ writer[c] = "running"
    BY DEF SendOk
  <1>5. QED
    BY <1>1, <1>3, <1>4 DEF TypeOK

\* The registry calls of user code and of services: a change of the caller's
\* own rooms, or one frame pushed to some registered sockets (server.rs:158-204).
LEMMA CallCases ==
  ASSUME NEW c \in Conns, ClientCall(c)
  PROVE  /\ pc[c] \in UserCode
         /\ \/ \E r \in Rooms : join(c, r) \/ leave(c, r)
            \/ \E I \in SUBSET DOMAIN conns : Push(c, I)
  <1>1. ASSUME NEW r \in Rooms, emit_to_value(c, r)
        PROVE  \E I \in SUBSET DOMAIN conns : Push(c, I)
    BY <1>1 DEF emit_to_value
  <1>2. ASSUME emit_value(c, id[c])
        PROVE  \E I \in SUBSET DOMAIN conns : Push(c, I)
    BY <1>2 DEF emit_value
  <1>3. ASSUME broadcast_value(c)
        PROVE  \E I \in SUBSET DOMAIN conns : Push(c, I)
    BY <1>3 DEF broadcast_value
  <1>4. QED
    BY <1>1, <1>2, <1>3 DEF ClientCall

\* A service may hold the id of a connection that has left (server.rs:194-203).
LEMMA ServiceCases ==
  ASSUME ServiceCall
  PROVE  \E I \in SUBSET DOMAIN conns : Push(Service, I)
  <1>1. ASSUME NEW r \in Rooms, emit_to_value(Service, r)
        PROVE  \E I \in SUBSET DOMAIN conns : Push(Service, I)
    BY <1>1 DEF emit_to_value
  <1>2. ASSUME NEW i \in 0..(next - 1), emit_value(Service, i)
        PROVE  \E I \in SUBSET DOMAIN conns : Push(Service, I)
    BY <1>2 DEF emit_value
  <1>3. ASSUME broadcast_value(Service)
        PROVE  \E I \in SUBSET DOMAIN conns : Push(Service, I)
    BY <1>3 DEF broadcast_value
  <1>4. QED
    BY <1>1, <1>2, <1>3 DEF ServiceCall


\* join and leave replace the rooms of the caller's own entry
\* (server.rs:159-169).
LEMMA EnrolEffect ==
  ASSUME TypeOK, NEW c \in Conns, NEW rooms \in SUBSET Rooms, Enrol(c, rooms)
  PROVE  /\ DOMAIN conns' = DOMAIN conns
         /\ conns' \in [DOMAIN conns -> [conn : Conns, rooms : SUBSET Rooms]]
         /\ \A i \in DOMAIN conns : conns'[i].conn = conns[i].conn
         /\ \A i \in DOMAIN conns \ {id[c]} : conns'[i] = conns[i]
         /\ id[c] \in DOMAIN conns =>
               conns'[id[c]] = [conn |-> conns[id[c]].conn, rooms |-> rooms]
  <1>1. CASE id[c] \notin DOMAIN conns
    BY <1>1 DEF Enrol, TypeOK
  <1>2. CASE id[c] \in DOMAIN conns
    <2> DEFINE e == [conns[id[c]] EXCEPT !.rooms = rooms]
    <2>1. conns[id[c]] \in [conn : Conns, rooms : SUBSET Rooms]
      BY <1>2 DEF TypeOK
    <2>2. e \in [conn : Conns, rooms : SUBSET Rooms]
          /\ e = [conn |-> conns[id[c]].conn, rooms |-> rooms]
      BY <2>1
    <2>3. conns' = [conns EXCEPT ![id[c]] = e]
      BY <1>2 DEF Enrol
    <2> HIDE DEF e
    <2>4. QED
      BY <1>2, <2>1, <2>2, <2>3 DEF TypeOK
  <1>3. QED
    BY <1>1, <1>2

\* A passed guard is counted and the event kept (guard.rs:113-115).
LEMMA OneMorePassed ==
  ASSUME NEW E, NEW k \in [event : E, passed : Nat]
  PROVE  [k EXCEPT !.passed = @ + 1] \in [event : E, passed : Nat]
  OBVIOUS

\* Only the guards' own progress moves while a message is under guard, and a
\* task that is not guarding may hold any event.
LEMMA TypeStep ==
  TypeOK /\ GuardInv /\ RegistryInv /\ [Next]_vars => TypeOK' /\ GuardInv'
  <1> SUFFICES ASSUME TypeOK, GuardInv, RegistryInv, [Next]_vars
               PROVE  TypeOK' /\ GuardInv'
    OBVIOUS
  <1> USE WsAssumption DEF TypeOK, GuardInv
  <1>1. ASSUME NEW c \in Conns, Upgrade(c) PROVE TypeOK' /\ GuardInv'
    BY <1>1 DEF Upgrade, Stages
  <1>2. ASSUME NEW c \in Conns, ConnectAllocate(c) PROVE TypeOK' /\ GuardInv'
    BY <1>2 DEF ConnectAllocate, Stages
  <1>3. ASSUME NEW c \in Conns, OnConnectReturns(c) \/ HandlerIsSilent(c) \/ ReadEnds(c)
                                \/ AwaitWriter(c)
        PROVE  TypeOK' /\ GuardInv'
    BY <1>3 DEF OnConnectReturns, HandlerIsSilent, ReadEnds, LeaveLoop, AwaitWriter, Stages
  <1>4. ASSUME NEW c \in Conns, Panic(c) PROVE TypeOK' /\ GuardInv'
    BY <1>4 DEF Panic, Stages
  <1>5. ASSUME NEW c \in Conns, DispatchRuns(c) PROVE TypeOK' /\ GuardInv'
    BY <1>5 DEF DispatchRuns, Guarded, Stages
  <1>6. ASSUME NEW c \in Conns, NEW e \in Events, ReadEnvelope(c, e)
        PROVE  TypeOK' /\ GuardInv'
    BY <1>6 DEF ReadEnvelope, Stages
  <1>7. ASSUME NEW c \in Conns, GuardPasses(c) PROVE TypeOK' /\ GuardInv'
    <2> DEFINE k == [check[c] EXCEPT !.passed = @ + 1]
    <2>1. pc[c] = "guarding" /\ check[c] \in [event : Events, passed : Nat]
      BY <1>7 DEF GuardPasses
    <2>2. k \in [event : Events, passed : Nat]
      BY <2>1, OneMorePassed
    <2>3. check' = [check EXCEPT ![c] = k]
      BY <1>7 DEF GuardPasses
    <2> HIDE DEF k
    <2>4. check' \in [Conns -> [event : Events, passed : Nat] \cup {Idle}]
      BY <2>2, <2>3
    <2>5. GuardInv'
      BY <1>7, <2>2, <2>3 DEF GuardPasses
    <2>6. QED
      BY <1>7, <2>4, <2>5 DEF GuardPasses
  <1>8. ASSUME NEW c \in Conns, ConnectInsert(c) PROVE TypeOK' /\ GuardInv'
    <2>1. id[c] \in 0..(next - 1)
      <3>1. id[c] # NoId
        BY <1>8 DEF ConnectInsert, RegistryInv
      <3>2. id[c] \in Nat /\ id[c] < next
        BY <3>1 DEF RegistryInv
      <3>3. QED
        BY <3>2
    <2>2. [conn |-> c, rooms |-> {}] \in [conn : Conns, rooms : SUBSET Rooms]
      OBVIOUS
    <2>3. /\ DOMAIN conns' \subseteq 0..(next - 1)
          /\ conns' \in [DOMAIN conns' -> [conn : Conns, rooms : SUBSET Rooms]]
      BY <1>8, <2>1, <2>2 DEF ConnectInsert
    <2>4. QED
      BY <1>8, <2>3 DEF ConnectInsert, Stages
  <1>9. ASSUME NEW c \in Conns, disconnect(c) PROVE TypeOK' /\ GuardInv'
    BY <1>9 DEF disconnect, Stages
  <1>10. ASSUME NEW c \in Conns, NEW r \in Rooms, join(c, r) \/ leave(c, r)
         PROVE  TypeOK' /\ GuardInv'
    <2>1. PICK rooms \in SUBSET Rooms : Enrol(c, rooms)
      <3>1. RoomsOf(c) \in SUBSET Rooms
        BY DEF RoomsOf
      <3>2. QED
        BY <1>10, <3>1 DEF join, leave
    <2>2. joined' \in [Conns -> SUBSET Rooms]
      <3>1. joined[c] \cup {r} \in SUBSET Rooms /\ joined[c] \ {r} \in SUBSET Rooms
        OBVIOUS
      <3>2. \/ joined' = [joined EXCEPT ![c] = joined[c] \cup {r}]
            \/ joined' = [joined EXCEPT ![c] = joined[c] \ {r}]
        BY <1>10 DEF join, leave
      <3>3. QED
        BY <3>1, <3>2
    <2>3. /\ DOMAIN conns' = DOMAIN conns
          /\ conns' \in [DOMAIN conns -> [conn : Conns, rooms : SUBSET Rooms]]
      BY <2>1, EnrolEffect
    <2>4. QED
      BY <2>1, <2>2, <2>3 DEF Enrol
  <1>11. ASSUME NEW src \in Conns \cup {Service}, NEW I \in SUBSET DOMAIN conns, Push(src, I)
         PROVE  TypeOK' /\ GuardInv'
    <2> DEFINE f == [src |-> src, at |-> Stamp(src), kind |-> "push"]
    <2>1. f \in Frames
      BY StampType DEF Frames
    <2>2. Queue(Sockets(I), f)
      BY <1>11 DEF Push
    <2> HIDE DEF f
    <2>3. outbox' \in [Conns -> Seq(Frames)] /\ accepted' \in [Conns -> Seq(Frames)]
      BY <2>1, <2>2, QueueEffect
    <2>4. QED
      BY <1>11, <2>3 DEF Push
  <1>12. ASSUME NEW c \in Conns, Answer(c), read' \in [Conns -> Nat],
                \A d \in Conns : read'[d] <= MaxMsgs[d]
         PROVE  TypeOK' /\ GuardInv'
    <2> DEFINE f == [src |-> c, at |-> read'[c], kind |-> "answer"]
    <2>1. f \in Frames
      BY <1>12 DEF Frames
    <2>2. Queue({c}, f)
      BY <1>12 DEF Answer
    <2> HIDE DEF f
    <2>3. outbox' \in [Conns -> Seq(Frames)] /\ accepted' \in [Conns -> Seq(Frames)]
      BY <2>1, <2>2, QueueEffect
    <2>4. pc' = [pc EXCEPT ![c] = "reading"] \/ pc' = [pc EXCEPT ![c] = "leaving"]
      BY <1>12 DEF Answer, LeaveLoop
    <2>5. /\ check' = [check EXCEPT ![c] = Idle]
          /\ UNCHANGED <<id, next, conns, writer, wire, pushes, joined>>
      BY <1>12 DEF Answer
    <2>6. TypeOK'
      <3>1. pc' \in [Conns -> Stages]
        BY <2>4 DEF Stages
      <3>2. check' \in [Conns -> [event : Events, passed : Nat] \cup {Idle}]
        BY <2>5
      <3>3. /\ next' \in Nat /\ DOMAIN conns' \subseteq 0..(next' - 1)
            /\ conns' \in [DOMAIN conns' -> [conn : Conns, rooms : SUBSET Rooms]]
            /\ pushes' \in 0..MaxPushes
        BY <2>5
      <3>4. /\ id' \in [Conns -> Nat \cup {NoId}] /\ wire' \in [Conns -> Seq(Frames)]
            /\ writer' \in [Conns -> {"none", "running", "dead", "ended"}]
            /\ joined' \in [Conns -> SUBSET Rooms]
        BY <2>5
      <3>5. QED
        BY <1>12, <2>3, <3>1, <3>2, <3>3, <3>4, Zenon
    <2>7. GuardInv'
      <3>1. ASSUME NEW d \in Conns, pc'[d] = "guarding" PROVE d # c /\ pc[d] = "guarding"
        BY <2>4, <3>1
      <3>2. QED
        BY <2>5, <3>1
    <2>8. QED
      BY <2>6, <2>7
  <1>13. ASSUME NEW c \in Conns, InvalidEnvelope(c) PROVE TypeOK' /\ GuardInv'
    <2>1. /\ Answer(c) /\ read' \in [Conns -> Nat]
          /\ \A d \in Conns : read'[d] <= MaxMsgs[d]
      BY <1>13 DEF InvalidEnvelope
    <2>2. QED
      BY <1>12, <2>1
  <1>14. ASSUME NEW c \in Conns, GuardRejects(c) \/ DispatchFails(c) \/ HandlerReplies(c)
         PROVE  TypeOK' /\ GuardInv'
    <2>1. Answer(c) /\ read' = read
      BY <1>14 DEF GuardRejects, DispatchFails, HandlerReplies
    <2>2. QED
      BY <1>12, <2>1
  <1>15. ASSUME NEW c \in Conns, WriterSends(c) PROVE TypeOK' /\ GuardInv'
    <2>1. Head(outbox[c]) \in Frames /\ Tail(outbox[c]) \in Seq(Frames)
      BY <1>15, HeadTailProperties DEF WriterSends
    <2>2. Append(wire[c], Head(outbox[c])) \in Seq(Frames)
      BY <2>1, AppendProperties
    <2>3. QED
      BY <1>15, <2>1, <2>2 DEF WriterSends
  <1>16. ASSUME NEW c \in Conns, WriterFails(c) \/ WriterEnds(c) PROVE TypeOK' /\ GuardInv'
    <2>1. <<>> \in Seq(Frames)
      BY EmptySeq
    <2>2. CASE WriterFails(c)
      BY <2>1, <2>2 DEF WriterFails
    <2>3. CASE WriterEnds(c)
      BY <2>3 DEF WriterEnds
    <2>4. QED
      BY <1>16, <2>2, <2>3
  <1>17. ASSUME UNCHANGED vars PROVE TypeOK' /\ GuardInv'
    BY <1>17 DEF vars
  <1>18. QED
    BY <1>1, <1>2, <1>3, <1>4, <1>5, <1>6, <1>7, <1>8, <1>9, <1>10, <1>11, <1>13,
       <1>14, <1>15, <1>16, <1>17, CallCases, ServiceCases
       DEF Next, ConnStep, PeerStep, WriterStep, Terminated

\* A task that moves on without touching the registry keeps its entry valid,
\* unless it moves past a registration (gateway.rs:112-173).
LEMMA QuietMove ==
  ASSUME TypeOK, RegistryInv, UNCHANGED <<id, next, conns, joined>>,
         NEW c \in Conns, NEW s \in Stages, pc' = [pc EXCEPT ![c] = s],
         \/ pc[c] \in Registered /\ s \in Registered \cup {"panicked"}
         \/ pc[c] = "none" /\ s = "upgraded"
         \/ pc[c] = "draining" /\ s = "done"
  PROVE  RegistryInv'
  <1> USE DEF TypeOK, RegistryInv
  <1>1. /\ \A d \in Conns : pc'[d] = IF d = c THEN s ELSE pc[d]
        /\ \A i \in DOMAIN conns : conns[i].conn \in Conns
    OBVIOUS
  <1>2. \A d \in Conns : /\ id'[d] = NoId <=> pc'[d] \in {"none", "upgraded"}
                         /\ id'[d] # NoId => id'[d] < next'
                         /\ pc'[d] \in {"none", "upgraded", "allocated"} => joined'[d] = {}
    BY <1>1 DEF Registered
  <1>3. IdNamesOneSocket'
    BY DEF IdNamesOneSocket
  <1>4. \A i \in DOMAIN conns : pc'[conns[i].conn] \in Registered \cup {"panicked"}
    BY <1>1 DEF Registered
  <1>5. \A d \in Conns : pc'[d] \in Registered =>
           id[d] \in DOMAIN conns /\ conns[id[d]] = [conn |-> d, rooms |-> joined[d]]
    BY <1>1 DEF Registered
  <1>6. QED
    BY <1>2, <1>3, <1>4, <1>5

\* Drawing an id, entering the registry, changing rooms and leaving keep every
\* entry with the one task that drew its id (server.rs:83-101,
\* 159-169).
LEMMA RegistryStep == TypeOK /\ RegistryInv /\ [Next]_vars => RegistryInv'
  <1> SUFFICES ASSUME TypeOK, RegistryInv, [Next]_vars PROVE RegistryInv'
    OBVIOUS
  <1>1. ASSUME NEW c \in Conns, NEW s \in Stages, pc' = [pc EXCEPT ![c] = s],
               UNCHANGED <<id, next, conns, joined>>,
               \/ pc[c] \in Registered /\ s \in Registered \cup {"panicked"}
               \/ pc[c] = "none" /\ s = "upgraded"
               \/ pc[c] = "draining" /\ s = "done"
        PROVE  RegistryInv'
    BY <1>1, QuietMove
  <1>2. ASSUME NEW c \in Conns, Upgrade(c) PROVE RegistryInv'
    BY <1>1, <1>2 DEF Upgrade, Stages
  <1>3. ASSUME NEW c \in Conns, OnConnectReturns(c) PROVE RegistryInv'
    BY <1>1, <1>3 DEF OnConnectReturns, Stages, Registered
  <1>4. ASSUME NEW c \in Conns, NEW e \in Events, ReadEnvelope(c, e) PROVE RegistryInv'
    BY <1>1, <1>4 DEF ReadEnvelope, Stages, Registered
  <1>5. ASSUME NEW c \in Conns, DispatchRuns(c) PROVE RegistryInv'
    BY <1>1, <1>5 DEF DispatchRuns, Guarded, Stages, Registered
  <1>6. ASSUME NEW c \in Conns, HandlerIsSilent(c) PROVE RegistryInv'
    BY <1>1, <1>6 DEF HandlerIsSilent, Stages, Registered
  <1>7. ASSUME NEW c \in Conns, ReadEnds(c) PROVE RegistryInv'
    BY <1>1, <1>7 DEF ReadEnds, LeaveLoop, Stages, Registered
  <1>8. ASSUME NEW c \in Conns, AwaitWriter(c) PROVE RegistryInv'
    BY <1>1, <1>8 DEF AwaitWriter, Stages
  <1>9. ASSUME NEW c \in Conns, Panic(c) PROVE RegistryInv'
    BY <1>1, <1>9 DEF Panic, Stages, Registered, UserCode
  <1>10. ASSUME NEW c \in Conns, InvalidEnvelope(c) \/ GuardRejects(c) \/ DispatchFails(c)
                                 \/ HandlerReplies(c)
         PROVE  RegistryInv'
    <2>1. Answer(c) /\ pc[c] \in Registered
      BY <1>10 DEF InvalidEnvelope, GuardRejects, DispatchFails, HandlerReplies, Guarded,
                   Registered
    <2>2. PICK s \in Registered : pc' = [pc EXCEPT ![c] = s]
      BY <2>1 DEF Answer, LeaveLoop, Registered
    <2>3. UNCHANGED <<id, next, conns, joined>> /\ s \in Stages
      BY <2>1 DEF Answer, Registered, Stages
    <2>4. QED
      BY <1>1, <2>1, <2>2, <2>3
  <1>11. ASSUME UNCHANGED <<pc, id, next, conns, joined>> PROVE RegistryInv'
    BY <1>11 DEF RegistryInv, IdNamesOneSocket
  <1>12. ASSUME NEW c \in Conns, GuardPasses(c) \/ WriterSends(c) \/ WriterFails(c)
                                 \/ WriterEnds(c)
         PROVE  RegistryInv'
    BY <1>11, <1>12 DEF GuardPasses, WriterSends, WriterFails, WriterEnds
  <1>13. ASSUME NEW src, NEW I, Push(src, I) PROVE RegistryInv'
    BY <1>11, <1>13 DEF Push
  <1>14. ASSUME NEW c \in Conns, ConnectAllocate(c) PROVE RegistryInv'
    <2> USE DEF TypeOK, RegistryInv
    <2>1. /\ pc[c] = "upgraded" /\ id[c] = NoId
          /\ \A d \in Conns : pc'[d] = IF d = c THEN "allocated" ELSE pc[d]
          /\ \A d \in Conns : id'[d] = IF d = c THEN next ELSE id[d]
          /\ next' = next + 1 /\ conns' = conns /\ joined' = joined
      BY <1>14 DEF ConnectAllocate
    <2>2. \A i \in DOMAIN conns : conns[i].conn \in Conns \ {c} /\ i # next
      <3>1. \A i \in DOMAIN conns : conns[i].conn \in Conns /\ i \in 0..(next - 1)
        OBVIOUS
      <3>2. \A i \in DOMAIN conns : conns[i].conn # c
        BY <2>1, <3>1 DEF Registered
      <3>3. \A i \in 0..(next - 1) : i # next
        OBVIOUS
      <3>4. QED
        BY <3>1, <3>2, <3>3
    <2>3. \A d \in Conns : /\ id'[d] = NoId <=> pc'[d] \in {"none", "upgraded"}
                           /\ id'[d] # NoId => id'[d] < next'
                           /\ pc'[d] \in {"none", "upgraded", "allocated"} =>
                                 joined'[d] = {}
      <3>1. next # NoId
        BY WsAssumption
      <3>2. QED
        BY <2>1, <3>1
    <2>4. IdNamesOneSocket'
      <3>1. ASSUME NEW a \in Conns, NEW b \in Conns, a # b, id'[a] # NoId
            PROVE  id'[a] # id'[b]
        <4>1. CASE a = c
          <5>1. id[b] = NoId \/ (id[b] \in Nat /\ id[b] < next)
            OBVIOUS
          <5>2. id[b] # next
            BY <5>1, WsAssumption
          <5>3. QED
            BY <2>1, <3>1, <4>1, <5>2
        <4>2. CASE b = c
          <5>1. id'[a] = id[a] /\ id[a] \in Nat /\ id[a] < next
            BY <2>1, <3>1, <4>2
          <5>2. QED
            BY <2>1, <4>2, <5>1
        <4>3. CASE a # c /\ b # c
          BY <2>1, <3>1, <4>3 DEF IdNamesOneSocket
        <4>4. QED
          BY <4>1, <4>2, <4>3
      <3>2. \A i \in DOMAIN conns : id'[conns[i].conn] = i
        BY <2>1, <2>2 DEF IdNamesOneSocket
      <3>3. QED
        BY <2>1, <3>1, <3>2 DEF IdNamesOneSocket
    <2>5. \A i \in DOMAIN conns : pc'[conns[i].conn] \in Registered \cup {"panicked"}
      BY <2>1, <2>2
    <2>6. \A d \in Conns : pc'[d] \in Registered =>
             id'[d] \in DOMAIN conns /\ conns[id'[d]] = [conn |-> d, rooms |-> joined[d]]
      BY <2>1 DEF Registered
    <2>7. QED
      BY <2>1, <2>3, <2>4, <2>5, <2>6
  <1>15. ASSUME NEW c \in Conns, ConnectInsert(c) PROVE RegistryInv'
    <2> USE DEF TypeOK, RegistryInv
    <2>1. /\ pc[c] = "allocated" /\ id' = id /\ next' = next /\ joined' = joined
          /\ \A d \in Conns : pc'[d] = IF d = c THEN "connecting" ELSE pc[d]
          /\ DOMAIN conns' = DOMAIN conns \cup {id[c]}
          /\ conns'[id[c]] = [conn |-> c, rooms |-> {}]
          /\ \A i \in DOMAIN conns \ {id[c]} : conns'[i] = conns[i]
      BY <1>15 DEF ConnectInsert
    <2>2. id[c] # NoId /\ joined[c] = {}
      BY <2>1
    <2>3. id[c] \notin DOMAIN conns
      <3>1. \A i \in DOMAIN conns : conns[i].conn \in Conns /\ conns[i].conn # c
        BY <2>1 DEF Registered
      <3>2. QED
        BY <2>2, <3>1 DEF IdNamesOneSocket
    <2>4. \A d \in Conns : /\ id'[d] = NoId <=> pc'[d] \in {"none", "upgraded"}
                           /\ id'[d] # NoId => id'[d] < next'
                           /\ pc'[d] \in {"none", "upgraded", "allocated"} =>
                                 joined'[d] = {}
      BY <2>1
    <2>5. IdNamesOneSocket'
      BY <2>1, <2>3 DEF IdNamesOneSocket
    <2>6. \A i \in DOMAIN conns' : pc'[conns'[i].conn] \in Registered \cup {"panicked"}
      <3>1. \A i \in DOMAIN conns : conns[i].conn \in Conns
        OBVIOUS
      <3>2. QED
        BY <2>1, <2>3, <3>1 DEF Registered
    <2>7. ASSUME NEW d \in Conns, pc'[d] \in Registered
          PROVE  /\ id'[d] \in DOMAIN conns'
                 /\ conns'[id'[d]] = [conn |-> d, rooms |-> joined'[d]]
      <3>1. CASE d = c
        BY <2>1, <2>2, <3>1
      <3>2. CASE d # c
        BY <2>1, <2>2, <2>3, <2>7, <3>2
      <3>3. QED
        BY <3>1, <3>2
    <2>8. QED
      BY <2>4, <2>5, <2>6, <2>7
  <1>16. ASSUME NEW c \in Conns, disconnect(c) PROVE RegistryInv'
    <2> USE DEF TypeOK, RegistryInv
    <2>1. /\ pc[c] = "leaving" /\ id' = id /\ next' = next
          /\ \A d \in Conns : pc'[d] = IF d = c THEN "draining" ELSE pc[d]
          /\ \A d \in Conns : joined'[d] = IF d = c THEN {} ELSE joined[d]
          /\ DOMAIN conns' = DOMAIN conns \ {id[c]}
          /\ \A i \in DOMAIN conns' : conns'[i] = conns[i]
      BY <1>16 DEF disconnect
    <2>2. id[c] # NoId
      BY <2>1
    <2>3. \A i \in DOMAIN conns' : conns[i].conn \in Conns /\ conns[i].conn # c
      BY <2>1 DEF IdNamesOneSocket
    <2>4. \A d \in Conns : /\ id'[d] = NoId <=> pc'[d] \in {"none", "upgraded"}
                           /\ id'[d] # NoId => id'[d] < next'
                           /\ pc'[d] \in {"none", "upgraded", "allocated"} =>
                                 joined'[d] = {}
      BY <2>1
    <2>5. IdNamesOneSocket'
      BY <2>1 DEF IdNamesOneSocket
    <2>6. \A i \in DOMAIN conns' : pc'[conns'[i].conn] \in Registered \cup {"panicked"}
      BY <2>1, <2>3
    <2>7. ASSUME NEW d \in Conns, pc'[d] \in Registered
          PROVE  /\ id'[d] \in DOMAIN conns'
                 /\ conns'[id'[d]] = [conn |-> d, rooms |-> joined'[d]]
      <3>1. d # c /\ pc[d] \in Registered
        BY <2>1, <2>7 DEF Registered
      <3>2. id[d] # id[c]
        BY <2>2, <3>1 DEF IdNamesOneSocket
      <3>3. QED
        BY <2>1, <3>1, <3>2
    <2>8. QED
      BY <2>4, <2>5, <2>6, <2>7
  <1>17. ASSUME NEW c \in Conns, NEW r \in Rooms, pc[c] \in UserCode,
                join(c, r) \/ leave(c, r)
         PROVE  RegistryInv'
    <2>1. pc[c] \in Registered
      BY <1>17 DEF UserCode, Registered
    <2>2. /\ id[c] \in DOMAIN conns /\ conns[id[c]].rooms = joined[c]
          /\ conns[id[c]].conn = c
      <3>1. id[c] \in DOMAIN conns /\ conns[id[c]] = [conn |-> c, rooms |-> joined[c]]
        BY <2>1 DEF RegistryInv
      <3>2. QED
        BY <3>1
    <2>3. PICK rooms \in SUBSET Rooms :
             /\ Enrol(c, rooms)
             /\ joined' = [joined EXCEPT ![c] = rooms]
      <3>1. RoomsOf(c) = joined[c] /\ joined[c] \in SUBSET Rooms
        BY <2>2 DEF RoomsOf, TypeOK
      <3>2. CASE join(c, r)
        BY <3>1, <3>2 DEF join
      <3>3. CASE leave(c, r)
        BY <3>1, <3>3 DEF leave
      <3>4. QED
        BY <1>17, <3>2, <3>3
    <2>4. /\ DOMAIN conns' = DOMAIN conns
          /\ \A i \in DOMAIN conns : conns'[i].conn = conns[i].conn
          /\ \A i \in DOMAIN conns \ {id[c]} : conns'[i] = conns[i]
          /\ conns'[id[c]] = [conn |-> c, rooms |-> rooms]
      BY <2>2, <2>3, EnrolEffect
    <2>5. /\ pc' = pc /\ id' = id /\ next' = next
          /\ \A d \in Conns : joined'[d] = IF d = c THEN rooms ELSE joined[d]
      BY <2>3 DEF Enrol, TypeOK
    <2> USE DEF RegistryInv
    <2>6. \A d \in Conns : /\ id'[d] = NoId <=> pc'[d] \in {"none", "upgraded"}
                           /\ id'[d] # NoId => id'[d] < next'
                           /\ pc'[d] \in {"none", "upgraded", "allocated"} =>
                                 joined'[d] = {}
      BY <2>1, <2>5 DEF Registered
    <2>7. IdNamesOneSocket'
      BY <2>4, <2>5 DEF IdNamesOneSocket
    <2>8. \A i \in DOMAIN conns' : pc'[conns'[i].conn] \in Registered \cup {"panicked"}
      BY <2>4, <2>5
    <2>9. ASSUME NEW d \in Conns, pc'[d] \in Registered
          PROVE  /\ id'[d] \in DOMAIN conns'
                 /\ conns'[id'[d]] = [conn |-> d, rooms |-> joined'[d]]
      <3>1. CASE d = c
        BY <2>2, <2>4, <2>5, <3>1
      <3>2. CASE d # c
        <4>1. id[d] \in DOMAIN conns /\ conns[id[d]] = [conn |-> d, rooms |-> joined[d]]
          BY <2>5, <2>9
        <4>2. id[d] # id[c]
          BY <2>2, <3>2, <4>1
        <4>3. QED
          BY <2>4, <2>5, <3>2, <4>1, <4>2
      <3>3. QED
        BY <3>1, <3>2
    <2>10. QED
      BY <2>6, <2>7, <2>8, <2>9
  <1>18. ASSUME UNCHANGED vars PROVE RegistryInv'
    BY <1>11, <1>18 DEF vars
  <1>19. QED
    BY <1>2, <1>3, <1>4, <1>5, <1>6, <1>7, <1>8, <1>9, <1>10, <1>12, <1>13, <1>14,
       <1>15, <1>16, <1>17, <1>18, CallCases, ServiceCases
       DEF Next, ConnStep, PeerStep, WriterStep, Terminated

\* What one step may do to one socket's queue and writer (gateway.rs:120-130).
SocketIdle(d) ==
  writer'[d] = writer[d] /\ wire'[d] = wire[d] /\ outbox'[d] = outbox[d]
  /\ accepted'[d] = accepted[d]

SocketAccepts(d, f) ==
  /\ writer[d] = "running" /\ writer'[d] = "running" /\ wire'[d] = wire[d]
  /\ outbox'[d] = Append(outbox[d], f) /\ accepted'[d] = Append(accepted[d], f)

SocketFlushes(d) ==
  /\ writer'[d] = writer[d] /\ accepted'[d] = accepted[d] /\ outbox[d] # <<>>
  /\ wire'[d] = Append(wire[d], Head(outbox[d])) /\ outbox'[d] = Tail(outbox[d])
  /\ writer[d] = "running"

SocketStops(d) ==
  /\ wire'[d] = wire[d] /\ accepted'[d] = accepted[d] /\ writer[d] = "running"
  /\ outbox'[d] = <<>>
  /\ \/ writer'[d] = "dead"
     \/ writer'[d] = "ended" /\ outbox[d] = <<>> /\ pc[d] \notin HoldsOutbox

SocketMoves(d) ==
  \/ SocketIdle(d)
  \/ \E f \in Frames : SocketAccepts(d, f)
  \/ SocketFlushes(d)
  \/ SocketStops(d)
  \/ /\ writer[d] = "none" /\ writer'[d] = "running" /\ wire'[d] = wire[d]
     /\ outbox'[d] = outbox[d] /\ accepted'[d] = accepted[d] /\ pc'[d] = "upgraded"

\* Every step does one of these to every socket.
LEMMA EverySocketMoves ==
  ASSUME TypeOK, WriterInv, [Next]_vars, NEW d \in Conns
  PROVE  SocketMoves(d)
  <1> USE DEF TypeOK
  <1>1. ASSUME UNCHANGED <<writer, wire, outbox, accepted>> PROVE SocketMoves(d)
    BY <1>1 DEF SocketMoves, SocketIdle
  <1>2. ASSUME NEW c \in Conns, Upgrade(c) PROVE SocketMoves(d)
    <2>1. UNCHANGED <<wire, outbox, accepted>> /\ pc[c] = "none" /\ pc'[c] = "upgraded"
          /\ writer' = [writer EXCEPT ![c] = "running"]
      BY <1>2 DEF Upgrade
    <2>2. CASE d = c
      BY <2>1, <2>2 DEF SocketMoves, WriterInv
    <2>3. CASE d # c
      BY <2>1, <2>3 DEF SocketMoves, SocketIdle
    <2>4. QED
      BY <2>2, <2>3
  <1>3. ASSUME NEW c \in Conns, \/ ConnectAllocate(c) \/ ConnectInsert(c)
                                \/ OnConnectReturns(c) \/ GuardPasses(c)
                                \/ DispatchRuns(c) \/ HandlerIsSilent(c) \/ disconnect(c)
                                \/ AwaitWriter(c) \/ ReadEnds(c) \/ Panic(c)
                                \/ \E e \in Events : ReadEnvelope(c, e)
        PROVE  SocketMoves(d)
    <2>1. UNCHANGED <<writer, wire, outbox, accepted>>
      BY <1>3 DEF ConnectAllocate, ConnectInsert, OnConnectReturns, GuardPasses, DispatchRuns,
                  HandlerIsSilent, disconnect, AwaitWriter, ReadEnds, Panic, ReadEnvelope
    <2>2. QED
      BY <1>1, <2>1
  <1>4. ASSUME NEW c \in Conns, NEW r \in Rooms, join(c, r) \/ leave(c, r)
        PROVE  SocketMoves(d)
    BY <1>1, <1>4 DEF join, leave, Enrol
  <1>5. ASSUME NEW S, NEW f \in Frames, Queue(S, f), UNCHANGED <<writer, wire>>
        PROVE  SocketMoves(d)
    <2>1. \/ /\ writer[d] = "running" /\ outbox'[d] = Append(outbox[d], f)
             /\ accepted'[d] = Append(accepted[d], f)
          \/ outbox'[d] = outbox[d] /\ accepted'[d] = accepted[d]
      BY <1>5, QueueEffect
    <2>2. QED
      BY <1>5, <2>1 DEF SocketMoves, SocketAccepts, SocketIdle
  <1>6. ASSUME NEW src \in Conns \cup {Service}, NEW I, Push(src, I) PROVE SocketMoves(d)
    <2>1. [src |-> src, at |-> Stamp(src), kind |-> "push"] \in Frames
      BY StampType DEF Frames
    <2>2. QED
      BY <1>5, <1>6, <2>1 DEF Push
  <1>7. ASSUME NEW c \in Conns, InvalidEnvelope(c) \/ GuardRejects(c) \/ DispatchFails(c)
                                \/ HandlerReplies(c)
        PROVE  SocketMoves(d)
    <2>1. Answer(c) /\ read'[c] \in Nat
      BY <1>7 DEF InvalidEnvelope, GuardRejects, DispatchFails, HandlerReplies
    <2>2. [src |-> c, at |-> read'[c], kind |-> "answer"] \in Frames
      BY <2>1 DEF Frames
    <2>3. QED
      BY <1>5, <2>1, <2>2 DEF Answer
  <1>8. ASSUME NEW c \in Conns, WriterSends(c) PROVE SocketMoves(d)
    <2>1. CASE d = c
      BY <1>8, <2>1 DEF WriterSends, SocketMoves, SocketFlushes
    <2>2. CASE d # c
      BY <1>8, <2>2 DEF WriterSends, SocketMoves, SocketIdle
    <2>3. QED
      BY <2>1, <2>2
  <1>9. ASSUME NEW c \in Conns, WriterFails(c) \/ WriterEnds(c) PROVE SocketMoves(d)
    <2>1. CASE d = c
      BY <1>9, <2>1 DEF WriterFails, WriterEnds, SocketMoves, SocketStops
    <2>2. CASE d # c
      BY <1>9, <2>2 DEF WriterFails, WriterEnds, SocketMoves, SocketIdle
    <2>3. QED
      BY <2>1, <2>2
  <1>10. ASSUME UNCHANGED vars PROVE SocketMoves(d)
    BY <1>1, <1>10 DEF vars
  <1>11. QED
    BY <1>2, <1>3, <1>4, <1>6, <1>7, <1>8, <1>9, <1>10, CallCases, ServiceCases
       DEF Next, ConnStep, PeerStep, WriterStep, Terminated

\* No queued frame is lost or reordered between the outbox and the wire.
LEMMA FlushStep ==
  ASSUME TypeOK, WriterInv, AcceptedIsFlushed, [Next]_vars, WriterInv'
  PROVE  AcceptedIsFlushed'
  <1> SUFFICES ASSUME NEW d \in Conns
               PROVE  /\ IsPrefix(wire'[d], accepted'[d])
                      /\ writer'[d] # "dead" => accepted'[d] = wire'[d] \o outbox'[d]
                      /\ pc'[d] = "done" /\ writer'[d] # "dead" => wire'[d] = accepted'[d]
    BY DEF AcceptedIsFlushed
  <1>1. /\ outbox[d] \in Seq(Frames) /\ wire[d] \in Seq(Frames)
        /\ accepted[d] \in Seq(Frames) /\ <<>> \in Seq(Frames)
    BY EmptySeq DEF TypeOK
  <1>2. /\ IsPrefix(wire[d], accepted[d])
        /\ writer[d] # "dead" => accepted[d] = wire[d] \o outbox[d]
    BY DEF AcceptedIsFlushed
  <1>3. /\ IsPrefix(wire'[d], accepted'[d])
        /\ writer'[d] # "dead" => accepted'[d] = wire'[d] \o outbox'[d]
    <2>1. CASE SocketIdle(d)
      BY <1>2, <2>1 DEF SocketIdle
    <2>2. ASSUME NEW f \in Frames, SocketAccepts(d, f)
          PROVE  /\ IsPrefix(wire'[d], accepted'[d])
                 /\ accepted'[d] = wire'[d] \o outbox'[d]
      <3>1. accepted'[d] = wire'[d] \o outbox'[d]
        <4>1. accepted[d] = wire[d] \o outbox[d] /\ f \in Frames
          BY <1>2, <2>2 DEF SocketAccepts
        <4>2. Append(accepted[d], f) = wire[d] \o Append(outbox[d], f)
          <5>1. ASSUME NEW w \in Seq(Frames), NEW q \in Seq(Frames), NEW a, a = w \o q
                PROVE  Append(a, f) = w \o Append(q, f)
            BY <5>1, QueueLast
          <5>2. QED
            BY <1>1, <4>1, <5>1
        <4>3. QED
          BY <2>2, <4>2 DEF SocketAccepts
      <3>2. outbox'[d] \in Seq(Frames)
        BY <1>1, <2>2, AppendProperties DEF SocketAccepts
      <3>3. IsPrefix(wire[d], wire[d] \o outbox'[d])
        BY <1>1, <3>2, PrefixOfConcat
      <3>4. QED
        BY <2>2, <3>1, <3>3 DEF SocketAccepts
    <2>3. CASE SocketFlushes(d)
      <3>1. accepted'[d] = wire'[d] \o outbox'[d]
        <4>1. Append(wire[d], Head(outbox[d])) \o Tail(outbox[d]) = wire[d] \o outbox[d]
          BY <1>1, <2>3, MoveHead DEF SocketFlushes
        <4>2. QED
          BY <1>2, <2>3, <4>1 DEF SocketFlushes
      <3>2. Head(outbox[d]) \in Frames /\ outbox'[d] \in Seq(Frames)
        BY <1>1, <2>3, HeadTailProperties DEF SocketFlushes
      <3>3. wire'[d] \in Seq(Frames)
        BY <1>1, <2>3, <3>2, AppendProperties DEF SocketFlushes
      <3>4. IsPrefix(wire'[d], wire'[d] \o outbox'[d])
        BY <3>2, <3>3, PrefixOfConcat
      <3>5. QED
        BY <3>1, <3>4
    <2>4. CASE SocketStops(d)
      BY <1>2, <2>4 DEF SocketStops
    <2>5. CASE /\ writer[d] = "none" /\ wire'[d] = wire[d]
               /\ outbox'[d] = outbox[d] /\ accepted'[d] = accepted[d]
      BY <1>2, <2>5
    <2>6. QED
      BY <2>1, <2>2, <2>3, <2>4, <2>5, EverySocketMoves DEF SocketMoves
  <1>4. pc'[d] = "done" /\ writer'[d] # "dead" => wire'[d] = accepted'[d]
    <2>1. SUFFICES ASSUME pc'[d] = "done", writer'[d] # "dead"
                   PROVE  wire'[d] = accepted'[d]
      OBVIOUS
    <2>2. outbox'[d] = <<>>
      BY <2>1 DEF WriterInv
    <2>3. wire'[d] \in Seq(Frames)
      <3>1. CASE SocketFlushes(d)
        BY <1>1, <3>1, HeadTailProperties, AppendProperties DEF SocketFlushes
      <3>2. CASE ~SocketFlushes(d)
        <4>1. wire'[d] = wire[d]
          BY <3>2, EverySocketMoves DEF SocketMoves, SocketIdle, SocketAccepts, SocketStops
        <4>2. QED
          BY <1>1, <4>1
      <3>3. QED
        BY <3>1, <3>2
    <2>4. QED
      BY <1>3, <2>1, <2>2, <2>3, ConcatEmptySeq
  <1>5. QED
    BY <1>3, <1>4

\* What one step may do to one connection task (gateway.rs:112-173): a task
\* that holds its outbox does not return at once, and one that has let go of
\* it can only return, after its writer.
TaskMoves(d) ==
  \/ pc'[d] = pc[d]
  \/ pc[d] \in HoldsOutbox \cup {"none"} /\ pc'[d] \notin {"none", "done"}
  \/ pc[d] = "draining" /\ pc'[d] = "done" /\ writer[d] \in {"dead", "ended"}

\* Every step does one of these to every task.
LEMMA EveryTaskMoves ==
  ASSUME TypeOK, [Next]_vars, NEW d \in Conns
  PROVE  TaskMoves(d)
  <1>1. ASSUME pc' = pc PROVE TaskMoves(d)
    BY <1>1 DEF TaskMoves
  <1>2. ASSUME NEW c \in Conns, NEW s, pc' = [pc EXCEPT ![c] = s],
               \/ pc[c] \in HoldsOutbox \cup {"none"} /\ s \notin {"none", "done"}
               \/ pc[c] = "draining" /\ s = "done" /\ writer[c] \in {"dead", "ended"}
        PROVE  TaskMoves(d)
    BY <1>2 DEF TaskMoves, TypeOK
  <1> USE DEF HoldsOutbox, UserCode
  <1>3. ASSUME NEW c \in Conns, Upgrade(c) \/ ConnectAllocate(c) \/ ConnectInsert(c)
                                \/ OnConnectReturns(c) \/ HandlerIsSilent(c)
        PROVE  TaskMoves(d)
    BY <1>2, <1>3 DEF Upgrade, ConnectAllocate, ConnectInsert, OnConnectReturns,
                      HandlerIsSilent
  <1>4. ASSUME NEW c \in Conns, \/ DispatchRuns(c) \/ ReadEnds(c) \/ disconnect(c)
                                \/ AwaitWriter(c) \/ Panic(c)
                                \/ \E e \in Events : ReadEnvelope(c, e)
        PROVE  TaskMoves(d)
    BY <1>2, <1>4 DEF DispatchRuns, Guarded, ReadEnds, LeaveLoop, disconnect, AwaitWriter,
                      Panic, ReadEnvelope
  <1>5. ASSUME NEW c \in Conns, InvalidEnvelope(c) \/ GuardRejects(c) \/ DispatchFails(c)
                                \/ HandlerReplies(c)
        PROVE  TaskMoves(d)
    <2>1. Answer(c) /\ pc[c] \in HoldsOutbox
      BY <1>5 DEF InvalidEnvelope, GuardRejects, DispatchFails, HandlerReplies, Guarded
    <2>2. pc' = [pc EXCEPT ![c] = "reading"] \/ pc' = [pc EXCEPT ![c] = "leaving"]
      BY <2>1 DEF Answer, LeaveLoop
    <2>3. QED
      BY <1>2, <2>1, <2>2
  <1>6. ASSUME NEW c \in Conns, \/ GuardPasses(c) \/ WriterSends(c) \/ WriterFails(c)
                                \/ WriterEnds(c)
                                \/ \E r \in Rooms : join(c, r) \/ leave(c, r)
        PROVE  TaskMoves(d)
    BY <1>1, <1>6 DEF GuardPasses, WriterSends, WriterFails, WriterEnds, join, leave, Enrol
  <1>7. ASSUME NEW src, NEW I, Push(src, I) PROVE TaskMoves(d)
    BY <1>1, <1>7 DEF Push
  <1>8. ASSUME UNCHANGED vars PROVE TaskMoves(d)
    BY <1>1, <1>8 DEF vars
  <1>9. QED
    BY <1>3, <1>4, <1>5, <1>6, <1>7, <1>8, CallCases, ServiceCases
       DEF Next, ConnStep, PeerStep, WriterStep, Terminated

\* The task outlives its writer, and its writer its use of the outbox
\* (gateway.rs:166-172).
LEMMA WriterInvStep == TypeOK /\ WriterInv /\ [Next]_vars => WriterInv'
  <1> SUFFICES ASSUME TypeOK, WriterInv, [Next]_vars, NEW d \in Conns
               PROVE  /\ writer'[d] = "ended" =>
                            outbox'[d] = <<>> /\ pc'[d] \notin HoldsOutbox
                      /\ pc'[d] = "done" => writer'[d] \in {"dead", "ended"}
                      /\ pc'[d] = "none" => writer'[d] = "none"
    BY DEF WriterInv
  <1>1. /\ writer[d] = "ended" => outbox[d] = <<>> /\ pc[d] \notin HoldsOutbox
        /\ pc[d] = "done" => writer[d] \in {"dead", "ended"}
        /\ pc[d] = "none" => writer[d] = "none"
    BY DEF WriterInv
  <1>2. SocketMoves(d) /\ TaskMoves(d)
    BY EverySocketMoves, EveryTaskMoves
  <1>3. writer'[d] = "ended" => outbox'[d] = <<>> /\ pc'[d] \notin HoldsOutbox
    <2> SUFFICES ASSUME writer'[d] = "ended"
                 PROVE  outbox'[d] = <<>> /\ pc'[d] \notin HoldsOutbox
      OBVIOUS
    <2>1. /\ outbox'[d] = <<>>
          /\ pc[d] \notin HoldsOutbox /\ writer[d] # "none"
      BY <1>1, <1>2 DEF SocketMoves, SocketIdle, SocketAccepts, SocketFlushes, SocketStops
    <2>2. pc'[d] = pc[d] \/ pc'[d] = "done"
      BY <1>1, <1>2, <2>1 DEF TaskMoves
    <2>3. QED
      BY <2>1, <2>2 DEF HoldsOutbox, UserCode
  <1>4. pc'[d] = "done" => writer'[d] \in {"dead", "ended"}
    <2> SUFFICES ASSUME pc'[d] = "done" PROVE writer'[d] \in {"dead", "ended"}
      OBVIOUS
    <2>1. writer[d] \in {"dead", "ended"}
      BY <1>1, <1>2 DEF TaskMoves
    <2>2. QED
      BY <1>2, <2>1 DEF SocketMoves, SocketIdle, SocketAccepts, SocketFlushes, SocketStops
  <1>5. pc'[d] = "none" => writer'[d] = "none"
    <2> SUFFICES ASSUME pc'[d] = "none" PROVE writer'[d] = "none"
      OBVIOUS
    <2>1. writer[d] = "none"
      BY <1>1, <1>2 DEF TaskMoves
    <2>2. QED
      BY <1>2, <2>1 DEF SocketMoves, SocketIdle, SocketAccepts, SocketFlushes, SocketStops
  <1>6. QED
    BY <1>3, <1>4, <1>5

\* One more frame keeps a connection's own frames in order if it is somebody
\* else's, or no earlier than any of them.
LEMMA OneMoreFrame ==
  ASSUME NEW d, NEW q \in Seq(Frames), NEW f \in Frames, OwnInOrder(d, q),
         \/ f.src # d
         \/ \A i \in DOMAIN q : q[i].src = d =>
               q[i].at < f.at \/ (q[i].at = f.at /\ q[i].kind = "push")
  PROVE  OwnInOrder(d, Append(q, f))
  <1> DEFINE a == Append(q, f)
  <1>1. /\ Len(q) \in Nat /\ DOMAIN q = 1..Len(q) /\ DOMAIN a = 1..(Len(q) + 1)
        /\ \A i \in 1..Len(q) : a[i] = q[i]
        /\ a[Len(q) + 1] = f
    BY AppendProperties, LenProperties
  <1> HIDE DEF a
  <1>2. ASSUME NEW i \in DOMAIN a, NEW j \in DOMAIN a,
               i < j, a[i].src = d, a[j].src = d
        PROVE  a[i].at < a[j].at \/ (a[i].at = a[j].at /\ a[i].kind = "push")
    <2>1. i \in 1..Len(q)
      BY <1>1, <1>2
    <2>2. CASE j \in 1..Len(q)
      BY <1>1, <1>2, <2>1, <2>2 DEF OwnInOrder
    <2>3. CASE j = Len(q) + 1
      BY <1>1, <1>2, <2>1, <2>3
    <2>4. QED
      BY <1>1, <2>2, <2>3
  <1>3. OwnInOrder(d, a)
    BY <1>2 DEF OwnInOrder
  <1>4. QED
    BY <1>3 DEF a

\* The same with the stamps: the own frames of q are in Old, the new frame, if
\* it is an own one, comes after all of Old and is in New.
LEMMA StampKept ==
  ASSUME NEW d, NEW q \in Seq(Frames), NEW f \in Frames, NEW Old, NEW New,
         OwnInOrder(d, q), Old \subseteq New,
         \A i \in DOMAIN q : q[i].src = d => q[i] \in Old,
         f.src = d => f \in New,
         f.src = d => \A g \in Old : g.at < f.at \/ (g.at = f.at /\ g.kind = "push")
  PROVE  /\ OwnInOrder(d, Append(q, f))
         /\ \A i \in DOMAIN Append(q, f) : Append(q, f)[i].src = d => Append(q, f)[i] \in New
  <1>1. /\ Len(q) \in Nat /\ DOMAIN q = 1..Len(q)
        /\ DOMAIN Append(q, f) = 1..(Len(q) + 1)
        /\ \A i \in 1..Len(q) : Append(q, f)[i] = q[i]
        /\ Append(q, f)[Len(q) + 1] = f
    BY AppendProperties, LenProperties
  <1>2. OwnInOrder(d, Append(q, f))
    BY OneMoreFrame
  <1>3. ASSUME NEW i \in 1..(Len(q) + 1), Append(q, f)[i].src = d
        PROVE  Append(q, f)[i] \in New
    <2>1. CASE i \in 1..Len(q)
      BY <1>1, <1>3, <2>1
    <2>2. CASE i = Len(q) + 1
      BY <1>1, <1>3, <2>2
    <2>3. QED
      BY <1>1, <2>1, <2>2
  <1>4. QED
    BY <1>1, <1>2, <1>3

\* A connection's own pushes and answers carry stamps that never go back, and
\* no answer comes before a push of the same message (gateway.rs:142-167).
LEMMA StampStep == TypeOK /\ StampInv /\ [Next]_vars => StampInv'
  <1> SUFFICES ASSUME TypeOK, StampInv, [Next]_vars, NEW d \in Conns
               PROVE  /\ OwnInOrder(d, accepted'[d])
                      /\ \A i \in DOMAIN accepted'[d] : accepted'[d][i].src = d =>
                            StampOk(accepted'[d][i], read'[d], pc'[d])
    BY DEF StampInv
  <1> DEFINE Good == /\ OwnInOrder(d, accepted'[d])
                     /\ \A i \in DOMAIN accepted'[d] : accepted'[d][i].src = d =>
                           StampOk(accepted'[d][i], read'[d], pc'[d])
             Kept == \A g \in Frames : StampOk(g, read[d], pc[d]) =>
                                          StampOk(g, read'[d], pc'[d])
  <1> SUFFICES Good
    OBVIOUS
  <1>1. /\ accepted[d] \in Seq(Frames) /\ OwnInOrder(d, accepted[d])
        /\ \A i \in DOMAIN accepted[d] : accepted[d][i].src = d =>
              StampOk(accepted[d][i], read[d], pc[d])
        /\ read[d] \in Nat /\ pc[d] \in Stages
    BY DEF TypeOK, StampInv
  <1>2. ASSUME NEW f \in Frames, accepted'[d] \in {accepted[d], Append(accepted[d], f)}, Kept,
               f.src = d => /\ StampOk(f, read'[d], pc'[d])
                            /\ \A g \in Frames : StampOk(g, read[d], pc[d]) =>
                                  g.at < f.at \/ (g.at = f.at /\ g.kind = "push")
        PROVE  Good
    <2> DEFINE Old == {g \in Frames : StampOk(g, read[d], pc[d])}
               New == {g \in Frames : StampOk(g, read'[d], pc'[d])}
               q == accepted[d]
    <2>1. /\ q \in Seq(Frames) /\ OwnInOrder(d, q) /\ Old \subseteq New
          /\ f.src = d => f \in New
          /\ f.src = d => \A g \in Old : g.at < f.at \/ (g.at = f.at /\ g.kind = "push")
      BY <1>1, <1>2
    <2>2. \A i \in DOMAIN q : q[i].src = d => q[i] \in Old
      <3>1. \A i \in DOMAIN q : q[i] \in Frames
        BY <2>1, ElementOfSeq, LenProperties
      <3>2. QED
        BY <1>1, <3>1
    <2>3. CASE accepted'[d] = q
      BY <2>1, <2>2, <2>3
    <2>4. CASE accepted'[d] = Append(q, f)
      <3> HIDE DEF Old, New, q
      <3>1. /\ OwnInOrder(d, Append(q, f))
            /\ \A i \in DOMAIN Append(q, f) :
                  Append(q, f)[i].src = d => Append(q, f)[i] \in New
        BY <1>2, <2>1, <2>2, StampKept
      <3>2. QED
        BY <2>4, <3>1 DEF New
    <2>5. QED
      BY <1>2, <2>3, <2>4
  <1>3. ASSUME accepted'[d] = accepted[d], Kept PROVE Good
    <2> DEFINE f == [src |-> Service, at |-> 0, kind |-> "push"]
    <2>1. f \in Frames /\ f.src # d
      BY WsAssumption DEF Frames
    <2> HIDE DEF f
    <2>2. QED
      BY <1>2, <1>3, <2>1
  <1>4. ASSUME accepted'[d] = accepted[d], read'[d] = read[d], pc'[d] = pc[d] PROVE Good
    BY <1>3, <1>4
  <1> HIDE DEF Good
  <1>5. ASSUME NEW c \in Conns, accepted' = accepted, NEW n, read' = [read EXCEPT ![c] = n],
               NEW s, pc' = [pc EXCEPT ![c] = s],
               \A g \in Frames : StampOk(g, read[c], pc[c]) => StampOk(g, n, s)
        PROVE  Good
    <2>1. CASE d = c
      <3>1. read'[d] = n /\ pc'[d] = s
        BY <1>5, <2>1 DEF TypeOK
      <3>2. QED
        BY <1>3, <1>5, <2>1, <3>1
    <2>2. CASE d # c
      BY <1>4, <1>5, <2>2 DEF TypeOK
    <2>3. QED
      BY <2>1, <2>2
  <1>6. ASSUME NEW c \in Conns, accepted' = accepted, read' = read,
               NEW s, pc' = [pc EXCEPT ![c] = s],
               \A g \in Frames : StampOk(g, read[c], pc[c]) => StampOk(g, read[c], s)
        PROVE  Good
    <2>1. read' = [read EXCEPT ![c] = read[c]]
      BY <1>6 DEF TypeOK
    <2>2. QED
      BY <1>5, <1>6, <2>1
  <1>7. ASSUME NEW c \in Conns, NEW s, pc' = [pc EXCEPT ![c] = s], accepted' = accepted,
               read' = read,
               \/ pc[c] \in {"none", "upgraded", "allocated"}
               \/ pc[c] = "connecting" /\ s = "reading"
               \/ pc[c] = "guarding" /\ s = "handling"
               \/ pc[c] = "handling" /\ s = "reading"
               \/ pc[c] = "reading" /\ s = "leaving"
               \/ pc[c] = "leaving" /\ s = "draining"
               \/ pc[c] = "draining" /\ s = "done"
               \/ pc[c] \in UserCode /\ s = "panicked"
        PROVE  Good
    <2>1. read[c] \in Nat
      BY DEF TypeOK
    <2>2. \A g \in Frames : StampOk(g, read[c], pc[c]) => StampOk(g, read[c], s)
      BY <1>7, <2>1 DEF StampOk, UserCode, Frames
    <2>3. QED
      BY <1>6, <1>7, <2>2
  <1>8. ASSUME NEW c \in Conns, Upgrade(c) \/ ConnectAllocate(c) \/ ConnectInsert(c)
                                \/ OnConnectReturns(c) \/ HandlerIsSilent(c)
        PROVE  Good
    BY <1>7, <1>8 DEF Upgrade, ConnectAllocate, ConnectInsert, OnConnectReturns,
                      HandlerIsSilent
  <1>9. ASSUME NEW c \in Conns, \/ DispatchRuns(c) \/ ReadEnds(c) \/ disconnect(c)
                                \/ AwaitWriter(c) \/ Panic(c)
        PROVE  Good
    <2>1. CASE DispatchRuns(c)
      BY <1>7, <2>1 DEF DispatchRuns, Guarded
    <2>2. CASE ReadEnds(c)
      BY <1>7, <2>2 DEF ReadEnds, LeaveLoop
    <2>3. CASE disconnect(c) \/ AwaitWriter(c)
      BY <1>7, <2>3 DEF disconnect, AwaitWriter
    <2>4. CASE Panic(c)
      BY <1>7, <2>4 DEF Panic
    <2>5. QED
      BY <1>9, <2>1, <2>2, <2>3, <2>4
  <1>10. ASSUME NEW c \in Conns, NEW e \in Events, ReadEnvelope(c, e) PROVE Good
    <2>1. /\ pc[c] = "reading" /\ read[c] \in Nat /\ accepted' = accepted
          /\ read' = [read EXCEPT ![c] = read[c] + 1]
          /\ pc' = [pc EXCEPT ![c] = "guarding"]
      BY <1>10 DEF ReadEnvelope, TypeOK
    <2>2. \A g \in Frames : StampOk(g, read[c], "reading") =>
                               StampOk(g, read[c] + 1, "guarding")
      BY <2>1 DEF StampOk, UserCode, Frames
    <2>3. QED
      BY <1>5, <2>1, <2>2
  <1>11. ASSUME NEW c \in Conns, \/ GuardPasses(c) \/ WriterSends(c) \/ WriterFails(c)
                                 \/ WriterEnds(c)
                                 \/ \E r \in Rooms : join(c, r) \/ leave(c, r)
         PROVE  Good
    BY <1>4, <1>11 DEF GuardPasses, WriterSends, WriterFails, WriterEnds, join, leave, Enrol
  <1>12. ASSUME NEW src \in Conns \cup {Service}, NEW I, Push(src, I),
                src \in Conns => pc[src] \in UserCode
         PROVE  Good
    <2> DEFINE f == [src |-> src, at |-> Stamp(src), kind |-> "push"]
    <2>1. f \in Frames /\ f.src = src /\ f.at = Stamp(src) /\ f.kind = "push"
      BY StampType DEF Frames
    <2>2. Queue(Sockets(I), f) /\ pc' = pc /\ read' = read
      BY <1>12 DEF Push
    <2> HIDE DEF f
    <2>3. accepted'[d] \in {accepted[d], Append(accepted[d], f)}
      BY <2>1, <2>2, QueueEffect
    <2>4. ASSUME f.src = d
          PROVE  /\ StampOk(f, read[d], pc[d])
                 /\ \A g \in Frames : StampOk(g, read[d], pc[d]) =>
                       g.at < f.at \/ (g.at = f.at /\ g.kind = "push")
      <3>1. /\ pc[d] \in UserCode
            /\ f.at = IF pc[d] = "leaving" THEN read[d] + 1 ELSE read[d]
        BY <1>12, <2>1, <2>4, WsAssumption DEF Stamp
      <3>2. StampOk(f, read[d], pc[d])
        BY <1>1, <2>1, <3>1 DEF StampOk, UserCode
      <3>3. ASSUME NEW g \in Frames, StampOk(g, read[d], pc[d])
            PROVE  g.at < f.at \/ (g.at = f.at /\ g.kind = "push")
        <4>1. g.at \in Nat /\ g.kind \in {"push", "answer"}
          BY DEF Frames
        <4>2. QED
          BY <1>1, <3>1, <3>3, <4>1 DEF StampOk, UserCode
      <3>4. QED
        BY <3>2, <3>3
    <2>5. QED
      BY <1>2, <2>1, <2>2, <2>3, <2>4
  <1>13. ASSUME NEW c \in Conns, InvalidEnvelope(c) \/ GuardRejects(c) \/ DispatchFails(c)
                                 \/ HandlerReplies(c)
         PROVE  Good
    <2>1. /\ Answer(c) /\ read[c] \in Nat
          /\ \/ /\ pc[c] = "reading"
                /\ read' = [read EXCEPT ![c] = read[c] + 1]
             \/ pc[c] \in {"guarding", "handling"} /\ read' = read
      BY <1>13 DEF InvalidEnvelope, GuardRejects, DispatchFails, HandlerReplies, Guarded,
                   TypeOK
    <2> DEFINE f == [src |-> c, at |-> read'[c], kind |-> "answer"]
    <2>2. read'[c] = read[c] + 1 \/ read'[c] = read[c]
      BY <2>1 DEF TypeOK
    <2>3. f \in Frames /\ f.src = c /\ f.at = read'[c] /\ f.kind = "answer"
      BY <2>1, <2>2 DEF Frames
    <2>4. /\ Queue({c}, f)
          /\ \/ pc' = [pc EXCEPT ![c] = "reading"]
             \/ pc' = [pc EXCEPT ![c] = "leaving"]
      BY <2>1 DEF Answer, LeaveLoop
    <2> HIDE DEF f
    <2>5. /\ accepted'[d] \in {accepted[d], Append(accepted[d], f)}
          /\ d # c => accepted'[d] = accepted[d]
      BY <2>3, <2>4, QueueEffect
    <2>6. CASE d # c
      BY <1>4, <2>1, <2>4, <2>5, <2>6 DEF TypeOK
    <2>7. CASE d = c
      <3>1. pc'[d] \in {"reading", "leaving"}
        BY <2>4, <2>7 DEF TypeOK
      <3>2. \/ pc[d] = "reading" /\ read'[d] = read[d] + 1
            \/ pc[d] \in {"guarding", "handling"} /\ read'[d] = read[d]
        BY <2>1, <2>7 DEF TypeOK
      <3>3. StampOk(f, read'[d], pc'[d])
        BY <1>1, <2>3, <2>7, <3>1, <3>2 DEF StampOk, UserCode
      <3>4. ASSUME NEW g \in Frames, StampOk(g, read[d], pc[d])
            PROVE  /\ StampOk(g, read'[d], pc'[d])
                   /\ g.at < f.at \/ (g.at = f.at /\ g.kind = "push")
        <4>1. g.at \in Nat /\ g.kind \in {"push", "answer"}
          BY DEF Frames
        <4>2. QED
          BY <1>1, <2>3, <2>7, <3>1, <3>2, <3>4, <4>1 DEF StampOk, UserCode
      <3>5. QED
        BY <1>2, <2>3, <2>5, <3>3, <3>4
    <2>8. QED
      BY <2>6, <2>7
  <1>14. ASSUME UNCHANGED vars PROVE Good
    BY <1>4, <1>14 DEF vars
  <1>15. QED
    BY <1>8, <1>9, <1>10, <1>11, <1>12, <1>13, <1>14, CallCases, ServiceCases, WsAssumption
       DEF Next, ConnStep, PeerStep, WriterStep, Terminated

\* A gateway without connections satisfies the inductive invariant.
LEMMA IInvInit == Init => IInv
  <1> SUFFICES ASSUME Init PROVE IInv
    OBVIOUS
  <1> USE WsAssumption DEF Init
  <1>1. TypeOK
    BY EmptySeq DEF TypeOK, Stages
  <1>2. GuardInv /\ RegistryInv
    BY DEF GuardInv, RegistryInv, IdNamesOneSocket, Registered
  <1>3. WriterInv
    BY DEF WriterInv
  <1>4. AcceptedIsFlushed
    <2>1. <<>> \in Seq(Frames) /\ <<>> \o <<>> = <<>>
      BY EmptySeq, ConcatEmptySeq
    <2>2. IsPrefix(<<>>, <<>>)
      BY <2>1, PrefixOfConcat
    <2>3. QED
      BY <2>1, <2>2 DEF AcceptedIsFlushed
  <1>5. StampInv
    <2>1. DOMAIN <<>> = {}
      OBVIOUS
    <2>2. QED
      BY <2>1 DEF StampInv, OwnInOrder
  <1>6. QED
    BY <1>1, <1>2, <1>3, <1>4, <1>5 DEF IInv

\* Every step of any task keeps it.
LEMMA IInvStep == IInv /\ [Next]_vars => IInv'
  <1> SUFFICES ASSUME IInv, [Next]_vars PROVE IInv'
    OBVIOUS
  <1>1. TypeOK' /\ GuardInv'
    BY TypeStep DEF IInv
  <1>2. RegistryInv'
    BY RegistryStep DEF IInv
  <1>3. WriterInv' /\ AcceptedIsFlushed'
    BY WriterInvStep, FlushStep DEF IInv
  <1>4. StampInv'
    BY StampStep DEF IInv
  <1>5. QED
    BY <1>1, <1>2, <1>3, <1>4 DEF IInv

\* The inductive invariant holds throughout: every entry with the one task that
\* drew its id, every accepted frame on its way, every own frame in order.
THEOREM Invariance == Spec => []IInv
  <1>1. QED
    BY IInvInit, IInvStep, PTL DEF Spec

\* The registry, the connection tasks and the writers keep their types
\* whatever the hooks, handlers and services call (server.rs, gateway.rs).
THEOREM TypeCorrect == Spec => []TypeOK
  <1>1. IInv => TypeOK
    BY DEF IInv
  <1>2. QED
    BY <1>1, Invariance, PTL

\* For any number of sockets: `ConnId` is "never reused within a process run",
\* and a registry entry feeds the socket that drew its id (server.rs:35, 83-95).
THEOREM IdsNameOneSocket == Spec => []IdNamesOneSocket
  <1>1. IInv => IdNamesOneSocket
    BY DEF IInv, RegistryInv
  <1>2. QED
    BY <1>1, Invariance, PTL

\* For any number of sockets and rooms: user code runs registered, with the
\* rooms it joined, and a task that returned is gone (gateway.rs:132-168).
THEOREM RegistryIsExact == Spec => []RegistryFollowsTask
  <1>1. ASSUME IInv PROVE RegistryFollowsTask
    <2> USE <1>1 DEF IInv
    <2>1. \A i \in DOMAIN conns : conns[i].conn \in Conns
      BY DEF TypeOK
    <2>2. \A c \in Conns : pc[c] \in {"none", "upgraded", "allocated", "draining", "done"} =>
             c \notin Sockets(DOMAIN conns)
      BY <2>1 DEF RegistryInv, Registered, Sockets
    <2>3. QED
      BY <2>2 DEF RegistryInv, RegistryFollowsTask
  <1>2. QED
    BY <1>1, Invariance, PTL

\* For any number of messages and pushes: a broadcast racing a disconnect is
\* refused or flushed in order, never dropped (gateway.rs:120-172).
THEOREM NothingAcceptedIsLost == Spec => []AcceptedIsFlushed
  <1>1. IInv => AcceptedIsFlushed
    BY DEF IInv
  <1>2. QED
    BY <1>1, Invariance, PTL

\* For any number of messages and pushes: a reply keeps its place among the
\* pushes of its own handler (gateway.rs:145-154).
THEOREM RepliesKeepOrder == Spec => []OwnFramesInOrder
  <1>1. ASSUME IInv PROVE OwnFramesInOrder
    <2> USE <1>1 DEF IInv
    <2>1. ASSUME NEW c \in Conns PROVE OwnInOrder(c, wire[c])
      <3>1. wire[c] \in Seq(Frames) /\ accepted[c] \in Seq(Frames)
        BY DEF TypeOK
      <3>2. IsPrefix(wire[c], accepted[c]) /\ OwnInOrder(c, accepted[c])
        BY DEF AcceptedIsFlushed, StampInv
      <3>3. /\ DOMAIN wire[c] \subseteq DOMAIN accepted[c]
            /\ \A i \in DOMAIN wire[c] : wire[c][i] = accepted[c][i]
        BY <3>1, <3>2, PrefixElements
      <3>4. QED
        BY <3>2, <3>3 DEF OwnInOrder
    <2>2. QED
      BY <2>1 DEF OwnFramesInOrder
  <1>2. QED
    BY <1>1, Invariance, PTL
==============================================================================
