---------------------------- MODULE MC_WsGateway ----------------------------
(***************************************************************************)
(* Two sockets of one gateway and one room.  "say" has a handler behind a  *)
(* guard; "odd" is an event nothing subscribes to.  The first socket sends *)
(* up to two messages, the second only connects and leaves: its hooks call *)
(* the registry as a handler does.  One push, by any of them or a service, *)
(* falls at every point of both connections' lives.                        *)
(***************************************************************************)
EXTENDS WsGateway

CONSTANTS c1, c2, lobby, svc, none

MCConns == {c1, c2}
MCRooms == {lobby}
MCHandlers == {"say"}
MCMaxMsgs == (c1 :> 2) @@ (c2 :> 0)
MCGuards == [say |-> 1, odd |-> 0]
=============================================================================
