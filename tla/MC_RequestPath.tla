--------------------------- MODULE MC_RequestPath ---------------------------
(***************************************************************************)
(* Two requests against four rows and a pool of one or two connections.    *)
(* The application: generated CRUD routes, one hand-written route that     *)
(* writes twice, a public list, two miswired routes, GraphQL mutations of  *)
(* two fields (one takes its rows in the other order), a GraphQL query.    *)
(***************************************************************************)
EXTENDS RequestPath, TLC

CONSTANTS r1, r2, a, b, c, d, v1, v2

MCRequests == {r1, r2}
MCRows == {a, b, c, d}
MCValues == {v1, v2}
MCTable == (a :> v1) @@ (b :> v1) @@ (c :> Absent) @@ (d :> v2)

(* A member manages the rows worth v1; a reader reads all but v2.          *)
Member == {[action |-> "Manage", inverted |-> FALSE, when |-> {v1}]}
Reader == {[action |-> "Read", inverted |-> FALSE, when |-> MCValues],
           [action |-> "Read", inverted |-> TRUE, when |-> {v2}]}

Call(op, row, value) == [op |-> op, row |-> row, value |-> value]

Generated(safe, authorize, rules, call) ==
    [surface |-> "route", safe |-> safe, guards |-> {"auth", "ability"},
     authorize |-> authorize, rules |-> rules, calls |-> <<call>>,
     custom |-> FALSE]

ListAll == Generated(TRUE, "Read", Reader, Call("list", a, v1))
GetOne == Generated(TRUE, "Read", Reader, Call("get", a, v1))
MakeOne == Generated(FALSE, "Create", Member, Call("create", c, v1))
GiveAway == Generated(FALSE, "Update", Member, Call("update", a, v2))
DropOne == Generated(FALSE, "Delete", Member, Call("delete", a, v1))
Forbidden == Generated(FALSE, "Delete", Reader, Call("delete", a, v1))

Custom ==
    [surface |-> "route", safe |-> FALSE, guards |-> {"auth", "ability"},
     authorize |-> "Update", rules |-> Member, custom |-> TRUE,
     calls |-> <<Call("update", b, v1), Call("update", a, v1)>>]

Public ==
    [surface |-> "route", safe |-> TRUE, guards |-> {}, authorize |-> "None",
     rules |-> {}, custom |-> FALSE, calls |-> <<Call("list", a, v1)>>]

NoAuth == [ListAll EXCEPT !.guards = {"ability"}]
NoAbility == [DropOne EXCEPT !.guards = {"auth"}]

Graphql ==
    [surface |-> "graphql", safe |-> FALSE, guards |-> {}, authorize |-> "None",
     rules |-> Member, custom |-> FALSE,
     calls |-> <<Call("update", a, v2), Call("update", b, v1)>>]

GraphqlMake ==
    [Graphql EXCEPT !.calls = <<Call("create", c, v1), Call("delete", a, v1)>>]

GraphqlQuery ==
    [Graphql EXCEPT !.calls = <<Call("list", a, v1), Call("get", a, v1)>>]

MCShapes == {ListAll, GetOne, MakeOne, GiveAway, DropOne, Forbidden, Custom,
             Public, NoAuth, NoAbility, Graphql, GraphqlMake, GraphqlQuery}

(* For the run about failed mutations: only GraphQL operations.            *)
GraphqlShapes == {Graphql, GraphqlMake}
=============================================================================
