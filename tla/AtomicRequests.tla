---------------------------- MODULE AtomicRequests ----------------------------
(***************************************************************************)
(* What the request path promises, with its layers left out: a request     *)
(* prepares changes that nobody sees, two requests never prepare the same  *)
(* row, and all its changes take effect at once, in the step that answers  *)
(* it, or never.  An error changes nothing.  A success stands for all the  *)
(* changes, unless a statement failed underneath it.  Only an answer that  *)
(* the client cannot rely on leaves both outcomes open.                    *)
(***************************************************************************)
CONSTANTS Requests, Rows, Contents, InitTable

VARIABLES
    table,    \* the rows everybody sees
    intent,   \* the rows each request is about to change, and into what
    spoilt,   \* requests one of whose statements failed
    reply     \* "pending" | "success" | "error" | "unknown"

vars == <<table, intent, spoilt, reply>>

Nothing == [row \in {} |-> row]

Init ==
    /\ table = InitTable
    /\ intent = [r \in Requests |-> Nothing]
    /\ spoilt = {}
    /\ reply = [r \in Requests |-> "pending"]

(* A row is prepared by one request at a time.                             *)
Prepare(r, row) ==
    /\ reply[r] = "pending"
    /\ \A q \in Requests \ {r} : row \notin DOMAIN intent[q]
    /\ \E content \in Contents :
          intent' = [intent EXCEPT ![r] =
              [k \in DOMAIN @ \cup {row} |-> IF k = row THEN content ELSE @[k]]]
    /\ UNCHANGED <<table, spoilt, reply>>

Spoil(r) ==
    /\ reply[r] = "pending"
    /\ spoilt' = spoilt \cup {r}
    /\ UNCHANGED <<table, intent, reply>>

(* The table with everything r has prepared in it.                         *)
Effect(r) ==
    [row \in Rows |-> IF row \in DOMAIN intent[r] THEN intent[r][row] ELSE table[row]]

(* A request is answered once, and prepares nothing after that.            *)
Answer(r, how) ==
    /\ reply[r] = "pending"
    /\ reply' = [reply EXCEPT ![r] = how]
    /\ intent' = [intent EXCEPT ![r] = Nothing]
    /\ UNCHANGED spoilt

Succeed(r) ==
    /\ Answer(r, "success")
    /\ table' = Effect(r) \/ (r \in spoilt /\ UNCHANGED table)

Refuse(r) == Answer(r, "error") /\ UNCHANGED table

(* The client is gone, or the COMMIT was not acknowledged.                 *)
Lose(r) == Answer(r, "unknown") /\ table' \in {table, Effect(r)}

Next ==
    \E r \in Requests :
       \/ \E row \in Rows : Prepare(r, row)
       \/ Spoil(r) \/ Succeed(r) \/ Refuse(r) \/ Lose(r)

Spec == Init /\ [][Next]_vars
===============================================================================
