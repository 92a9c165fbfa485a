----------------------------- MODULE RequestPath -----------------------------
(***************************************************************************)
(* One HTTP request through the layers HttpTransport::configure and the    *)
(* #[routes] and #[crud] macros assemble, from the outside in:             *)
(*                                                                         *)
(*   DbContext (pool or transaction)  >  exception filters                 *)
(*     >  AuthGuard  >  AbilityGuard  >  Authorize (gate, ambient ability, *)
(*     response mask)  >  handler  >  CrudService / Repo  >  database      *)
(*                                                                         *)
(* and back out to the commit or rollback.  A GraphQL request goes through *)
(* DbContext, the operation guard and the resolvers instead.  Requests run *)
(* concurrently against one table; every await is a step boundary.         *)
(*                                                                         *)
(* The database is external: READ COMMITTED, a write locks its row until   *)
(* the transaction ends, a failed statement dooms its transaction, whose   *)
(* COMMIT then rolls back without an error.                                *)
(***************************************************************************)
EXTENDS Naturals, Sequences, FiniteSets, AbilityRules

CONSTANTS
    Requests,   \* the requests that may arrive
    Rows,       \* primary keys
    Values,     \* what a row can hold, as far as rules tell rows apart
    Absent,     \* no row under this key
    InitTable,  \* the table's contents at the start
    Shapes,     \* the requests a client can send to this application
    PoolSizes,  \* the sizes the connection pool may be configured with
    Anonymous   \* no ability on the request

Contents == Values \cup {Absent}

(* A service call: a CrudService operation on a row, with an input value.  *)
Calls == [op : {"list", "get", "create", "update", "delete"}, row : Rows,
          value : Values]

(* What a request is: the surface that serves it and its method, the       *)
(* guards bound to its route, the action its Authorize parameter names     *)
(* ("None" without one), the rules AbilityFactory::define gives its actor, *)
(* the service calls its handler makes, and whether the handler is the     *)
(* developer's own, which may answer with any status, return a body of     *)
(* another type, or leak the executor into a detached task.                *)
ShapeType ==
    [surface : {"route", "graphql"}, safe : BOOLEAN,
     guards : SUBSET {"auth", "ability"}, authorize : Actions \cup {"None"},
     rules : SUBSET Rules(Values), calls : Seq(Calls), custom : BOOLEAN]

ASSUME RequestAssumption ==
    /\ IsFiniteSet(Requests) /\ IsFiniteSet(Rows) /\ IsFiniteSet(Values)
    /\ Absent \notin Values
    /\ InitTable \in [Rows -> Contents]
    /\ PoolSizes \subseteq Nat \ {0}
    /\ \A s \in Shapes :
         /\ s \in ShapeType /\ s.calls # <<>> /\ s.rules # Anonymous
         /\ s.surface = "graphql" => ~s.safe
         \* a safe method has no transaction and must not write
         /\ s.safe => \A i \in DOMAIN s.calls : s.calls[i].op \in {"list", "get"}

VARIABLES
    pool,       \* the size of the connection pool
    table,      \* the committed rows
    pc,         \* where each request's future is
    shape,      \* what each request is
    ability,    \* Arc<Ability> in the request's extensions
    step,       \* the handler's next service call
    txn,        \* the request's transaction, which holds one connection
    writes,     \* its uncommitted rows: the value, and the first action on it
    leaked,     \* requests whose executor a detached task still holds
    result,     \* the Result<Response> on its way out
    body,       \* the rows in the response: read, or answered by a write
    persisted,  \* history: requests whose transaction the database applied
    unsure,     \* history: requests whose COMMIT was not acknowledged
    fault       \* history: how a service call of the request has failed

vars == <<pool, table, pc, shape, ability, step, txn, writes, leaked, result,
          body, persisted, unsure, fault>>

(* "calling" runs the handler; "writing" lies between the authorized load  *)
(* and the write of update and delete; "leaving" is the tail of            *)
(* DbContext::intercept; "gone" is a dropped future.                       *)
Stages == {"none", "arrived", "guarding", "gating", "calling", "writing",
           "masking", "filtering", "leaving", "committing", "answered", "gone"}

Ended == {"answered", "gone"}

Unwritten == [value |-> Absent, by |-> "None"]

Statuses == {200, 302, 400, 401, 403, 404, 409, 500}

NoResult == [ok |-> FALSE, status |-> 500]
Ok(status) == [ok |-> TRUE, status |-> status]
Err(status) == [ok |-> FALSE, status |-> status]

TypeOK ==
    /\ pool \in PoolSizes
    /\ table \in [Rows -> Contents]
    /\ pc \in [Requests -> Stages]
    /\ DOMAIN shape = Requests
    /\ \A r \in Requests : pc[r] # "none" => shape[r] \in Shapes
    /\ ability \in [Requests -> {Anonymous} \cup SUBSET Rules(Values)]
    /\ step \in [Requests -> Nat \ {0}]
    /\ txn \in [Requests -> {"none", "open", "doomed"}]
    /\ Cardinality({r \in Requests : txn[r] # "none"}) <= pool
    /\ writes \in [Requests -> [Rows -> [value : Contents,
                                         by : Actions \cup {"None"}]]]
    /\ leaked \subseteq {r \in Requests : txn[r] # "none"}
    /\ result \in [Requests -> [ok : BOOLEAN, status : Statuses]]
    /\ body \in [Requests -> SUBSET (Rows \X Values)]
    /\ persisted \subseteq Requests /\ unsure \subseteq Requests
    /\ fault \in [Requests -> {"none", "refused", "statement"}]

Init ==
    /\ pool \in PoolSizes
    /\ table = InitTable
    /\ pc = [r \in Requests |-> "none"]
    /\ shape = [r \in Requests |-> "none"]
    /\ ability = [r \in Requests |-> Anonymous]
    /\ step = [r \in Requests |-> 1]
    /\ txn = [r \in Requests |-> "none"]
    /\ writes = [r \in Requests |-> [row \in Rows |-> Unwritten]]
    /\ leaked = {}
    /\ result = [r \in Requests |-> NoResult]
    /\ body = [r \in Requests |-> {}]
    /\ persisted = {}
    /\ unsure = {}
    /\ fault = [r \in Requests |-> "none"]
-----------------------------------------------------------------------------
(***************************************************************************)
(* The database and the connection pool, as the code above them sees them. *)
(***************************************************************************)
Busy == {r \in Requests : txn[r] # "none"}

FreeConnection == Cardinality(Busy) < pool

Wrote(r, row) == txn[r] # "none" /\ writes[r][row].by # "None"

(* What a statement of r sees under a key: its own writes, else the        *)
(* committed row.                                                          *)
Sees(r, row) == IF Wrote(r, row) THEN writes[r][row].value ELSE table[row]

LockedFor(r, row) == \E q \in Requests \ {r} : Wrote(q, row)

(* The table with r's writes applied.                                      *)
Applied(r) ==
    [row \in Rows |-> IF writes[r][row].by = "None" THEN table[row]
                      ELSE writes[r][row].value]

CurrentCall(r) == shape[r].calls[step[r]]

(* A statement of r that writes waits for the transaction holding its row. *)
Waits(r) ==
    /\ \/ pc[r] = "writing"
       \/ /\ pc[r] = "calling" /\ step[r] \in DOMAIN shape[r].calls
          /\ CurrentCall(r).op = "create"
    /\ LockedFor(r, CurrentCall(r).row)

(* The database notices a circle of transactions that wait for each other. *)
Deadlocked(r) ==
    \E circle \in SUBSET Requests :
       /\ r \in circle
       /\ \A q \in circle : /\ Waits(q)
                            /\ \E p \in circle \ {q} : Wrote(p, CurrentCall(q).row)

(* A pool statement takes a connection for its duration; a transaction     *)
(* already has its own, unless an earlier statement doomed it.             *)
Executable(r) == IF shape[r].safe THEN FreeConnection ELSE txn[r] = "open"
-----------------------------------------------------------------------------
(***************************************************************************)
(* DbContext::intercept, before the inner layers.                          *)
(***************************************************************************)

(* RequestScopeEndpoint installs a fresh scope and hands the request on.   *)
Arrive(r) ==
    /\ pc[r] = "none"
    /\ \E s \in Shapes : shape' = [shape EXCEPT ![r] = s]
    /\ pc' = [pc EXCEPT ![r] = "arrived"]
    /\ UNCHANGED <<pool, table, ability, step, txn, writes, leaked, result,
                   body, persisted, unsure, fault>>

(* A safe method runs on the pool, any other in a transaction opened here. *)
Open(r) ==
    /\ pc[r] = "arrived"
    /\ shape[r].safe \/ FreeConnection
    /\ txn' = [txn EXCEPT ![r] = IF shape[r].safe THEN "none" ELSE "open"]
    /\ pc' = [pc EXCEPT ![r] = "guarding"]
    /\ UNCHANGED <<pool, table, shape, ability, step, writes, leaked, result,
                   body, persisted, unsure, fault>>

(* begin() fails: no connection within the timeout, or no database.  The   *)
(* filters are further in, so that the error leaves as it is.              *)
OpenFails(r) ==
    /\ pc[r] = "arrived"
    /\ ~shape[r].safe
    /\ result' = [result EXCEPT ![r] = Err(500)]
    /\ pc' = [pc EXCEPT ![r] = "answered"]
    /\ UNCHANGED <<pool, table, shape, ability, step, txn, writes, leaked,
                   body, persisted, unsure, fault>>
-----------------------------------------------------------------------------
(***************************************************************************)
(* Guards, the operation guard, and the Authorize gate.                    *)
(***************************************************************************)

(* The layers inside DbContext end with a result, which leaves through the *)
(* filters when it is an error.                                            *)
Leave(r, res) ==
    /\ result' = [result EXCEPT ![r] = res]
    /\ pc' = [pc EXCEPT ![r] = IF res.ok THEN "leaving" ELSE "filtering"]

(* AuthGuard lets the request pass, or is not bound to the route; then     *)
(* AbilityGuard builds the caller's ability from the principal AuthGuard   *)
(* left, or answers 500 when there is none.                                *)
PassGuards(r) ==
    /\ pc[r] = "guarding" /\ shape[r].surface = "route"
    /\ IF shape[r].guards = {"ability"}
         THEN /\ Leave(r, Ok(500))
              /\ UNCHANGED ability
         ELSE /\ ability' = [ability EXCEPT ![r] =
                    IF "ability" \in shape[r].guards THEN shape[r].rules ELSE @]
              /\ pc' = [pc EXCEPT ![r] = "gating"]
              /\ UNCHANGED result
    /\ UNCHANGED <<pool, table, shape, step, txn, writes, leaked, body,
                   persisted, unsure, fault>>

(* AuthGuard short-circuits with a response: no or bad credentials, or the *)
(* strategy's challenge, a redirect.                                       *)
Challenge(r) ==
    /\ pc[r] = "guarding" /\ shape[r].surface = "route"
    /\ "auth" \in shape[r].guards
    /\ \E status \in {401, 302} : Leave(r, Ok(status))
    /\ UNCHANGED <<pool, table, shape, ability, step, txn, writes, leaked,
                   body, persisted, unsure, fault>>

(* GraphqlAbilityBridge::before is best effort: a refused authentication   *)
(* leaves no ability and the operation still runs.                         *)
Bridge(r) ==
    /\ pc[r] = "guarding" /\ shape[r].surface = "graphql"
    /\ \E a \in {shape[r].rules, Anonymous} :
          ability' = [ability EXCEPT ![r] = a]
    /\ pc' = [pc EXCEPT ![r] = "calling"]
    /\ UNCHANGED <<pool, table, shape, step, txn, writes, leaked, result,
                   body, persisted, unsure, fault>>

(* The Authorize extractor: 500 without an ability, 403 without a grant.   *)
Authorize(r) ==
    /\ pc[r] = "gating"
    /\ CASE shape[r].authorize = "None" ->
              pc' = [pc EXCEPT ![r] = "calling"] /\ UNCHANGED result
         [] shape[r].authorize # "None" /\ ability[r] = Anonymous ->
              Leave(r, Err(500))
         [] OTHER ->
              IF can_class(ability[r], shape[r].authorize)
                THEN pc' = [pc EXCEPT ![r] = "calling"] /\ UNCHANGED result
                ELSE Leave(r, Err(403))
    /\ UNCHANGED <<pool, table, shape, ability, step, txn, writes, leaked,
                   body, persisted, unsure, fault>>

(* A path id that is no UUID v7, or a body that does not parse or validate:*)
(* the remaining extractors refuse it before the first service call.       *)
BadInput(r) ==
    /\ pc[r] = "calling" /\ step[r] = 1 /\ r \notin leaked
    /\ Leave(r, Err(400))
    /\ UNCHANGED <<pool, table, shape, ability, step, txn, writes, leaked,
                   body, persisted, unsure, fault>>
-----------------------------------------------------------------------------
(***************************************************************************)
(* The handler's service calls.                                            *)
(***************************************************************************)

(* current_ability(): the Authorize shaper installs the ability for the    *)
(* handler, the GraphQL bridge for the operation; a route without          *)
(* Authorize runs with none even when its guards built one.                *)
Ambient(r) ==
    IF shape[r].surface = "route" /\ shape[r].authorize = "None"
      THEN Anonymous ELSE ability[r]

(* Fault: only reads are filtered.                                         *)
UnscopedWrites(r, action) ==
    IF Ambient(r) # Anonymous /\ action = "Read"
      THEN condition_for(Ambient(r), action) ELSE Values

(* Fault: only writes are filtered.                                        *)
UnscopedReads(r, action) ==
    IF Ambient(r) # Anonymous /\ action # "Read"
      THEN condition_for(Ambient(r), action) ELSE Values

(* Without an ambient ability the filter is the SQL identity.              *)
scope_for(r, action) ==
    IF Ambient(r) = Anonymous THEN Values
    ELSE condition_for(Ambient(r), action)

(* Fault: open without an ability, as the query filter is.                 *)
AllowedByDefault(r, action, value) ==
    Ambient(r) # Anonymous => can(Ambient(r), action, value)

(* The instance check of CrudService::access, closed without an ability.   *)
Allowed(r, action, value) ==
    Ambient(r) # Anonymous /\ can(Ambient(r), action, value)

ActionOf(op) ==
    CASE op = "create" -> "Create"
      [] op = "update" -> "Update"
      [] op = "delete" -> "Delete"
      [] OTHER         -> "Read"

(* A call that failed ends a route handler with the status; a GraphQL      *)
(* field becomes an entry of `errors` and the next field runs (the library *)
(* may end a mutation there; that is an operation with fewer fields).      *)
CallFails(r, how, status) ==
    /\ fault' = [fault EXCEPT ![r] = IF @ = "statement" THEN @ ELSE how]
    /\ IF shape[r].surface = "graphql"
         THEN /\ step' = [step EXCEPT ![r] = @ + 1]
              /\ pc' = [pc EXCEPT ![r] = "calling"]
              /\ UNCHANGED result
         ELSE Leave(r, Err(status)) /\ UNCHANGED step

CallReturns(r) ==
    /\ step' = [step EXCEPT ![r] = @ + 1]
    /\ pc' = [pc EXCEPT ![r] = "calling"]
    /\ UNCHANGED <<result, fault>>

(* The next call of the handler is op and may start.  The generated list   *)
(* and create resolvers authorize by class, as Authorize does on a route.  *)
Calling(r, ops) ==
    /\ pc[r] = "calling" /\ step[r] \in DOMAIN shape[r].calls
    /\ CurrentCall(r).op \in ops

Gated(r) ==
    /\ shape[r].surface = "graphql"
    /\ CurrentCall(r).op \in {"list", "create"}
    /\ ability[r] # Anonymous
          => ~can_class(ability[r], ActionOf(CurrentCall(r).op))

RefuseField(r) ==
    /\ Calling(r, {"list", "create"}) /\ Gated(r)
    /\ CallFails(r, "refused", 403)
    /\ UNCHANGED <<pool, table, shape, ability, txn, writes, leaked, body,
                   persisted, unsure>>

(* A by-id field whose id is no UUID v7 fails before it loads anything.    *)
BadId(r) ==
    /\ Calling(r, {"get", "update", "delete"}) /\ shape[r].surface = "graphql"
    /\ CallFails(r, "refused", 400)
    /\ UNCHANGED <<pool, table, shape, ability, txn, writes, leaked, body,
                   persisted, unsure>>

(* Repo::all: the rows the caller's Read filter lets through.              *)
List(r) ==
    /\ Calling(r, {"list"}) /\ ~Gated(r) /\ Executable(r)
    /\ body' = [body EXCEPT ![r] = @ \cup
          {<<row, Sees(r, row)>> : row \in
              {k \in Rows : Sees(r, k) \in scope_for(r, "Read")}}]
    /\ CallReturns(r)
    /\ UNCHANGED <<pool, table, shape, ability, txn, writes, leaked,
                   persisted, unsure>>

(* CrudService::access: an unscoped load, then the instance check.  Update *)
(* and delete go on to the write with the loaded model.  A missing row is  *)
(* 404 on a route and null in GraphQL.                                     *)
Access(r) ==
    /\ Calling(r, {"get", "update", "delete"}) /\ Executable(r)
    /\ LET call   == CurrentCall(r)
           loaded == Sees(r, call.row)
       IN  CASE loaded = Absent /\ shape[r].surface = "route" ->
                  CallFails(r, "refused", 404) /\ UNCHANGED body
             [] loaded = Absent /\ shape[r].surface = "graphql" ->
                  CallReturns(r) /\ UNCHANGED body
             [] loaded # Absent /\ ~Allowed(r, ActionOf(call.op), loaded) ->
                  CallFails(r, "refused", 403) /\ UNCHANGED body
             [] OTHER ->
                  IF call.op = "get"
                    THEN /\ body' = [body EXCEPT ![r] = @ \cup {<<call.row, loaded>>}]
                         /\ CallReturns(r)
                    ELSE /\ pc' = [pc EXCEPT ![r] = "writing"]
                         /\ UNCHANGED <<body, step, result, fault>>
    /\ UNCHANGED <<pool, table, shape, ability, txn, writes, leaked,
                   persisted, unsure>>

Writing(r, row, value, action) ==
    writes' = [writes EXCEPT ![r][row] =
        [value |-> value, by |-> IF @.by = "None" THEN action ELSE @.by]]

(* The generated create and update answer with the row as it was written,  *)
(* delete with a status or TRUE.                                           *)
Echo(r) ==
    LET call == CurrentCall(r)
    IN  body' = [body EXCEPT ![r] = @ \cup
            IF call.op = "delete" THEN {} ELSE {<<call.row, call.value>>}]

(* insert(): a key another row has is a statement error.                   *)
Create(r) ==
    /\ Calling(r, {"create"}) /\ ~Gated(r) /\ Executable(r) /\ ~Waits(r)
    /\ Sees(r, CurrentCall(r).row) = Absent
    /\ Writing(r, CurrentCall(r).row, CurrentCall(r).value, "Create")
    /\ Echo(r)
    /\ CallReturns(r)
    /\ UNCHANGED <<pool, table, shape, ability, txn, leaked, persisted, unsure>>

(* Fault: the statement runs on the pool, outside the transaction.         *)
WriteOnPool(r) ==
    /\ pc[r] = "writing" /\ Executable(r) /\ ~Waits(r)
    /\ table' = [table EXCEPT ![CurrentCall(r).row] =
                     IF CurrentCall(r).op = "delete" THEN Absent ELSE CurrentCall(r).value]
    /\ Echo(r)
    /\ CallReturns(r)
    /\ UNCHANGED <<pool, shape, ability, txn, writes, leaked, persisted, unsure>>

(* Repo::update and Repo::delete: the WHERE carries the key and the        *)
(* caller's filter, judged on the row as it is once it is locked.  No row  *)
(* left is RecordNotUpdated, or rows_affected 0 turned RecordNotFound.     *)
Write(r) ==
    /\ pc[r] = "writing" /\ Executable(r) /\ ~Waits(r)
    /\ LET call   == CurrentCall(r)
           action == ActionOf(call.op)
           value  == IF call.op = "delete" THEN Absent ELSE call.value
       IN  IF Sees(r, call.row) \in scope_for(r, action)
             THEN Writing(r, call.row, value, action) /\ Echo(r) /\ CallReturns(r)
             ELSE CallFails(r, "refused", 500) /\ UNCHANGED <<writes, body>>
    /\ UNCHANGED <<pool, table, shape, ability, txn, leaked, persisted, unsure>>

AtStatement(r) ==
    \/ pc[r] = "writing"
    \/ /\ pc[r] = "calling" /\ step[r] \in DOMAIN shape[r].calls
       /\ ~Gated(r)

Failing(r) ==
    /\ txn' = [txn EXCEPT ![r] = IF @ = "open" THEN "doomed" ELSE @]
    /\ CallFails(r, "statement", 500)
    /\ UNCHANGED <<pool, table, shape, ability, writes, leaked, body,
                   persisted, unsure>>

(* Any statement may fail; one certainly does when it closes a circle of   *)
(* waiting transactions, when its transaction is already doomed, when the  *)
(* key to insert is taken, or when the pool has no connection for it       *)
(* within its timeout.                                                     *)
StatementFails(r) == AtStatement(r) /\ Failing(r)

MustFail(r) ==
    /\ AtStatement(r)
    /\ \/ Deadlocked(r)
       \/ ~Executable(r)
       \/ /\ pc[r] = "calling" /\ CurrentCall(r).op = "create" /\ ~Waits(r)
          /\ Sees(r, CurrentCall(r).row) # Absent
    /\ Failing(r)

(* A service clones the ambient executor into a spawned task.              *)
Leak(r) ==
    /\ pc[r] = "calling" /\ shape[r].custom
    /\ txn[r] # "none" /\ r \notin leaked
    /\ leaked' = leaked \cup {r}
    /\ UNCHANGED <<pool, table, pc, shape, ability, step, txn, writes, result,
                   body, persisted, unsure, fault>>

(* The handler returns.  A generated one answers 200 (or 204); the         *)
(* developer's own may also redirect or refuse; GraphQL always answers     *)
(* 200, with or without `errors`.                                          *)
Return(r) ==
    /\ pc[r] = "calling" /\ step[r] \notin DOMAIN shape[r].calls
    /\ \E status \in IF shape[r].custom THEN {200, 302, 409} ELSE {200} :
          result' = [result EXCEPT ![r] = Ok(status)]
    /\ pc' = [pc EXCEPT ![r] =
                 IF shape[r].surface = "graphql" THEN "leaving" ELSE "masking"]
    /\ UNCHANGED <<pool, table, shape, ability, step, txn, writes, leaked,
                   body, persisted, unsure, fault>>
-----------------------------------------------------------------------------
(***************************************************************************)
(* The way out: response mask, filters, commit or rollback.                *)
(***************************************************************************)

(* mask_response of the Authorize shaper: of an array only the rows the    *)
(* route's action is allowed on stay; of an object what its permitted      *)
(* fields show, nothing when no grant matches it.  A successful body that  *)
(* is not of the subject's type fails closed.                              *)
Mask(r) ==
    /\ pc[r] = "masking"
    /\ LET shaped == shape[r].authorize # "None" /\ result[r].status = 200
           Kept(value) ==
               IF shape[r].calls[1].op = "list"
                 THEN can(ability[r], shape[r].authorize, value)
                 ELSE permitted_fields(ability[r], shape[r].authorize, value)
       IN  \/ /\ body' = [body EXCEPT ![r] = {e \in @ : shaped => Kept(e[2])}]
              /\ UNCHANGED result
           \/ /\ shaped /\ shape[r].custom
              /\ result' = [result EXCEPT ![r] = Ok(500)]
              /\ body' = [body EXCEPT ![r] = {}]
    /\ pc' = [pc EXCEPT ![r] = "leaving"]
    /\ UNCHANGED <<pool, table, shape, ability, step, txn, writes, leaked,
                   persisted, unsure, fault>>

(* An exception filter, where there is one, turns the error into a         *)
(* response: of the same status, or a redirect.                            *)
Filter(r) ==
    /\ pc[r] = "filtering"
    /\ \E res \in {result[r], Ok(result[r].status), Ok(302)} :
          result' = [result EXCEPT ![r] = res]
    /\ pc' = [pc EXCEPT ![r] = "leaving"]
    /\ UNCHANGED <<pool, table, shape, ability, step, txn, writes, leaked,
                   body, persisted, unsure, fault>>

(* Fault: any response commits, only an Err rolls back.                    *)
CommitAnyResponse(res) == res.ok

should_commit(res) == res.ok /\ res.status \in 200 .. 399

(* The transaction ends and its connection goes back to the pool.          *)
End(r) == txn' = [txn EXCEPT ![r] = "none"]

ConcludeFrame == UNCHANGED <<pool, table, shape, ability, step, writes, leaked,
                             body, persisted, unsure, fault>>

(* Fault: an escaped transaction's response is passed on as it is.         *)
ConcludeSilently(r) ==
    /\ pc[r] = "leaving"
    /\ IF ~shape[r].safe /\ r \notin leaked /\ should_commit(result[r])
         THEN pc' = [pc EXCEPT ![r] = "committing"] /\ UNCHANGED txn
         ELSE /\ pc' = [pc EXCEPT ![r] = "answered"]
              /\ IF r \in leaked THEN UNCHANGED txn ELSE End(r)
    /\ UNCHANGED result /\ ConcludeFrame

(* Fault: a failed request keeps its transaction open.                     *)
ConcludeWithoutRollback(r) ==
    /\ pc[r] = "leaving"
    /\ IF ~shape[r].safe /\ r \notin leaked /\ should_commit(result[r])
         THEN pc' = [pc EXCEPT ![r] = "committing"]
         ELSE pc' = [pc EXCEPT ![r] = "answered"]
    /\ UNCHANGED <<result, txn>> /\ ConcludeFrame

(* The tail of intercept.  On the pool there is nothing to do.  A leaked   *)
(* executor keeps the transaction from being taken back: a success becomes *)
(* a 500, a failure stays.  Otherwise commit or roll back.                 *)
Conclude(r) ==
    /\ pc[r] = "leaving"
    /\ CASE shape[r].safe ->
              pc' = [pc EXCEPT ![r] = "answered"] /\ UNCHANGED <<result, txn>>
         [] ~shape[r].safe /\ r \in leaked ->
              /\ result' = [result EXCEPT ![r] =
                               IF should_commit(@) THEN Err(500) ELSE @]
              /\ pc' = [pc EXCEPT ![r] = "answered"]
              /\ UNCHANGED txn
         [] OTHER ->
              /\ IF should_commit(result[r])
                   THEN pc' = [pc EXCEPT ![r] = "committing"] /\ UNCHANGED txn
                   ELSE pc' = [pc EXCEPT ![r] = "answered"] /\ End(r)
              /\ UNCHANGED result
    /\ ConcludeFrame

(* The database applies a COMMIT, unless a statement doomed the            *)
(* transaction.                                                            *)
Apply(r) ==
    IF txn[r] = "open"
      THEN table' = Applied(r) /\ persisted' = persisted \cup {r}
      ELSE UNCHANGED <<table, persisted>>

Commit(r) ==
    /\ pc[r] = "committing"
    /\ Apply(r) /\ End(r)
    /\ pc' = [pc EXCEPT ![r] = "answered"]
    /\ UNCHANGED <<pool, shape, ability, step, writes, leaked, result, body,
                   unsure, fault>>

(* commit() returns an error: the database may have applied it or not.     *)
CommitFails(r) ==
    /\ pc[r] = "committing"
    /\ Apply(r) \/ UNCHANGED <<table, persisted>>
    /\ End(r)
    /\ unsure' = unsure \cup {r}
    /\ result' = [result EXCEPT ![r] = Err(500)]
    /\ pc' = [pc EXCEPT ![r] = "answered"]
    /\ UNCHANGED <<pool, shape, ability, step, writes, leaked, body, fault>>

(* The client leaves or the handler panics: the future is dropped where it *)
(* stands, with all it holds.  Dropping the last clone of the transaction  *)
(* rolls it back; a COMMIT that was already sent takes effect or not.      *)
Drop(r) ==
    /\ pc[r] \notin Ended \cup {"none"}
    /\ pc' = [pc EXCEPT ![r] = "gone"]
    /\ IF pc[r] = "committing"
         THEN Apply(r) \/ UNCHANGED <<table, persisted>>
         ELSE UNCHANGED <<table, persisted>>
    /\ IF r \in leaked THEN UNCHANGED txn ELSE End(r)
    /\ step' = [step EXCEPT ![r] = 1]
    /\ result' = [result EXCEPT ![r] = NoResult]
    /\ body' = [body EXCEPT ![r] = {}]
    /\ UNCHANGED <<pool, shape, ability, writes, leaked, unsure, fault>>

(* The detached task ends and drops its clone, the last one if the request *)
(* is over.                                                                *)
Unleak(r) ==
    /\ r \in leaked
    /\ leaked' = leaked \ {r}
    /\ IF pc[r] \in Ended THEN End(r) ELSE UNCHANGED txn
    /\ UNCHANGED <<pool, table, pc, shape, ability, step, writes, result,
                   body, persisted, unsure, fault>>
-----------------------------------------------------------------------------
(* All requests are over; the server waits for more.                       *)
Quiet ==
    /\ \A r \in Requests : pc[r] \in Ended /\ r \notin leaked
    /\ UNCHANGED vars

(* The steps a runtime that keeps polling the request takes.               *)
Proceed(r) ==
    \/ Open(r) \/ PassGuards(r) \/ Bridge(r) \/ Authorize(r)
    \/ RefuseField(r) \/ List(r) \/ Access(r) \/ Create(r) \/ Write(r)
    \/ MustFail(r) \/ Return(r) \/ Mask(r) \/ Filter(r) \/ Conclude(r)
    \/ Commit(r)

Next ==
    \/ \E r \in Requests :
          \/ Arrive(r) \/ Proceed(r) \/ OpenFails(r) \/ Challenge(r)
          \/ BadInput(r) \/ BadId(r) \/ StatementFails(r) \/ Leak(r)
          \/ CommitFails(r) \/ Drop(r) \/ Unleak(r)
    \/ Quiet

(* An arrived request is polled until it is over (a begin() that waits for *)
(* a connection times out), and a detached task ends some day.             *)
Fairness ==
    \A r \in Requests : /\ WF_vars(Proceed(r) \/ OpenFails(r))
                        /\ WF_vars(Unleak(r))

Spec == Init /\ [][Next]_vars /\ Fairness
-----------------------------------------------------------------------------
(***************************************************************************)
(* Properties.                                                             *)
(***************************************************************************)

(* A success or a redirect is never reported for writes that are not in    *)
(* the database, whatever leaked or was dropped on the way (interceptor.rs *)
(* intercept, the escaped branch), as long as no statement failed: an      *)
(* application that hides a failed statement behind a 200 loses its        *)
(* transaction to the database.                                            *)
SuccessPersists ==
    \A r \in Requests :
       /\ pc[r] = "answered" /\ result[r].status < 400
       /\ ~shape[r].safe /\ fault[r] # "statement"
       => r \in persisted

(* A request answered with an error left nothing behind (interceptor.rs    *)
(* should_commit and the rollback), unless the COMMIT itself went          *)
(* unacknowledged; nor did one whose transaction escaped it.               *)
FailurePersistsNothing ==
    \A r \in Requests :
       r \in persisted /\ r \notin unsure
       => /\ r \notin leaked
          /\ pc[r] = "answered" => result[r].status < 400

(* No row changes for a caller whose ability does not cover it: the        *)
(* committed value a transaction replaces is one its first write to the    *)
(* row was allowed to touch, even when other requests changed the row      *)
(* between the authorized load and the write (repo.rs update and delete).  *)
ScopedWrites ==
    [][\A r \in Requests :
          r \in persisted' \ persisted /\ Ambient(r) # Anonymous
          => \A row \in Rows :
                \/ writes[r][row].by = "None"
                \/ /\ writes[r][row].by = "Create"
                   /\ table[row] = Absent
                \/ table[row] \in condition_for(Ambient(r), writes[r][row].by)
      ]_vars

(* e is the row a create or update of the request wrote, as it asked.      *)
OwnWrite(r, e) ==
    /\ writes[r][e[1]].by # "None"
    /\ \E i \in DOMAIN shape[r].calls :
          /\ shape[r].calls[i].op \in {"create", "update"}
          /\ shape[r].calls[i].row = e[1] /\ shape[r].calls[i].value = e[2]

(* A response under an ability holds rows the caller may read, and rows    *)
(* its own create or update wrote: those are answered with as they are     *)
(* now, with no check of Read.  On a route, either kind shows only where a *)
(* grant for the route's action matches the row it has become (service.rs  *)
(* access, repo.rs all, the generated create and update, shape.rs          *)
(* mask_response).                                                         *)
ReadsWithinAbility ==
    \A r \in Requests :
       /\ pc[r] = "answered" /\ result[r].status = 200
       /\ Ambient(r) # Anonymous
       => \A e \in body[r] :
             /\ can(Ambient(r), "Read", e[2]) \/ OwnWrite(r, e)
             /\ shape[r].surface = "route"
                   => permitted_fields(ability[r], shape[r].authorize, e[2])

(* A GraphQL operation whose authentication was refused still runs, and    *)
(* reads and writes nothing (bridge.rs before, authorize.rs, service.rs    *)
(* access).                                                                *)
AnonymousGraphqlClosed ==
    \A r \in Requests :
       /\ pc[r] \notin {"none", "arrived", "guarding"}
       /\ shape[r].surface = "graphql" /\ ability[r] = Anonymous
       => body[r] = {} /\ \A row \in Rows : writes[r][row] = Unwritten

(* Every request that arrives ends and gives its connection back: not two  *)
(* transactions that wait for each other, not a full pool, not an escaped  *)
(* executor keeps one for ever (interceptor.rs intercept).                 *)
EveryRequestEnds ==
    \A r \in Requests :
       pc[r] = "arrived" ~> pc[r] \in Ended /\ txn[r] = "none"

(***************************************************************************)
(* The refinement of AtomicRequests: a request that is not over has        *)
(* prepared the rows its transaction holds; afterwards its answer is what  *)
(* the client was told.                                                    *)
(***************************************************************************)
Prepared(r) ==
    [row \in {k \in Rows : pc[r] \notin Ended /\ Wrote(r, k)} |-> writes[r][row].value]

ReplyTo(r) ==
    IF pc[r] \notin Ended THEN "pending"
    ELSE IF pc[r] = "gone" \/ r \in unsure THEN "unknown"
    ELSE IF result[r].status < 400 THEN "success" ELSE "error"

Intents == [r \in Requests |-> Prepared(r)]
Spoilt == {r \in Requests : fault[r] = "statement"}
Replies == [r \in Requests |-> ReplyTo(r)]

Atomic ==
    INSTANCE AtomicRequests WITH
        intent <- Intents, spoilt <- Spoilt, reply <- Replies

(* A request happens at once: its writes become visible together, in the   *)
(* step that answers it, to the rows as it found them, or not at all       *)
(* (interceptor.rs intercept, executor.rs), whatever other requests,       *)
(* dropped futures and escaped executors do in between.                    *)
ImplementsAtomic == Atomic!Spec

(* interceptor.rs, 8-9: "a failed mutation never half-persists".           *)
FailedMutationPersistsNothing ==
    \A r \in Requests :
       pc[r] = "answered" /\ fault[r] # "none" /\ r \in persisted
       => \A row \in Rows : writes[r][row] = Unwritten
-----------------------------------------------------------------------------
(***************************************************************************)
(* The inductive invariant behind the safety properties.                   *)
(***************************************************************************)

(* A transaction lives from begin() to the tail of intercept, unless a     *)
(* leaked executor outlives the request; only a statement dooms it; a      *)
(* request commits alone and at most once.                                 *)
TxnInv(r) ==
    /\ pc[r] \in {"none", "arrived"} => txn[r] = "none"
    /\ pc[r] # "none" /\ shape[r].safe => txn[r] = "none"
    /\ pc[r] \notin Ended \cup {"none", "arrived"} /\ ~shape[r].safe => txn[r] # "none"
    /\ pc[r] \in Ended /\ txn[r] # "none" => r \in leaked
    /\ txn[r] = "doomed" => fault[r] = "statement"
    /\ pc[r] = "committing" =>
          ~shape[r].safe /\ r \notin leaked /\ should_commit(result[r])
    /\ r \in persisted => pc[r] \in Ended /\ txn[r] = "none"

(* What has left the handler as an error has an error's status, and an     *)
(* answer below 400 stands for a commit.                                   *)
ResultInv(r) ==
    /\ result[r].ok \/ result[r].status >= 400
    /\ pc[r] = "answered" /\ r \notin unsure /\ r \in persisted => result[r].status < 400
    /\ /\ pc[r] = "answered" /\ result[r].status < 400
       /\ ~shape[r].safe /\ fault[r] # "statement"
       => r \in persisted

Untouched(r) == body[r] = {} /\ \A row \in Rows : writes[r][row] = Unwritten

(* Nothing is read or written before the handler runs, by a caller without *)
(* an ability under GraphQL, or read outside the caller's filter except    *)
(* what the request wrote itself; a write follows an authorized load.      *)
HandlerInv(r) ==
    /\ pc[r] \in {"none", "arrived", "guarding", "gating"} => Untouched(r)
    /\ /\ pc[r] \notin {"none", "arrived", "guarding"}
       /\ shape[r].surface = "graphql" /\ ability[r] = Anonymous
       => Untouched(r)
    /\ pc[r] # "none" /\ Ambient(r) # Anonymous
          => \A e \in body[r] : can(Ambient(r), "Read", e[2]) \/ OwnWrite(r, e)
    /\ pc[r] = "writing" =>
          /\ step[r] \in DOMAIN shape[r].calls
          /\ CurrentCall(r).op \in {"update", "delete"}
          /\ Ambient(r) # Anonymous

(* A 200 leaves a route with Authorize only through the mask.              *)
MaskInv(r) ==
    /\ pc[r] = "filtering" => result[r].status # 200
    /\ /\ pc[r] \in {"leaving", "committing", "answered"} /\ result[r].status = 200
       /\ shape[r].surface = "route" /\ shape[r].authorize # "None"
       => \A e \in body[r] : permitted_fields(ability[r], shape[r].authorize, e[2])

(* The committed row under a written one is the row as its first write     *)
(* found it.                                                               *)
FoundBy(r, row) ==
    LET by == writes[r][row].by IN
    \/ by = "Create" /\ table[row] = Absent
    \/ Ambient(r) # Anonymous => table[row] \in condition_for(Ambient(r), by)

(* A written row is locked until its transaction ends.                     *)
LockInv ==
    \A r \in Requests : \A row \in Rows :
       Wrote(r, row) => FoundBy(r, row) /\ ~LockedFor(r, row)

IInv ==
    /\ TypeOK
    /\ \A r \in Requests : TxnInv(r) /\ ResultInv(r) /\ HandlerInv(r) /\ MaskInv(r)
    /\ LockInv
=============================================================================
