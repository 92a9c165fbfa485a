-------------------------- MODULE RequestPathProofs ---------------------------
(***************************************************************************)
(* Proofs about RequestPath, for any requests, rows, values, rules and     *)
(* applications, and any size of the connection pool.                      *)
(***************************************************************************)
EXTENDS RequestPath, FiniteSetTheorems, TLAPS

-------------------------------------------------------------------------------
(***************************************************************************)
(* The ability's layers.                                                   *)
(***************************************************************************)

\* The query filter lets a row through exactly when the instance check allows
\* it (ability.rs condition_for and can): SQL and in-memory checks agree.
LEMMA FilterIsCheck ==
  ASSUME NEW a, NEW action, NEW value
  PROVE  value \in condition_for(a, action) <=> can(a, action, value)
  BY DEF condition_for, can, grants, denials, rules_for

\* What passes the query filter or the instance check has a grant, so that the
\* class gate before it refused nothing a row check would have allowed
\* (ability.rs can_class).
LEMMA GateIsNecessary ==
  ASSUME NEW a, NEW action, ~can_class(a, action)
  PROVE  condition_for(a, action) = {} /\ \A value : ~can(a, action, value)
  BY DEF condition_for, can, can_class, grants, denials, rules_for

\* A row that passes the instance check keeps fields (ability.rs mask_many):
\* the check finds a grant that matches it.
LEMMA CheckedIsPermitted ==
  ASSUME NEW a, NEW action, NEW value, can(a, action, value)
  PROVE  permitted_fields(a, action, value)
  BY DEF can, permitted_fields, grants, rules_for

\* The filter holds of values rules speak of, never of a missing row.
LEMMA FilterIsOfValues ==
  ASSUME NEW r \in Requests, TypeOK, NEW action
  PROVE  scope_for(r, action) \subseteq Values
  <1>1. ability[r] = Anonymous \/ ability[r] \subseteq Rules(Values)
    BY DEF TypeOK
  <1>2. QED
    BY <1>1 DEF scope_for, Ambient, condition_for, grants, rules_for, Rules

-------------------------------------------------------------------------------
(***************************************************************************)
(* Steps of one request leave the others alone.                            *)
(***************************************************************************)

(* All of the state that is request q's own.                               *)
Same(q) ==
    /\ pc'[q] = pc[q] /\ shape'[q] = shape[q] /\ ability'[q] = ability[q]
    /\ step'[q] = step[q] /\ txn'[q] = txn[q] /\ writes'[q] = writes[q]
    /\ (q \in leaked' <=> q \in leaked)
    /\ result'[q] = result[q] /\ body'[q] = body[q]
    /\ (q \in persisted' <=> q \in persisted)
    /\ (q \in unsure' <=> q \in unsure) /\ fault'[q] = fault[q]

(* The next-state relation of one request.                                 *)
Acts(r) ==
    \/ Arrive(r) \/ Proceed(r) \/ OpenFails(r) \/ Challenge(r)
    \/ BadInput(r) \/ BadId(r) \/ StatementFails(r) \/ Leak(r)
    \/ CommitFails(r) \/ Drop(r) \/ Unleak(r)

\* A task-local context is a request's own (nestrs-database context.rs): no
\* step of one request's future touches what another's holds.
LEMMA OthersSame ==
  ASSUME TypeOK, NEW r \in Requests, Acts(r), NEW q \in Requests, q # r
  PROVE  Same(q)
  <1> USE DEF TypeOK, Same
  <1>1. CASE Arrive(r) \/ Open(r) \/ OpenFails(r)
    BY <1>1 DEF Arrive, Open, OpenFails
  <1>2. CASE PassGuards(r) \/ Challenge(r) \/ Bridge(r) \/ BadInput(r)
    BY <1>2 DEF PassGuards, Challenge, Bridge, BadInput, Leave
  <1>3. CASE Authorize(r)
    BY <1>3 DEF Authorize, Leave
  <1>4. CASE RefuseField(r) \/ BadId(r) \/ StatementFails(r) \/ MustFail(r)
    BY <1>4 DEF RefuseField, BadId, StatementFails, MustFail, Failing, CallFails, Leave
  <1>5. CASE List(r) \/ Create(r)
    BY <1>5 DEF List, Create, CallReturns, Writing, Echo
  <1>6. CASE Access(r)
    BY <1>6 DEF Access, CallReturns, CallFails, Leave
  <1>7. CASE Write(r)
    BY <1>7 DEF Write, Writing, CallReturns, CallFails, Leave, Echo
  <1>8. CASE Leak(r) \/ Return(r) \/ Mask(r) \/ Filter(r)
    BY <1>8 DEF Leak, Return, Mask, Filter
  <1>9. CASE Conclude(r)
    BY <1>9 DEF Conclude, ConcludeFrame, End
  <1>10. CASE Commit(r) \/ CommitFails(r) \/ Drop(r) \/ Unleak(r)
    BY <1>10 DEF Commit, CommitFails, Drop, Unleak, End, Apply
  <1>11. QED
    BY <1>1, <1>2, <1>3, <1>4, <1>5, <1>6, <1>7, <1>8, <1>9, <1>10 DEF Acts, Proceed

\* What the invariant says of a request is about its own state.
LEMMA SameKeeps ==
  ASSUME NEW q \in Requests, Same(q), TxnInv(q), ResultInv(q), HandlerInv(q), MaskInv(q)
  PROVE  (TxnInv(q) /\ ResultInv(q) /\ HandlerInv(q) /\ MaskInv(q))'
  BY DEF Same, TxnInv, ResultInv, HandlerInv, MaskInv, Untouched, OwnWrite, Ambient, CurrentCall

-------------------------------------------------------------------------------
(***************************************************************************)
(* Types.                                                                  *)
(***************************************************************************)

\* What a client can send has the types of a request.
LEMMA ShapeTypes ==
  ASSUME TypeOK, NEW r \in Requests, pc[r] # "none"
  PROVE  /\ shape[r] \in Shapes /\ shape[r] \in ShapeType
         /\ shape[r].rules \in SUBSET Rules(Values) /\ shape[r].rules # Anonymous
         /\ step[r] \in DOMAIN shape[r].calls => CurrentCall(r) \in Calls
         /\ step[r] \in DOMAIN shape[r].calls /\ shape[r].safe =>
               CurrentCall(r).op \in {"list", "get"}
         /\ shape[r].surface = "graphql" => ~shape[r].safe
  <1>1. shape[r] \in Shapes
    BY DEF TypeOK
  <1>2. shape[r] \in ShapeType /\ shape[r].rules # Anonymous
        /\ (shape[r].surface = "graphql" => ~shape[r].safe)
        /\ (shape[r].safe => \A i \in DOMAIN shape[r].calls : shape[r].calls[i].op \in {"list", "get"})
    BY <1>1, RequestAssumption
  <1>3. shape[r].calls \in Seq(Calls) /\ shape[r].rules \in SUBSET Rules(Values)
    BY <1>2 DEF ShapeType
  <1>4. ASSUME NEW i \in DOMAIN shape[r].calls PROVE shape[r].calls[i] \in Calls
    BY <1>3
  <1>5. QED
    BY <1>1, <1>2, <1>3, <1>4 DEF CurrentCall

\* begin() waits for a free connection, and nothing else takes one
\* (interceptor.rs:35-41): the transactions never outnumber the pool.
LEMMA PoolStep ==
  ASSUME TypeOK, NEW r \in Requests, pool' = pool, FreeConnection \/ txn[r] # "none" \/ txn'[r] = "none",
         \A q \in Requests : q # r => txn'[q] = txn[q]
  PROVE  Cardinality(Busy') <= pool'
  <1>1. IsFiniteSet(Busy) /\ IsFiniteSet(Busy \cup {r}) /\ Cardinality(Busy) \in Nat
    <2>1. IsFiniteSet(Busy) /\ IsFiniteSet({r})
      BY RequestAssumption, FS_Subset, FS_Singleton DEF Busy
    <2>2. QED
      BY <2>1, FS_Union, FS_CardinalityType
  <1>2. Cardinality(Busy) <= pool /\ pool \in Nat
    BY RequestAssumption DEF TypeOK, Busy
  <1>3. CASE txn[r] # "none" \/ txn'[r] = "none"
    <2>1. Busy' \subseteq Busy
      BY <1>3 DEF Busy
    <2>2. Cardinality(Busy') <= Cardinality(Busy) /\ Cardinality(Busy') \in Nat
      BY <1>1, <2>1, FS_Subset, FS_CardinalityType
    <2>3. QED
      BY <1>1, <1>2, <2>2
  <1>4. CASE txn[r] = "none" /\ FreeConnection
    <2>1. Busy' \subseteq Busy \cup {r} /\ r \notin Busy
      BY <1>4 DEF Busy
    <2>2. Cardinality(Busy \cup {r}) = Cardinality(Busy) + 1
      BY <1>1, <2>1, FS_AddElement
    <2>3. Cardinality(Busy') <= Cardinality(Busy \cup {r}) /\ Cardinality(Busy') \in Nat
      BY <1>1, <2>1, FS_Subset, FS_CardinalityType
    <2>4. Cardinality(Busy) < pool
      BY <1>4 DEF FreeConnection
    <2>5. QED
      BY <1>1, <1>2, <2>2, <2>3, <2>4
  <1>5. QED
    BY <1>3, <1>4

Results == [ok : BOOLEAN, status : Statuses]

\* The places of a request's future, and the answers the code gives, are the
\* ones listed.
LEMMA Named ==
  /\ \A stage \in {"arrived", "guarding", "gating", "calling", "writing", "masking", "filtering",
                   "leaving", "committing", "answered", "gone"} : stage \in Stages
  /\ {200, 302, 400, 401, 403, 404, 409, 500} \subseteq Statuses
  /\ \A status \in Statuses : Ok(status) \in Results /\ Err(status) \in Results
  /\ NoResult \in Results /\ \A res \in Results : res.status \in Statuses
  BY DEF Stages, Statuses, Results, Ok, Err, NoResult

(* The types, the bound on connections aside.                              *)
ControlTypes ==
    /\ pc \in [Requests -> Stages]
    /\ DOMAIN shape = Requests
    /\ \A q \in Requests : pc[q] # "none" => shape[q] \in Shapes

AnswerTypes ==
    /\ ability \in [Requests -> {Anonymous} \cup SUBSET Rules(Values)]
    /\ step \in [Requests -> Nat \ {0}]
    /\ result \in [Requests -> Results]
    /\ fault \in [Requests -> {"none", "refused", "statement"}]

TransactionTypes ==
    /\ txn \in [Requests -> {"none", "open", "doomed"}]
    /\ leaked \subseteq {q \in Requests : txn[q] # "none"}
    /\ persisted \subseteq Requests /\ unsure \subseteq Requests

DataTypes ==
    /\ table \in [Rows -> Contents]
    /\ writes \in [Requests -> [Rows -> [value : Contents, by : Actions \cup {"None"}]]]
    /\ body \in [Requests -> SUBSET (Rows \X Values)]

\* Only begin() takes a connection for a transaction (interceptor.rs:35-41).
LEMMA OnlyOpenTakes ==
  ASSUME TypeOK, NEW r \in Requests, Acts(r)
  PROVE  pool' = pool /\ (FreeConnection \/ txn[r] # "none" \/ txn'[r] = "none")
  <1> USE DEF TypeOK
  <1>1. CASE Arrive(r) \/ Open(r) \/ OpenFails(r)
    BY <1>1 DEF Arrive, Open, OpenFails
  <1>2. CASE PassGuards(r) \/ Challenge(r) \/ Bridge(r) \/ BadInput(r) \/ Authorize(r)
    BY <1>2 DEF PassGuards, Challenge, Bridge, BadInput, Authorize
  <1>3. CASE RefuseField(r) \/ BadId(r) \/ StatementFails(r) \/ MustFail(r)
    BY <1>3 DEF RefuseField, BadId, StatementFails, MustFail, Failing
  <1>4. CASE List(r) \/ Create(r) \/ Access(r) \/ Write(r)
    BY <1>4 DEF List, Create, Access, Write
  <1>5. CASE Leak(r) \/ Return(r) \/ Mask(r) \/ Filter(r)
    BY <1>5 DEF Leak, Return, Mask, Filter
  <1>6. CASE Conclude(r)
    BY <1>6 DEF Conclude, ConcludeFrame, End
  <1>7. CASE Commit(r) \/ CommitFails(r) \/ Drop(r) \/ Unleak(r)
    BY <1>7 DEF Commit, CommitFails, Drop, Unleak, End
  <1>8. QED
    BY <1>1, <1>2, <1>3, <1>4, <1>5, <1>6, <1>7 DEF Acts, Proceed

\* A layer that ends the request leaves with its result (macros routes.rs).
LEMMA LeaveEffect ==
  ASSUME TypeOK, NEW r \in Requests, NEW res \in Results, Leave(r, res)
  PROVE  /\ pc' \in [Requests -> Stages] /\ result' \in [Requests -> Results]
         /\ pc'[r] = IF res.ok THEN "leaving" ELSE "filtering"
         /\ result'[r] = res
  BY Named DEF Leave, TypeOK, Results

\* A service call that fails ends the handler, or the GraphQL field.
LEMMA FailsEffect ==
  ASSUME TypeOK, NEW r \in Requests, NEW how \in {"refused", "statement"},
         NEW status \in Statuses, CallFails(r, how, status)
  PROVE  /\ pc' \in [Requests -> Stages] /\ result' \in [Requests -> Results]
         /\ step' \in [Requests -> Nat \ {0}]
         /\ fault' \in [Requests -> {"none", "refused", "statement"}]
         /\ pc'[r] \in {"calling", "filtering"}
         /\ result'[r] \in {result[r], Err(status)}
         /\ pc'[r] = "filtering" => result'[r] = Err(status)
         /\ (fault[r] = "statement" \/ how = "statement") => fault'[r] = "statement"
  <1>1. /\ fault' \in [Requests -> {"none", "refused", "statement"}]
        /\ (fault[r] = "statement" \/ how = "statement") => fault'[r] = "statement"
    BY DEF CallFails, TypeOK
  <1>2. CASE shape[r].surface = "graphql"
    <2>1. /\ step' = [step EXCEPT ![r] = @ + 1] /\ result' = result
          /\ pc' = [pc EXCEPT ![r] = "calling"]
      BY <1>2 DEF CallFails
    <2>2. pc' \in [Requests -> Stages] /\ pc'[r] = "calling" /\ step' \in [Requests -> Nat \ {0}]
      BY <2>1, Named DEF TypeOK
    <2>3. QED
      BY <1>1, <2>1, <2>2 DEF TypeOK, Results
  <1>3. CASE shape[r].surface # "graphql"
    <2>1. Leave(r, Err(status)) /\ step' = step /\ Err(status) \in Results
      BY <1>3, Named DEF CallFails
    <2>2. pc' \in [Requests -> Stages] /\ result' \in [Requests -> Results]
          /\ pc'[r] = "filtering" /\ result'[r] = Err(status)
      BY <2>1, LeaveEffect DEF Err
    <2>3. QED
      BY <1>1, <2>1, <2>2 DEF TypeOK
  <1>4. QED
    BY <1>2, <1>3

\* A service call that returns hands the handler its next one.
LEMMA ReturnsEffect ==
  ASSUME TypeOK, NEW r \in Requests, CallReturns(r)
  PROVE  /\ pc' \in [Requests -> Stages] /\ pc'[r] = "calling"
         /\ step' \in [Requests -> Nat \ {0}]
         /\ result' = result /\ fault' = fault /\ result \in [Requests -> Results]
  BY Named DEF CallReturns, TypeOK, Results

\* A request stays in the listed places, and is what it was when it arrived.
LEMMA PlaceStep ==
  ASSUME TypeOK, NEW r \in Requests, TxnInv(r), HandlerInv(r), Acts(r)
  PROVE  pc' \in [Requests -> Stages] /\ (Arrive(r) \/ (shape' = shape /\ pc[r] # "none"))
  <1>1. pc \in [Requests -> Stages]
    BY DEF TypeOK
  <1> USE <1>1, Named
  <1>2. CASE Arrive(r) \/ Open(r) \/ OpenFails(r)
    BY <1>2 DEF Arrive, Open, OpenFails
  <1>3. CASE PassGuards(r)
    BY <1>3, ShapeTypes, LeaveEffect DEF PassGuards
  <1>4. CASE Bridge(r)
    BY <1>4, ShapeTypes DEF Bridge
  <1>5. CASE Challenge(r) \/ BadInput(r)
    BY <1>5, LeaveEffect DEF Challenge, BadInput
  <1>6. CASE Authorize(r)
    BY <1>6, LeaveEffect DEF Authorize
  <1>7. CASE RefuseField(r) \/ BadId(r)
    BY <1>7, FailsEffect DEF RefuseField, BadId, Calling
  <1>8. CASE StatementFails(r) \/ MustFail(r)
    BY <1>8, FailsEffect DEF StatementFails, MustFail, Failing, AtStatement
  <1>9. CASE List(r) \/ Create(r)
    BY <1>9, ReturnsEffect DEF List, Create, Calling
  <1>10. CASE Access(r)
    BY <1>10, ReturnsEffect, FailsEffect DEF Access, Calling
  <1>11. CASE Write(r)
    BY <1>11, ReturnsEffect, FailsEffect DEF Write
  <1>12. CASE Leak(r) \/ Return(r)
    BY <1>12 DEF Leak, Return
  <1>13. CASE Mask(r) \/ Filter(r)
    BY <1>13 DEF Mask, Filter
  <1>14. CASE Conclude(r)
    BY <1>14 DEF Conclude, ConcludeFrame
  <1>15. CASE Commit(r) \/ CommitFails(r)
    BY <1>15 DEF Commit, CommitFails
  <1>16. CASE Drop(r)
    BY <1>16 DEF Drop
  <1>17. CASE Unleak(r)
    <2>1. pc' = pc /\ shape' = shape /\ txn[r] # "none"
      BY <1>17 DEF Unleak, TypeOK
    <2>2. QED
      BY <2>1 DEF TxnInv
  <1>18. QED
    BY <1>2, <1>3, <1>4, <1>5, <1>6, <1>7, <1>8, <1>9, <1>10, <1>11, <1>12, <1>13, <1>14,
       <1>15, <1>16, <1>17 DEF Acts, Proceed

\* Where a request is, and what it is, keep their types.
LEMMA ControlStep ==
  ASSUME TypeOK, NEW r \in Requests, TxnInv(r), HandlerInv(r), Acts(r)
  PROVE  ControlTypes'
  <1>1. pc' \in [Requests -> Stages] /\ (Arrive(r) \/ (shape' = shape /\ pc[r] # "none"))
    BY PlaceStep
  <1>2. DOMAIN shape' = Requests /\ (pc'[r] # "none" => shape'[r] \in Shapes)
    BY <1>1 DEF Arrive, TypeOK
  <1>3. \A q \in Requests : q # r => pc'[q] = pc[q] /\ shape'[q] = shape[q]
    BY OthersSame DEF Same
  <1>4. QED
    BY <1>1, <1>2, <1>3 DEF TypeOK, ControlTypes

\* The ability a guard attached, the result and the failures keep theirs.
LEMMA AnswerStep ==
  ASSUME TypeOK, NEW r \in Requests, TxnInv(r), HandlerInv(r), Acts(r)
  PROVE  AnswerTypes'
  <1>1. AnswerTypes
    BY DEF TypeOK, AnswerTypes, Results
  <1> USE <1>1, Named DEF AnswerTypes
  <1>2. CASE Arrive(r) \/ Open(r) \/ OpenFails(r)
    BY <1>2 DEF Arrive, Open, OpenFails
  <1>3. CASE PassGuards(r)
    BY <1>3, ShapeTypes, LeaveEffect DEF PassGuards
  <1>4. CASE Bridge(r)
    BY <1>4, ShapeTypes DEF Bridge
  <1>5. CASE Challenge(r) \/ BadInput(r)
    BY <1>5, LeaveEffect DEF Challenge, BadInput
  <1>6. CASE Authorize(r)
    BY <1>6, LeaveEffect DEF Authorize
  <1>7. CASE RefuseField(r) \/ BadId(r)
    BY <1>7, FailsEffect DEF RefuseField, BadId
  <1>8. CASE StatementFails(r) \/ MustFail(r)
    BY <1>8, FailsEffect DEF StatementFails, MustFail, Failing
  <1>9. CASE List(r) \/ Create(r)
    BY <1>9, ReturnsEffect DEF List, Create
  <1>10. CASE Access(r)
    BY <1>10, ReturnsEffect, FailsEffect DEF Access
  <1>11. CASE Write(r)
    BY <1>11, ReturnsEffect, FailsEffect DEF Write
  <1>12. CASE Leak(r) \/ Return(r)
    BY <1>12 DEF Leak, Return
  <1>13. CASE Mask(r) \/ Filter(r)
    BY <1>13 DEF Mask, Filter
  <1>14. CASE Conclude(r)
    BY <1>14 DEF Conclude, ConcludeFrame
  <1>15. CASE Commit(r) \/ CommitFails(r) \/ Unleak(r)
    BY <1>15 DEF Commit, CommitFails, Unleak
  <1>16. CASE Drop(r)
    BY <1>16 DEF Drop
  <1>17. QED
    BY <1>2, <1>3, <1>4, <1>5, <1>6, <1>7, <1>8, <1>9, <1>10, <1>11, <1>12, <1>13, <1>14,
       <1>15, <1>16 DEF Acts, Proceed

\* So do the transactions; a leaked executor holds one that is open.
LEMMA TransactionStep ==
  ASSUME TypeOK, NEW r \in Requests, TxnInv(r), HandlerInv(r), Acts(r)
  PROVE  TransactionTypes'
  <1>1. TransactionTypes
    BY DEF TypeOK, TransactionTypes
  <1> USE <1>1 DEF TransactionTypes
  <1>2. CASE Arrive(r) \/ Open(r) \/ OpenFails(r)
    BY <1>2 DEF Arrive, Open, OpenFails, TxnInv
  <1>3. CASE PassGuards(r) \/ Challenge(r) \/ Bridge(r) \/ BadInput(r) \/ Authorize(r)
    BY <1>3 DEF PassGuards, Challenge, Bridge, BadInput, Authorize
  <1>4. CASE RefuseField(r) \/ BadId(r)
    BY <1>4 DEF RefuseField, BadId
  <1>5. CASE StatementFails(r) \/ MustFail(r)
    BY <1>5 DEF StatementFails, MustFail, Failing
  <1>6. CASE List(r) \/ Create(r) \/ Access(r) \/ Write(r)
    BY <1>6 DEF List, Create, Access, Write
  <1>7. CASE Leak(r) \/ Return(r) \/ Mask(r) \/ Filter(r)
    BY <1>7 DEF Leak, Return, Mask, Filter
  <1>8. CASE Conclude(r)
    BY <1>8 DEF Conclude, ConcludeFrame, End
  <1>9. CASE Commit(r) \/ CommitFails(r)
    BY <1>9 DEF Commit, CommitFails, Apply, End, TxnInv
  <1>10. CASE Drop(r) \/ Unleak(r)
    BY <1>10 DEF Drop, Unleak, Apply, End
  <1>11. QED
    BY <1>2, <1>3, <1>4, <1>5, <1>6, <1>7, <1>8, <1>9, <1>10 DEF Acts, Proceed

\* What a statement of a request sees under a key is a row's contents, and a
\* commit leaves such contents behind.
LEMMA SeesContents ==
  ASSUME TypeOK, NEW r \in Requests
  PROVE  /\ \A row \in Rows : Sees(r, row) \in Contents
         /\ Applied(r) \in [Rows -> Contents]
  <1>1. \A row \in Rows : /\ table[row] \in Contents /\ writes[r][row].value \in Contents
    BY DEF TypeOK
  <1>2. QED
    BY <1>1 DEF Sees, Applied

\* A write adds one row to the transaction's own, under the action that first
\* wrote it.
LEMMA WritingEffect ==
  ASSUME TypeOK, NEW r \in Requests, NEW row \in Rows, NEW value \in Contents,
         NEW action \in Actions, Writing(r, row, value, action)
  PROVE  /\ writes' \in [Requests -> [Rows -> [value : Contents, by : Actions \cup {"None"}]]]
         /\ \A q \in Requests \ {r} : writes'[q] = writes[q]
         /\ \A k \in Rows \ {row} : writes'[r][k] = writes[r][k]
         /\ writes'[r][row].by = IF writes[r][row].by = "None" THEN action ELSE writes[r][row].by
  <1> DEFINE W == [value : Contents, by : Actions \cup {"None"}]
             w == [value |-> value,
                   by |-> IF writes[r][row].by = "None" THEN action ELSE writes[r][row].by]
  <1>1. writes \in [Requests -> [Rows -> W]] /\ writes[r] \in [Rows -> W] /\ writes[r][row] \in W
    BY DEF TypeOK
  <1>2. w \in W /\ w.by = IF writes[r][row].by = "None" THEN action ELSE writes[r][row].by
    BY <1>1
  <1>3. writes' = [writes EXCEPT ![r] = [writes[r] EXCEPT ![row] = w]]
    BY <1>1 DEF Writing
  <1> HIDE DEF W, w
  <1>4. [writes[r] EXCEPT ![row] = w] \in [Rows -> W]
    BY <1>1, <1>2
  <1>5. writes' \in [Requests -> [Rows -> W]] /\ writes'[r] = [writes[r] EXCEPT ![row] = w]
    BY <1>1, <1>3, <1>4
  <1>6. \A q \in Requests \ {r} : writes'[q] = writes[q]
    BY <1>1, <1>3
  <1>7. writes'[r][row] = w /\ \A k \in Rows \ {row} : writes'[r][k] = writes[r][k]
    BY <1>1, <1>5
  <1>8. QED
    BY <1>2, <1>5, <1>6, <1>7 DEF W

\* A written row holds what was last written to it.
LEMMA WrittenValue ==
  ASSUME TypeOK, NEW r \in Requests, NEW row \in Rows, NEW value, NEW action,
         Writing(r, row, value, action)
  PROVE  writes'[r][row].value = value
  <1>1. DOMAIN writes = Requests /\ DOMAIN writes[r] = Rows
    BY DEF TypeOK
  <1>2. QED
    BY <1>1 DEF Writing

\* A create or update answers with the row it wrote, which the request asked
\* for; a delete with none (the generated handlers).
LEMMA EchoEffect ==
  ASSUME TypeOK, NEW r \in Requests, pc[r] # "none", step[r] \in DOMAIN shape[r].calls, Echo(r)
  PROVE  /\ body' \in [Requests -> SUBSET (Rows \X Values)]
         /\ body'[r] = body[r] \cup (IF CurrentCall(r).op = "delete" THEN {}
                                     ELSE {<<CurrentCall(r).row, CurrentCall(r).value>>})
  <1> DEFINE new == IF CurrentCall(r).op = "delete" THEN {}
                    ELSE {<<CurrentCall(r).row, CurrentCall(r).value>>}
  <1>1. CurrentCall(r).row \in Rows /\ CurrentCall(r).value \in Values
    BY ShapeTypes DEF Calls
  <1>2. new \subseteq Rows \X Values
    BY <1>1
  <1>3. body' = [body EXCEPT ![r] = @ \cup new] /\ body \in [Requests -> SUBSET (Rows \X Values)]
    BY DEF Echo, TypeOK
  <1> HIDE DEF new
  <1>4. body' \in [Requests -> SUBSET (Rows \X Values)] /\ body'[r] = body[r] \cup new
    BY <1>2, <1>3
  <1>5. QED
    BY <1>4 DEF new

\* What a request has written stays its own: later writes of it and quiet
\* steps keep the row among those it wrote.
LEMMA OwnWriteKeeps ==
  ASSUME NEW r, NEW e, OwnWrite(r, e), shape'[r] = shape[r],
         writes'[r][e[1]].by = "None" => writes[r][e[1]].by = "None"
  PROVE  OwnWrite(r, e)'
  BY DEF OwnWrite

\* The response mask takes rows out of the body: what the route's action
\* permits stays, and nothing when it refuses the body (shape.rs
\* mask_response).
LEMMA MaskEffect ==
  ASSUME TypeOK, NEW r \in Requests, Mask(r)
  PROVE  /\ UNCHANGED <<table, writes>> /\ \E S \in SUBSET body[r] : body' = [body EXCEPT ![r] = S]
         /\ pc[r] = "masking" /\ pc' = [pc EXCEPT ![r] = "leaving"]
         /\ result' = result \/ result' = [result EXCEPT ![r] = Ok(500)]
         /\ \/ result'[r].status # 200
            \/ shape[r].authorize = "None"
            \/ \A e \in body'[r] : permitted_fields(ability[r], shape[r].authorize, e[2])
  <1> DEFINE shaped == shape[r].authorize # "None" /\ result[r].status = 200
             Kept(value) == IF shape[r].calls[1].op = "list"
                              THEN can(ability[r], shape[r].authorize, value)
                              ELSE permitted_fields(ability[r], shape[r].authorize, value)
             kept == {e \in body[r] : shaped => Kept(e[2])}
  <1>1. \/ body' = [body EXCEPT ![r] = kept] /\ result' = result
        \/ body' = [body EXCEPT ![r] = {}] /\ result' = [result EXCEPT ![r] = Ok(500)]
    BY DEF Mask
  <1>2. kept \in SUBSET body[r] /\ {} \in SUBSET body[r]
    OBVIOUS
  <1>5. shaped => \A e \in kept : permitted_fields(ability[r], shape[r].authorize, e[2])
    BY CheckedIsPermitted
  <1>6. Ok(500).status # 200 /\ DOMAIN body = Requests /\ DOMAIN result = Requests
    BY DEF Ok, TypeOK
  <1> HIDE DEF kept
  <1>3. \E S \in SUBSET body[r] : body' = [body EXCEPT ![r] = S]
    BY <1>1, <1>2
  <1>4. \/ result'[r].status # 200
        \/ shape[r].authorize = "None"
        \/ \A e \in body'[r] : permitted_fields(ability[r], shape[r].authorize, e[2])
    BY <1>1, <1>5, <1>6
  <1>7. QED
    BY <1>3, <1>4, <1>1 DEF Mask

\* What CrudService::access does: refuse, find nothing, or hand on a row that
\* the instance check allows (service.rs).
LEMMA AccessEffect ==
  ASSUME TypeOK, NEW r \in Requests, Access(r)
  PROVE  LET call   == CurrentCall(r)
             loaded == Sees(r, call.row)
         IN /\ pc[r] = "calling" /\ step[r] \in DOMAIN shape[r].calls
            /\ call.op \in {"get", "update", "delete"}
            /\ \/ CallFails(r, "refused", 404) /\ body' = body
               \/ CallFails(r, "refused", 403) /\ body' = body
               \/ CallReturns(r) /\ body' = body
               \/ /\ loaded # Absent /\ Allowed(r, "Read", loaded) /\ CallReturns(r)
                  /\ body' = [body EXCEPT ![r] = @ \cup {<<call.row, loaded>>}]
               \/ /\ loaded # Absent /\ Allowed(r, ActionOf(call.op), loaded)
                  /\ call.op \in {"update", "delete"}
                  /\ pc' = [pc EXCEPT ![r] = "writing"] /\ UNCHANGED <<body, step, result, fault>>
  <1> DEFINE call == CurrentCall(r)
             loaded == Sees(r, call.row)
  <1>1. /\ pc[r] = "calling" /\ step[r] \in DOMAIN shape[r].calls
        /\ call.op \in {"get", "update", "delete"}
    BY DEF Access, Calling
  <1>2. shape[r].surface \in {"route", "graphql"}
    BY <1>1, ShapeTypes DEF ShapeType
  <1>3. CASE loaded = Absent
    BY <1>1, <1>2, <1>3 DEF Access
  <1>4. CASE loaded # Absent /\ ~Allowed(r, ActionOf(call.op), loaded)
    BY <1>1, <1>4 DEF Access
  <1>5. CASE loaded # Absent /\ Allowed(r, ActionOf(call.op), loaded)
    <2>1. IF call.op = "get"
            THEN body' = [body EXCEPT ![r] = @ \cup {<<call.row, loaded>>}] /\ CallReturns(r)
            ELSE pc' = [pc EXCEPT ![r] = "writing"] /\ UNCHANGED <<body, step, result, fault>>
      BY <1>5 DEF Access
    <2>2. call.op = "get" => ActionOf(call.op) = "Read"
      BY DEF ActionOf
    <2>3. QED
      BY <1>1, <1>5, <2>1, <2>2
  <1>6. QED
    BY <1>3, <1>4, <1>5

\* So do the rows: committed, written and read.
LEMMA DataStep ==
  ASSUME TypeOK, NEW r \in Requests, TxnInv(r), HandlerInv(r), Acts(r)
  PROVE  DataTypes'
  <1>1. DataTypes
    BY DEF TypeOK, DataTypes
  <1> USE DEF DataTypes
  <1>2. CASE UNCHANGED <<table, writes, body>>
    BY <1>1, <1>2
  <1>3. CASE Arrive(r) \/ Open(r) \/ OpenFails(r) \/ PassGuards(r) \/ Bridge(r) \/ Challenge(r)
    BY <1>2, <1>3 DEF Arrive, Open, OpenFails, PassGuards, Bridge, Challenge
  <1>4. CASE BadInput(r) \/ Authorize(r) \/ RefuseField(r) \/ BadId(r)
    BY <1>2, <1>4 DEF BadInput, Authorize, RefuseField, BadId
  <1>5. CASE StatementFails(r) \/ MustFail(r) \/ Leak(r) \/ Return(r) \/ Filter(r)
    BY <1>2, <1>5 DEF StatementFails, MustFail, Failing, Leak, Return, Filter
  <1>6. CASE Conclude(r) \/ Unleak(r)
    BY <1>2, <1>6 DEF Conclude, ConcludeFrame, Unleak
  <1>7. CASE List(r)
    <2> DEFINE new == {<<row, Sees(r, row)>> : row \in {k \in Rows : Sees(r, k) \in scope_for(r, "Read")}}
    <2>1. body' = [body EXCEPT ![r] = @ \cup new] /\ UNCHANGED <<table, writes>>
      BY <1>7 DEF List
    <2>2. new \subseteq Rows \X Values
      BY FilterIsOfValues
    <2>3. QED
      BY <1>1, <2>1, <2>2
  <1>8. CASE Access(r)
    <2> DEFINE call == CurrentCall(r)
               loaded == Sees(r, call.row)
    <2>1. UNCHANGED <<table, writes>> /\ step[r] \in DOMAIN shape[r].calls /\ pc[r] # "none"
      BY <1>8, AccessEffect DEF Access
    <2>2. call.row \in Rows
      BY <2>1, ShapeTypes DEF Calls
    <2>3. \/ body' = body
          \/ body' = [body EXCEPT ![r] = @ \cup {<<call.row, loaded>>}] /\ loaded # Absent
      BY <1>8, AccessEffect
    <2>4. loaded # Absent => loaded \in Values
      BY <2>2, SeesContents DEF Contents
    <2>5. loaded # Absent => {<<call.row, loaded>>} \subseteq Rows \X Values
      BY <2>2, <2>4
    <2> DEFINE new == {<<call.row, loaded>>}
    <2>6. body' = body \/ (body' = [body EXCEPT ![r] = @ \cup new] /\ new \subseteq Rows \X Values)
      BY <2>3, <2>5
    <2> HIDE DEF new
    <2>7. QED
      BY <1>1, <2>1, <2>6
  <1>9. CASE Create(r)
    <2>1. /\ UNCHANGED table /\ step[r] \in DOMAIN shape[r].calls /\ pc[r] # "none"
          /\ Writing(r, CurrentCall(r).row, CurrentCall(r).value, "Create") /\ Echo(r)
      BY <1>9 DEF Create, Calling
    <2>2. CurrentCall(r).row \in Rows /\ CurrentCall(r).value \in Contents
      BY <2>1, ShapeTypes DEF Calls, Contents
    <2>3. body' \in [Requests -> SUBSET (Rows \X Values)]
      BY <2>1, EchoEffect
    <2>4. QED
      BY <1>1, <2>1, <2>2, <2>3, WritingEffect DEF Actions
  <1>10. CASE Write(r)
    <2> DEFINE call == CurrentCall(r)
               value == IF call.op = "delete" THEN Absent ELSE call.value
    <2>1. /\ UNCHANGED table /\ step[r] \in DOMAIN shape[r].calls /\ pc[r] # "none"
          /\ writes' = writes \/ Writing(r, call.row, value, ActionOf(call.op))
          /\ body' = body \/ Echo(r)
      BY <1>10 DEF Write, HandlerInv
    <2>2. call.row \in Rows /\ value \in Contents /\ ActionOf(call.op) \in Actions
      BY <2>1, ShapeTypes DEF Calls, Contents, ActionOf, Actions
    <2> HIDE DEF value
    <2>3. body' \in [Requests -> SUBSET (Rows \X Values)]
      BY <1>1, <2>1, EchoEffect
    <2>4. QED
      BY <1>1, <2>1, <2>2, <2>3, WritingEffect
  <1>11. CASE Mask(r)
    <2>1. UNCHANGED <<table, writes>> /\ \E S \in SUBSET body[r] : body' = [body EXCEPT ![r] = S]
      BY <1>11, MaskEffect
    <2>2. QED
      BY <1>1, <2>1
  <1>12. CASE Commit(r) \/ CommitFails(r) \/ Drop(r)
    <2>1. /\ table' = table \/ table' = Applied(r)
          /\ writes' = writes /\ (body' = body \/ body' = [body EXCEPT ![r] = {}])
      BY <1>12 DEF Commit, CommitFails, Drop, Apply
    <2>2. QED
      BY <1>1, <2>1, SeesContents
  <1>13. QED
    BY <1>3, <1>4, <1>5, <1>6, <1>7, <1>8, <1>9, <1>10, <1>11, <1>12 DEF Acts, Proceed

\* Every step of a request keeps the types and the bound on connections.
LEMMA TypeStep ==
  ASSUME TypeOK, NEW r \in Requests, TxnInv(r), HandlerInv(r), Acts(r)
  PROVE  TypeOK'
  <1>1. ControlTypes' /\ AnswerTypes' /\ TransactionTypes' /\ DataTypes'
    BY ControlStep, AnswerStep, TransactionStep, DataStep
  <1>2. pool' = pool /\ (FreeConnection \/ txn[r] # "none" \/ txn'[r] = "none")
    BY OnlyOpenTakes
  <1>3. \A q \in Requests : q # r => txn'[q] = txn[q]
    BY OthersSame DEF Same
  <1>4. Cardinality(Busy') <= pool'
    BY <1>2, <1>3, PoolStep
  <1>5. pool' \in PoolSizes
    BY <1>2 DEF TypeOK
  <1>6. QED
    BY <1>1, <1>4, <1>5
       DEF ControlTypes, AnswerTypes, TransactionTypes, DataTypes, Results, TypeOK, Busy

-------------------------------------------------------------------------------
(***************************************************************************)
(* Transactions and results.                                               *)
(***************************************************************************)

\* What leaves a layer as an error has an error's status, and all the tail of
\* intercept does not commit is answered with 400 or more (interceptor.rs
\* should_commit).
LEMMA CommitOrError ==
  ASSUME NEW res \in Results, res.ok \/ res.status >= 400
  PROVE  should_commit(res) <=> res.status < 400
  BY DEF should_commit, Results, Statuses

\* Every step of a request keeps its transaction's invariant
\* (interceptor.rs:30-84).
LEMMA TxnStep ==
  ASSUME TypeOK, NEW r \in Requests, TxnInv(r), ResultInv(r), HandlerInv(r), Acts(r)
  PROVE  TxnInv(r)'
  <1>1. /\ pc \in [Requests -> Stages] /\ txn \in [Requests -> {"none", "open", "doomed"}]
        /\ DOMAIN shape = Requests /\ fault \in [Requests -> {"none", "refused", "statement"}]
        /\ r \in leaked => txn[r] # "none"
        /\ pc' \in [Requests -> Stages]
    BY PlaceStep DEF TypeOK
  <1> USE <1>1 DEF TxnInv, Ended
  <1>2. CASE Arrive(r) \/ Open(r) \/ OpenFails(r)
    BY <1>2 DEF Arrive, Open, OpenFails
  <1>3. CASE PassGuards(r)
    BY <1>3, LeaveEffect, Named DEF PassGuards
  <1>4. CASE Challenge(r) \/ BadInput(r)
    BY <1>4, LeaveEffect, Named DEF Challenge, BadInput
  <1>5. CASE Bridge(r)
    BY <1>5 DEF Bridge
  <1>6. CASE Authorize(r)
    BY <1>6, LeaveEffect, Named DEF Authorize
  <1>7. CASE RefuseField(r) \/ BadId(r)
    BY <1>7, FailsEffect, Named DEF RefuseField, BadId, Calling
  <1>8. CASE StatementFails(r) \/ MustFail(r)
    BY <1>8, FailsEffect, Named DEF StatementFails, MustFail, AtStatement, Failing
  <1>9. CASE List(r) \/ Create(r)
    BY <1>9, ReturnsEffect DEF List, Create, Calling
  <1>10. CASE Access(r)
    BY <1>10, AccessEffect, ReturnsEffect, FailsEffect, Named DEF Access
  <1>11. CASE Write(r)
    BY <1>11, ReturnsEffect, FailsEffect, Named DEF Write
  <1>12. CASE Leak(r) \/ Return(r)
    BY <1>12 DEF Leak, Return
  <1>13. CASE Mask(r) \/ Filter(r)
    BY <1>13 DEF Mask, Filter
  <1>14. CASE Conclude(r)
    BY <1>14 DEF Conclude, ConcludeFrame, End
  <1>15. CASE Commit(r) \/ CommitFails(r)
    BY <1>15 DEF Commit, CommitFails, End, Apply
  <1>16. CASE Drop(r)
    BY <1>16 DEF Drop, End, Apply
  <1>17. CASE Unleak(r)
    BY <1>17 DEF Unleak, End
  <1>18. QED
    BY <1>2, <1>3, <1>4, <1>5, <1>6, <1>7, <1>8, <1>9, <1>10, <1>11, <1>12, <1>13, <1>14,
       <1>15, <1>16, <1>17 DEF Acts, Proceed

\* Every step keeps what is known of the answer: an error has an error's
\* status, and below 400 stands for a commit (interceptor.rs:54-84).
LEMMA ResultStep ==
  ASSUME TypeOK, NEW r \in Requests, TxnInv(r), ResultInv(r), HandlerInv(r), Acts(r)
  PROVE  ResultInv(r)'
  <1>1. /\ pc \in [Requests -> Stages] /\ txn \in [Requests -> {"none", "open", "doomed"}]
        /\ DOMAIN shape = Requests /\ fault \in [Requests -> {"none", "refused", "statement"}]
        /\ result \in [Requests -> Results] /\ result[r] \in Results
        /\ pc' \in [Requests -> Stages]
    BY PlaceStep DEF TypeOK, Results
  <1>2. ASSUME result'[r] = result[r] \/ result'[r].ok \/ result'[r].status >= 400,
               pc'[r] # "answered"
        PROVE  ResultInv(r)'
    BY <1>2 DEF ResultInv
  <1>3. \A status \in {400, 403, 404, 500} : Err(status).status = status /\ ~Err(status).ok /\ status >= 400
    BY DEF Err
  <1>4. \A status : Ok(status).status = status /\ Ok(status).ok
    BY DEF Ok
  <1> USE <1>1
  <1>5. CASE Arrive(r) \/ Open(r)
    BY <1>2, <1>5 DEF Arrive, Open
  <1>6. CASE OpenFails(r)
    BY <1>3, <1>6 DEF OpenFails, ResultInv, TxnInv, Ended
  <1>7. CASE PassGuards(r)
    BY <1>2, <1>4, <1>7, LeaveEffect, Named DEF PassGuards
  <1>8. CASE Challenge(r) \/ BadInput(r)
    BY <1>2, <1>3, <1>4, <1>8, LeaveEffect, Named DEF Challenge, BadInput
  <1>9. CASE Bridge(r)
    BY <1>2, <1>9 DEF Bridge
  <1>10. CASE Authorize(r)
    BY <1>2, <1>3, <1>10, LeaveEffect, Named DEF Authorize
  <1>11. CASE RefuseField(r) \/ BadId(r)
    BY <1>2, <1>3, <1>11, FailsEffect, Named DEF RefuseField, BadId
  <1>12. CASE StatementFails(r) \/ MustFail(r)
    BY <1>2, <1>3, <1>12, FailsEffect, Named DEF StatementFails, MustFail, Failing
  <1>13. CASE List(r) \/ Create(r)
    BY <1>2, <1>13, ReturnsEffect DEF List, Create
  <1>14. CASE Access(r)
    BY <1>2, <1>3, <1>14, AccessEffect, ReturnsEffect, FailsEffect, Named
  <1>15. CASE Write(r)
    BY <1>2, <1>3, <1>15, ReturnsEffect, FailsEffect, Named DEF Write
  <1>16. CASE Leak(r) \/ Return(r)
    BY <1>2, <1>4, <1>16 DEF Leak, Return
  <1>17. CASE Mask(r)
    BY <1>2, <1>4, <1>17, MaskEffect
  <1>18. CASE Filter(r)
    BY <1>2, <1>4, <1>18 DEF Filter
  <1>19. CASE Conclude(r)
    <2>1. should_commit(result[r]) <=> result[r].status < 400
      BY CommitOrError DEF ResultInv
    <2>2. UNCHANGED <<shape, persisted, unsure, fault>> /\ r \notin persisted
      BY <1>19 DEF Conclude, ConcludeFrame, TxnInv, Ended
    <2>3. \/ pc'[r] = "answered" /\ result' = result /\ shape[r].safe
          \/ pc'[r] = "answered" /\ result'[r] = Err(500)
          \/ pc'[r] = "answered" /\ result' = result /\ ~should_commit(result[r])
          \/ pc'[r] = "committing" /\ result' = result
      BY <1>19 DEF Conclude
    <2>4. QED
      BY <1>2, <1>3, <2>1, <2>2, <2>3 DEF ResultInv
  <1>20. CASE Commit(r)
    <2>1. should_commit(result[r]) <=> result[r].status < 400
      BY CommitOrError DEF ResultInv
    <2>2. should_commit(result[r]) /\ r \in Requests /\ txn[r] # "none"
      BY <1>20 DEF Commit, TxnInv, Ended
    <2>3. txn[r] = "open" \/ fault[r] = "statement"
      BY <2>2 DEF TxnInv
    <2>4. QED
      BY <1>20, <2>1, <2>2, <2>3 DEF Commit, Apply, ResultInv
  <1>21. CASE CommitFails(r)
    BY <1>3, <1>21 DEF CommitFails, ResultInv
  <1>22. CASE Drop(r)
    BY <1>2, <1>22 DEF Drop, NoResult
  <1>23. CASE Unleak(r)
    BY <1>23 DEF Unleak, ResultInv
  <1>24. QED
    BY <1>5, <1>6, <1>7, <1>8, <1>9, <1>10, <1>11, <1>12, <1>13, <1>14, <1>15, <1>16, <1>17,
       <1>18, <1>19, <1>20, <1>21, <1>22, <1>23 DEF Acts, Proceed

-------------------------------------------------------------------------------
(***************************************************************************)
(* What the handler may read and write.                                    *)
(***************************************************************************)

\* After the guards the ambient ability of a request is fixed (scope.rs,
\* nestrs-authz ambient.rs).
LEMMA AbilityFixed ==
  ASSUME TypeOK, NEW r \in Requests, Acts(r),
         pc[r] \notin {"none", "guarding"}
  PROVE  shape' = shape /\ ability' = ability /\ Ambient(r)' = Ambient(r)
  <1>1. shape' = shape /\ ability' = ability
    <2>1. CASE Arrive(r) \/ Open(r) \/ OpenFails(r) \/ PassGuards(r) \/ Challenge(r) \/ Bridge(r)
      BY <2>1 DEF Arrive, Open, OpenFails, PassGuards, Challenge, Bridge
    <2>2. CASE BadInput(r) \/ Authorize(r) \/ RefuseField(r) \/ BadId(r) \/ Leak(r) \/ Return(r)
      BY <2>2 DEF BadInput, Authorize, RefuseField, BadId, Leak, Return
    <2>3. CASE StatementFails(r) \/ MustFail(r) \/ List(r) \/ Create(r) \/ Access(r) \/ Write(r)
      BY <2>3 DEF StatementFails, MustFail, Failing, List, Create, Access, Write
    <2>4. CASE Mask(r) \/ Filter(r) \/ Conclude(r)
      BY <2>4 DEF Mask, Filter, Conclude, ConcludeFrame
    <2>5. CASE Commit(r) \/ CommitFails(r) \/ Drop(r) \/ Unleak(r)
      BY <2>5 DEF Commit, CommitFails, Drop, Unleak
    <2>6. QED
      BY <2>1, <2>2, <2>3, <2>4, <2>5 DEF Acts, Proceed
  <1>2. QED
    BY <1>1 DEF Ambient

\* A request that has read and written nothing, and still has not, is in order.
LEMMA UntouchedKeeps ==
  ASSUME NEW r, Untouched(r), body'[r] = {}, writes'[r] = writes[r], pc'[r] # "writing"
  PROVE  HandlerInv(r)'
  BY DEF HandlerInv, Untouched

\* A step that neither reads nor writes rows keeps the rows in order.
LEMMA QuietStep ==
  ASSUME TypeOK, NEW r \in Requests, HandlerInv(r), Acts(r),
         body'[r] \subseteq body[r], writes'[r] = writes[r],
         pc'[r] = pc[r] \/ pc'[r] \in {"guarding", "calling", "masking", "filtering", "leaving",
                                       "committing", "answered", "gone"},
         pc'[r] = "guarding" => pc[r] \in {"arrived", "guarding"},
         pc'[r] = "writing" => step'[r] = step[r], pc[r] # "none"
  PROVE  HandlerInv(r)'
  <1>1. CASE pc[r] \in {"arrived", "guarding", "gating"}
    <2>1. Untouched(r) /\ pc'[r] # "writing"
      BY <1>1 DEF HandlerInv
    <2>2. body'[r] = {}
      BY <2>1 DEF Untouched
    <2>3. QED
      BY <2>1, <2>2, UntouchedKeeps
  <1>2. CASE pc[r] \notin {"arrived", "guarding", "gating"}
    <2>1. shape' = shape /\ ability' = ability /\ Ambient(r)' = Ambient(r)
      BY <1>2, AbilityFixed
    <2>2. /\ Untouched(r) => Untouched(r)'
          /\ \A e : OwnWrite(r, e) => OwnWrite(r, e)'
      BY <2>1 DEF Untouched, OwnWrite
    <2>3. pc'[r] \notin {"none", "arrived", "guarding", "gating"}
      BY <1>2
    <2>4. pc'[r] = "writing" => pc[r] = "writing" /\ CurrentCall(r)' = CurrentCall(r)
      BY <2>1 DEF CurrentCall
    <2>5. QED
      BY <1>2, <2>1, <2>2, <2>3, <2>4 DEF HandlerInv
  <1>3. QED
    BY <1>1, <1>2

\* A write keeps the request's earlier writes its own.
LEMMA WritesGrow ==
  ASSUME TypeOK, NEW r \in Requests, NEW row, NEW value, NEW action \in Actions,
         Writing(r, row, value, action), shape' = shape, NEW e, OwnWrite(r, e)
  PROVE  OwnWrite(r, e)'
  <1>1. writes'[r][e[1]].by = "None" => writes[r][e[1]].by = "None"
    BY DEF Writing, TypeOK, Actions
  <1>2. QED
    BY <1>1, OwnWriteKeeps

\* The row a write answers with is the request's own.
LEMMA EchoIsOwn ==
  ASSUME TypeOK, NEW r \in Requests, pc[r] # "none", step[r] \in DOMAIN shape[r].calls,
         CurrentCall(r).op \in {"create", "update", "delete"}, shape' = shape, Echo(r),
         NEW value, NEW action \in Actions, Writing(r, CurrentCall(r).row, value, action),
         NEW e \in body'[r]
  PROVE  e \in body[r] \/ OwnWrite(r, e)'
  <1> DEFINE call == CurrentCall(r)
  <1>1. e \in body[r] \/ (call.op # "delete" /\ e = <<call.row, call.value>>)
    BY EchoEffect
  <1>2. writes'[r][call.row].by # "None"
    <2>1. call.row \in Rows
      BY ShapeTypes DEF Calls
    <2>2. QED
      BY <2>1 DEF Writing, TypeOK, Actions
  <1>3. QED
    BY <1>1, <1>2 DEF OwnWrite, CurrentCall

\* List, access, create and write stay within the caller's ability (service.rs
\* access, repo.rs scoped, authorize.rs).
LEMMA CallStep ==
  ASSUME TypeOK, NEW r \in Requests, HandlerInv(r), Acts(r),
         List(r) \/ Access(r) \/ Create(r) \/ Write(r)
  PROVE  HandlerInv(r)'
  <1>1. pc[r] \in {"calling", "writing"} /\ pc[r] # "none"
    BY DEF List, Access, Create, Write, Calling
  <1>2. shape' = shape /\ ability' = ability /\ Ambient(r)' = Ambient(r)
    BY <1>1, AbilityFixed
  <1>3. shape[r].surface = "graphql" => Ambient(r) = ability[r]
    BY DEF Ambient
  <1>4. pc \in [Requests -> Stages] /\ body \in [Requests -> SUBSET (Rows \X Values)]
        /\ DOMAIN writes = Requests
    BY DEF TypeOK
  <1>10. ASSUME writes' = writes, NEW e, OwnWrite(r, e) PROVE OwnWrite(r, e)'
    BY <1>2, <1>10, OwnWriteKeeps
  <1>5. CASE List(r)
    <2> DEFINE new == {<<row, Sees(r, row)>> : row \in {k \in Rows : Sees(r, k) \in scope_for(r, "Read")}}
    <2>1. /\ CallReturns(r) /\ writes' = writes /\ body' = [body EXCEPT ![r] = @ \cup new]
          /\ ~Gated(r) /\ CurrentCall(r).op \in {"list", "create"}
      BY <1>5 DEF List, Calling
    <2>2. pc'[r] = "calling"
      BY <2>1, ReturnsEffect
    <2>3. ~(shape[r].surface = "graphql" /\ ability[r] = Anonymous)
      BY <2>1 DEF Gated
    <2>4. Ambient(r) # Anonymous => \A e \in new : can(Ambient(r), "Read", e[2])
      BY FilterIsCheck DEF scope_for
    <2> HIDE DEF new
    <2>5. body'[r] = body[r] \cup new
      BY <1>4, <2>1
    <2>6. QED
      BY <1>1, <1>2, <1>10, <2>1, <2>2, <2>3, <2>4, <2>5 DEF HandlerInv
  <1>6. CASE Access(r)
    <2> DEFINE call == CurrentCall(r)
               loaded == Sees(r, call.row)
               new == {<<call.row, loaded>>}
    <2>1. writes' = writes
      BY <1>6 DEF Access
    <2>2. ASSUME pc'[r] \in {"calling", "filtering"}, body' = body
          PROVE  HandlerInv(r)'
      BY <1>1, <2>1, <2>2, QuietStep
    <2>3. CASE \/ CallFails(r, "refused", 404) /\ body' = body
               \/ CallFails(r, "refused", 403) /\ body' = body
               \/ CallReturns(r) /\ body' = body
      BY <2>2, <2>3, FailsEffect, ReturnsEffect, Named
    <2>4. CASE /\ loaded # Absent /\ Allowed(r, "Read", loaded) /\ CallReturns(r)
               /\ body' = [body EXCEPT ![r] = @ \cup new]
      <3>1. Ambient(r) # Anonymous /\ \A e \in new : can(Ambient(r), "Read", e[2])
        BY <2>4 DEF Allowed
      <3>2. pc'[r] = "calling"
        BY <2>4, ReturnsEffect
      <3> HIDE DEF new
      <3>3. body'[r] = body[r] \cup new
        BY <1>4, <2>4
      <3>4. QED
        BY <1>1, <1>2, <1>3, <1>10, <2>1, <3>1, <3>2, <3>3 DEF HandlerInv
    <2>5. CASE /\ Allowed(r, ActionOf(call.op), loaded) /\ call.op \in {"update", "delete"}
               /\ pc' = [pc EXCEPT ![r] = "writing"] /\ UNCHANGED <<body, step, result, fault>>
      <3>1. Ambient(r) # Anonymous /\ step[r] \in DOMAIN shape[r].calls /\ pc'[r] = "writing"
        BY <1>4, <1>6, <2>5, AccessEffect DEF Allowed
      <3>2. CurrentCall(r)' = call
        BY <1>2, <2>5 DEF CurrentCall
      <3>3. QED
        BY <1>1, <1>2, <1>3, <1>10, <2>1, <2>5, <3>1, <3>2 DEF HandlerInv
    <2>6. QED
      BY <1>6, <2>3, <2>4, <2>5, AccessEffect
  <1>7. CASE Create(r)
    <2>1. /\ CallReturns(r) /\ Echo(r) /\ ~Gated(r) /\ CurrentCall(r).op = "create"
          /\ step[r] \in DOMAIN shape[r].calls
          /\ Writing(r, CurrentCall(r).row, CurrentCall(r).value, "Create")
      BY <1>7 DEF Create, Calling
    <2>2. pc'[r] = "calling"
      BY <2>1, ReturnsEffect
    <2>3. ~(shape[r].surface = "graphql" /\ ability[r] = Anonymous)
      BY <2>1 DEF Gated
    <2>4. \A e \in body'[r] : e \in body[r] \/ OwnWrite(r, e)'
      BY <1>1, <1>2, <2>1, EchoIsOwn DEF Actions
    <2>5. \A e : OwnWrite(r, e) => OwnWrite(r, e)'
      BY <1>1, <1>2, <2>1, WritesGrow DEF Actions
    <2>6. QED
      BY <1>1, <1>2, <2>2, <2>3, <2>4, <2>5 DEF HandlerInv
  <1>8. CASE Write(r)
    <2> DEFINE call == CurrentCall(r)
               value == IF call.op = "delete" THEN Absent ELSE call.value
    <2>1. /\ Ambient(r) # Anonymous /\ step[r] \in DOMAIN shape[r].calls
          /\ call.op \in {"update", "delete"}
      BY <1>8 DEF Write, HandlerInv
    <2>4. \/ writes' = writes /\ body' = body
          \/ Writing(r, call.row, value, ActionOf(call.op)) /\ Echo(r)
      BY <1>8 DEF Write
    <2>5. ActionOf(call.op) \in Actions
      BY DEF ActionOf, Actions
    <2>6. \A e \in body'[r] : e \in body[r] \/ OwnWrite(r, e)'
      BY <1>1, <1>2, <2>1, <2>4, <2>5, EchoIsOwn
    <2>7. \A e : OwnWrite(r, e) => OwnWrite(r, e)'
      BY <1>1, <1>2, <1>10, <2>1, <2>4, <2>5, WritesGrow
    <2>2. pc'[r] \in {"calling", "filtering"}
      <3>1. CallReturns(r) \/ CallFails(r, "refused", 500)
        BY <1>8 DEF Write
      <3>2. QED
        BY <3>1, ReturnsEffect, FailsEffect, Named
    <2>3. QED
      BY <1>1, <1>2, <1>3, <2>1, <2>2, <2>6, <2>7 DEF HandlerInv
  <1>9. QED
    BY <1>5, <1>6, <1>7, <1>8

\* Every step of a request keeps the rows in order.
LEMMA HandlerStep ==
  ASSUME TypeOK, NEW r \in Requests, TxnInv(r), HandlerInv(r), Acts(r)
  PROVE  HandlerInv(r)'
  <1>1. pc \in [Requests -> Stages] /\ DOMAIN body = Requests /\ DOMAIN writes = Requests
    BY DEF TypeOK
  <1> USE <1>1
  <1>2. CASE Arrive(r)
    <2>1. Untouched(r)
      BY <1>2 DEF Arrive, HandlerInv
    <2>2. QED
      BY <1>2, <2>1, UntouchedKeeps DEF Arrive, Untouched
  <1>3. CASE Open(r) \/ OpenFails(r) \/ Bridge(r)
    BY <1>3, QuietStep DEF Open, OpenFails, Bridge
  <1>4. CASE PassGuards(r)
    <2>1. Untouched(r)
      BY <1>4 DEF PassGuards, HandlerInv
    <2>2. pc'[r] # "writing"
      BY <1>4, LeaveEffect, Named DEF PassGuards
    <2>3. QED
      BY <1>4, <2>1, <2>2, UntouchedKeeps DEF PassGuards, Untouched
  <1>5. CASE Challenge(r) \/ BadInput(r)
    BY <1>5, QuietStep, LeaveEffect, Named DEF Challenge, BadInput
  <1>6. CASE Authorize(r)
    BY <1>6, QuietStep, LeaveEffect, Named DEF Authorize
  <1>7. CASE RefuseField(r) \/ BadId(r)
    BY <1>7, QuietStep, FailsEffect, Named DEF RefuseField, BadId, Calling
  <1>8. CASE StatementFails(r) \/ MustFail(r)
    BY <1>8, QuietStep, FailsEffect, Named DEF StatementFails, MustFail, AtStatement, Failing
  <1>9. CASE List(r) \/ Access(r) \/ Create(r) \/ Write(r)
    BY <1>9, CallStep
  <1>10. CASE Leak(r) \/ Return(r) \/ Filter(r)
    BY <1>10, QuietStep DEF Leak, Return, Filter
  <1>11. CASE Mask(r)
    <2>1. PICK S \in SUBSET body[r] : body' = [body EXCEPT ![r] = S]
      BY <1>11, MaskEffect
    <2>2. QED
      BY <1>11, <2>1, QuietStep, MaskEffect
  <1>12. CASE Conclude(r)
    BY <1>12, QuietStep DEF Conclude, ConcludeFrame
  <1>13. CASE Commit(r) \/ CommitFails(r) \/ Drop(r)
    BY <1>13, QuietStep DEF Commit, CommitFails, Drop
  <1>14. CASE Unleak(r)
    <2>1. pc[r] # "none"
      BY <1>14 DEF Unleak, TxnInv, TypeOK
    <2>2. QED
      BY <1>14, <2>1, QuietStep DEF Unleak
  <1>15. QED
    BY <1>2, <1>3, <1>4, <1>5, <1>6, <1>7, <1>8, <1>9, <1>10, <1>11, <1>12, <1>13, <1>14
       DEF Acts, Proceed

\* A 200 leaves a route only through the mask of its Authorize parameter
\* (macros routes.rs, shape.rs run).
LEMMA MaskStep ==
  ASSUME TypeOK, NEW r \in Requests, TxnInv(r), HandlerInv(r), MaskInv(r), Acts(r)
  PROVE  MaskInv(r)'
  <1>1. /\ pc \in [Requests -> Stages] /\ result \in [Requests -> Results] /\ DOMAIN body = Requests
        /\ \A status \in Statuses : Ok(status).status = status /\ Err(status).status = status
    BY DEF TypeOK, Results, Ok, Err
  <1> USE <1>1
  <1>2. ASSUME pc'[r] \notin {"filtering", "leaving", "committing", "answered"}
        PROVE  MaskInv(r)'
    BY <1>2 DEF MaskInv
  <1>3. ASSUME result'[r].status # 200 PROVE MaskInv(r)'
    BY <1>3 DEF MaskInv
  <1>4. ASSUME pc[r] \in {"leaving", "committing", "answered"}, pc'[r] # "filtering",
               result'[r] = result[r], body'[r] = body[r]
        PROVE  MaskInv(r)'
    BY <1>4, AbilityFixed DEF MaskInv
  <1>5. CASE Arrive(r) \/ Open(r) \/ Bridge(r) \/ Leak(r) \/ Drop(r)
    BY <1>2, <1>5 DEF Arrive, Open, Bridge, Leak, Drop
  <1>6. CASE OpenFails(r) \/ CommitFails(r)
    BY <1>3, <1>6, Named DEF OpenFails, CommitFails
  <1>7. CASE PassGuards(r) \/ Challenge(r)
    BY <1>2, <1>3, <1>7, LeaveEffect, Named DEF PassGuards, Challenge
  <1>8. CASE BadInput(r) \/ Authorize(r)
    BY <1>2, <1>3, <1>8, LeaveEffect, Named DEF BadInput, Authorize
  <1>9. ASSUME NEW how \in {"refused", "statement"}, NEW status \in {400, 403, 404, 500},
               CallFails(r, how, status)
        PROVE  MaskInv(r)'
    BY <1>2, <1>3, <1>9, FailsEffect, Named
  <1>10. CASE RefuseField(r) \/ BadId(r) \/ StatementFails(r) \/ MustFail(r)
    BY <1>9, <1>10 DEF RefuseField, BadId, StatementFails, MustFail, Failing
  <1>11. ASSUME CallReturns(r) PROVE MaskInv(r)'
    BY <1>2, <1>11, ReturnsEffect
  <1>12. CASE List(r) \/ Create(r)
    BY <1>11, <1>12 DEF List, Create
  <1>13. CASE Access(r)
    BY <1>2, <1>9, <1>11, <1>13, AccessEffect
  <1>14. CASE Write(r)
    BY <1>9, <1>11, <1>14 DEF Write
  <1>15. CASE Return(r)
    <2>1. shape' = shape /\ (pc'[r] = "masking" \/ (pc'[r] = "leaving" /\ shape[r].surface = "graphql"))
      BY <1>15 DEF Return
    <2>2. QED
      BY <1>2, <2>1 DEF MaskInv
  <1>16. CASE Mask(r)
    <2>1. pc[r] = "masking" /\ pc'[r] = "leaving" /\ shape' = shape /\ ability' = ability
      BY <1>16 DEF Mask
    <2>2. QED
      BY <1>16, <2>1, MaskEffect DEF MaskInv
  <1>17. CASE Filter(r)
    <2>1. result[r].status # 200 /\ result[r].status \in Statuses
      BY <1>17, Named DEF Filter, MaskInv
    <2>2. result'[r].status # 200
      BY <1>17, <2>1, Named DEF Filter
    <2>3. QED
      BY <1>3, <2>2
  <1>18. CASE Conclude(r)
    <2>1. /\ pc[r] = "leaving" /\ pc'[r] \in {"answered", "committing"} /\ body' = body
          /\ result'[r] = result[r] \/ result'[r] = Err(500)
      BY <1>18 DEF Conclude, ConcludeFrame
    <2>2. QED
      BY <1>3, <1>4, <2>1, Named
  <1>19. CASE Commit(r)
    BY <1>4, <1>19 DEF Commit
  <1>20. CASE Unleak(r)
    BY <1>20 DEF Unleak, MaskInv
  <1>21. QED
    BY <1>5, <1>6, <1>7, <1>8, <1>10, <1>12, <1>13, <1>14, <1>15, <1>16, <1>17, <1>18, <1>19, <1>20
       DEF Acts, Proceed

-------------------------------------------------------------------------------
(***************************************************************************)
(* Row locks: the committed row under a written one stays as it was found. *)
(***************************************************************************)

\* What a transaction has written, and found there, is its own.
LEMMA WroteSame ==
  ASSUME NEW q, Same(q), NEW row, table'[row] = table[row]
  PROVE  (Wrote(q, row)' <=> Wrote(q, row)) /\ (FoundBy(q, row)' <=> FoundBy(q, row))
  BY DEF Same, Wrote, FoundBy, Ambient

\* A step that writes no row for its request, and changes no committed row
\* that a transaction has written, keeps the locks.
LEMMA LockQuiet ==
  ASSUME TypeOK, LockInv, NEW r \in Requests, \A q \in Requests \ {r} : Same(q),
         \A row \in Rows : Wrote(r, row)' =>
            Wrote(r, row) /\ FoundBy(r, row)' = FoundBy(r, row),
         \A row \in Rows : \A q \in Requests \ {r} : Wrote(q, row) => table'[row] = table[row]
  PROVE  LockInv'
  <1>1. \A q \in Requests, row \in Rows : Wrote(q, row)' => Wrote(q, row)
    BY DEF Same, Wrote
  <1>2. ASSUME NEW q \in Requests, NEW row \in Rows, Wrote(q, row)'
        PROVE  FoundBy(q, row)' /\ ~LockedFor(q, row)'
    <2>1. Wrote(q, row) /\ FoundBy(q, row) /\ ~LockedFor(q, row)
      BY <1>1, <1>2 DEF LockInv
    <2>2. FoundBy(q, row)'
      <3>1. CASE q = r
        BY <1>2, <2>1, <3>1
      <3>2. CASE q # r
        BY <2>1, <3>2, WroteSame
      <3>3. QED
        BY <3>1, <3>2
    <2>3. ~LockedFor(q, row)'
      BY <1>1, <2>1 DEF LockedFor
    <2>4. QED
      BY <2>2, <2>3
  <1>3. QED
    BY <1>2 DEF LockInv

\* A write of a row no other transaction has written, which finds it as its
\* action may: absent for an insert, within the filter for the others
\* (repo.rs update, delete).
LEMMA LockWrites ==
  ASSUME TypeOK, LockInv, NEW r \in Requests, \A q \in Requests \ {r} : Same(q),
         NEW k \in Rows, NEW value \in Contents, NEW action \in Actions,
         Writing(r, k, value, action), UNCHANGED <<table, shape, ability, txn>>,
         ~LockedFor(r, k), txn[r] # "none",
         \/ action = "Create" /\ Sees(r, k) = Absent
         \/ Ambient(r) # Anonymous => Sees(r, k) \in condition_for(Ambient(r), action)
  PROVE  LockInv'
  <1>1. /\ \A q \in Requests \ {r} : writes'[q] = writes[q]
        /\ \A j \in Rows \ {k} : writes'[r][j] = writes[r][j]
        /\ writes'[r][k].by = IF writes[r][k].by = "None" THEN action ELSE writes[r][k].by
    BY WritingEffect
  <1>2. Ambient(r)' = Ambient(r)
    BY DEF Ambient
  <1>3. \A q \in Requests, j \in Rows : q # r \/ j # k => (Wrote(q, j)' <=> Wrote(q, j))
    BY <1>1 DEF Wrote
  <1>4. ASSUME NEW q \in Requests, NEW j \in Rows, Wrote(q, j)'
        PROVE  FoundBy(q, j)' /\ ~LockedFor(q, j)'
    <2>1. CASE q = r /\ j = k
      <3>1. ~LockedFor(r, k)'
        BY <1>3 DEF LockedFor
      <3>2. CASE writes[r][k].by = "None"
        <4>1. Sees(r, k) = table[k] /\ writes'[r][k].by = action
          BY <1>1, <3>2 DEF Sees, Wrote
        <4>2. FoundBy(r, k)'
          BY <1>2, <4>1 DEF FoundBy
        <4>3. QED
          BY <2>1, <3>1, <4>2
      <3>3. CASE writes[r][k].by # "None"
        <4>1. Wrote(r, k) /\ writes'[r][k].by = writes[r][k].by
          BY <1>1, <3>3 DEF Wrote
        <4>2. FoundBy(r, k)'
          BY <1>2, <4>1 DEF FoundBy, LockInv
        <4>3. QED
          BY <2>1, <3>1, <4>2
      <3>4. QED
        BY <3>2, <3>3
    <2>2. CASE q # r
      <3>1. Wrote(q, j) /\ FoundBy(q, j)' /\ ~LockedFor(q, j)
        BY <1>3, <1>4, <2>2, WroteSame DEF LockInv
      <3>2. ~(j = k)
        BY <2>2, <3>1 DEF LockedFor
      <3>3. ~LockedFor(q, j)'
        BY <1>3, <3>1, <3>2 DEF LockedFor
      <3>4. QED
        BY <3>1, <3>3
    <2>3. CASE q = r /\ j # k
      <3>1. Wrote(r, j) /\ FoundBy(r, j) /\ ~LockedFor(r, j)
        BY <1>3, <1>4, <2>3 DEF LockInv
      <3>2. FoundBy(r, j)'
        BY <1>1, <1>2, <2>3, <3>1 DEF FoundBy
      <3>3. ~LockedFor(r, j)'
        BY <1>3, <3>1 DEF LockedFor
      <3>4. QED
        BY <2>3, <3>2, <3>3
    <2>4. QED
      BY <2>1, <2>2, <2>3
  <1>5. QED
    BY <1>4 DEF LockInv

\* The steps that leave the committed rows and the request's writes alone.
LEMMA LockStays ==
  ASSUME TypeOK, LockInv, NEW r \in Requests, Acts(r), TxnInv(r), HandlerInv(r),
         table' = table, writes' = writes, txn'[r] # "none" => txn[r] # "none" \/ pc[r] = "arrived"
  PROVE  LockInv'
  <1>1. \A q \in Requests \ {r} : Same(q)
    BY OthersSame
  <1>2. CASE pc[r] \in {"none", "arrived", "guarding"}
    <2>1. \A row \in Rows : writes[r][row] = Unwritten
      BY <1>2 DEF HandlerInv, Untouched
    <2>2. \A row \in Rows : ~Wrote(r, row)'
      BY <2>1 DEF Wrote, Unwritten
    <2>3. QED
      BY <1>1, <2>2, LockQuiet
  <1>3. CASE pc[r] \notin {"none", "arrived", "guarding"}
    <2>1. Ambient(r)' = Ambient(r)
      BY <1>3, AbilityFixed
    <2>2. \A row \in Rows : Wrote(r, row)' => Wrote(r, row)
      BY <1>3 DEF Wrote
    <2>3. \A row \in Rows : FoundBy(r, row)' = FoundBy(r, row)
      BY <2>1 DEF FoundBy
    <2>4. QED
      BY <1>1, <2>2, <2>3, LockQuiet
  <1>4. QED
    BY <1>2, <1>3

\* A transaction that ends gives its locks back; when the database applies it,
\* only rows it has written change (interceptor.rs:74-81).
LEMMA LockEnds ==
  ASSUME TypeOK, LockInv, NEW r \in Requests, \A q \in Requests \ {r} : Same(q),
         txn'[r] = "none", table' = table \/ (txn[r] = "open" /\ table' = Applied(r))
  PROVE  LockInv'
  <1>1. \A row \in Rows : ~Wrote(r, row)'
    BY DEF Wrote
  <1>2. ASSUME NEW row \in Rows, NEW q \in Requests \ {r}, Wrote(q, row)
        PROVE  table'[row] = table[row]
    <2>1. ~Wrote(r, row)
      BY <1>2 DEF LockInv, LockedFor
    <2>2. QED
      BY <2>1 DEF Wrote, Applied
  <1>3. QED
    BY <1>1, <1>2, LockQuiet

\* Every step of a request keeps the locks.
LEMMA LockStep ==
  ASSUME TypeOK, LockInv, NEW r \in Requests, Acts(r), TxnInv(r), HandlerInv(r)
  PROVE  LockInv'
  <1>1. txn \in [Requests -> {"none", "open", "doomed"}] /\ \A q \in Requests \ {r} : Same(q)
    BY OthersSame DEF TypeOK
  <1>2. CASE Arrive(r) \/ Open(r) \/ OpenFails(r) \/ PassGuards(r) \/ Bridge(r) \/ Challenge(r)
    BY <1>2, LockStays DEF Arrive, Open, OpenFails, PassGuards, Bridge, Challenge
  <1>3. CASE BadInput(r) \/ Authorize(r) \/ RefuseField(r) \/ BadId(r) \/ List(r) \/ Access(r)
    BY <1>3, LockStays DEF BadInput, Authorize, RefuseField, BadId, List, Access
  <1>4. CASE StatementFails(r) \/ MustFail(r)
    BY <1>1, <1>4, LockStays DEF StatementFails, MustFail, Failing
  <1>5. CASE Leak(r) \/ Return(r) \/ Mask(r) \/ Filter(r)
    BY <1>5, LockStays DEF Leak, Return, Mask, Filter
  <1>6. CASE Conclude(r)
    BY <1>1, <1>6, LockStays DEF Conclude, ConcludeFrame, End
  <1>7. CASE Unleak(r)
    BY <1>1, <1>7, LockStays DEF Unleak, End
  <1>8. CASE Create(r)
    <2> DEFINE call == CurrentCall(r)
    <2>1. /\ step[r] \in DOMAIN shape[r].calls /\ pc[r] = "calling" /\ call.op = "create"
          /\ Executable(r) /\ ~Waits(r) /\ Sees(r, call.row) = Absent
          /\ Writing(r, call.row, call.value, "Create")
          /\ UNCHANGED <<table, shape, ability, txn>>
      BY <1>8 DEF Create, Calling
    <2>2. call.row \in Rows /\ call.value \in Contents /\ ~shape[r].safe
      BY <2>1, ShapeTypes DEF Calls, Contents
    <2>3. txn[r] # "none" /\ ~LockedFor(r, call.row)
      BY <2>1, <2>2 DEF Executable, Waits
    <2> HIDE DEF call
    <2>4. QED
      BY <1>1, <2>1, <2>2, <2>3, LockWrites DEF Actions
  <1>9. CASE Write(r)
    <2> DEFINE call == CurrentCall(r)
               action == ActionOf(call.op)
               value == IF call.op = "delete" THEN Absent ELSE call.value
    <2>1. /\ step[r] \in DOMAIN shape[r].calls /\ pc[r] = "writing" /\ call.op \in {"update", "delete"}
          /\ Executable(r) /\ ~Waits(r)
          /\ UNCHANGED <<table, shape, ability, txn>>
      BY <1>9 DEF Write, HandlerInv
    <2>2. call.row \in Rows /\ value \in Contents /\ ~shape[r].safe /\ action \in Actions
      BY <2>1, ShapeTypes DEF Calls, Contents, ActionOf, Actions
    <2>3. txn[r] # "none" /\ ~LockedFor(r, call.row)
      BY <2>1, <2>2 DEF Executable, Waits
    <2>4. \/ writes' = writes
          \/ Writing(r, call.row, value, action) /\ Sees(r, call.row) \in scope_for(r, action)
      BY <1>9 DEF Write
    <2> HIDE DEF call, action, value
    <2>5. CASE writes' = writes
      BY <2>1, <2>5, LockStays
    <2>6. CASE Writing(r, call.row, value, action) /\ Sees(r, call.row) \in scope_for(r, action)
      <3>1. Ambient(r) # Anonymous => Sees(r, call.row) \in condition_for(Ambient(r), action)
        BY <2>6 DEF scope_for
      <3>2. QED
        BY <1>1, <2>1, <2>2, <2>3, <2>6, <3>1, LockWrites
    <2>7. QED
      BY <2>4, <2>5, <2>6
  <1>10. CASE Commit(r) \/ CommitFails(r)
    <2>1. txn'[r] = "none" /\ (table' = table \/ (txn[r] = "open" /\ table' = Applied(r)))
      BY <1>1, <1>10 DEF Commit, CommitFails, End, Apply
    <2>2. QED
      BY <1>1, <2>1, LockEnds
  <1>11. CASE Drop(r)
    <2>1. CASE pc[r] = "committing"
      <3>1. txn'[r] = "none" /\ (table' = table \/ (txn[r] = "open" /\ table' = Applied(r)))
        BY <1>1, <1>11, <2>1 DEF Drop, End, Apply, TxnInv
      <3>2. QED
        BY <1>1, <3>1, LockEnds
    <2>2. CASE pc[r] # "committing"
      <3>1. table' = table /\ writes' = writes /\ (txn'[r] # "none" => txn[r] # "none")
        BY <1>1, <1>11, <2>2 DEF Drop, End
      <3>2. QED
        BY <3>1, LockStays
    <2>3. QED
      BY <2>1, <2>2
  <1>12. QED
    BY <1>2, <1>3, <1>4, <1>5, <1>6, <1>7, <1>8, <1>9, <1>10, <1>11 DEF Acts, Proceed

-------------------------------------------------------------------------------
(***************************************************************************)
(* The theorems.                                                           *)
(***************************************************************************)

\* Before the first request the invariant holds: nobody holds a connection or
\* has written a row.
LEMMA InitInv ==
  ASSUME Init
  PROVE  IInv
  <1> USE DEF Init
  <1>1. TypeOK
    <2>1. Cardinality({r \in Requests : txn[r] # "none"}) <= pool
      <3>1. {r \in Requests : txn[r] # "none"} = {}
        OBVIOUS
      <3>2. Cardinality({}) = 0 /\ pool \in Nat
        BY FS_EmptySet, RequestAssumption
      <3>3. ASSUME NEW n, n = 0 PROVE n <= pool
        BY <3>2, <3>3
      <3>4. QED
        BY <3>1, <3>2, <3>3
    <2>2. NoResult \in [ok : BOOLEAN, status : Statuses]
      BY DEF NoResult, Statuses
    <2>3. Unwritten \in [value : Contents, by : Actions \cup {"None"}]
      BY DEF Unwritten, Contents
    <2>4. QED
      BY <2>1, <2>2, <2>3, RequestAssumption DEF TypeOK, Stages
  <1>2. ASSUME NEW r \in Requests PROVE TxnInv(r) /\ ResultInv(r) /\ HandlerInv(r) /\ MaskInv(r)
    BY DEF TxnInv, ResultInv, HandlerInv, MaskInv, Untouched, NoResult, Ended
  <1>3. LockInv
    BY DEF LockInv, Wrote
  <1>4. QED
    BY <1>1, <1>2, <1>3 DEF IInv

\* Every step of any request keeps the invariant of all of them.
LEMMA StepInv ==
  ASSUME IInv, [Next]_vars
  PROVE  IInv'
  <1>1. CASE UNCHANGED vars
    <2>1. TypeOK' /\ LockInv'
      BY <1>1 DEF IInv, vars, TypeOK, LockInv, Wrote, FoundBy, LockedFor, Ambient
    <2>2. \A q \in Requests : Same(q)
      BY <1>1 DEF vars, Same
    <2>3. QED
      BY <2>1, <2>2, SameKeeps DEF IInv
  <1>2. ASSUME NEW r \in Requests, Acts(r) PROVE IInv'
    <2>1. TypeOK /\ LockInv
          /\ \A q \in Requests : TxnInv(q) /\ ResultInv(q) /\ HandlerInv(q) /\ MaskInv(q)
      BY DEF IInv
    <2>2. TypeOK' /\ LockInv'
      BY <1>2, <2>1, TypeStep, LockStep
    <2>3. (TxnInv(r) /\ ResultInv(r) /\ HandlerInv(r) /\ MaskInv(r))'
      BY <1>2, <2>1, TxnStep, ResultStep, HandlerStep, MaskStep
    <2>4. \A q \in Requests \ {r} : (TxnInv(q) /\ ResultInv(q) /\ HandlerInv(q) /\ MaskInv(q))'
      BY <1>2, <2>1, OthersSame, SameKeeps
    <2>5. QED
      BY <2>2, <2>3, <2>4 DEF IInv
  <1>3. QED
    BY <1>1, <1>2 DEF Next, Quiet, Acts

\* The inductive invariant of the request path: every request's transaction,
\* result and rows, and the row locks between them.
THEOREM Invariance == Spec => []IInv
  <1>1. Init => IInv
    BY InitInv
  <1>2. IInv /\ [Next]_vars => IInv'
    BY StepInv
  <1>3. QED
    BY <1>1, <1>2, PTL DEF Spec

\* Every variable keeps its type; the open transactions never outnumber the
\* connections of the pool, and a leaked executor holds one that is open.
THEOREM TypeCorrect == Spec => []TypeOK
  <1>1. IInv => TypeOK
    BY DEF IInv
  <1>2. QED
    BY <1>1, Invariance, PTL

\* A success or a redirect to a mutating request stands for a commit, whatever
\* leaked, was dropped or failed on the way, unless a statement failed
\* (interceptor.rs intercept).
THEOREM SuccessIsCommitted == Spec => []SuccessPersists
  <1>1. IInv => SuccessPersists
    BY DEF IInv, ResultInv, SuccessPersists
  <1>2. QED
    BY <1>1, Invariance, PTL

\* An error leaves nothing in the database, unless the COMMIT went
\* unacknowledged, and neither does an escaped transaction (interceptor.rs
\* should_commit, intercept).
THEOREM FailureIsRolledBack == Spec => []FailurePersistsNothing
  <1>1. ASSUME IInv PROVE FailurePersistsNothing
    <2>1. SUFFICES ASSUME NEW r \in Requests, r \in persisted, r \notin unsure
                   PROVE  r \notin leaked /\ (pc[r] = "answered" => result[r].status < 400)
      BY DEF FailurePersistsNothing
    <2>2. TypeOK /\ TxnInv(r) /\ ResultInv(r)
      BY <1>1 DEF IInv
    <2>3. QED
      BY <2>1, <2>2 DEF TypeOK, TxnInv, ResultInv
  <1>2. QED
    BY <1>1, Invariance, PTL

\* A response under an ability holds rows that the query filter or the
\* instance check let the caller read, and rows its own create or update wrote,
\* which are answered with unchecked; on a route, of both only what a grant for
\* the route's action matches (service.rs access, repo.rs all, the generated
\* create and update, shape.rs mask_response).
THEOREM ReadableOrOwnWrite == Spec => []ReadsWithinAbility
  <1>1. ASSUME IInv, NEW r \in Requests, pc[r] = "answered", result[r].status = 200,
               Ambient(r) # Anonymous, NEW e \in body[r]
        PROVE  /\ can(Ambient(r), "Read", e[2]) \/ OwnWrite(r, e)
               /\ shape[r].surface = "route" =>
                     permitted_fields(ability[r], shape[r].authorize, e[2])
    <2>1. HandlerInv(r) /\ MaskInv(r)
      BY <1>1 DEF IInv
    <2>2. can(Ambient(r), "Read", e[2]) \/ OwnWrite(r, e)
      BY <1>1, <2>1 DEF HandlerInv
    <2>3. shape[r].surface = "route" => shape[r].authorize # "None"
      BY <1>1 DEF Ambient
    <2>4. QED
      BY <1>1, <2>1, <2>2, <2>3 DEF MaskInv
  <1>3. IInv => ReadsWithinAbility
    BY <1>1 DEF ReadsWithinAbility
  <1>4. QED
    BY <1>3, Invariance, PTL

\* A GraphQL operation whose caller was not authenticated reads and writes
\* nothing (bridge.rs before, authorize.rs, service.rs access).
THEOREM AnonymousIsClosed == Spec => []AnonymousGraphqlClosed
  <1>1. IInv => AnonymousGraphqlClosed
    BY DEF IInv, HandlerInv, Untouched, AnonymousGraphqlClosed
  <1>2. QED
    BY <1>1, Invariance, PTL

\* Only COMMIT puts a request's rows into the database.
LEMMA OnlyCommitPersists ==
  ASSUME TypeOK, NEW r \in Requests, TxnInv(r), Acts(r), r \in persisted', r \notin persisted
  PROVE  txn[r] = "open"
  <1>1. CASE Arrive(r) \/ Open(r) \/ OpenFails(r) \/ PassGuards(r) \/ Bridge(r) \/ Challenge(r)
    BY <1>1 DEF Arrive, Open, OpenFails, PassGuards, Bridge, Challenge
  <1>2. CASE BadInput(r) \/ Authorize(r) \/ RefuseField(r) \/ BadId(r) \/ List(r) \/ Access(r)
    BY <1>2 DEF BadInput, Authorize, RefuseField, BadId, List, Access
  <1>3. CASE StatementFails(r) \/ MustFail(r) \/ Create(r) \/ Write(r)
    BY <1>3 DEF StatementFails, MustFail, Failing, Create, Write
  <1>4. CASE Leak(r) \/ Return(r) \/ Mask(r) \/ Filter(r) \/ Conclude(r) \/ Unleak(r)
    BY <1>4 DEF Leak, Return, Mask, Filter, Conclude, ConcludeFrame, Unleak
  <1>5. CASE Commit(r) \/ CommitFails(r) \/ Drop(r)
    BY <1>5 DEF Commit, CommitFails, Drop, Apply
  <1>6. QED
    BY <1>1, <1>2, <1>3, <1>4, <1>5 DEF Acts, Proceed

\* Whatever other requests did between the authorized load and the write, a
\* commit replaces only committed rows that the caller's filter for the write
\* lets through, or inserts where there is none (repo.rs update, delete).
THEOREM CommitsStayInScope == Spec => ScopedWrites
  <1> DEFINE Scoped(r) ==
        r \in persisted' \ persisted /\ Ambient(r) # Anonymous
        => \A row \in Rows :
              \/ writes[r][row].by = "None"
              \/ /\ writes[r][row].by = "Create"
                 /\ table[row] = Absent
              \/ table[row] \in condition_for(Ambient(r), writes[r][row].by)
  <1>1. ASSUME IInv, [Next]_vars, NEW r \in Requests PROVE Scoped(r)
    <2>1. SUFFICES ASSUME r \in persisted', r \notin persisted, Ambient(r) # Anonymous,
                          NEW row \in Rows, writes[r][row].by # "None"
                   PROVE  \/ writes[r][row].by = "Create" /\ table[row] = Absent
                          \/ table[row] \in condition_for(Ambient(r), writes[r][row].by)
      OBVIOUS
    <2>2. TypeOK /\ TxnInv(r) /\ LockInv
      BY <1>1 DEF IInv
    <2>3. PICK q \in Requests : Acts(q)
      BY <1>1, <2>1 DEF Next, Quiet, Acts, vars
    <2>4. q = r
      BY <2>1, <2>2, <2>3, OthersSame DEF Same
    <2>5. txn[r] = "open"
      BY <2>1, <2>2, <2>3, <2>4, OnlyCommitPersists
    <2>6. FoundBy(r, row)
      BY <2>1, <2>2, <2>5 DEF LockInv, Wrote
    <2>7. QED
      BY <2>1, <2>6 DEF FoundBy
  <1>2. IInv /\ [Next]_vars => [\A r \in Requests : Scoped(r)]_vars
    BY <1>1
  <1>3. QED
    BY <1>2, Invariance, PTL DEF Spec, ScopedWrites

-------------------------------------------------------------------------------
(***************************************************************************)
(* The refinement of AtomicRequests.                                       *)
(***************************************************************************)

\* What the contract sees of one request is that request's own.
LEMMA OthersUnseen ==
  ASSUME TypeOK, NEW r \in Requests, Acts(r), NEW q \in Requests, q # r
  PROVE  /\ Prepared(q)' = Prepared(q) /\ ReplyTo(q)' = ReplyTo(q)
         /\ (q \in Spoilt' <=> q \in Spoilt)
  <1>1. Same(q)
    BY OthersSame
  <1>2. Prepared(q)' = Prepared(q)
    <2>1. {k \in Rows : pc[q] \notin Ended /\ Wrote(q, k)}'
             = {k \in Rows : pc[q] \notin Ended /\ Wrote(q, k)}
      BY <1>1 DEF Same, Wrote
    <2>2. QED
      BY <1>1, <2>1 DEF Same, Prepared
  <1>3. ReplyTo(q)' = ReplyTo(q)
    BY <1>1 DEF Same, ReplyTo
  <1>4. q \in Spoilt' <=> q \in Spoilt
    BY <1>1 DEF Same, Spoilt
  <1>5. QED
    BY <1>2, <1>3, <1>4

\* A step of r changes the contract's variables only where they speak of r.
LEMMA SeenOfOne ==
  ASSUME TypeOK, NEW r \in Requests, Acts(r)
  PROVE  /\ Intents' = [Intents EXCEPT ![r] = Prepared(r)']
         /\ Replies' = [Replies EXCEPT ![r] = ReplyTo(r)']
         /\ Spoilt' = IF fault'[r] = "statement" THEN Spoilt \cup {r} ELSE Spoilt \ {r}
         /\ Intents[r] = Prepared(r) /\ Replies[r] = ReplyTo(r)
         /\ (r \in Spoilt <=> fault[r] = "statement")
  <1>1. \A q \in Requests \ {r} : /\ Prepared(q)' = Prepared(q) /\ ReplyTo(q)' = ReplyTo(q)
                                  /\ (q \in Spoilt' <=> q \in Spoilt)
    BY OthersUnseen
  <1>2. Intents' = [Intents EXCEPT ![r] = Prepared(r)'] /\ Intents[r] = Prepared(r)
    BY <1>1 DEF Intents
  <1>3. Replies' = [Replies EXCEPT ![r] = ReplyTo(r)'] /\ Replies[r] = ReplyTo(r)
    BY <1>1 DEF Replies
  <1>4. Spoilt' = IF fault'[r] = "statement" THEN Spoilt \cup {r} ELSE Spoilt \ {r}
    BY <1>1 DEF Spoilt
  <1>5. r \in Spoilt <=> fault[r] = "statement"
    BY DEF Spoilt
  <1>6. QED
    BY <1>2, <1>3, <1>4, <1>5

(* A step of r that writes no row and keeps those its transaction holds.   *)
KeepsRows(r) ==
    /\ writes' = writes
    /\ \/ txn'[r] = txn[r]
       \/ txn[r] # "none" /\ txn'[r] # "none"
       \/ \A row \in Rows : writes[r][row] = Unwritten

\* A request on its way has prepared the rows its transaction holds.
LEMMA StillPrepared ==
  ASSUME NEW r \in Requests, pc[r] \notin Ended, pc'[r] \notin Ended, KeepsRows(r)
  PROVE  /\ Prepared(r)' = Prepared(r)
         /\ ReplyTo(r) = "pending" /\ ReplyTo(r)' = "pending"
  <1>1. \A k \in Rows : Wrote(r, k)' <=> Wrote(r, k)
    BY DEF KeepsRows, Wrote, Unwritten
  <1>2. {k \in Rows : pc[r] \notin Ended /\ Wrote(r, k)}'
           = {k \in Rows : pc[r] \notin Ended /\ Wrote(r, k)}
    BY <1>1
  <1>3. Prepared(r)' = Prepared(r)
    BY <1>2 DEF Prepared, KeepsRows
  <1>4. QED
    BY <1>3 DEF ReplyTo

\* The layers between the client and the database are invisible to the
\* contract, as long as they neither write nor answer.
LEMMA UnseenStep ==
  ASSUME TypeOK, NEW r \in Requests, Acts(r), pc[r] \notin Ended, pc'[r] \notin Ended,
         table' = table, KeepsRows(r), fault'[r] = "statement" <=> fault[r] = "statement"
  PROVE  UNCHANGED Atomic!vars
  <1>1. /\ Prepared(r)' = Prepared(r)
        /\ ReplyTo(r) = "pending" /\ ReplyTo(r)' = "pending"
    BY StillPrepared
  <1>2. /\ Intents' = [Intents EXCEPT ![r] = Intents[r]]
        /\ Replies' = [Replies EXCEPT ![r] = Replies[r]]
        /\ Spoilt' = Spoilt
    BY <1>1, SeenOfOne
  <1>3. Intents' = Intents
    BY <1>2 DEF Intents
  <1>4. Replies' = Replies
    BY <1>2 DEF Replies
  <1>5. QED
    BY <1>2, <1>3, <1>4 DEF Atomic!vars

\* A statement that fails may spoil a later success, and does nothing else.
LEMMA SpoilStep ==
  ASSUME TypeOK, NEW r \in Requests, Acts(r), pc[r] \notin Ended, Failing(r)
  PROVE  Atomic!Spoil(r)
  <1>1. table' = table /\ KeepsRows(r) /\ CallFails(r, "statement", 500)
    BY DEF Failing, TypeOK, KeepsRows
  <1>2. pc'[r] \notin Ended /\ fault'[r] = "statement"
    BY <1>1, FailsEffect, Named DEF Ended
  <1>3. /\ Prepared(r)' = Prepared(r)
        /\ ReplyTo(r) = "pending" /\ ReplyTo(r)' = "pending"
    BY <1>1, <1>2, StillPrepared
  <1>4. /\ Intents' = [Intents EXCEPT ![r] = Intents[r]]
        /\ Replies' = [Replies EXCEPT ![r] = Replies[r]] /\ Replies[r] = "pending"
        /\ Spoilt' = Spoilt \cup {r}
    BY <1>2, <1>3, SeenOfOne
  <1>5. Intents' = Intents
    BY <1>4 DEF Intents
  <1>6. Replies' = Replies
    BY <1>4 DEF Replies
  <1>7. QED
    BY <1>1, <1>4, <1>5, <1>6 DEF Atomic!Spoil

\* A write prepares one row, which no other request has prepared.
LEMMA PrepareStep ==
  ASSUME TypeOK, NEW r \in Requests, Acts(r), pc[r] \notin Ended, pc'[r] \notin Ended,
         NEW k \in Rows, NEW value \in Contents, NEW action \in Actions,
         Writing(r, k, value, action), ~LockedFor(r, k), txn[r] # "none",
         UNCHANGED <<table, txn, fault>>
  PROVE  Atomic!Prepare(r, k)
  <1>1. /\ \A j \in Rows \ {k} : writes'[r][j] = writes[r][j]
        /\ writes'[r][k].by = IF writes[r][k].by = "None" THEN action ELSE writes[r][k].by
        /\ writes'[r][k].value = value
    BY WritingEffect, WrittenValue
  <1>2. \A j \in Rows : Wrote(r, j)' <=> (Wrote(r, j) \/ j = k)
    BY <1>1 DEF Wrote, Actions
  <1>3. Prepared(r)' = [j \in DOMAIN Prepared(r) \cup {k} |-> IF j = k THEN value ELSE Prepared(r)[j]]
    <2>1. {j \in Rows : pc[r] \notin Ended /\ Wrote(r, j)}'
             = {j \in Rows : pc[r] \notin Ended /\ Wrote(r, j)} \cup {k}
      BY <1>2
    <2>2. QED
      BY <1>1, <2>1 DEF Prepared
  <1>4. ReplyTo(r) = "pending" /\ ReplyTo(r)' = "pending"
    BY DEF ReplyTo
  <1>5. \A q \in Requests \ {r} : k \notin DOMAIN Intents[q]
    BY DEF LockedFor, Intents, Prepared
  <1>6. /\ Intents' = [Intents EXCEPT ![r] =
              [j \in DOMAIN Intents[r] \cup {k} |-> IF j = k THEN value ELSE Intents[r][j]]]
        /\ Replies' = [Replies EXCEPT ![r] = Replies[r]] /\ Replies[r] = "pending"
        /\ Spoilt' = Spoilt
    BY <1>3, <1>4, SeenOfOne
  <1>7. Replies' = Replies
    BY <1>6 DEF Replies
  <1>8. QED
    BY <1>5, <1>6, <1>7 DEF Atomic!Prepare

\* The contract's effect of a request is the table its COMMIT leaves.
LEMMA EffectIsCommit ==
  ASSUME TypeOK, NEW r \in Requests, pc[r] \notin Ended
  PROVE  /\ txn[r] # "none" => Atomic!Effect(r) = Applied(r)
         /\ txn[r] = "none" => Atomic!Effect(r) = table
  <1>1. Intents[r] = Prepared(r) /\ table \in [Rows -> Contents]
    BY DEF Intents, TypeOK
  <1>2. ASSUME txn[r] # "none" PROVE Atomic!Effect(r) = Applied(r)
    <2>1. \A row \in Rows : row \in DOMAIN Prepared(r) <=> writes[r][row].by # "None"
      BY <1>2 DEF Prepared, Wrote
    <2>2. \A row \in DOMAIN Prepared(r) : Prepared(r)[row] = writes[r][row].value
      BY DEF Prepared
    <2>3. QED
      BY <1>1, <2>1, <2>2 DEF Atomic!Effect, Applied
  <1>3. ASSUME txn[r] = "none" PROVE Atomic!Effect(r) = table
    <2>1. \A row \in Rows : row \notin DOMAIN Prepared(r)
      BY <1>3 DEF Prepared, Wrote
    <2>2. QED
      BY <1>1, <2>1 DEF Atomic!Effect
  <1>4. QED
    BY <1>2, <1>3

\* A request that ends is answered, once.
LEMMA AnswerSeen ==
  ASSUME TypeOK, NEW r \in Requests, Acts(r), pc[r] \notin Ended, pc'[r] \in Ended,
         fault' = fault
  PROVE  Atomic!Answer(r, ReplyTo(r)')
  <1>1. Prepared(r)' = Atomic!Nothing
    BY DEF Prepared, Atomic!Nothing
  <1>2. ReplyTo(r) = "pending"
    BY DEF ReplyTo
  <1>3. QED
    BY <1>1, <1>2, SeenOfOne DEF Atomic!Answer

\* The guards, the gate, reads, refusals, the mask and the filters are
\* invisible to the contract (macros routes.rs, service.rs, repo.rs).
LEMMA LayersUnseen ==
  ASSUME TypeOK, NEW r \in Requests, TxnInv(r), HandlerInv(r), Acts(r),
         \/ Arrive(r) \/ Open(r) \/ PassGuards(r) \/ Challenge(r) \/ Bridge(r) \/ Authorize(r)
         \/ BadInput(r) \/ RefuseField(r) \/ BadId(r) \/ List(r) \/ Access(r)
         \/ Leak(r) \/ Return(r) \/ Mask(r) \/ Filter(r)
  PROVE  UNCHANGED Atomic!vars
  <1>1. /\ pc \in [Requests -> Stages] /\ txn \in [Requests -> {"none", "open", "doomed"}]
        /\ fault \in [Requests -> {"none", "refused", "statement"}]
    BY DEF TypeOK
  <1> USE <1>1 DEF KeepsRows, Ended
  <1>2. CASE Arrive(r)
    BY <1>2, UnseenStep DEF Arrive
  <1>3. CASE Open(r)
    <2>1. \A row \in Rows : writes[r][row] = Unwritten
      BY <1>3 DEF Open, HandlerInv, Untouched
    <2>2. QED
      BY <1>3, <2>1, UnseenStep DEF Open
  <1>4. CASE PassGuards(r) \/ Challenge(r) \/ BadInput(r)
    <2>1. pc[r] \notin Ended /\ pc'[r] \notin Ended
      BY <1>4, LeaveEffect, Named DEF PassGuards, Challenge, BadInput
    <2>2. QED
      BY <1>4, <2>1, UnseenStep DEF PassGuards, Challenge, BadInput
  <1>5. CASE Bridge(r)
    BY <1>5, UnseenStep DEF Bridge
  <1>6. CASE Authorize(r)
    <2>1. pc[r] \notin Ended /\ pc'[r] \notin Ended
      BY <1>6, LeaveEffect, Named DEF Authorize
    <2>2. table' = table /\ writes' = writes /\ txn' = txn /\ fault' = fault
      BY <1>6 DEF Authorize
    <2>3. QED
      BY <2>1, <2>2, UnseenStep
  <1>7. CASE RefuseField(r) \/ BadId(r)
    <2>1. CallFails(r, "refused", 403) \/ CallFails(r, "refused", 400)
      BY <1>7 DEF RefuseField, BadId
    <2>2. pc[r] \notin Ended /\ pc'[r] \notin Ended
      BY <1>7, <2>1, FailsEffect, Named DEF RefuseField, BadId, Calling
    <2>3. fault'[r] = "statement" <=> fault[r] = "statement"
      BY <2>1 DEF CallFails
    <2>4. QED
      BY <1>7, <2>2, <2>3, UnseenStep DEF RefuseField, BadId
  <1>8. CASE List(r)
    BY <1>8, ReturnsEffect, UnseenStep DEF List, Calling
  <1>9. CASE Access(r)
    <2>1. pc[r] = "calling" /\ table' = table /\ writes' = writes /\ txn' = txn
      BY <1>9 DEF Access, Calling
    <2>2. \/ CallFails(r, "refused", 404) \/ CallFails(r, "refused", 403) \/ CallReturns(r)
          \/ (pc' = [pc EXCEPT ![r] = "writing"] /\ fault' = fault)
      BY <1>9 DEF Access
    <2>3. pc'[r] \notin Ended
      BY <2>2, FailsEffect, ReturnsEffect, Named
    <2>4. fault'[r] = "statement" <=> fault[r] = "statement"
      BY <2>2 DEF CallFails, CallReturns
    <2>5. QED
      BY <2>1, <2>3, <2>4, UnseenStep
  <1>10. CASE Leak(r) \/ Return(r)
    BY <1>10, UnseenStep DEF Leak, Return
  <1>11. CASE Mask(r) \/ Filter(r)
    BY <1>11, UnseenStep DEF Mask, Filter
  <1>12. QED
    BY <1>2, <1>3, <1>4, <1>5, <1>6, <1>7, <1>8, <1>9, <1>10, <1>11

\* A detached task that ends after the request gives the connection back and
\* changes nothing a client can see.
LEMMA UnleakUnseen ==
  ASSUME TypeOK, NEW r \in Requests, Acts(r), Unleak(r)
  PROVE  UNCHANGED Atomic!vars
  <1>1. UNCHANGED <<table, pc, writes, result, unsure, fault>>
    BY DEF Unleak
  <1>2. CASE pc[r] \notin Ended
    BY <1>1, <1>2, UnseenStep DEF Unleak, KeepsRows
  <1>3. CASE pc[r] \in Ended
    <2>1. Prepared(r)' = Prepared(r)
      BY <1>1, <1>3 DEF Prepared
    <2>2. ReplyTo(r)' = ReplyTo(r)
      BY <1>1 DEF ReplyTo
    <2>3. /\ Intents' = [Intents EXCEPT ![r] = Intents[r]]
          /\ Replies' = [Replies EXCEPT ![r] = Replies[r]]
          /\ Spoilt' = Spoilt
      BY <1>1, <2>1, <2>2, SeenOfOne
    <2>4. Intents' = Intents
      BY <2>3 DEF Intents
    <2>5. Replies' = Replies
      BY <2>3 DEF Replies
    <2>6. QED
      BY <1>1, <2>3, <2>4, <2>5 DEF Atomic!vars
  <1>4. QED
    BY <1>2, <1>3

\* A create, an update or a delete prepares its row, or is refused
\* (repo.rs insert, update, delete).
LEMMA WritesPrepare ==
  ASSUME TypeOK, NEW r \in Requests, TxnInv(r), HandlerInv(r), Acts(r), Create(r) \/ Write(r)
  PROVE  (\E row \in Rows : Atomic!Prepare(r, row)) \/ UNCHANGED Atomic!vars
  <1> DEFINE call == CurrentCall(r)
             value == IF call.op = "delete" THEN Absent ELSE call.value
             action == ActionOf(call.op)
  <1>1. /\ pc[r] \in {"calling", "writing"} /\ step[r] \in DOMAIN shape[r].calls
        /\ call.op \in {"create", "update", "delete"}
        /\ Executable(r) /\ ~Waits(r) /\ UNCHANGED <<table, txn>>
        /\ (pc[r] = "writing" \/ call.op = "create")
    BY DEF Create, Write, Calling, HandlerInv
  <1>2. call.row \in Rows /\ value \in Contents /\ action \in Actions /\ ~shape[r].safe
    BY <1>1, ShapeTypes DEF Calls, Contents, ActionOf, Actions
  <1>3. txn[r] # "none" /\ ~LockedFor(r, call.row) /\ pc[r] \notin Ended
    BY <1>1, <1>2 DEF Executable, Waits, Ended
  <1>4. \/ Writing(r, call.row, value, action) /\ CallReturns(r)
        \/ CallFails(r, "refused", 500) /\ writes' = writes
    BY DEF Create, Write, Calling, ActionOf
  <1> HIDE DEF call, value, action
  <1>5. CASE Writing(r, call.row, value, action) /\ CallReturns(r)
    <2>1. pc'[r] \notin Ended /\ fault' = fault
      BY <1>5, ReturnsEffect DEF Ended
    <2>2. Atomic!Prepare(r, call.row)
      BY <1>1, <1>2, <1>3, <1>5, <2>1, PrepareStep
    <2>3. QED
      BY <1>2, <2>2
  <1>6. CASE CallFails(r, "refused", 500) /\ writes' = writes
    <2>1. pc'[r] \notin Ended
      BY <1>6, FailsEffect, Named DEF Ended
    <2>2. fault'[r] = "statement" <=> fault[r] = "statement"
      BY <1>6 DEF CallFails, TypeOK
    <2>3. QED
      BY <1>1, <1>3, <1>6, <2>1, <2>2, UnseenStep DEF KeepsRows
  <1>7. QED
    BY <1>4, <1>5, <1>6

(* What the contract allows r's step to be.                                *)
AtomicAnswer(r) == Atomic!Succeed(r) \/ Atomic!Refuse(r) \/ Atomic!Lose(r)

\* A request that ends without a commit changes nothing, and is told so
\* unless it asked for nothing to change.
LEMMA AnswerWithoutCommit ==
  ASSUME TypeOK, NEW r \in Requests, Acts(r), pc[r] \notin Ended, pc'[r] \in Ended,
         fault' = fault, table' = table,
         txn[r] = "none" \/ pc'[r] = "gone" \/ ~(result'[r].status < 400)
  PROVE  AtomicAnswer(r)
  <1>1. Atomic!Answer(r, ReplyTo(r)')
    BY AnswerSeen
  <1>2. CASE pc'[r] = "gone" \/ r \in unsure'
    <2>1. ReplyTo(r)' = "unknown"
      BY <1>2 DEF ReplyTo
    <2>2. QED
      BY <1>1, <2>1 DEF AtomicAnswer, Atomic!Lose
  <1>3. CASE pc'[r] # "gone" /\ r \notin unsure' /\ ~(result'[r].status < 400)
    <2>1. ReplyTo(r)' = "error"
      BY <1>3 DEF ReplyTo
    <2>2. QED
      BY <1>1, <2>1 DEF AtomicAnswer, Atomic!Refuse
  <1>4. CASE pc'[r] # "gone" /\ r \notin unsure' /\ result'[r].status < 400
    <2>1. ReplyTo(r)' = "success" /\ txn[r] = "none"
      BY <1>4 DEF ReplyTo
    <2>2. Atomic!Effect(r) = table
      BY <2>1, EffectIsCommit
    <2>3. QED
      BY <1>1, <2>1, <2>2 DEF AtomicAnswer, Atomic!Succeed
  <1>5. QED
    BY <1>2, <1>3, <1>4

\* The tail of intercept: a request on the pool has changed nothing, an escaped
\* one is answered with an error, and so is one that is rolled back; what is
\* to be committed is still pending (interceptor.rs:54-84).
LEMMA ConcludeSeen ==
  ASSUME TypeOK, NEW r \in Requests, TxnInv(r), ResultInv(r), Acts(r), Conclude(r)
  PROVE  AtomicAnswer(r) \/ UNCHANGED Atomic!vars
  <1>1. /\ pc[r] = "leaving" /\ pc[r] \notin Ended
        /\ UNCHANGED <<table, writes, fault>>
        /\ pc \in [Requests -> Stages] /\ result \in [Requests -> Results]
        /\ result[r] \in Results
    BY DEF Conclude, ConcludeFrame, Ended, TypeOK, Results
  <1>2. should_commit(result[r]) <=> result[r].status < 400
    BY <1>1, CommitOrError DEF ResultInv
  <1>3. CASE shape[r].safe
    <2>1. pc'[r] = "answered" /\ txn[r] = "none"
      BY <1>1, <1>3 DEF Conclude, TxnInv
    <2>2. QED
      BY <1>1, <2>1, AnswerWithoutCommit DEF Ended
  <1>4. CASE ~shape[r].safe /\ r \in leaked
    <2>1. pc'[r] = "answered" /\ result'[r] = IF should_commit(result[r]) THEN Err(500) ELSE result[r]
      BY <1>1, <1>4 DEF Conclude
    <2>2. ~(result'[r].status < 400)
      BY <1>2, <2>1 DEF Err
    <2>3. QED
      BY <1>1, <2>1, <2>2, AnswerWithoutCommit DEF Ended
  <1>5. CASE ~shape[r].safe /\ r \notin leaked /\ should_commit(result[r])
    <2>1. pc'[r] = "committing" /\ txn' = txn
      BY <1>1, <1>5 DEF Conclude
    <2>2. QED
      BY <1>1, <2>1, UnseenStep DEF KeepsRows, Ended
  <1>6. CASE ~shape[r].safe /\ r \notin leaked /\ ~should_commit(result[r])
    <2>1. pc'[r] = "answered" /\ result' = result
      BY <1>1, <1>6 DEF Conclude
    <2>2. QED
      BY <1>1, <1>2, <1>6, <2>1, AnswerWithoutCommit DEF Ended
  <1>7. QED
    BY <1>3, <1>4, <1>5, <1>6

\* COMMIT makes all the prepared rows visible in the step that answers, unless
\* the transaction was doomed; one that is not acknowledged leaves both
\* outcomes open, and so does a client that left meanwhile
\* (interceptor.rs:74-81).
LEMMA CommitSeen ==
  ASSUME TypeOK, NEW r \in Requests, TxnInv(r), ResultInv(r), Acts(r), pc[r] = "committing",
         Commit(r) \/ CommitFails(r) \/ Drop(r)
  PROVE  AtomicAnswer(r)
  <1>1. /\ pc[r] \notin Ended /\ txn[r] \in {"open", "doomed"} /\ result[r] \in Results
        /\ result[r].status < 400 /\ (txn[r] = "doomed" => r \in Spoilt)
    <2>1. pc[r] \notin Ended /\ ~shape[r].safe /\ result[r] \in Results /\ should_commit(result[r])
      BY DEF TypeOK, TxnInv, Results, Ended
    <2>2. result[r].status < 400
      BY <2>1, CommitOrError DEF ResultInv
    <2>3. txn[r] \in {"open", "doomed"} /\ (txn[r] = "doomed" => r \in Spoilt)
      BY <2>1 DEF TypeOK, TxnInv, Spoilt
    <2>4. QED
      BY <2>1, <2>2, <2>3
  <1>2. /\ pc'[r] \in Ended /\ fault' = fault
        /\ table' = table \/ (txn[r] = "open" /\ table' = Applied(r))
    BY DEF Commit, CommitFails, Drop, Apply, Ended, TypeOK
  <1>3. Atomic!Answer(r, ReplyTo(r)')
    BY <1>1, <1>2, AnswerSeen
  <1>4. Atomic!Effect(r) = Applied(r)
    BY <1>1, EffectIsCommit
  <1>5. CASE pc'[r] = "gone" \/ r \in unsure'
    <2>1. ReplyTo(r)' = "unknown"
      BY <1>2, <1>5 DEF ReplyTo
    <2>2. QED
      BY <1>2, <1>3, <1>4, <2>1 DEF AtomicAnswer, Atomic!Lose
  <1>6. CASE pc'[r] # "gone" /\ r \notin unsure'
    <2>1. Commit(r)
      BY <1>6 DEF CommitFails, Drop, TypeOK
    <2>2. result' = result /\ (txn[r] = "open" => table' = Applied(r)) /\ (txn[r] # "open" => table' = table)
      BY <2>1 DEF Commit, Apply
    <2>3. ReplyTo(r)' = "success"
      BY <1>1, <1>2, <1>6, <2>2 DEF ReplyTo
    <2>4. QED
      BY <1>1, <1>3, <1>4, <2>2, <2>3 DEF AtomicAnswer, Atomic!Succeed
  <1>7. QED
    BY <1>5, <1>6

\* Every step of a request is one step of the contract, or none.
LEMMA AtomicStep ==
  ASSUME IInv, NEW r \in Requests, Acts(r)
  PROVE  Atomic!Next \/ UNCHANGED Atomic!vars
  <1>1. TypeOK /\ TxnInv(r) /\ ResultInv(r) /\ HandlerInv(r)
    BY DEF IInv
  <1>2. ASSUME AtomicAnswer(r) PROVE Atomic!Next
    BY <1>2 DEF AtomicAnswer, Atomic!Next
  <1>3. CASE \/ Arrive(r) \/ Open(r) \/ PassGuards(r) \/ Challenge(r) \/ Bridge(r) \/ Authorize(r)
             \/ BadInput(r) \/ RefuseField(r) \/ BadId(r) \/ List(r) \/ Access(r)
             \/ Leak(r) \/ Return(r) \/ Mask(r) \/ Filter(r)
    BY <1>1, <1>3, LayersUnseen
  <1>4. CASE StatementFails(r) \/ MustFail(r)
    <2>1. Failing(r) /\ pc[r] \notin Ended
      BY <1>4 DEF StatementFails, MustFail, AtStatement, Ended
    <2>2. QED
      BY <1>1, <2>1, SpoilStep DEF Atomic!Next
  <1>5. CASE Create(r) \/ Write(r)
    BY <1>1, <1>5, WritesPrepare DEF Atomic!Next
  <1>6. CASE OpenFails(r)
    <2>1. /\ pc[r] \notin Ended /\ pc'[r] = "answered" /\ fault' = fault /\ table' = table
          /\ txn[r] = "none"
      BY <1>1, <1>6 DEF OpenFails, TypeOK, TxnInv, Ended
    <2>2. QED
      BY <1>1, <1>2, <2>1, AnswerWithoutCommit DEF Ended
  <1>7. CASE Conclude(r)
    BY <1>1, <1>2, <1>7, ConcludeSeen
  <1>8. CASE Commit(r) \/ CommitFails(r)
    BY <1>1, <1>2, <1>8, CommitSeen DEF Commit, CommitFails
  <1>9. CASE Drop(r)
    <2>1. CASE pc[r] = "committing"
      BY <1>1, <1>2, <1>9, <2>1, CommitSeen
    <2>2. CASE pc[r] # "committing"
      <3>1. pc[r] \notin Ended /\ pc'[r] = "gone" /\ fault' = fault /\ table' = table
        BY <1>1, <1>9, <2>2 DEF Drop, TypeOK
      <3>2. QED
        BY <1>1, <1>2, <3>1, AnswerWithoutCommit DEF Ended
    <2>3. QED
      BY <2>1, <2>2
  <1>10. CASE Unleak(r)
    BY <1>1, <1>10, UnleakUnseen
  <1>11. QED
    BY <1>3, <1>4, <1>5, <1>6, <1>7, <1>8, <1>9, <1>10 DEF Acts, Proceed

\* Before the first request nothing is prepared and nobody has an answer.
LEMMA AtomicInit ==
  ASSUME Init
  PROVE  Atomic!Init
  <1>1. \A r \in Requests : Prepared(r) = Atomic!Nothing
    BY DEF Init, Prepared, Wrote, Atomic!Nothing
  <1>2. \A r \in Requests : ReplyTo(r) = "pending"
    BY DEF Init, ReplyTo, Ended
  <1>3. Spoilt = {}
    BY DEF Init, Spoilt
  <1>4. QED
    BY <1>1, <1>2, <1>3 DEF Init, Atomic!Init, Intents, Replies

\* A request happens at once: through all its layers and awaits, beside any
\* number of others, its writes become visible together in the step that
\* answers it, on rows nobody changed since it first wrote them, or not at all
\* (interceptor.rs intercept, executor.rs).
THEOREM RequestsAreAtomic == Spec => ImplementsAtomic
  <1>1. Init => Atomic!Init
    BY AtomicInit
  <1>2. IInv /\ [Next]_vars => [Atomic!Next]_(Atomic!vars)
    <2>1. ASSUME IInv, UNCHANGED vars PROVE UNCHANGED Atomic!vars
      BY <2>1 DEF vars, Atomic!vars, Intents, Spoilt, Replies, Prepared, ReplyTo, Wrote
    <2>2. QED
      BY <2>1, AtomicStep DEF Next, Quiet, Acts
  <1>3. QED
    BY <1>1, <1>2, Invariance, PTL DEF Spec, ImplementsAtomic, Atomic!Spec
===============================================================================
