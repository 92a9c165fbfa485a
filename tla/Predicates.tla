------------------------------ MODULE Predicates ------------------------------
(***************************************************************************)
(* The conditions of authorization rules (nestrs-authz/src/predicate.rs)   *)
(* and what an ability makes of them (ability.rs): one AST, lowered to SQL *)
(* for the query filter and evaluated in memory for the response check.    *)
(*                                                                         *)
(* A predicate is a record tagged by its variant.  SQL is three-valued: a  *)
(* comparison with NULL is neither true nor false.  In memory, NULL is a   *)
(* Value like any other, equal to itself.  A column and the values it is   *)
(* compared with have one variant: in memory Int is not BigInt, while SQL  *)
(* compares the numbers, and a rule that mixes them is left out.           *)
(***************************************************************************)
EXTENDS Integers, FiniteSets

CONSTANTS
    Null,
    Columns,
    Values,       \* what a column holds, Null included
    Conditions,   \* the predicates rules are made of, the parts of each included
    Depth         \* how deep each is nested

Row == [Columns -> Values]

(* An AST is finite: a part is less deep than the whole.                   *)
Parts(p) == CASE p.op \in {"And", "Or"} -> p.parts
              [] p.op = "Not" -> {p.inner}
              [] OTHER -> {}

Predicate == [op : {"Always"}]
             \cup [op : {"Eq"}, column : Columns, value : Values]
             \cup [op : {"In"}, column : Columns, values : SUBSET Values]
             \cup [op : {"And", "Or"}, parts : SUBSET Conditions]
             \cup [op : {"Not"}, inner : Conditions]

ASSUME PredicateAssumption ==
    /\ Conditions \subseteq Predicate
    /\ Depth \in [Conditions -> Nat]
    /\ \A p \in Conditions : \A part \in Parts(p) : Depth[part] < Depth[p]

(* The database's logic (external): OR is true if an operand is, else      *)
(* unknown if one is; AND is its dual.  A row is selected when the         *)
(* condition is true.                                                      *)
False == 0
Unknown == 1
True == 2
Truth == {False, Unknown, True}

SqlEq(x, y) == CASE x = Null \/ y = Null -> Unknown
                 [] x = y -> True
                 [] OTHER -> False
SqlNot(truth) == True - truth
SqlAny(truths) == CASE True \in truths -> True
                    [] True \notin truths /\ Unknown \in truths -> Unknown
                    [] OTHER -> False
SqlAll(truths) == CASE False \in truths -> False
                    [] False \notin truths /\ Unknown \in truths -> Unknown
                    [] OTHER -> True

to_condition[p \in Conditions] ==
    [row \in Row |->
        CASE p.op = "Always" -> True
          [] p.op = "Eq"     -> SqlEq(row[p.column], p.value)
          [] p.op = "In"     -> SqlAny({SqlEq(row[p.column], v) : v \in p.values})
          [] p.op = "And"    -> SqlAll({to_condition[part][row] : part \in p.parts})
          [] p.op = "Or"     -> SqlAny({to_condition[part][row] : part \in p.parts})
          [] p.op = "Not"    -> SqlNot(to_condition[p.inner][row])]

matches[p \in Conditions] ==
    [row \in Row |->
        CASE p.op = "Always" -> TRUE
          [] p.op = "Eq"     -> row[p.column] = p.value
          [] p.op = "In"     -> row[p.column] \in p.values
          [] p.op = "And"    -> \A part \in p.parts : matches[part][row]
          [] p.op = "Or"     -> \E part \in p.parts : matches[part][row]
          [] p.op = "Not"    -> ~matches[p.inner][row]]

(* Does a predicate compare with NULL?                                     *)
NamesNull[p \in Conditions] ==
    CASE p.op = "Eq" -> p.value = Null
      [] p.op = "In" -> Null \in p.values
      [] OTHER       -> \E part \in Parts(p) : NamesNull[part]

(***************************************************************************)
(* An ability: the set of its rules for Read and Manage on one subject.    *)
(* `fields` are the columns a grant permits.                               *)
(***************************************************************************)
Grants(ability) == {rule \in ability : ~rule.inverted}
Denials(ability) == ability \ Grants(ability)

\* Fault: the denials are left to the response check.
DenialsLeftOut(ability, row) ==
    SqlAny({to_condition[rule.when][row] : rule \in Grants(ability)})

condition_for(ability, row) ==
    IF Grants(ability) = {} THEN False
    ELSE LET grant == SqlAny({to_condition[rule.when][row] : rule \in Grants(ability)})
             deny  == SqlAny({to_condition[rule.when][row] : rule \in Denials(ability)})
         IN  SqlAll({grant, SqlNot(deny)})

can(ability, row) ==
    /\ \E rule \in Grants(ability) : matches[rule.when][row]
    /\ \A rule \in Denials(ability) : ~matches[rule.when][row]

(* The union over the grants that match; denials restrict no field.        *)
permitted_fields(ability, row) ==
    UNION {rule.fields : rule \in {g \in Grants(ability) : matches[g.when][row]}}
===============================================================================
