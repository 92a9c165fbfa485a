---------------------------- MODULE AbilityRules ----------------------------
(***************************************************************************)
(* The rule set compiled for one caller, and the reads the authorization   *)
(* layers perform on it (nestrs-authz/src/ability.rs).  An ability is a    *)
(* set of rules on one subject; `when` is the extension of a rule's        *)
(* predicate, the set of row values it holds of.  The values here have no  *)
(* NULL column, so that the SQL condition and the in-memory match of a     *)
(* predicate have the same extension.                                      *)
(***************************************************************************)

Actions == {"Read", "Create", "Update", "Delete"}

Rules(Values) == [action : Actions \cup {"Manage"}, inverted : BOOLEAN,
                  when : SUBSET Values]

(* The rules under the action itself and under the wildcard Manage.        *)
rules_for(ability, action) ==
    {rule \in ability : rule.action \in {action, "Manage"}}

grants(ability, action) ==
    {rule \in rules_for(ability, action) : ~rule.inverted}

denials(ability, action) ==
    {rule \in rules_for(ability, action) : rule.inverted}

(* Layer 1, the class gate: is there any grant at all?                     *)
can_class(ability, action) == grants(ability, action) # {}

(* Layer 2, the query filter: (OR of grants) AND NOT (OR of denials), as   *)
(* the set of values it lets through; nothing when there is no grant.      *)
condition_for(ability, action) ==
    LET grant == UNION {rule.when : rule \in grants(ability, action)}
        deny  == UNION {rule.when : rule \in denials(ability, action)}
    IN  grant \ deny

(* Layer 3, the instance check: some grant matches and no denial does.     *)
can(ability, action, value) ==
    LET matching == {rule \in rules_for(ability, action) : value \in rule.when}
    IN  /\ matching # {}
        /\ \A rule \in matching : ~rule.inverted

(* Layer 3, the fields: the union over the grants that match the row,      *)
(* whatever the denials say.  Grants here are of every field, so that a    *)
(* row keeps all of them or none.                                          *)
permitted_fields(ability, action, value) ==
    \E rule \in grants(ability, action) : value \in rule.when
=============================================================================
