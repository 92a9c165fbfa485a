------------------------------ MODULE MC_Listing ------------------------------
EXTENDS Listing

Eq(column, value) == [op |-> "Eq", column |-> column, value |-> value]
In(column, values) == [op |-> "In", column |-> column, values |-> values]
Not(p) == [op |-> "Not", inner |-> p]
And(p, q) == [op |-> "And", parts |-> {p, q}]
Or(p, q) == [op |-> "Or", parts |-> {p, q}]

(* Comparisons that hold, fail, and meet NULL on either side.              *)
Atoms == {Eq("org", 1), Eq("org", Null), In("org", {1, Null})}
Literals == Atoms \cup {Not(p) : p \in Atoms}
MCConditions ==
    {[op |-> "Always"], In("org", {})} \cup Literals
        \cup {And(Not(p), Eq("org", 1)) : p \in Atoms}
        \cup {Or(Eq("org", 1), Not(q)) : q \in Atoms}

MCDepth ==
    [p \in MCConditions |-> CASE p.op = "Not" -> 1 [] p.op \in {"And", "Or"} -> 2 [] OTHER -> 0]

MakeRule(inverted, p, fields) == [inverted |-> inverted, when |-> p, fields |-> fields]

(* A caller without a grant, with one, with one and a denial, and with two *)
(* grants of different fields.                                             *)
MCAbilities ==
    {{}, {MakeRule(FALSE, [op |-> "Always"], {}), MakeRule(FALSE, Eq("org", 1), Columns)}}
        \cup {{MakeRule(FALSE, p, Columns)} : p \in MCConditions}
        \cup {{MakeRule(FALSE, [op |-> "Always"], Columns), MakeRule(TRUE, p, {})} : p \in MCConditions}

(* Every row but those of one organization, by a denial.                   *)
OneDenial == {{MakeRule(FALSE, [op |-> "Always"], Columns), MakeRule(TRUE, Eq("org", 1), {})}}
===============================================================================
