------------------------------- MODULE Listing -------------------------------
(***************************************************************************)
(* A client pages through a collection with the generated cursor list:     *)
(* `Repo::page` (nestrs-orm/src/page.rs) filtered by the caller's ability, *)
(* the #[crud] handler that puts the cursor into x-next-cursor, and the    *)
(* response mask of Authorize (nestrs-authz-http/src/shape.rs), while other *)
(* transactions commit inserts, updates and deletes between the pages.     *)
(*                                                                         *)
(* One page is one statement, which sees one committed state; the mask     *)
(* works on the rows it returned.  Rows come in the order of their keys,   *)
(* so that the set of its keys says what a page holds.                     *)
(***************************************************************************)
EXTENDS Predicates, FiniteSetsExt

CONSTANTS
    LastKey,      \* primary keys are 1..LastKey, in their order
    Abilities,    \* the abilities a caller may have
    Firsts,       \* the `first` a client asks for, None without one
    DefaultPage,  \* page size without `first`: 20 in the code
    LargestPage,  \* largest page size: 100 in the code
    MaxChanges,   \* bound: how many times the others change the table
    None

Keys == 1..LastKey
Rule == [inverted : BOOLEAN, when : Conditions, fields : SUBSET Columns]

ASSUME ListingAssumption ==
    /\ LastKey \in Nat /\ MaxChanges \in Nat /\ LargestPage \in Nat
    /\ DefaultPage \in 1..LargestPage
    /\ Firsts \subseteq Nat \cup {None}
    /\ None \notin Row
    /\ Abilities \subseteq SUBSET Rule

VARIABLES
    ability,   \* the caller's ability, the same for every page
    first,     \* the page size the client asks for
    table,     \* per key: the committed row, None if there is none
    changes,   \* how many times it has changed
    after,     \* the cursor the client sends next, 0 for none
    page,      \* the page answered last
    got,       \* history: the keys the client received
    inOrder,   \* history: each was beyond those received before it
    steady,    \* history: the keys whose rows the filter has let through all along
    done       \* the last page had no cursor, or the route refused the client

vars == <<ability, first, table, changes, after, page, got, inOrder, steady, done>>

(* items: the keys the query returned; shown: the fields of each row left  *)
(* by the mask.                                                            *)
Page == [items : SUBSET Keys,
         shown : UNION {[keys -> SUBSET Columns] : keys \in SUBSET Keys},
         has_more : BOOLEAN, next_cursor : Keys \cup {0}]

TypeOK ==
    /\ ability \in Abilities
    /\ first \in Firsts
    /\ table \in [Keys -> Row \cup {None}]
    /\ changes \in 0..MaxChanges
    /\ after \in Keys \cup {0}
    /\ page = None \/ (page \in Page /\ Cardinality(page.items) <= LargestPage)
    /\ got \subseteq Keys
    /\ inOrder \in BOOLEAN
    /\ steady \subseteq Keys
    /\ done \in BOOLEAN

(* The rows the caller's filter lets through.                              *)
Selected(rows) == {k \in Keys : rows[k] # None /\ condition_for(ability, rows[k]) = True}

Init ==
    /\ ability \in Abilities
    /\ first \in Firsts
    /\ table \in [Keys -> Row \cup {None}]
    /\ changes = 0
    /\ after = 0
    /\ page = None
    /\ got = {}
    /\ inOrder = TRUE
    /\ steady = Selected(table)
    /\ done = FALSE

Asked == IF first = None THEN DefaultPage ELSE first

\* Fault: no upper bound on the page size.
Unclamped == IF Asked < 1 THEN 1 ELSE Asked

(* PageParams::limit, and the same clamp in Repo::page.                    *)
limit == CASE Asked < 1 -> 1
           [] Asked > LargestPage -> LargestPage
           [] OTHER -> Asked

\* Fault: the cursor row itself is fetched again.
FromCursor == {k \in Selected(table) : k >= after}

(* cursor.after(after): strictly beyond the cursor, if there is one.       *)
BeyondCursor == {k \in Selected(table) : after = 0 \/ k > after}

(* The first n of some keys, in their order.                               *)
Lowest(n, keys) == {k \in keys : Cardinality({j \in keys : j < k}) < n}

\* Fault: the cursor is the extra row, fetched only to learn whether more follows.
CursorOnExtraRow(rows, items) ==
    IF Cardinality(rows) > limit THEN Max(rows) ELSE 0

(* The last row of the page, when the extra row says that more follow.     *)
next_cursor(rows, items) == IF Cardinality(rows) > limit THEN Max(items) ELSE 0

(* mask_many: drop what the in-memory check refuses, then the fields no    *)
(* matching grant permits.                                                 *)
mask_many(items) ==
    [k \in {i \in items : can(ability, table[i])} |-> permitted_fields(ability, table[k])]

(* What the query returns: the first limit + 1 rows beyond the cursor.     *)
Fetched == Lowest(limit + 1, BeyondCursor)

PageOf(rows) ==
    LET items == Lowest(limit, rows)
    IN  [items |-> items, shown |-> mask_many(items),
         has_more |-> Cardinality(rows) > limit, next_cursor |-> next_cursor(rows, items)]

(* Authorize: without a grant the route answers 403.                       *)
can_class == Grants(ability) # {}

Forbidden ==
    /\ ~done
    /\ ~can_class
    /\ done' = TRUE
    /\ UNCHANGED <<ability, first, table, changes, after, page, got, inOrder, steady>>

(***************************************************************************)
(* One page: the rows cut to limit, masked, and answered with the cursor   *)
(* of the next page if there is one, which the client sends next.          *)
(***************************************************************************)
list ==
    /\ ~done
    /\ can_class
    /\ \E rows \in {Fetched} : page' = PageOf(rows)
    /\ got' = got \cup DOMAIN page'.shown
    /\ inOrder' = (inOrder /\ \A k \in got, j \in DOMAIN page'.shown : k < j)
    /\ after' = IF page'.next_cursor = 0 THEN after ELSE page'.next_cursor
    /\ done' = (page'.next_cursor = 0)
    /\ UNCHANGED <<ability, first, table, changes, steady>>

(* Another transaction commits: a row is inserted, changed or deleted.  A  *)
(* key is drawn before its transaction commits, so that keys may appear in *)
(* any order.                                                              *)
Change(k, row) ==
    /\ changes < MaxChanges
    /\ ~done
    /\ table[k] # row
    /\ table' = [table EXCEPT ![k] = row]
    /\ changes' = changes + 1
    /\ steady' = steady \cap Selected(table')
    /\ UNCHANGED <<ability, first, after, page, got, inOrder, done>>

Next ==
    \/ Forbidden
    \/ list
    \/ \E k \in Keys, row \in Row \cup {None} : Change(k, row)

(* The client asks for the next page as long as there is one.              *)
Spec == Init /\ [][Next]_vars /\ WF_vars(list \/ Forbidden)

-------------------------------------------------------------------------------
(***************************************************************************)
(* Properties                                                              *)
(***************************************************************************)

\* A traversal misses no row and repeats none: every row the caller could
\* read all along arrives exactly once, whatever was committed between the
\* pages, and keys only ascend (page.rs:3-8, "stable under concurrent
\* inserts").
StableRowsOnce ==
    /\ inOrder
    /\ done => steady \subseteq got

(* Neither the row nor a rule has a NULL in it.                            *)
NullFree(row) ==
    /\ \A column \in Columns : row[column] # Null
    /\ \A rule \in ability : ~NamesNull[rule.when]

\* The filter and the response check do not drift apart in the direction
\* that loses data: what the query returns, the mask shows, with the fields of
\* a grant, so that a page with a cursor is full; and without NULL they agree
\* (predicate.rs:4-6, ability.rs:67-102, shape.rs:88-96).
FilterWithinCheck ==
    /\ page # None =>
        /\ DOMAIN page.shown = page.items
        /\ page.has_more => Cardinality(page.items) = limit
        /\ \A k \in page.items :
            \E rule \in Grants(ability) : rule.fields \subseteq page.shown[k]
    /\ \A row \in Row : NullFree(row) =>
        (condition_for(ability, row) = True <=> can(ability, row))

\* Paging comes to an end: every page with a cursor moves the client on, also
\* when the row under the cursor was deleted (page.rs:77-92).
TraversalEnds == <>done

(***************************************************************************)
(* The inductive invariant behind StableRowsOnce: the client has every     *)
(* steady row up to its cursor and nothing beyond it, until the last page  *)
(* brings the rest.                                                        *)
(***************************************************************************)
UpToCursor ==
    /\ steady \subseteq Selected(table)
    /\ ~done => /\ \A k \in got : k <= after
                /\ \A k \in steady : k <= after => k \in got

IInv ==
    /\ TypeOK
    /\ UpToCursor
    /\ StableRowsOnce
    /\ FilterWithinCheck

\* predicate.rs:4-6: "Sharing a single AST is what keeps the rows a query
\* returns and the rows the response check accepts from drifting apart."
NoDrift ==
    done /\ changes = 0 =>
        got = {k \in Keys : table[k] # None /\ can(ability, table[k])}
===============================================================================
