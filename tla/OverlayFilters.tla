--------------------------- MODULE OverlayFilters ---------------------------
(***************************************************************************)
(* What one read of an overlay model returns, twice: as Django builds it,  *)
(* and as OverlayQuery and OverlayQuerySet rewrite it.  No state: a world  *)
(* is what the views show, a query is the shape the rewrites look at.      *)
(*                                                                         *)
(* The near model has one OverlayForeignKey and some m2m relations, every  *)
(* target an overlay model of its own with one nullable column.  Answers   *)
(* are bags, because a join repeats rows and a semi-join does not.         *)
(***************************************************************************)
EXTENDS Integers, FiniteSetsExt, Sequences

CONSTANTS
  Near,     \* primary keys of the near model's view
  MaxKey,   \* the largest key the primary key's column type can hold
  Target,   \* rows of each related view
  ForeignKey, ManyToMany,  \* the relations, by name
  NoRow,    \* what a LEFT JOIN finds when nothing matches
  Null,
  Error,    \* the statement fails
  Enabled   \* the DJANGO_OVERLAY_* settings that are on

Relation == {ForeignKey} \cup ManyToMany
Settings == {"REWRITE_TRAVERSALS", "M2M_FENCE", "LATE_ROW_LOOKUP",
             "ARRAY_LITERAL_IN", "FORCE_HASH_JOINS"}

ASSUME FiltersAssumption ==
  /\ Near \subseteq 1..MaxKey
  /\ ForeignKey \notin ManyToMany /\ "self" \notin Relation
  /\ IsFiniteSet(Target) /\ NoRow \notin Target
  /\ Null \notin {0, 1}
  /\ Enabled \subseteq Settings

\* near: a column to sort by and the reference; column: what each target row
\* holds; links: the rows of each through model.
World ==
  [near   : [Near -> [v : Nat, to : Target \cup {NoRow}]],
   column : [Relation -> [Target -> {0, 1, Null}]],
   links  : [ManyToMany -> SUBSET (Near \X Target)]]

\* One keyword argument: path names a relation, or "self" for a local column.
\* "exact" is column=0, "is null" is column__isnull=True (or column=None),
\* "no relation" is isnull on the relation, "F" compares with the near column.
Clause ==
  [path : Relation \cup {"self"}, test : {"exact", "is null", "no relation", "F"},
   negated : BOOLEAN]

\* A literal list for pk__in: each value with its Python type.
KeyLists == SUBSET [key : Nat, type : {"int", "bool"}]

\* where: the arguments, of one filter() or of a chain of them; limit = 0 when
\* not sliced, and a slice is ordered by the near column.
Query ==
  [where : Seq(Clause), connector : {"AND", "OR"}, chained : BOOLEAN,
   among : KeyLists,   \* {} when the query has no such argument
   result : {"rows", "keys", "values", "groups", "count"},
   distinct : BOOLEAN, limit : Nat, direct : BOOLEAN, selective : BOOLEAN]

-----------------------------------------------------------------------------
(* Django: every path is a join.                                           *)

Multivalued(c) == c.path \in ManyToMany

\* Arguments of one filter() share a join, and so do all uses of a single-
\* valued relation; a later filter() joins a many-valued one anew.
Alias(q, i) == <<q.where[i].path, IF q.chained /\ Multivalued(q.where[i]) THEN i ELSE 0>>

Linked(w, n, path) ==
  IF path = ForeignKey THEN {w.near[n].to} \ {NoRow}
  ELSE {t \in Target : <<n, t>> \in w.links[path]}

\* LEFT JOIN: an INNER one is what the WHERE clause makes of it.
Joined(w, n, path) ==
  IF Linked(w, n, path) = {} THEN {NoRow} ELSE Linked(w, n, path)

ColumnOf(w, path, t) == IF t = NoRow THEN Null ELSE w.column[path][t]

\* The test on one joined row.
Passes(w, n, c, t) ==
  CASE c.path = "self"          -> w.near[n].v = 0
    [] c.test = "exact"         -> ColumnOf(w, c.path, t) = 0
    [] c.test = "is null"       -> ColumnOf(w, c.path, t) = Null
    [] c.test = "no relation"   -> t = NoRow
    [] c.test = "F"             -> ColumnOf(w, c.path, t) = w.near[n].v

\* exclude() across a many-valued relation asks about all of its rows at once.
IsSplit(c) == c.negated /\ Multivalued(c)

HoldsOn(w, n, c, t) ==
  IF IsSplit(c) THEN ~\E x \in Linked(w, n, c.path) : Passes(w, n, c, x)
  ELSE Passes(w, n, c, t) # c.negated

\* The bag of near rows: n once for every combination of joined rows that
\* satisfies the tree, given which arguments join and what each one says.
Matches(w, q, Joins(_), Says(_, _, _)) ==
  LET aliases   == {Alias(q, i) : i \in {j \in DOMAIN q.where : Joins(q.where[j])}}
      tuples(n) == {t \in [aliases -> Target \cup {NoRow}] :
                      \A a \in aliases : t[a] \in Joined(w, n, a[1])}
      at(t, i)  == IF Alias(q, i) \in aliases THEN t[Alias(q, i)] ELSE NoRow
      tree(n, t) ==
        IF q.connector = "AND"
        THEN \A i \in DOMAIN q.where : Says(n, q.where[i], at(t, i))
        ELSE \E i \in DOMAIN q.where : Says(n, q.where[i], at(t, i))
  IN  [n \in Near |-> Cardinality({t \in tuples(n) : tree(n, t)})]

JoinsInDjango(c) == c.path # "self" /\ ~IsSplit(c)

InList(q, n) == q.among = {} \/ \E k \in q.among : k.key = n
Among(q, bag) == [n \in Near |-> IF InList(q, n) THEN bag[n] ELSE 0]

DjangoMatches(w, q) ==
  LET says(n, c, t) == HoldsOn(w, n, c, t)
  IN  Among(q, Matches(w, q, JoinsInDjango, says))

-----------------------------------------------------------------------------
(* OverlayQuery.build_filter()                                             *)

MutantTraversalRewrite(c) ==   \* multi-valued paths too
  /\ "REWRITE_TRAVERSALS" \in Enabled
  /\ c.path # "self" /\ ~c.negated /\ c.test \in {"exact", "is null"}

\* A forward traversal becomes a semi-join.
TraversalRewrite(c) ==
  /\ "REWRITE_TRAVERSALS" \in Enabled
  /\ c.path = ForeignKey /\ ~c.negated
  /\ c.test # "F"             \* an expression belongs to the outer query
  /\ c.test # "no relation"   \* a lookup on the relation, not through it

\* An m2m traversal gets a conjunct beside its join.
M2mFence(c, suppressed) ==
  /\ {"REWRITE_TRAVERSALS", "M2M_FENCE"} \subseteq Enabled
  /\ Multivalued(c) /\ ~c.negated /\ ~suppressed
  /\ c.test \notin {"F", "no relation"}

\* The subquery both of them put on the right of = ANY (ARRAY(...)).
InSubquery(w, n, c) == \E t \in Linked(w, n, c.path) : Passes(w, n, c, t)

JoinsInOverlay(c) == JoinsInDjango(c) /\ ~TraversalRewrite(c)

BuildFilter(w, n, c, t) ==
  IF TraversalRewrite(c) THEN InSubquery(w, n, c)
  ELSE /\ HoldsOn(w, n, c, t)
       /\ M2mFence(c, FALSE) => InSubquery(w, n, c)

\* split_exclude() filters an inner query positively, and a fence in there
\* would run trim_start() off the end of its joins. The code keeps it out, so
\* this never holds: dropping that makes it an error.
SplitExcludeFails(c) == IsSplit(c) /\ M2mFence([c EXCEPT !.negated = FALSE], TRUE)

\* literal_array_in(): the whole list as the text of one array parameter.
LiteralArrayIn(q) ==
  /\ "ARRAY_LITERAL_IN" \in Enabled
  /\ \A k \in q.among : k.type = "int"
  /\ Cardinality(q.among) >= 2

\* Text that is no number, or too large a one, is no element of the array.
ArrayFails(q) ==
  LiteralArrayIn(q) /\ \E k \in q.among : k.type # "int" \/ k.key > MaxKey

OverlayMatches(w, q) ==
  LET says(n, c, t) == BuildFilter(w, n, c, t)
  IN  Among(q, Matches(w, q, JoinsInOverlay, says))

Fails(q) == ArrayFails(q) \/ \E i \in DOMAIN q.where : SplitExcludeFails(q.where[i])

-----------------------------------------------------------------------------
(* The answer, as a bag of what the caller receives.                       *)

Total(bag) == MapThenSumSet(LAMBDA x : bag[x], DOMAIN bag)

ValuesOf(w, bag) == {w.near[n].v : n \in {m \in Near : bag[m] > 0}}
OfValue(w, bag, v) ==
  MapThenSumSet(LAMBDA n : IF w.near[n].v = v THEN bag[n] ELSE 0, Near)

\* values() repeats a value for each row, distinct() or GROUP BY does not.
Project(w, bag, result, distinct) ==
  LET once(k) == IF distinct THEN 1 ELSE k IN
  CASE result \in {"rows", "keys", "count"} ->
         [n \in {m \in Near : bag[m] > 0} |-> once(bag[n])]
    [] result = "values" -> [v \in ValuesOf(w, bag) |-> once(OfValue(w, bag, v))]
    [] result = "groups" ->
         [g \in {<<v, OfValue(w, bag, v)>> : v \in ValuesOf(w, bag)} |-> 1]

SortKey(w, result, x) ==
  CASE result = "values" -> x
    [] result = "groups" -> x[1]
    [] OTHER -> w.near[x].v

\* ORDER BY v LIMIT k: any k of the rows that no other row sorts before.
IsPage(w, result, page, all, k) ==
  /\ DOMAIN page \subseteq DOMAIN all
  /\ \A x \in DOMAIN page : page[x] \in 1..all[x]
  /\ Total(page) = IF Total(all) < k THEN Total(all) ELSE k
  /\ \A y \in DOMAIN page, x \in DOMAIN all :
       (x \in DOMAIN page => page[x] < all[x]) =>
         SortKey(w, result, y) <= SortKey(w, result, x)

\* What Django could have returned for q.
IsAnswer(w, q, answer) ==
  LET all == Project(w, DjangoMatches(w, q), q.result, q.distinct) IN
  /\ answer # Error
  /\ IF q.limit = 0 THEN answer = all ELSE IsPage(w, q.result, answer, all, q.limit)

-----------------------------------------------------------------------------
(* OverlayQuerySet.__getitem__()                                           *)

\* Only a join that is still there can repeat a row.
MultipliesRows(q) ==
  \E i \in DOMAIN q.where : JoinsInOverlay(q.where[i]) /\ Multivalued(q.where[i])

WantsLateRowLookup(q) ==
  /\ "LATE_ROW_LOOKUP" \in Enabled
  /\ q.limit > 0 /\ ~q.direct
  /\ MultipliesRows(q) => q.distinct
  /\ q.result # "keys"

Pages(w, result, all, k) ==
  {page \in UNION {[D -> 1..Total(all)] : D \in SUBSET DOMAIN all} :
     IsPage(w, result, page, all, k)}

\* The page's keys first, then the same query with no LIMIT on those keys.
LateRowLookup(w, q) ==
  LET bag  == OverlayMatches(w, q)
      keys == Project(w, bag, "keys", q.distinct \/ q.result = "groups")
      rows(page) == [n \in Near |-> IF n \in DOMAIN page THEN bag[n] ELSE 0]
  IN  {Project(w, rows(page), q.result, q.distinct) :
         page \in Pages(w, "keys", keys, q.limit)}

\* Every answer the statement can have.
Answers(w, q) ==
  LET all == Project(w, OverlayMatches(w, q), q.result, q.distinct) IN
  IF Fails(q) THEN {Error}
  ELSE IF WantsLateRowLookup(q) THEN LateRowLookup(w, q)
  ELSE IF q.limit = 0 THEN {all} ELSE Pages(w, q.result, all, q.limit)
=============================================================================
