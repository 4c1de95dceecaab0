----------------------------- MODULE OverlayRows -----------------------------
(***************************************************************************)
(* What one overlay model is made of: a hidden base table the tenant's     *)
(* writes land in, a source table that belongs to the vendor, and the view *)
(* that shows their UNION ALL.  No state here, only the model's            *)
(* declaration (OverlayMeta and SourceTable, as CONSTANTS) and what the    *)
(* generated SQL computes from the two tables.  Every module about one     *)
(* overlay model extends this one.                                         *)
(***************************************************************************)
EXTENDS Integers, FiniteSets

CONSTANTS
  PK,          \* the ids a row of the view can have
  VendorId,    \* the ids the source table can hold, as the vendor numbers them
  Column,      \* the model's columns other than the primary key
  Value,       \* what a column holds
  NoRow,       \* marks an id for which a table has no row
  Strategy,    \* OverlayMeta.strategy, "uuid" standing for the three uuid ones
  SoftDelete,  \* OverlayMeta.soft_delete
  Overridable, \* OverlayMeta.overridable
  PartitionKey,\* SourceTable.partition_key: {} when undeclared, else {column}
  ExtraWhere,  \* SourceTable.extra_where, as the set of rows that satisfy it
  ExtraWhereOr \* the rows its text accepts left of a top-level OR; {} without one

Row     == [Column -> Value]
BaseRow == [row : Row, deleted : BOOLEAN]

IntegerStrategies ==
  {"negative_id", "negative_source_positive_base_id",
   "negative_base_positive_source_id"}
Strategies == IntegerStrategies \cup {"uuid"}

Negate     == Strategy = "negative_id"
Descending == Strategy = "negative_base_positive_source_id"

\* The view's id of a vendor row, and the inverse.
ViewPk(v)    == IF Negate THEN -v ELSE v
SourcePk(pk) == IF Negate THEN -pk ELSE pk

ASSUME RowsAssumption ==
  /\ PK \subseteq Int /\ VendorId \subseteq Int
  /\ \A v \in VendorId : ViewPk(v) \in PK
  /\ NoRow \notin Row /\ NoRow \notin BaseRow
  /\ Strategy \in Strategies
  /\ SoftDelete \in BOOLEAN /\ Overridable \in BOOLEAN
  /\ PartitionKey \subseteq Column
  /\ ExtraWhere \subseteq Row /\ ExtraWhereOr \subseteq ExtraWhere

\* The side of zero the vendor's ids are on.  Nothing in the code checks it.
ASSUME SignAssumption ==
  Strategy \in IntegerStrategies =>
    \A v \in VendorId : IF Descending THEN ViewPk(v) >= 0 ELSE ViewPk(v) <= 0

-----------------------------------------------------------------------------
(* Lookups by id.  base maps each id of the view to a base row or NoRow,   *)
(* source maps each vendor id to a row or NoRow.                           *)

\* The source row a view id stands for, extra_where or not.
SourceRow(source, pk) ==
  IF SourcePk(pk) \in VendorId THEN source[SourcePk(pk)] ELSE NoRow

SamePartition(r, s) == \A c \in PartitionKey : r[c] = s[c]

\* EXISTS (source row with this id and, when a key is declared, in r's partition)
SourceProbe(source, pk, r) ==
  /\ SourceRow(source, pk) # NoRow
  /\ SamePartition(SourceRow(source, pk), r)

IsTombstone(base, pk) == base[pk] # NoRow /\ base[pk].deleted

-----------------------------------------------------------------------------
(* The view.                                                               *)

MutantAntiJoin ==   \* the cheaper anti-join for every model
  IF SoftDelete THEN "tombstones" ELSE "none"
MutantNoAntiJoin == "none"   \* no anti-join for any model

AntiJoin ==
  IF Overridable THEN "full" ELSE IF SoftDelete THEN "tombstones" ELSE "none"

\* What the NOT EXISTS of the source branch finds for a view id.
Shadowed(base, pk) ==
  \/ AntiJoin = "full" /\ base[pk] # NoRow
  \/ AntiJoin = "tombstones" /\ IsTombstone(base, pk)

BaseShows(base, pk)   == base[pk] # NoRow /\ ~(SoftDelete /\ base[pk].deleted)

\* The text of extra_where is spliced in without parentheses, so that "AND NOT
\* EXISTS ..." goes with the right operand of an OR only.
SourceShows(base, source, pk) ==
  \/ SourceRow(source, pk) \in ExtraWhereOr
  \/ SourceRow(source, pk) \in ExtraWhere /\ ~Shadowed(base, pk)

\* A row of the view carries the branch it came from, which is also what tells
\* apart two rows with one id.
View(base, source) ==
  {[origin |-> "base", pk |-> p, row |-> base[p].row] :
      p \in {q \in PK : BaseShows(base, q)}}
  \cup
  {[origin |-> "source", pk |-> p, row |-> SourceRow(source, p)] :
      p \in {q \in PK : SourceShows(base, source, q)}}

Visible(base, source, pk) == BaseShows(base, pk) \/ SourceShows(base, source, pk)

-----------------------------------------------------------------------------
(* What the queryset computes without going through the view.              *)

\* The tempting index-only count, which an override of a dropped row breaks.
MutantDecomposedCount(base, source) ==
  Cardinality({p \in PK : BaseShows(base, p)})
  + Cardinality({v \in VendorId : source[v] \in ExtraWhere})
  - Cardinality({p \in PK : base[p] # NoRow})

\* count(): each branch counted on its own, the source one behind a NOT EXISTS
\* on the whole base table whatever anti-join the view itself has.
DecomposedCount(base, source) ==
  Cardinality({p \in PK : BaseShows(base, p)})
  + Cardinality({v \in VendorId :
                   \/ source[v] \in ExtraWhereOr
                   \/ source[v] \in ExtraWhere /\ base[ViewPk(v)] = NoRow})
=============================================================================
