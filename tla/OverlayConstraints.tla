------------------------- MODULE OverlayConstraints -------------------------
(***************************************************************************)
(* What one OverlayUniqueConstraint and one OverlayForeignKey mean, as     *)
(* operators on a base table and a source: the terms the triggers ask one  *)
(* row at a time and a swap asks of all rows at once.                      *)
(***************************************************************************)
EXTENDS OverlayRows

CONSTANTS
  Unique,   \* the unique constraint's columns
  Null      \* the value that conflicts with nothing

ASSUME ConstraintsAssumption == Unique \subseteq Column /\ Unique # {}

Live(r) == [row |-> r, deleted |-> FALSE]

-----------------------------------------------------------------------------
(* Uniqueness: a partial index on the base table, a probe of the source.   *)

Key(r)     == [c \in Unique |-> r[c]]
HasKey(r)  == \A c \in Unique : r[c] # Null
Same(r, q) == HasKey(r) /\ Key(r) = Key(q)

\* SOFT_DELETE_CONDITION: the index leaves tombstones out.
Indexed(b) == b # NoRow /\ ~(SoftDelete /\ b.deleted)

MutantReserves(base, source, v, r) ==   \* a tombstone's vendor row included
  /\ source[v] \in ExtraWhere
  /\ Same(r, source[v])

\* A vendor row holds the value, unless a tombstone masks it.
Reserves(base, source, v, r) ==
  /\ source[v] \in ExtraWhere
  /\ Same(r, source[v])
  /\ ~(SoftDelete /\ IsTombstone(base, ViewPk(v)))

-----------------------------------------------------------------------------
(* References: what an OverlayForeignKey's insert side looks for.          *)

\* In the base table, or in the source and not masked by a tombstone.
TargetExists(base, source, p) ==
  \/ BaseShows(base, p)
  \/ /\ SourceRow(source, p) \in ExtraWhere
     /\ ~(SoftDelete /\ IsTombstone(base, p))
=============================================================================
