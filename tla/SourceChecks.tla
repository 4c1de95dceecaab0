----------------------------- MODULE SourceChecks -----------------------------
(***************************************************************************)
(* The preflight of a source swap: what it asks of the candidate's shape   *)
(* and of the rows, and the report it makes.  A source table is what the   *)
(* catalogue and the rows say of it; a report is a set of findings, each a *)
(* code and a level, the sentences left out.                               *)
(***************************************************************************)
EXTENDS OverlayConstraints

CONSTANTS
  Type,         \* column types, as format_type() writes them
  Missing,      \* marks a column the table does not have
  NeedsIndex,   \* columns the model's own triggers and joins look up
  MinRowPercent,\* min_row_ratio
  Child, NoPk   \* rows of the referencing model; a NULL reference

Ref  == PK \cup {NoPk}
Rows == [VendorId -> Row \cup {NoRow}]

Table ==
  [exists     : BOOLEAN,
   type       : [Column -> Type \cup {Missing}],
   leads      : SUBSET Column,        \* the columns an index leads with
   partitions : {"none", "parent", "unattached"},
   estimate   : Int,                  \* reltuples, -1 before any ANALYZE
   resolves   : BOOLEAN,              \* whether extra_where makes sense of it
   rows       : Rows]

Err(c)  == [code |-> c, level |-> "error"]
Warn(c) == [code |-> c, level |-> "warning"]
If(condition, finding) == IF condition THEN {finding} ELSE {}

Errors(report) == {f \in report : f.level = "error"}
Ok(report)     == Errors(report) = {}

\* An allowed finding is downgraded, not hidden.
Allow(report, allowed) ==
  {IF f.level = "error" /\ f.code \in allowed THEN Warn(f.code) ELSE f : f \in report}

-----------------------------------------------------------------------------
(* The shape of the candidate                                              *)

CheckColumns(current, candidate) ==
  If(\E c \in Column :
       \/ candidate.type[c] = Missing
       \/ current.type[c] # Missing /\ current.type[c] # candidate.type[c],
     Err("S002"))

CheckIndexes(current, candidate) ==
  If(current.leads \ candidate.leads # {}, Warn("S010"))
  \cup If(NeedsIndex \ candidate.leads # {}, Warn("S011"))

CheckPartitions(candidate) ==
  If((PartitionKey # {}) # (candidate.partitions # "none")
     \/ candidate.partitions = "unattached", Warn("S012"))

Estimated(table) == IF table.estimate < 0 THEN 0 ELSE table.estimate

CheckRowEstimate(current, candidate) ==
  IF candidate.estimate < 0 THEN {Warn("S015")}
  ELSE IF candidate.estimate = 0 THEN {Err("S013")}
  ELSE If(candidate.estimate * 100 < Estimated(current) * MinRowPercent, Warn("S013"))

CheckExtraWhere(candidate) == If(ExtraWhere # Row /\ ~candidate.resolves, Err("S014"))

ShapeFindings(current, candidate) ==
  CheckColumns(current, candidate) \cup CheckIndexes(current, candidate)
  \cup CheckPartitions(candidate) \cup CheckRowEstimate(current, candidate)
  \cup CheckExtraWhere(candidate)

-----------------------------------------------------------------------------
(* The rows.  rows and cand are the current and the candidate's; a row     *)
(* that extra_where leaves out is not there.                               *)

There(rows, v) == rows[v] \in ExtraWhere

\* Two rows that agree on the natural key, no part of it NULL.
SameEntity(identity, r, q) == \A c \in identity : r[c] # Null /\ r[c] = q[c]

Reassigned(identity, rows, cand) ==
  \E v \in VendorId :
    /\ There(rows, v) /\ There(cand, v)
    /\ \E c \in identity : rows[v][c] # cand[v][c]

Renumbered(identity, rows, cand) ==
  \E v, w \in VendorId :
    v # w /\ There(rows, v) /\ There(cand, w) /\ SameEntity(identity, rows[v], cand[w])

MutantCheckIdentity(identity, rows, cand) ==   \* each id on its own
  IF identity = {} THEN {Warn("S005")}
  ELSE If(Reassigned(identity, rows, cand), Err("S003"))

CheckIdentity(identity, rows, cand) ==
  IF identity = {} THEN {Warn("S005")}
  ELSE If(Reassigned(identity, rows, cand), Err("S003"))
       \cup If(Renumbered(identity, rows, cand), Err("S004"))

CheckOrphaned(base, rows, cand) ==
  If(\E p \in PK : /\ base[p] # NoRow /\ SourceRow(rows, p) \in ExtraWhere
                   /\ SourceRow(cand, p) \notin ExtraWhere,
     Warn("S006"))

\* The insert side's question, of every reference there is.
Dangling(base, refs, rows) ==
  {c \in Child : refs[c] # NoPk /\ ~TargetExists(base, rows, refs[c])}

CheckDangling(base, refs, rows, cand) ==
  LET after  == Cardinality(Dangling(base, refs, cand))
      before == Cardinality(Dangling(base, refs, rows))
  IN  If(after > 0, IF after > before THEN Err("S007") ELSE Warn("S007"))

\* The uniqueness trigger's question, of every base row there is.
Collisions(base, cand) ==
  {p \in PK : /\ base[p] # NoRow /\ ~(SoftDelete /\ base[p].deleted)
              /\ \E v \in VendorId \ {SourcePk(p)} :
                    Reserves(base, cand, v, base[p].row)}

\* Values the source itself holds twice.
Duplicates(rows) ==
  {Key(rows[v]) : v \in {w \in VendorId : There(rows, w) /\
     \E x \in VendorId \ {w} : There(rows, x) /\ Same(rows[w], rows[x])}}

CheckUniqueness(base, rows, cand) ==
  LET after  == Cardinality(Duplicates(cand))
      before == Cardinality(Duplicates(rows))
  IN  If(Collisions(base, cand) # {}, Err("S009"))
      \cup If(after > 0, IF after > before THEN Err("S008") ELSE Warn("S008"))

RowFindings(base, refs, identity, rows, cand) ==
  CheckIdentity(identity, rows, cand) \cup CheckOrphaned(base, rows, cand)
  \cup CheckDangling(base, refs, rows, cand) \cup CheckUniqueness(base, rows, cand)

-----------------------------------------------------------------------------
(* The two reports a swap makes                                            *)

\* identity_columns may name a field the model does not have.
Resolved(identity) == identity \cap Column
CheckNames(identity) == If(identity \ Column # {}, Err("S016"))

Recheck(base, refs, identity, current, candidate) ==
  CheckNames(identity)
  \cup IF ~current.exists \/ ~candidate.exists THEN {Err("S001")}
       ELSE RowFindings(base, refs, Resolved(identity), current.rows, candidate.rows)

\* A shape that is wrong, or a name that is, leaves the rows unchecked.
Preflight(base, refs, identity, current, candidate) ==
  LET shape == CheckNames(identity) \cup ShapeFindings(current, candidate) IN
  IF ~current.exists \/ ~candidate.exists THEN CheckNames(identity) \cup {Err("S001")}
  ELSE IF Errors(shape) # {} THEN shape \cup {Warn("S000")}
  ELSE shape \cup Recheck(base, refs, identity, current, candidate)
=============================================================================
