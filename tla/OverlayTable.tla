----------------------------- MODULE OverlayTable -----------------------------
(***************************************************************************)
(* One overlay model used by one session at a time: every write that       *)
(* reaches its tables, as one action per trigger body or queryset method.  *)
(* A statement that raises is rolled back, so it is no action at all; the  *)
(* one exception is the sequence, which a failed insert does not rewind.   *)
(***************************************************************************)
EXTENDS OverlayRows

CONSTANT Expression  \* what an F() update can compute: functions on rows

ASSUME ExpressionAssumption == Expression \subseteq [Row -> Row]

VARIABLES
  base,     \* the base table
  source,   \* the vendor's table, read-only for everything but the vendor
  nextval   \* the next id of the base table's sequence

vars == <<base, source, nextval>>

MutantSequenceStep == IF Descending THEN 1 ELSE -1   \* the wrong way

SequenceStep == IF Descending THEN -1 ELSE 1

Init ==
  /\ base = [p \in PK |-> NoRow]
  /\ source \in [VendorId -> Row \cup {NoRow}]
  /\ nextval = SequenceStep

-----------------------------------------------------------------------------
(* INSTEAD OF INSERT                                                       *)

Live(r) == [row |-> r, deleted |-> FALSE]

\* The check a non-overridable model makes of an id the caller supplied.
MutantInsertRefused(p, r) == FALSE   \* the collision check left out

InsertRefused(p, r) == ~Overridable /\ SourceProbe(source, p, r)

InsertWithPk(p, r) ==
  /\ ~InsertRefused(p, r)
  /\ base[p] = NoRow          \* otherwise the base table's primary key raises
  /\ base' = [base EXCEPT ![p] = Live(r)]
  /\ UNCHANGED <<source, nextval>>

\* The id comes from the sequence; PK bounds how far it can count.
InsertWithoutPk(r) ==
  /\ Strategy \in IntegerStrategies
  /\ nextval \in PK
  /\ nextval' = nextval + SequenceStep
  /\ base' = IF base[nextval] = NoRow
             THEN [base EXCEPT ![nextval] = Live(r)]
             ELSE base        \* the primary key raises, the sequence stays put
  /\ UNCHANGED source

-----------------------------------------------------------------------------
(* INSTEAD OF UPDATE: old is the row of the view, new what it should be.   *)

Merge(old, new, current) ==
  [c \in Column |-> IF new[c] # old.row[c] THEN new[c] ELSE current[c]]

MutantUpdateRefused(old) == FALSE   \* copies a non-overridable row up too

\* A non-overridable model's source-backed row raises.
UpdateRefused(old) == base[old.pk] = NoRow /\ ~Overridable

MutantAfterUpdate(old, new) ==   \* copies up, never applies the edit
  IF base[old.pk] # NoRow
  THEN [base EXCEPT ![old.pk].row = Merge(old, new, @)]
  ELSE [base EXCEPT ![old.pk] = Live(old.row)]

AfterUpdate(old, new) ==
  IF base[old.pk] # NoRow
  THEN [base EXCEPT ![old.pk].row = Merge(old, new, @)]
  ELSE [base EXCEPT ![old.pk] = Live(Merge(old, new, old.row))]

InsteadOfUpdate(old, new) ==
  /\ ~UpdateRefused(old)
  /\ base' = AfterUpdate(old, new)
  /\ UNCHANGED <<source, nextval>>

-----------------------------------------------------------------------------
(* INSTEAD OF DELETE                                                       *)

WithoutRow(p) == [base EXCEPT ![p] = NoRow]

MutantWithTombstone(old) ==   \* flags a row, never inserts a flagged one
  IF base[old.pk] = NoRow THEN base ELSE [base EXCEPT ![old.pk].deleted = TRUE]

MutantBareTombstone(old) ==   \* inserts the flag without the row's columns
  [base EXCEPT ![old.pk] =
     [row |-> IF @ = NoRow THEN NoRow ELSE @.row, deleted |-> TRUE]]

WithTombstone(old) ==
  [base EXCEPT ![old.pk] =
     [row |-> IF @ = NoRow THEN old.row ELSE @.row, deleted |-> TRUE]]

MutantAfterDelete(old) == WithTombstone(old)   \* flags every row, of any model

AfterDelete(old) ==
  IF SoftDelete /\ SourceProbe(source, old.pk, old.row)
  THEN WithTombstone(old)
  ELSE WithoutRow(old.pk)

InsteadOfDelete(old) ==
  /\ base' = AfterDelete(old)
  /\ UNCHANGED <<source, nextval>>

\* OverlayModel.reset_to_source(), callable on any instance still in memory.
ResetToSource(p) ==
  /\ base' = WithoutRow(p)
  /\ UNCHANGED <<source, nextval>>

-----------------------------------------------------------------------------
(* The queryset methods that write to the base table without a trigger.    *)

MutantCopyMatchedRows(S) ==   \* overwrites what is already there
  [p \in PK |-> IF p \in S /\ SourceRow(source, p) \in ExtraWhere
                THEN Live(SourceRow(source, p)) ELSE base[p]]

\* INSERT ... SELECT from the view, ON CONFLICT DO NOTHING.
CopyMatchedRows(S) ==
  [p \in PK |->
     IF p \in S /\ base[p] = NoRow /\ SourceShows(base, source, p)
     THEN Live(SourceRow(source, p))
     ELSE base[p]]

Materialize(S) ==
  /\ base' = CopyMatchedRows(S)
  /\ UNCHANGED <<source, nextval>>

\* update() and save() with an expression that reads its own row: copy, then
\* update what the queryset still matches, in the base table.
UpdateWithExpression(S, f) ==
  LET copied  == CopyMatchedRows(S)
      matched == {p \in S : copied[p] # NoRow /\ Visible(copied, source, p)}
  IN  /\ base' = [p \in PK |->
                    IF p \in matched THEN [copied[p] EXCEPT !.row = f[@]]
                    ELSE copied[p]]
      /\ UNCHANGED <<source, nextval>>

-----------------------------------------------------------------------------
\* The vendor adds, changes or drops a row.
VendorPublish(v, r) ==
  /\ r # source[v]
  /\ source' = [source EXCEPT ![v] = r]
  /\ UNCHANGED <<base, nextval>>

TriggerWrite ==
  \/ \E p \in PK, r \in Row : InsertWithPk(p, r)
  \/ \E r \in Row : InsertWithoutPk(r)
  \/ \E old \in View(base, source) :
       \/ \E new \in Row : InsteadOfUpdate(old, new)
       \/ InsteadOfDelete(old)
  \/ \E p \in PK : ResetToSource(p)

DirectWrite ==
  \E S \in SUBSET PK :
    \/ Materialize(S)
    \/ \E f \in Expression : UpdateWithExpression(S, f)

VendorWrite == \E v \in VendorId, r \in Row \cup {NoRow} : VendorPublish(v, r)

Next == TriggerWrite \/ DirectWrite \/ VendorWrite

Spec == Init /\ [][Next]_vars

\* The writes a non-overridable model is built for: through the view only, and
\* a vendor that does not start using an id the tenant's base table holds.
VendorKeepsOffTenantIds ==
  \E v \in VendorId, r \in Row \cup {NoRow} :
    /\ source[v] = NoRow => ~BaseShows(base, ViewPk(v))
    /\ VendorPublish(v, r)

TriggerSpec == Init /\ [][TriggerWrite \/ VendorKeepsOffTenantIds]_vars

-----------------------------------------------------------------------------
(* Properties                                                              *)

\* Every base row is a row of the model with or without a tombstone's flag,
\* and a model that hard-deletes has no flag to set.
TypeOK ==
  /\ base \in [PK -> BaseRow \cup {NoRow}]
  /\ source \in [VendorId -> Row \cup {NoRow}]
  /\ nextval \in Int
  /\ ~SoftDelete => \A p \in PK : ~IsTombstone(base, p)

\* The view never returns one id twice.  For an overridable model this is the
\* anti-join's doing, for the others the triggers' (view.sql.j2:49-57).
NoIdTwice ==
  \A x, y \in View(base, source) : x.pk = y.pk => x = y

\* count() answers without querying the view, and "counts exactly the rows the
\* view would have returned" (queryset.py:611-613).
CountIsExact ==
  DecomposedCount(base, source) = Cardinality(View(base, source))

\* A non-overridable model never holds a live copy of a vendor's row, which is
\* what lets its view do without the full anti-join (instead_of_insert.sql.j2:4-9,
\* instead_of_update.sql.j2:55-60).
NothingMaterialised ==
  \A p \in PK : BaseShows(base, p) => SourceRow(source, p) = NoRow

\* The sequence never hands out an id that stands for a vendor row, whatever
\* ids callers chose for themselves before (strategies.py:11-12, IDS.md).
GeneratedIdIsOrganic ==
  [][nextval' # nextval => SourceRow(source, nextval) = NoRow]_vars

\* A row is flagged rather than deleted only where the flag masks something
\* (instead_of_delete_soft.sql.j2:4-16).
TombstonesMask ==
  [][\A p \in PK : IsTombstone(base', p) /\ ~IsTombstone(base, p)
                     => SourceRow(source, p) # NoRow]_vars

\* With soft delete a row deleted through the view is gone from it
\* (DELETION.md:3-4), whatever was done to the row before.
DeletedIsGone ==
  SoftDelete => \A old \in View(base, source) :
                  ~Visible(AfterDelete(old), source, old.pk)

\* An UPDATE of a row of the view leaves the view showing the row it asked for,
\* the copy-up in two statements included (instead_of_update.sql.j2:16-20).
UpdateLands ==
  \A old \in View(base, source), new \in Row :
    ~UpdateRefused(old) =>
      \E x \in View(AfterUpdate(old, new), source) : x.pk = old.pk /\ x.row = new

\* What the tenant sees, the vendor's offer and the ids taken over, as the
\* ordinary table of TenantTable.
Seen(b, s) ==
  [p \in PK |-> IF BaseShows(b, p) THEN b[p].row
                ELSE IF SourceShows(b, s, p) THEN SourceRow(s, p) ELSE NoRow]
Offered(s) ==
  [p \in PK |-> IF SourceRow(s, p) \in ExtraWhere THEN SourceRow(s, p) ELSE NoRow]
Owned(b) == {p \in PK : b[p] # NoRow}

Tenant == INSTANCE TenantTable
            WITH rows <- Seen(base, source), vendor <- Offered(source),
                 owned <- Owned(base)

\* An overridable model is one ordinary table to its tenant: edits win over the
\* vendor's changes, deleted rows stay deleted, and everything else follows
\* the vendor (DELETION.md, ARCHITECTURE.md).
ImplementsTenantTable == Tenant!Spec
=============================================================================
