-------------------------- MODULE OverlayTableProofs --------------------------
(***************************************************************************)
(* Theorems about OverlayTable, for every set of ids, columns and values   *)
(* and every declaration of the model that RowsAssumption and              *)
(* SignAssumption admit.                                                   *)
(***************************************************************************)
EXTENDS OverlayTable, TLAPS, FiniteSetTheorems, FunctionTheorems

-----------------------------------------------------------------------------
(* Lookups                                                                 *)

\* A lookup in the source table yields a row or the marker.
LEMMA SourceRowType ==
  ASSUME TypeOK, NEW p
  PROVE  SourceRow(source, p) \in Row \cup {NoRow}
BY DEF TypeOK, SourceRow

\* A view id maps back to the vendor's, and the vendor's to the view's.
LEMMA PkRoundTrip ==
  /\ \A v \in VendorId : ViewPk(v) \in PK /\ SourcePk(ViewPk(v)) = v
  /\ \A p \in PK : ViewPk(SourcePk(p)) = p
BY RowsAssumption DEF ViewPk, SourcePk

\* What shows a row under an id is a row.
LEMMA ShownRow ==
  ASSUME TypeOK, NEW p \in PK
  PROVE  /\ BaseShows(base, p) => base[p] \in BaseRow /\ base[p].row \in Row
         /\ SourceShows(base, source, p) =>
              SourceRow(source, p) \in Row /\ SourceRow(source, p) # NoRow
BY RowsAssumption DEF TypeOK, BaseShows, SourceShows, BaseRow

\* A row of the view has an id of the model and is what one branch shows for it.
LEMMA ViewEntry ==
  ASSUME TypeOK, NEW x \in View(base, source)
  PROVE  /\ x.pk \in PK /\ x.row \in Row
         /\ \/ BaseShows(base, x.pk) /\ x.row = base[x.pk].row
            \/ SourceShows(base, source, x.pk) /\ x.row = SourceRow(source, x.pk)
<1>1. CASE x \in {[origin |-> "base", pk |-> p, row |-> base[p].row] :
                    p \in {q \in PK : BaseShows(base, q)}}
  BY <1>1, ShownRow
<1>2. CASE x \in {[origin |-> "source", pk |-> p, row |-> SourceRow(source, p)] :
                    p \in {q \in PK : SourceShows(base, source, q)}}
  BY <1>2, ShownRow
<1> QED
  BY <1>1, <1>2 DEF View

-----------------------------------------------------------------------------
(* Type correctness                                                        *)

\* A new live row has the type of a base row, and so has a merged one.
LEMMA LiveType == \A r \in Row : Live(r) \in BaseRow /\ ~Live(r).deleted
BY DEF Live, BaseRow

\* An update merged into a row leaves a row.
LEMMA MergeType ==
  ASSUME NEW old, old.row \in Row, NEW new \in Row, NEW current \in Row
  PROVE  Merge(old, new, current) \in Row
BY DEF Merge, Row

\* Copying rows down puts live rows of the model in the base table.
LEMMA CopyType ==
  ASSUME TypeOK, NEW S
  PROVE  /\ CopyMatchedRows(S) \in [PK -> BaseRow \cup {NoRow}]
         /\ \A p \in PK : /\ base[p] # NoRow => CopyMatchedRows(S)[p] = base[p]
                          /\ \/ CopyMatchedRows(S)[p] = base[p]
                             \/ /\ CopyMatchedRows(S)[p] = Live(SourceRow(source, p))
                                /\ SourceRow(source, p) \in Row
BY ShownRow, LiveType DEF CopyMatchedRows, TypeOK

\* Every step keeps the types, and only a soft-deleting model sets a flag.
LEMMA TypeInductive ==
  /\ Init => TypeOK
  /\ TypeOK /\ [Next]_vars => TypeOK'
<1>1. Init => TypeOK
  BY DEF Init, TypeOK, IsTombstone, SequenceStep
<1>2. TypeOK /\ [Next]_vars => TypeOK'
  <2> SUFFICES ASSUME TypeOK, [Next]_vars PROVE TypeOK'
    OBVIOUS
  <2> USE RowsAssumption
  <2>1. ASSUME NEW p \in PK, NEW r \in Row, InsertWithPk(p, r) PROVE TypeOK'
    BY <2>1, LiveType DEF InsertWithPk, TypeOK, IsTombstone
  <2>2. ASSUME NEW r \in Row, InsertWithoutPk(r) PROVE TypeOK'
    BY <2>2, LiveType DEF InsertWithoutPk, TypeOK, IsTombstone, SequenceStep
  <2>3. ASSUME NEW old \in View(base, source), NEW new \in Row,
               InsteadOfUpdate(old, new)
        PROVE  TypeOK'
    <3>1. old.pk \in PK /\ old.row \in Row
      BY ViewEntry
    <3>2. CASE base[old.pk] # NoRow
      <4>1. base[old.pk] \in BaseRow
        BY <3>1, <3>2 DEF TypeOK
      <4>2. Merge(old, new, base[old.pk].row) \in Row
        BY <3>1, <4>1, MergeType DEF BaseRow
      <4>3. base' = [base EXCEPT ![old.pk].row =
                                    Merge(old, new, base[old.pk].row)]
        BY <2>3, <3>2 DEF InsteadOfUpdate, AfterUpdate, UpdateRefused
      <4> QED
        BY <2>3, <3>1, <4>1, <4>2, <4>3
        DEF InsteadOfUpdate, AfterUpdate, UpdateRefused, TypeOK, IsTombstone, BaseRow
    <3>3. CASE base[old.pk] = NoRow
      BY <2>3, <3>1, <3>3, MergeType, LiveType
      DEF InsteadOfUpdate, AfterUpdate, UpdateRefused, TypeOK, IsTombstone
    <3> QED
      BY <3>2, <3>3
  <2>4. ASSUME NEW old \in View(base, source), InsteadOfDelete(old)
        PROVE  TypeOK'
    <3>1. old.pk \in PK /\ old.row \in Row
      BY ViewEntry
    <3>2. CASE SoftDelete /\ SourceProbe(source, old.pk, old.row)
      <4>1. base' = [base EXCEPT ![old.pk] =
                       [row |-> IF base[old.pk] = NoRow THEN old.row
                                ELSE base[old.pk].row, deleted |-> TRUE]]
        BY <2>4, <3>2 DEF InsteadOfDelete, AfterDelete, WithTombstone
      <4>2. (IF base[old.pk] = NoRow THEN old.row ELSE base[old.pk].row) \in Row
        BY <3>1 DEF TypeOK, BaseRow
      <4>3. PICK t \in BaseRow : base' = [base EXCEPT ![old.pk] = t]
        BY <4>1, <4>2 DEF BaseRow
      <4> QED
        BY <2>4, <3>1, <3>2, <4>3 DEF InsteadOfDelete, AfterDelete, TypeOK
    <3>3. CASE ~(SoftDelete /\ SourceProbe(source, old.pk, old.row))
      BY <2>4, <3>1, <3>3 DEF InsteadOfDelete, AfterDelete, WithoutRow, TypeOK, IsTombstone
    <3> QED
      BY <3>2, <3>3
  <2>5. ASSUME NEW p \in PK, ResetToSource(p) PROVE TypeOK'
    BY <2>5 DEF ResetToSource, WithoutRow, TypeOK, IsTombstone
  <2>6. ASSUME NEW S \in SUBSET PK, Materialize(S) PROVE TypeOK'
    BY <2>6, CopyType, LiveType DEF Materialize, TypeOK, IsTombstone
  <2>7. ASSUME NEW S \in SUBSET PK, NEW f \in Expression,
               UpdateWithExpression(S, f)
        PROVE  TypeOK'
    <3> DEFINE copied  == CopyMatchedRows(S)
               matched == {p \in S : copied[p] # NoRow
                                     /\ Visible(copied, source, p)}
    <3>1. \A p \in PK : copied[p] \in BaseRow \cup {NoRow}
      BY CopyType
    <3>2. \A p \in PK : IsTombstone(copied, p) => SoftDelete
      BY CopyType, LiveType DEF TypeOK, IsTombstone
    <3>3. base' = [p \in PK |-> IF p \in matched
                                THEN [copied[p] EXCEPT !.row = f[@]]
                                ELSE copied[p]]
      BY <2>7 DEF UpdateWithExpression
    <3>4. \A p \in matched : [copied[p] EXCEPT !.row = f[@]] \in BaseRow
      <4>1. f \in [Row -> Row]
        BY ExpressionAssumption
      <4> QED
        BY <3>1, <4>1 DEF BaseRow
    <3>5. \A p \in matched :
            [copied[p] EXCEPT !.row = f[@]].deleted = copied[p].deleted
      BY <3>1 DEF BaseRow
    <3> HIDE DEF copied, matched
    <3>6. base' \in [PK -> BaseRow \cup {NoRow}]
      BY <3>1, <3>3, <3>4
    <3>7. \A p \in PK : IsTombstone(base', p) => SoftDelete
      BY <3>1, <3>2, <3>3, <3>5 DEF IsTombstone, matched
    <3> QED
      BY <2>7, <3>6, <3>7 DEF UpdateWithExpression, TypeOK, IsTombstone
  <2>8. ASSUME NEW v \in VendorId, NEW r \in Row \cup {NoRow},
               VendorPublish(v, r)
        PROVE  TypeOK'
    BY <2>8 DEF VendorPublish, TypeOK, IsTombstone
  <2>9. CASE UNCHANGED vars
    BY <2>9 DEF vars, TypeOK, IsTombstone
  <2> QED
    BY <2>1, <2>2, <2>3, <2>4, <2>5, <2>6, <2>7, <2>8, <2>9
    DEF Next, TriggerWrite, DirectWrite, VendorWrite
<1> QED
  BY <1>1, <1>2

\* The tables hold base rows and source rows in every reachable state.
THEOREM TypeCorrect == Spec => []TypeOK
BY TypeInductive, PTL DEF Spec

-----------------------------------------------------------------------------
(* The sequence stays on its side of zero, away from every vendor id       *)

SequenceSide == IF Descending THEN nextval <= -1 ELSE nextval >= 1

\* Only an insert without an id moves the sequence, and only one step outwards.
LEMMA SequenceMoves ==
  ASSUME TypeOK, [Next]_vars
  PROVE  \/ nextval' = nextval
         \/ /\ nextval' = nextval + SequenceStep
            /\ Strategy \in IntegerStrategies
            /\ nextval \in PK
BY DEF Next, TriggerWrite, DirectWrite, VendorWrite, InsertWithPk,
       InsertWithoutPk, InsteadOfUpdate, InsteadOfDelete, ResetToSource,
       Materialize, UpdateWithExpression, VendorPublish, vars

\* The sequence stays on its side of zero, zero excluded.
LEMMA SequenceInductive ==
  /\ Init => SequenceSide
  /\ TypeOK /\ SequenceSide /\ [Next]_vars => SequenceSide'
<1>1. Init => SequenceSide
  BY DEF Init, SequenceSide, SequenceStep
<1>2. ASSUME TypeOK, SequenceSide, [Next]_vars PROVE SequenceSide'
  BY <1>2, SequenceMoves DEF SequenceSide, SequenceStep, TypeOK
<1> QED
  BY <1>1, <1>2

\* No vendor row stands for an id the sequence can hand out.
LEMMA SequenceOffVendor ==
  ASSUME TypeOK, SequenceSide, Strategy \in IntegerStrategies
  PROVE  SourceRow(source, nextval) = NoRow
<1>1. ViewPk(SourcePk(nextval)) = nextval
  BY DEF ViewPk, SourcePk, TypeOK
<1>2. SourcePk(nextval) \notin VendorId
  BY <1>1, SignAssumption DEF SequenceSide, TypeOK
<1> QED
  BY <1>2 DEF SourceRow

\* No insert that takes its id from the sequence lands on a vendor's row, in
\* any history of explicit ids, overrides, deletes and vendor changes.
THEOREM SequenceSafe == Spec => GeneratedIdIsOrganic
<1>1. ASSUME TypeOK, SequenceSide, [Next]_vars
      PROVE  [nextval' # nextval => SourceRow(source, nextval) = NoRow]_vars
  BY <1>1, SequenceMoves, SequenceOffVendor
<1> QED
  BY <1>1, TypeInductive, SequenceInductive, PTL DEF Spec, GeneratedIdIsOrganic

-----------------------------------------------------------------------------
(* A non-overridable model written through its view                        *)

TriggerNext == TriggerWrite \/ VendorKeepsOffTenantIds

\* The two conditions under which the view has one row for each id.
LEMMA OneRowPerId ==
  ASSUME TypeOK,
         (Overridable /\ ExtraWhereOr = {}) \/ NothingMaterialised
  PROVE  NoIdTwice
<1>1. ASSUME NEW p \in PK, BaseShows(base, p), SourceShows(base, source, p)
      PROVE  FALSE
  <2>1. SourceRow(source, p) # NoRow
    BY <1>1, ShownRow
  <2>2. CASE Overridable /\ ExtraWhereOr = {}
    BY <1>1, <2>2 DEF BaseShows, SourceShows, Shadowed, AntiJoin
  <2>3. CASE NothingMaterialised
    BY <1>1, <2>1, <2>3 DEF NothingMaterialised
  <2> QED
    BY <2>2, <2>3
<1>2. ASSUME NEW x \in View(base, source), NEW y \in View(base, source),
             x.pk = y.pk
      PROVE  x = y
  <2>1. /\ x.pk \in PK
        /\ \/ BaseShows(base, x.pk)
              /\ x = [origin |-> "base", pk |-> x.pk, row |-> base[x.pk].row]
           \/ SourceShows(base, source, x.pk)
              /\ x = [origin |-> "source", pk |-> x.pk,
                      row |-> SourceRow(source, x.pk)]
    BY DEF View
  <2>2. /\ y.pk \in PK
        /\ \/ BaseShows(base, y.pk)
              /\ y = [origin |-> "base", pk |-> y.pk, row |-> base[y.pk].row]
           \/ SourceShows(base, source, y.pk)
              /\ y = [origin |-> "source", pk |-> y.pk,
                      row |-> SourceRow(source, y.pk)]
    BY DEF View
  <2> QED
    BY <1>1, <1>2, <2>1, <2>2
<1> QED
  BY <1>2 DEF NoIdTwice

\* Inductive together with the types and the side the sequence is on: the
\* inserts keep off the vendor's ids by their check or by the sequence, the
\* update refuses to copy up, and the delete only flags or removes.
LEMMA NothingMaterialisedInductive ==
  ASSUME ~Overridable, PartitionKey = {}
  PROVE  /\ Init => NothingMaterialised
         /\ TypeOK /\ SequenceSide /\ NothingMaterialised /\ [TriggerNext]_vars
              => NothingMaterialised'
<1>1. Init => NothingMaterialised
  BY DEF Init, NothingMaterialised, BaseShows
<1>2. ASSUME TypeOK, SequenceSide, NothingMaterialised, [TriggerNext]_vars
      PROVE  NothingMaterialised'
  <2> USE <1>2, RowsAssumption
  <2>1. ASSUME NEW p \in PK, NEW r \in Row, InsertWithPk(p, r)
        PROVE  NothingMaterialised'
    <3>1. SourceRow(source, p) = NoRow
      BY <2>1 DEF InsertWithPk, InsertRefused, SourceProbe, SamePartition
    <3> QED
      BY <2>1, <3>1 DEF InsertWithPk, NothingMaterialised, BaseShows, TypeOK,
                        SourceRow
  <2>2. ASSUME NEW r \in Row, InsertWithoutPk(r) PROVE NothingMaterialised'
    <3>1. SourceRow(source, nextval) = NoRow
      BY <2>2, SequenceOffVendor DEF InsertWithoutPk
    <3> QED
      BY <2>2, <3>1 DEF InsertWithoutPk, NothingMaterialised, BaseShows,
                        TypeOK, SourceRow
  <2>3. ASSUME NEW old \in View(base, source), NEW new \in Row,
               InsteadOfUpdate(old, new)
        PROVE  NothingMaterialised'
    <3>1. old.pk \in PK /\ base[old.pk] # NoRow
      BY <2>3, ViewEntry DEF InsteadOfUpdate, AfterUpdate, UpdateRefused
    <3>2. base[old.pk] \in BaseRow
      BY <3>1 DEF TypeOK
    <3>3. \A p \in PK : BaseShows(base', p) => BaseShows(base, p)
      BY <2>3, <3>1, <3>2 DEF InsteadOfUpdate, AfterUpdate, UpdateRefused, BaseShows, TypeOK, BaseRow
    <3> QED
      BY <2>3, <3>3 DEF InsteadOfUpdate, AfterUpdate, UpdateRefused, NothingMaterialised, SourceRow
  <2>4. ASSUME NEW old \in View(base, source), InsteadOfDelete(old)
        PROVE  NothingMaterialised'
    <3>1. old.pk \in PK
      BY ViewEntry
    <3>2. \A p \in PK : BaseShows(base', p) => BaseShows(base, p)
      BY <2>4, <3>1 DEF InsteadOfDelete, AfterDelete, WithTombstone, WithoutRow, BaseShows,
                        TypeOK
    <3> QED
      BY <2>4, <3>2 DEF InsteadOfDelete, AfterDelete, NothingMaterialised, SourceRow
  <2>5. ASSUME NEW p \in PK, ResetToSource(p) PROVE NothingMaterialised'
    BY <2>5 DEF ResetToSource, WithoutRow, NothingMaterialised, BaseShows,
                TypeOK, SourceRow
  <2>6. ASSUME NEW v \in VendorId, NEW r \in Row \cup {NoRow},
               source[v] = NoRow => ~BaseShows(base, ViewPk(v)),
               VendorPublish(v, r)
        PROVE  NothingMaterialised'
    <3>1. ASSUME NEW p \in PK, BaseShows(base', p)
          PROVE  SourceRow(source', p) = NoRow
      <4>1. BaseShows(base, p) /\ SourceRow(source, p) = NoRow
        BY <2>6, <3>1 DEF VendorPublish, NothingMaterialised, BaseShows
      <4>2. CASE SourcePk(p) = v
        <5>1. source[v] = NoRow /\ ViewPk(v) = p
          BY <4>1, <4>2, PkRoundTrip DEF SourceRow
        <5> QED
          BY <2>6, <4>1, <5>1
      <4>3. CASE SourcePk(p) # v
        BY <2>6, <4>1, <4>3 DEF VendorPublish, SourceRow, TypeOK
      <4> QED
        BY <4>2, <4>3
    <3> QED
      BY <3>1 DEF NothingMaterialised
  <2>7. CASE UNCHANGED vars
    BY <2>7 DEF vars, NothingMaterialised, BaseShows, SourceRow
  <2> QED
    BY <2>1, <2>2, <2>3, <2>4, <2>5, <2>6, <2>7
    DEF TriggerNext, TriggerWrite, VendorKeepsOffTenantIds
<1> QED
  BY <1>1, <1>2

\* Writing through the view only is a restriction of Next.
LEMMA TriggerNextIsNext == [TriggerNext]_vars => [Next]_vars
BY DEF TriggerNext, Next, VendorKeepsOffTenantIds, VendorWrite

\* The base table of a non-overridable model never comes to hold a live copy of
\* a vendor row, as long as it is written through the view.
THEOREM TriggersMaterialiseNothing ==
  ASSUME ~Overridable, PartitionKey = {}
  PROVE  TriggerSpec => []NothingMaterialised
<1>1. Init => NothingMaterialised
  BY NothingMaterialisedInductive
<1>2. TypeOK /\ SequenceSide /\ NothingMaterialised /\ [TriggerNext]_vars
        => NothingMaterialised'
  BY NothingMaterialisedInductive
<1> QED
  BY <1>1, <1>2, TypeInductive, SequenceInductive, TriggerNextIsNext, PTL
  DEF TriggerSpec, TriggerNext

\* So its view needs no more than the tombstones' anti-join to return each id
\* once.
THEOREM CheapViewIsExact ==
  ASSUME ~Overridable, PartitionKey = {}
  PROVE  TriggerSpec => []NoIdTwice
<1>1. TriggerSpec => []TypeOK
  BY TypeInductive, TriggerNextIsNext, PTL DEF TriggerSpec, TriggerNext
<1>2. TypeOK /\ NothingMaterialised => NoIdTwice
  BY OneRowPerId
<1> QED
  BY <1>1, <1>2, TriggersMaterialiseNothing, PTL

\* With overrides the full anti-join does it, as long as the condition it is
\* spliced behind has no top-level OR.
THEOREM FullAntiJoinIsExact ==
  ASSUME Overridable, ExtraWhereOr = {}
  PROVE  Spec => []NoIdTwice
<1>1. TypeOK => NoIdTwice
  BY OneRowPerId
<1> QED
  BY <1>1, TypeCorrect, PTL

-----------------------------------------------------------------------------
(* What one statement on a row of the view does to it.                     *)

\* A row the view shows is either the base row of its id, or there is no base
\* row: what decides whether the update trigger copies up.
LEMMA ShownFromBase ==
  ASSUME TypeOK, NoIdTwice, ExtraWhereOr = {}, NEW old \in View(base, source),
         base[old.pk] # NoRow
  PROVE  BaseShows(base, old.pk) /\ old.row = base[old.pk].row
<1>1. old.pk \in PK
  BY ViewEntry
<1>2. CASE old.origin = "base"
  BY <1>2 DEF View
<1>3. CASE old.origin = "source"
  <2>1. SourceShows(base, source, old.pk)
    BY <1>3 DEF View
  <2>2. BaseShows(base, old.pk)
    BY <1>1, <2>1 DEF SourceShows, Shadowed, AntiJoin, BaseShows, IsTombstone
  <2> DEFINE twin == [origin |-> "base", pk |-> old.pk, row |-> base[old.pk].row]
  <2>3. twin \in View(base, source) /\ twin.pk = old.pk /\ twin # old
    BY <1>1, <1>3, <2>2 DEF View
  <2> QED
    BY <2>3 DEF NoIdTwice
<1> QED
  BY <1>2, <1>3 DEF View

\* Where no id shows twice, an update lands.
LEMMA UpdateLandsHere ==
  ASSUME TypeOK, NoIdTwice, ExtraWhereOr = {}
  PROVE  UpdateLands
<1>1. SUFFICES ASSUME NEW old \in View(base, source), NEW new \in Row
               PROVE  \E x \in View(AfterUpdate(old, new), source) :
                        x.pk = old.pk /\ x.row = new
  BY DEF UpdateLands
<1> DEFINE p == old.pk
           after == AfterUpdate(old, new)
           x == [origin |-> "base", pk |-> p, row |-> after[p].row]
<1>2. p \in PK /\ old.row \in Row
  BY ViewEntry
<1>3. after[p] # NoRow /\ after[p].row = new /\ ~(SoftDelete /\ after[p].deleted)
  <2>1. Merge(old, new, old.row) = new
    BY <1>2 DEF Merge, Row
  <2>2. CASE base[p] = NoRow
    <3>1. after[p] = Live(new)
      BY <1>2, <2>1, <2>2 DEF AfterUpdate, TypeOK
    <3>2. Live(new) # NoRow
      BY LiveType, RowsAssumption
    <3> QED
      BY <3>1, <3>2 DEF Live
  <2>3. CASE base[p] # NoRow
    <3>1. /\ base[p] \in BaseRow /\ base[p].row = old.row
          /\ ~(SoftDelete /\ base[p].deleted)
      BY <1>2, <2>3, ShownFromBase DEF TypeOK, BaseShows
    <3>2. after[p] = [base[p] EXCEPT !.row = new]
      BY <1>2, <2>1, <2>3, <3>1 DEF AfterUpdate, TypeOK
    <3>3. [base[p] EXCEPT !.row = new] \in BaseRow
      BY <3>1 DEF BaseRow
    <3> QED
      BY <3>1, <3>2, <3>3, RowsAssumption DEF BaseRow
  <2> QED
    BY <2>2, <2>3
<1>4. x \in View(after, source)
  BY <1>2, <1>3 DEF View, BaseShows
<1> QED
  BY <1>3, <1>4

\* An update of an overridable model's row always lands, copied up or not.
THEOREM UpdatesLand ==
  ASSUME Overridable, ExtraWhereOr = {}
  PROVE  Spec => []UpdateLands
<1>1. TypeOK /\ NoIdTwice => UpdateLands
  BY UpdateLandsHere
<1> QED
  BY <1>1, TypeCorrect, FullAntiJoinIsExact, PTL

\* Where the source is probed by its id alone, and the anti-join applies to all
\* of extra_where, a soft delete hides the row it was given, whichever branch
\* showed it and whatever anti-join the view has.
THEOREM DeletesHide ==
  ASSUME ExtraWhereOr = {}, PartitionKey = {}
  PROVE  Spec => []DeletedIsGone
<1>1. ASSUME TypeOK, SoftDelete, NEW old \in View(base, source)
      PROVE  ~Visible(AfterDelete(old), source, old.pk)
  <2> DEFINE p == old.pk
             after == AfterDelete(old)
  <2>1. p \in PK
    BY <1>1, ViewEntry
  <2>2. CASE SourceRow(source, p) = NoRow
    <3>1. after[p] = NoRow
      BY <1>1, <2>1, <2>2 DEF AfterDelete, SourceProbe, WithoutRow, TypeOK
    <3> QED
      BY <2>2, <3>1, RowsAssumption DEF Visible, BaseShows, SourceShows
  <2>3. CASE SourceRow(source, p) # NoRow
    <3>1. (IF base[p] = NoRow THEN old.row ELSE base[p].row) \in Row
      BY <1>1, <2>1, ViewEntry DEF TypeOK, BaseRow
    <3>2. PICK t \in BaseRow : t.deleted /\ after = [base EXCEPT ![p] = t]
      <4>1. after = [base EXCEPT ![p] =
                       [row |-> IF base[p] = NoRow THEN old.row ELSE base[p].row,
                        deleted |-> TRUE]]
        BY <1>1, <2>1, <2>3
        DEF AfterDelete, SourceProbe, SamePartition, WithTombstone, TypeOK
      <4> QED
        BY <3>1, <4>1 DEF BaseRow
    <3>3. after[p] # NoRow /\ after[p].deleted
      BY <1>1, <2>1, <3>2, RowsAssumption DEF TypeOK
    <3> QED
      BY <1>1, <3>3
      DEF Visible, BaseShows, SourceShows, Shadowed, AntiJoin, IsTombstone
  <2> QED
    BY <2>2, <2>3
<1>2. TypeOK => DeletedIsGone
  BY <1>1 DEF DeletedIsGone
<1> QED
  BY <1>2, TypeCorrect, PTL
-----------------------------------------------------------------------------
(* count() without the view                                                *)

\* An id is shown by the source branch exactly where count()'s own NOT EXISTS,
\* on the whole base table, lets it through: with a full anti-join because it is
\* the same condition, with a cheaper one because no live copy is there.
LEMMA SameSourceRows ==
  ASSUME TypeOK, Overridable \/ NothingMaterialised, NEW p \in PK
  PROVE  SourceShows(base, source, p) <=>
           /\ SourcePk(p) \in VendorId
           /\ \/ source[SourcePk(p)] \in ExtraWhereOr
              \/ source[SourcePk(p)] \in ExtraWhere /\ base[p] = NoRow
<1>1. NoRow \notin ExtraWhere /\ NoRow \notin ExtraWhereOr
  BY RowsAssumption
<1>2. SourcePk(p) \notin VendorId => ~SourceShows(base, source, p)
  BY <1>1 DEF SourceShows, SourceRow
<1>3. SourcePk(p) \in VendorId => SourceRow(source, p) = source[SourcePk(p)]
  BY DEF SourceRow
<1>4. SourceRow(source, p) \in ExtraWhere => (Shadowed(base, p) <=> base[p] # NoRow)
  <2>1. CASE Overridable
    BY <2>1 DEF Shadowed, AntiJoin
  <2>2. CASE ~Overridable
    <3>1. SourceRow(source, p) \in ExtraWhere => ~BaseShows(base, p)
      BY <1>1, <2>2 DEF NothingMaterialised
    <3>2. base[p] # NoRow /\ ~BaseShows(base, p) => SoftDelete /\ IsTombstone(base, p)
      BY DEF BaseShows, IsTombstone
    <3>3. Shadowed(base, p) <=> SoftDelete /\ IsTombstone(base, p)
      BY <2>2 DEF Shadowed, AntiJoin
    <3> QED
      BY <3>1, <3>2, <3>3 DEF IsTombstone
  <2> QED
    BY <2>1, <2>2
<1> QED
  BY <1>2, <1>3, <1>4 DEF SourceShows

\* One set has as many members as another it can be paired with.
LEMMA Paired ==
  ASSUME NEW S, NEW T, IsFiniteSet(S), NEW f \in [S -> T],
         \A a, b \in S : f[a] = f[b] => a = b, \A t \in T : \E a \in S : f[a] = t
  PROVE  IsFiniteSet(T) /\ Cardinality(T) = Cardinality(S)
<1>1. f \in Bijection(S, T)
  BY Fun_IsBij
<1> QED
  BY <1>1, FS_Bijection DEF ExistsBijection

\* In such a state each branch has as many rows as count() finds for it.
LEMMA CountInState ==
  ASSUME TypeOK, Overridable \/ NothingMaterialised, IsFiniteSet(PK)
  PROVE  CountIsExact
<1> DEFINE ids     == {p \in PK : BaseShows(base, p)}
           shown   == {p \in PK : SourceShows(base, source, p)}
           vendors == {v \in VendorId :
                         \/ source[v] \in ExtraWhereOr
                         \/ source[v] \in ExtraWhere /\ base[ViewPk(v)] = NoRow}
           own     == {[origin |-> "base", pk |-> p, row |-> base[p].row] : p \in ids}
           theirs  == {[origin |-> "source", pk |-> p, row |-> SourceRow(source, p)] :
                         p \in shown}
<1>1. IsFiniteSet(ids) /\ IsFiniteSet(shown)
  BY FS_Subset
<1>2. IsFiniteSet(own) /\ Cardinality(own) = Cardinality(ids)
  <2> DEFINE f == [p \in ids |-> [origin |-> "base", pk |-> p, row |-> base[p].row]]
  <2>1. f \in [ids -> own]
    OBVIOUS
  <2>2. \A a, b \in ids : f[a] = f[b] => a = b
    OBVIOUS
  <2>3. \A t \in own : \E a \in ids : f[a] = t
    OBVIOUS
  <2> HIDE DEF f, ids, own
  <2> QED
    BY <1>1, <2>1, <2>2, <2>3, Paired
<1>3. IsFiniteSet(theirs) /\ Cardinality(theirs) = Cardinality(shown)
  <2> DEFINE f == [p \in shown |-> [origin |-> "source", pk |-> p,
                                    row |-> SourceRow(source, p)]]
  <2>1. f \in [shown -> theirs]
    OBVIOUS
  <2>2. \A a, b \in shown : f[a] = f[b] => a = b
    OBVIOUS
  <2>3. \A t \in theirs : \E a \in shown : f[a] = t
    OBVIOUS
  <2> HIDE DEF f, shown, theirs
  <2> QED
    BY <1>1, <2>1, <2>2, <2>3, Paired
<1>4. Cardinality(vendors) = Cardinality(shown)
  <2> DEFINE f == [p \in shown |-> SourcePk(p)]
  <2>1. \A p \in shown : SourcePk(p) \in vendors
    BY SameSourceRows, PkRoundTrip
  <2>2. \A v \in vendors : ViewPk(v) \in shown /\ SourcePk(ViewPk(v)) = v
    BY SameSourceRows, PkRoundTrip
  <2>3. \A a, b \in shown : SourcePk(a) = SourcePk(b) => a = b
    BY PkRoundTrip
  <2> HIDE DEF shown, vendors
  <2>4. f \in [shown -> vendors]
    BY <2>1
  <2>5. \A a, b \in shown : f[a] = f[b] => a = b
    BY <2>3
  <2>6. \A v \in vendors : \E a \in shown : f[a] = v
    BY <2>2
  <2> HIDE DEF f
  <2> QED
    BY <1>1, <2>4, <2>5, <2>6, Paired
<1>5. own \cap theirs = {}
  OBVIOUS
<1>6. View(base, source) = own \cup theirs
  BY DEF View
<1>7. DecomposedCount(base, source) = Cardinality(ids) + Cardinality(vendors)
  BY DEF DecomposedCount
<1> HIDE DEF ids, shown, vendors, own, theirs
<1>8. Cardinality(own \cup theirs) = Cardinality(own) + Cardinality(theirs)
  <2>1. Cardinality(own) \in Nat /\ Cardinality(theirs) \in Nat
    BY <1>2, <1>3, FS_CardinalityType
  <2>2. Cardinality(own \cup theirs)
          = Cardinality(own) + Cardinality(theirs) - Cardinality(own \cap theirs)
    BY <1>2, <1>3, FS_Union
  <2>3. Cardinality(own \cap theirs) = 0
    BY <1>5, FS_EmptySet
  <2> QED
    BY <2>1, <2>2, <2>3
<1> QED
  BY <1>2, <1>3, <1>4, <1>6, <1>7, <1>8 DEF CountIsExact

\* count() never looks at the view and is right about an overridable model in
\* every reachable state, an OR in extra_where included.
THEOREM CountsTheView ==
  ASSUME Overridable, IsFiniteSet(PK)
  PROVE  Spec => []CountIsExact
<1>1. TypeOK => CountIsExact
  BY CountInState
<1> QED
  BY <1>1, TypeInductive, PTL DEF Spec

\* And about the others, as long as they are written through the view.
THEOREM CountsTheCheapView ==
  ASSUME ~Overridable, PartitionKey = {}, IsFiniteSet(PK)
  PROVE  TriggerSpec => []CountIsExact
<1>1. TriggerSpec => []TypeOK
  BY TypeInductive, TriggerNextIsNext, PTL DEF TriggerSpec, TriggerNext
<1>2. TypeOK /\ NothingMaterialised => CountIsExact
  BY CountInState
<1> QED
  BY <1>1, <1>2, TriggersMaterialiseNothing, PTL

-----------------------------------------------------------------------------
(* Tombstones                                                              *)

\* The two direct writes copy live rows down and keep every flag as it was.
LEMMA DirectWritesKeepFlags ==
  ASSUME TypeOK, DirectWrite
  PROVE  \A p \in PK : IsTombstone(base', p) => IsTombstone(base, p)
<1>1. ASSUME NEW S \in SUBSET PK, NEW p \in PK, IsTombstone(CopyMatchedRows(S), p)
      PROVE  IsTombstone(base, p)
  BY <1>1, CopyType, LiveType DEF IsTombstone
<1>2. ASSUME NEW S \in SUBSET PK, NEW f \in Expression, UpdateWithExpression(S, f),
             NEW p \in PK, IsTombstone(base', p)
      PROVE  IsTombstone(CopyMatchedRows(S), p)
  <2> DEFINE copied == CopyMatchedRows(S)
  <2>1. copied[p] \in BaseRow \cup {NoRow}
    BY CopyType
  <2>2. \/ base'[p] = copied[p]
        \/ copied[p] # NoRow /\ base'[p] = [copied[p] EXCEPT !.row = f[@]]
    BY <1>2 DEF UpdateWithExpression
  <2> HIDE DEF copied
  <2>3. copied[p] # NoRow => [copied[p] EXCEPT !.row = f[@]].deleted = copied[p].deleted
    BY <2>1 DEF BaseRow
  <2>4. IsTombstone(copied, p)
    BY <1>2, <2>2, <2>3 DEF IsTombstone
  <2> QED
    BY <2>4 DEF copied
<1> QED
  BY <1>1, <1>2 DEF DirectWrite, Materialize

\* A row gets the flag in the delete trigger and nowhere else, after the source
\* was found to hold its id: no history of copies, edits, resets and vendor
\* changes leaves a tombstone that masked nothing when it was set.
THEOREM TombstonesAreSetToMask == Spec => TombstonesMask
<1>1. ASSUME TypeOK, [Next]_vars, NEW p \in PK,
             IsTombstone(base', p), ~IsTombstone(base, p)
      PROVE  SourceRow(source, p) # NoRow
  <2> USE <1>1
  <2>1. ASSUME NEW q \in PK, NEW r \in Row, InsertWithPk(q, r) PROVE FALSE
    BY <2>1, LiveType DEF InsertWithPk, TypeOK, IsTombstone
  <2>2. ASSUME NEW r \in Row, InsertWithoutPk(r) PROVE FALSE
    BY <2>2, LiveType DEF InsertWithoutPk, TypeOK, IsTombstone
  <2>3. ASSUME NEW old \in View(base, source), NEW new \in Row,
               InsteadOfUpdate(old, new)
        PROVE  FALSE
    <3>1. old.pk \in PK /\ old.row \in Row
      BY ViewEntry
    <3>2. CASE base[old.pk] # NoRow
      <4>1. base[old.pk] \in BaseRow
        BY <3>1, <3>2 DEF TypeOK
      <4>2. base' = [base EXCEPT ![old.pk].row =
                                    Merge(old, new, base[old.pk].row)]
        BY <2>3, <3>2 DEF InsteadOfUpdate, AfterUpdate
      <4> QED
        BY <3>1, <3>2, <4>1, <4>2 DEF TypeOK, IsTombstone, BaseRow
    <3>3. CASE base[old.pk] = NoRow
      BY <2>3, <3>1, <3>3, MergeType, LiveType
      DEF InsteadOfUpdate, AfterUpdate, TypeOK, IsTombstone
    <3> QED
      BY <3>2, <3>3
  <2>4. ASSUME NEW old \in View(base, source), InsteadOfDelete(old)
        PROVE  SourceRow(source, p) # NoRow
    <3>1. old.pk \in PK
      BY ViewEntry
    <3>2. CASE SoftDelete /\ SourceProbe(source, old.pk, old.row)
      <4>1. p = old.pk
        BY <2>4, <3>1, <3>2
        DEF InsteadOfDelete, AfterDelete, WithTombstone, TypeOK, IsTombstone
      <4> QED
        BY <3>2, <4>1 DEF SourceProbe
    <3>3. CASE ~(SoftDelete /\ SourceProbe(source, old.pk, old.row))
      BY <2>4, <3>1, <3>3
      DEF InsteadOfDelete, AfterDelete, WithoutRow, TypeOK, IsTombstone
    <3> QED
      BY <3>2, <3>3
  <2>5. ASSUME NEW q \in PK, ResetToSource(q) PROVE FALSE
    BY <2>5 DEF ResetToSource, WithoutRow, TypeOK, IsTombstone
  <2>6. ~DirectWrite
    BY DirectWritesKeepFlags
  <2>7. ASSUME NEW v \in VendorId, NEW r \in Row \cup {NoRow}, VendorPublish(v, r)
        PROVE  FALSE
    BY <2>7 DEF VendorPublish, IsTombstone
  <2>8. CASE UNCHANGED vars
    BY <2>8 DEF vars, IsTombstone
  <2> QED
    BY <2>1, <2>2, <2>3, <2>4, <2>5, <2>6, <2>7, <2>8
    DEF Next, TriggerWrite, VendorWrite
<1>2. TypeOK /\ [Next]_vars
        => [\A p \in PK : IsTombstone(base', p) /\ ~IsTombstone(base, p)
                            => SourceRow(source, p) # NoRow]_vars
  BY <1>1
<1> QED
  BY <1>2, TypeInductive, PTL DEF Spec, TombstonesMask

-----------------------------------------------------------------------------
(* An overridable model implements the tenant's ordinary table.  The proof  *)
(* looks at one id at a time: ShownAs says what the tenant sees under an id *)
(* as a function of its base row and of the vendor's offer, so that a step  *)
(* which replaces one base row changes what is seen under one id.           *)

BaseTable   == [PK -> BaseRow \cup {NoRow}]
SourceTable == [VendorId -> Row \cup {NoRow}]

\* What an overridable model shows for base row t over the vendor's offer.
ShownAs(t, offer) ==
  IF t = NoRow THEN offer ELSE IF SoftDelete /\ t.deleted THEN NoRow ELSE t.row

\* The vendor's offer is a row of the model or nothing.
LEMMA OfferedType ==
  ASSUME NEW s
  PROVE  Offered(s) \in [PK -> Row \cup {NoRow}]
BY RowsAssumption DEF Offered

\* The full anti-join makes the base row, when there is one, decide alone.
LEMMA SeenById ==
  ASSUME Overridable, ExtraWhereOr = {}, NEW b \in BaseTable, NEW s \in SourceTable
  PROVE  Seen(b, s) = [p \in PK |-> ShownAs(b[p], Offered(s)[p])]
BY DEF Seen, ShownAs, Offered, BaseShows, SourceShows, Shadowed, AntiJoin

\* A row the view shows is what the tenant sees under its id.
LEMMA ViewIsSeen ==
  ASSUME Overridable, ExtraWhereOr = {}, TypeOK, NEW x \in View(base, source)
  PROVE  /\ x.pk \in PK /\ x.row \in Row
         /\ Seen(base, source)[x.pk] = x.row
         /\ base[x.pk] = NoRow =>
              SourceRow(source, x.pk) = x.row /\ Offered(source)[x.pk] = x.row
         /\ base[x.pk] # NoRow =>
              base[x.pk].row = x.row /\ ~(SoftDelete /\ base[x.pk].deleted)
BY ViewEntry DEF Seen, Offered, BaseShows, SourceShows, Shadowed, AntiJoin

\* Replacing the base row of one id changes what is seen under that id only.
LEMMA OneIdChanges ==
  ASSUME Overridable, ExtraWhereOr = {}, TypeOK, NEW p \in PK, NEW t \in BaseRow \cup {NoRow}
  PROVE  LET b == [base EXCEPT ![p] = t]
         IN  /\ Seen(b, source) =
                  [Seen(base, source) EXCEPT ![p] = ShownAs(t, Offered(source)[p])]
             /\ t # NoRow => Owned(b) = Owned(base) \cup {p}
             /\ t = NoRow => Owned(b) = Owned(base) \ {p}
<1> DEFINE b == [base EXCEPT ![p] = t]
<1>1. base \in BaseTable /\ source \in SourceTable /\ b \in BaseTable
  BY DEF TypeOK, BaseTable, SourceTable
<1>2. /\ Seen(base, source) = [q \in PK |-> ShownAs(base[q], Offered(source)[q])]
      /\ Seen(b, source) = [q \in PK |-> ShownAs(b[q], Offered(source)[q])]
  BY <1>1, SeenById
<1>3. Seen(b, source) =
        [Seen(base, source) EXCEPT ![p] = ShownAs(t, Offered(source)[p])]
  BY <1>1, <1>2 DEF BaseTable
<1>4. /\ t # NoRow => Owned(b) = Owned(base) \cup {p}
      /\ t = NoRow => Owned(b) = Owned(base) \ {p}
  BY <1>1 DEF Owned, BaseTable
<1> QED
  BY <1>3, <1>4

-----------------------------------------------------------------------------
(* One lemma for each write                                                *)

\* INSTEAD OF INSERT, with an id or from the sequence, is the tenant's Create.
LEMMA InsertIsCreate ==
  ASSUME Overridable, ExtraWhereOr = {}, TypeOK, NEW p \in PK, NEW r \in Row, base[p] = NoRow,
         base' = [base EXCEPT ![p] = Live(r)], source' = source
  PROVE  Tenant!Create(p, r)
<1>1. Live(r) \in BaseRow /\ Live(r) # NoRow
  BY LiveType, RowsAssumption
<1>2. ShownAs(Live(r), Offered(source)[p]) = r
  BY <1>1 DEF ShownAs, Live
<1>3. p \notin Owned(base)
  BY DEF Owned
<1> QED
  BY <1>1, <1>2, <1>3, OneIdChanges DEF Tenant!Create

\* INSTEAD OF UPDATE, in place or by copying up, is the tenant's Edit.
LEMMA UpdateIsEdit ==
  ASSUME Overridable, ExtraWhereOr = {}, TypeOK, NEW old \in View(base, source), NEW new \in Row,
         InsteadOfUpdate(old, new)
  PROVE  Tenant!Edit(old.pk, new)
<1> DEFINE p == old.pk
<1>1. /\ p \in PK /\ old.row \in Row /\ Seen(base, source)[p] = old.row
      /\ old.row # NoRow
  BY ViewIsSeen, RowsAssumption
<1>2. Merge(old, new, old.row) = new
  BY <1>1 DEF Merge, Row
<1>3. PICK t \in BaseRow : /\ t.row = new /\ ~(SoftDelete /\ t.deleted)
                           /\ base' = [base EXCEPT ![p] = t]
  <2>1. CASE base[p] = NoRow
    BY <1>1, <1>2, <2>1, LiveType DEF InsteadOfUpdate, AfterUpdate, UpdateRefused, Live
  <2>2. CASE base[p] # NoRow
    <3>1. /\ base[p] \in BaseRow /\ base[p].row = old.row
          /\ ~(SoftDelete /\ base[p].deleted)
      BY <1>1, <2>2, ViewIsSeen DEF TypeOK
    <3>2. base' = [base EXCEPT ![p].row = new]
      BY <1>2, <2>2, <3>1 DEF InsteadOfUpdate, AfterUpdate, UpdateRefused
    <3>3. [base[p] EXCEPT !.row = new] \in BaseRow
      BY <3>1 DEF BaseRow
    <3> QED
      BY <1>1, <3>1, <3>2, <3>3 DEF BaseRow, TypeOK
  <2> QED
    BY <2>1, <2>2
<1>4. t # NoRow /\ ShownAs(t, Offered(source)[p]) = new
  BY <1>3, RowsAssumption DEF ShownAs
<1>5. source' = source
  BY DEF InsteadOfUpdate, AfterUpdate, UpdateRefused
<1> QED
  BY <1>1, <1>3, <1>4, <1>5, OneIdChanges DEF Tenant!Edit

\* Deleting the base row is the tenant's Reset, whatever the base row was.
LEMMA ResetIsReset ==
  ASSUME Overridable, ExtraWhereOr = {}, TypeOK, NEW p \in PK, base' = WithoutRow(p),
         source' = source
  PROVE  Tenant!Reset(p)
BY OneIdChanges DEF WithoutRow, ShownAs, Tenant!Reset

\* INSTEAD OF DELETE is the tenant's Remove with soft delete, and Revert without.
LEMMA DeleteIsRemove ==
  ASSUME Overridable, ExtraWhereOr = {}, PartitionKey = {}, TypeOK,
         NEW old \in View(base, source), InsteadOfDelete(old)
  PROVE  Tenant!Remove(old.pk) \/ Tenant!Revert(old.pk)
<1> DEFINE p == old.pk
<1>1. /\ p \in PK /\ old.row \in Row /\ Seen(base, source)[p] = old.row
      /\ old.row # NoRow /\ source' = source
  BY ViewIsSeen, RowsAssumption DEF InsteadOfDelete, AfterDelete
<1>2. CASE ~SoftDelete
  <2>1. Tenant!Reset(p)
    BY <1>1, <1>2, ResetIsReset DEF InsteadOfDelete, AfterDelete
  <2> QED
    BY <1>1, <1>2, <2>1 DEF Tenant!Revert
<1>3. CASE SoftDelete /\ SourceProbe(source, p, old.row)
  <2>1. PICK t \in BaseRow : t.deleted /\ base' = [base EXCEPT ![p] = t]
    <3>1. (IF base[p] = NoRow THEN old.row ELSE base[p].row) \in Row
      BY <1>1 DEF TypeOK, BaseRow
    <3>2. base' = [base EXCEPT ![p] =
                     [row |-> IF base[p] = NoRow THEN old.row ELSE base[p].row,
                      deleted |-> TRUE]]
      BY <1>1, <1>3 DEF InsteadOfDelete, AfterDelete, WithTombstone, TypeOK
    <3> QED
      BY <3>1, <3>2 DEF BaseRow
  <2>2. t # NoRow /\ ShownAs(t, Offered(source)[p]) = NoRow
    BY <1>3, <2>1, RowsAssumption DEF ShownAs
  <2> QED
    BY <1>1, <1>3, <2>1, <2>2, OneIdChanges DEF Tenant!Remove
<1>4. CASE SoftDelete /\ ~SourceProbe(source, p, old.row)
  <2>1. Offered(source)[p] = NoRow
    BY <1>1, <1>4, RowsAssumption DEF SourceProbe, SamePartition, Offered
  <2>2. base' = [base EXCEPT ![p] = NoRow]
    BY <1>4 DEF InsteadOfDelete, AfterDelete, WithoutRow
  <2>3. ShownAs(NoRow, Offered(source)[p]) = NoRow
    BY <2>1 DEF ShownAs
  <2> QED
    BY <1>1, <1>4, <2>1, <2>2, <2>3, OneIdChanges DEF Tenant!Remove
<1> QED
  BY <1>2, <1>3, <1>4

\* Copying rows down changes what the tenant owns, never what the tenant sees.
LEMMA CopyIsInvisible ==
  ASSUME Overridable, ExtraWhereOr = {}, TypeOK, NEW S \in SUBSET PK
  PROVE  /\ CopyMatchedRows(S) \in BaseTable
         /\ Seen(CopyMatchedRows(S), source) = Seen(base, source)
         /\ Owned(CopyMatchedRows(S)) =
              Owned(base) \cup {p \in S : Seen(base, source)[p] # NoRow}
<1> DEFINE copied == CopyMatchedRows(S)
<1>1. base \in BaseTable /\ source \in SourceTable /\ copied \in BaseTable
  BY CopyType DEF TypeOK, BaseTable, SourceTable
<1>2. ASSUME NEW p \in PK
      PROVE  /\ ShownAs(copied[p], Offered(source)[p]) =
                  ShownAs(base[p], Offered(source)[p])
             /\ copied[p] # NoRow <=>
                  base[p] # NoRow \/ (p \in S /\ Seen(base, source)[p] # NoRow)
  <2>1. Seen(base, source)[p] = ShownAs(base[p], Offered(source)[p])
    BY <1>1, SeenById
  <2>2. CASE p \in S /\ base[p] = NoRow /\ SourceShows(base, source, p)
    <3>1. /\ copied[p] = Live(SourceRow(source, p))
          /\ SourceRow(source, p) \in Row /\ SourceRow(source, p) # NoRow
          /\ Offered(source)[p] = SourceRow(source, p)
      BY <2>2, ShownRow DEF CopyMatchedRows, Offered, SourceShows
    <3> QED
      BY <2>1, <2>2, <3>1, LiveType, RowsAssumption DEF ShownAs, Live
  <2>3. CASE ~(p \in S /\ base[p] = NoRow /\ SourceShows(base, source, p))
    <3>1. copied[p] = base[p]
      BY <2>3 DEF CopyMatchedRows
    <3>2. base[p] = NoRow /\ p \in S => Offered(source)[p] = NoRow
      BY <2>3 DEF Offered, SourceShows, Shadowed, AntiJoin, IsTombstone
    <3> QED
      BY <2>1, <3>1, <3>2 DEF ShownAs
  <2> QED
    BY <2>2, <2>3
<1> HIDE DEF copied
<1>3. Seen(copied, source) = Seen(base, source)
  <2>1. /\ Seen(copied, source) =
             [p \in PK |-> ShownAs(copied[p], Offered(source)[p])]
        /\ Seen(base, source) =
             [p \in PK |-> ShownAs(base[p], Offered(source)[p])]
    BY <1>1, SeenById
  <2> QED
    BY <1>2, <2>1
<1>4. Owned(copied) = Owned(base) \cup {p \in S : Seen(base, source)[p] # NoRow}
  BY <1>2 DEF Owned
<1> QED
  BY <1>1, <1>3, <1>4 DEF copied

\* materialize() is the tenant's Adopt.
LEMMA MaterializeIsAdopt ==
  ASSUME Overridable, ExtraWhereOr = {}, TypeOK, NEW S \in SUBSET PK, Materialize(S)
  PROVE  Tenant!Adopt(S)
BY CopyIsInvisible DEF Materialize, Tenant!Adopt

\* update() with an expression, copy included, is one Compute of the tenant.
LEMMA ExpressionIsCompute ==
  ASSUME Overridable, ExtraWhereOr = {}, TypeOK, NEW S \in SUBSET PK, NEW f \in Expression,
         UpdateWithExpression(S, f)
  PROVE  Tenant!Compute(S, f)
<1> DEFINE copied  == CopyMatchedRows(S)
           matched == {p \in S : copied[p] # NoRow /\ Visible(copied, source, p)}
           seen    == Seen(base, source)
           hit     == {p \in S : seen[p] # NoRow}
           changed(p) == [copied[p] EXCEPT !.row = f[@]]
<1>1. /\ copied \in BaseTable /\ source \in SourceTable
      /\ Seen(copied, source) = seen /\ Owned(copied) = Owned(base) \cup hit
  BY CopyIsInvisible DEF TypeOK, SourceTable
<1>2. base' = [p \in PK |-> IF p \in matched THEN changed(p) ELSE copied[p]]
  BY DEF UpdateWithExpression
<1>3. source' = source
  BY DEF UpdateWithExpression
<1>4. f \in [Row -> Row]
  BY ExpressionAssumption
<1>5. \A p \in matched : /\ ~(SoftDelete /\ copied[p].deleted)
                         /\ copied[p] \in BaseRow
  BY <1>1 DEF Visible, BaseShows, SourceShows, Shadowed, AntiJoin, BaseTable
<1>6. \A p \in matched :
        /\ changed(p) \in BaseRow
        /\ changed(p).row = f[copied[p].row]
        /\ changed(p).deleted = copied[p].deleted
  BY <1>4, <1>5 DEF BaseRow
<1>7. \A p \in PK : seen[p] = ShownAs(copied[p], Offered(source)[p])
  BY <1>1, SeenById
<1> HIDE DEF copied, changed, seen
<1>8. base' \in BaseTable
  BY <1>1, <1>2, <1>6 DEF BaseTable
<1>9. matched = hit
  <2>1. ASSUME NEW p \in S, copied[p] # NoRow
        PROVE  Visible(copied, source, p) <=> seen[p] # NoRow
    BY <1>1, <1>7, <2>1, RowsAssumption
    DEF Visible, BaseShows, SourceShows, Shadowed, AntiJoin, ShownAs, BaseTable,
        BaseRow
  <2>2. ASSUME NEW p \in S, copied[p] = NoRow
        PROVE  seen[p] = NoRow
    <3>1. p \notin Owned(copied)
      BY <2>2 DEF Owned
    <3> QED
      BY <1>1, <3>1 DEF seen
  <2> QED
    BY <2>1, <2>2
<1>10. \A p \in PK : /\ ShownAs(base'[p], Offered(source)[p]) =
                          IF p \in hit THEN f[seen[p]] ELSE seen[p]
                     /\ base'[p] # NoRow <=> copied[p] # NoRow
  <2>1. ASSUME NEW p \in PK, p \in matched
        PROVE  /\ base'[p] # NoRow
               /\ ShownAs(base'[p], Offered(source)[p]) = f[seen[p]]
    <3>1. base'[p] = changed(p) /\ changed(p) # NoRow
      BY <1>2, <1>6, <2>1, RowsAssumption
    <3>2. seen[p] = copied[p].row
      BY <1>5, <1>7, <2>1 DEF ShownAs
    <3> QED
      BY <1>5, <1>6, <2>1, <3>1, <3>2 DEF ShownAs
  <2>2. ASSUME NEW p \in PK, p \notin matched
        PROVE  base'[p] = copied[p]
    BY <1>2, <2>2
  <2> QED
    BY <1>7, <1>9, <2>1, <2>2
<1>11. Seen(base', source) = [p \in PK |-> IF p \in hit THEN f[seen[p]] ELSE seen[p]]
  <2>1. Seen(base', source) =
          [p \in PK |-> ShownAs(base'[p], Offered(source)[p])]
    BY <1>1, <1>8, SeenById
  <2> QED
    BY <1>10, <2>1
<1>12. Owned(base') = Owned(base) \cup hit
  BY <1>1, <1>10 DEF Owned
<1> QED
  BY <1>3, <1>11, <1>12 DEF Tenant!Compute, seen

\* A vendor's change shows through exactly where the tenant has no base row.
LEMMA VendorPublishIsPublish ==
  ASSUME Overridable, ExtraWhereOr = {}, TypeOK, NEW v \in VendorId, NEW r \in Row \cup {NoRow},
         VendorPublish(v, r)
  PROVE  Tenant!Publish(ViewPk(v), Offered(source')[ViewPk(v)])
<1> DEFINE p == ViewPk(v)
<1>1. /\ base \in BaseTable /\ source \in SourceTable /\ source' \in SourceTable
      /\ base' = base
  BY DEF VendorPublish, TypeOK, BaseTable, SourceTable
<1>2. \A q \in PK : q # p => Offered(source')[q] = Offered(source)[q]
  <2>1. ASSUME NEW q \in PK, q # p PROVE SourceRow(source', q) = SourceRow(source, q)
    BY <2>1, PkRoundTrip DEF VendorPublish, SourceRow, TypeOK
  <2> QED
    BY <2>1 DEF Offered
<1>3. p \in PK
  BY PkRoundTrip
<1>4. Offered(source') = [Offered(source) EXCEPT ![p] = Offered(source')[p]]
  BY <1>2, <1>3, OfferedType DEF Offered
<1>5. Seen(base', source') =
        IF p \in Owned(base) THEN Seen(base, source)
        ELSE [Seen(base, source) EXCEPT ![p] = Offered(source')[p]]
  <2>1. /\ Seen(base, source) =
             [q \in PK |-> ShownAs(base[q], Offered(source)[q])]
        /\ Seen(base', source') =
             [q \in PK |-> ShownAs(base[q], Offered(source')[q])]
    BY <1>1, SeenById
  <2> QED
    BY <1>2, <1>3, <2>1 DEF ShownAs, Owned
<1> QED
  BY <1>1, <1>4, <1>5 DEF Tenant!Publish

-----------------------------------------------------------------------------
(* The implementation                                                      *)

\* With an empty base table the tenant sees the vendor's offer.
LEMMA InitIsInit ==
  ASSUME Overridable, ExtraWhereOr = {}, Init
  PROVE  Tenant!Init
<1>1. base \in BaseTable /\ source \in SourceTable
  BY DEF Init, BaseTable, SourceTable
<1>2. Seen(base, source) = [p \in PK |-> Offered(source)[p]]
  BY <1>1, SeenById DEF Init, ShownAs
<1> QED
  BY <1>2, OfferedType DEF Init, Owned, Offered, Tenant!Init

\* Every step of the overlay table is a step of the tenant's, or a stutter.
LEMMA StepIsStep ==
  ASSUME Overridable, ExtraWhereOr = {}, PartitionKey = {}, TypeOK, [Next]_vars
  PROVE  [Tenant!Next]_(Tenant!tenantVars)
<1>1. ASSUME NEW p \in PK, NEW r \in Row, InsertWithPk(p, r)
      PROVE  Tenant!Next
  BY <1>1, InsertIsCreate DEF InsertWithPk, Tenant!Next
<1>2. ASSUME NEW r \in Row, InsertWithoutPk(r)
      PROVE  Tenant!Next \/ UNCHANGED Tenant!tenantVars
  <2>1. CASE base[nextval] = NoRow
    BY <1>2, <2>1, InsertIsCreate DEF InsertWithoutPk, Tenant!Next
  <2>2. CASE base[nextval] # NoRow
    BY <1>2, <2>2 DEF InsertWithoutPk, Tenant!tenantVars
  <2> QED
    BY <2>1, <2>2
<1>3. ASSUME NEW old \in View(base, source), NEW new \in Row,
             InsteadOfUpdate(old, new)
      PROVE  Tenant!Next
  BY <1>3, UpdateIsEdit, ViewIsSeen DEF Tenant!Next
<1>4. ASSUME NEW old \in View(base, source), InsteadOfDelete(old)
      PROVE  Tenant!Next
  BY <1>4, DeleteIsRemove, ViewIsSeen DEF Tenant!Next
<1>5. ASSUME NEW p \in PK, ResetToSource(p)
      PROVE  Tenant!Next
  BY <1>5, ResetIsReset DEF ResetToSource, Tenant!Next
<1>6. ASSUME NEW S \in SUBSET PK, Materialize(S)
      PROVE  Tenant!Next
  BY <1>6, MaterializeIsAdopt DEF Tenant!Next
<1>7. ASSUME NEW S \in SUBSET PK, NEW f \in Expression,
             UpdateWithExpression(S, f)
      PROVE  Tenant!Next
  BY <1>7, ExpressionIsCompute DEF Tenant!Next
<1>8. ASSUME NEW v \in VendorId, NEW r \in Row \cup {NoRow}, VendorPublish(v, r)
      PROVE  Tenant!Next
  BY <1>8, VendorPublishIsPublish, OfferedType, PkRoundTrip DEF Tenant!Next
<1>9. CASE UNCHANGED vars
  BY <1>9 DEF vars, Tenant!tenantVars
<1> QED
  BY <1>1, <1>2, <1>3, <1>4, <1>5, <1>6, <1>7, <1>8, <1>9
  DEF Next, TriggerWrite, DirectWrite, VendorWrite

\* To its tenant an overridable model whose source declares no partition key is
\* one ordinary table, whatever the order of inserts, edits, deletes, resets,
\* bulk copies and vendor changes.
THEOREM ImplementsTenant ==
  ASSUME Overridable, ExtraWhereOr = {}, PartitionKey = {}
  PROVE  Spec => ImplementsTenantTable
<1>1. Init => Tenant!Init
  BY InitIsInit
<1>2. TypeOK /\ [Next]_vars => [Tenant!Next]_(Tenant!tenantVars)
  BY StepIsStep
<1> QED
  BY <1>1, <1>2, TypeCorrect, PTL
  DEF Spec, ImplementsTenantTable, Tenant!Spec
=============================================================================
