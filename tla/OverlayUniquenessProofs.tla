------------------------ MODULE OverlayUniquenessProofs ------------------------
(***************************************************************************)
(* Theorems about OverlayUniqueness, for every number of sessions, every   *)
(* set of rows and every unique constraint.  The index looks at the base   *)
(* table, the trigger at the source, each on one row and on a snapshot;    *)
(* what makes the two enough is that a row under way is clear of what is   *)
(* committed and of what others have under way.                            *)
(***************************************************************************)
EXTENDS OverlayUniqueness, TLAPS

\* A vendor row is out of a conflict's way: a tombstone hides it, or did.
Masked(table, resets, q) == (SoftDelete /\ IsTombstone(table, q)) \/ q \in resets

\* Row p, written as b, shares no value with another base row, nor with a vendor
\* row that is not masked.
ClearOf(table, rows, resets, p, b) ==
  Indexed(b) =>
    /\ \A q \in PK \ {p} : Indexed(table[q]) => ~Same(b.row, table[q].row)
    /\ \A v \in VendorId \ {SourcePk(p)} :
         rows[v] \in ExtraWhere /\ Same(b.row, rows[v]) => Masked(table, resets, ViewPk(v))

Clear(p, b) == ClearOf(committed, source, revealed, p, b)

Apart(w, x) == Indexed(w.row) /\ Indexed(x.row) => ~Same(w.row.row, x.row.row)

IInv ==
  /\ TypeOK
  /\ \A p \in PK : Clear(p, committed[p])
  /\ \A s \in Session : write[s] # NoWrite =>
       /\ Clear(write[s].pk, write[s].row)
       /\ SoftDelete /\ IsTombstone(committed, write[s].pk) => write[s].pk \in revealed
  /\ \A s, t \in Session :
       s # t /\ write[s] # NoWrite /\ write[t] # NoWrite => Apart(write[s], write[t])

-----------------------------------------------------------------------------
(* Values and rows                                                         *)

\* Sharing a value goes both ways, and on to whatever has the same value.
LEMMA SameSymmetric ==
  /\ \A r, q : Same(r, q) => Same(q, r)
  /\ \A r, q, x : Key(r) = Key(q) /\ Same(r, x) => Same(q, x)
BY DEF Same, Key, HasKey

\* What a session has written is a row of the base table.
LEMMA WriteType ==
  ASSUME TypeOK, NEW s \in Session, write[s] # NoWrite
  PROVE  write[s].pk \in PK /\ write[s].row \in BaseRow \cup {NoRow}
BY DEF TypeOK, Writes

\* A row of the view, with overrides: a base row that is not flagged, or a vendor
\* row nobody has touched.
LEMMA ShownRow ==
  ASSUME Overridable, ExtraWhereOr = {}, TypeOK, NEW x \in View(committed, source)
  PROVE  /\ x.pk \in PK /\ x.row \in Row
         /\ \/ /\ x.origin = "base" /\ committed[x.pk] \in BaseRow
               /\ Indexed(committed[x.pk]) /\ x.row = committed[x.pk].row
            \/ /\ x.origin = "source" /\ committed[x.pk] = NoRow
               /\ SourcePk(x.pk) \in VendorId /\ x.row = source[SourcePk(x.pk)]
               /\ x.row \in ExtraWhere
<1>1. CASE x \in {[origin |-> "base", pk |-> p, row |-> committed[p].row] :
                    p \in {q \in PK : BaseShows(committed, q)}}
  BY <1>1 DEF BaseShows, Indexed, TypeOK, BaseRow
<1>2. CASE x \in {[origin |-> "source", pk |-> p, row |-> SourceRow(source, p)] :
                    p \in {q \in PK : SourceShows(committed, source, q)}}
  <2>1. x.origin = "source" /\ x.pk \in PK /\ SourceShows(committed, source, x.pk)
        /\ x.row = SourceRow(source, x.pk)
    BY <1>2
  <2>2. SourceRow(source, x.pk) \in ExtraWhere /\ committed[x.pk] = NoRow
    BY <2>1 DEF SourceShows, Shadowed, AntiJoin
  <2> QED
    BY <2>1, <2>2, RowsAssumption DEF SourceRow
<1> QED
  BY <1>1, <1>2 DEF View

\* The vendor's id and the view's stand for each other.
LEMMA PkRoundTrip ==
  /\ \A v \in VendorId : ViewPk(v) \in PK /\ SourcePk(ViewPk(v)) = v
  /\ \A p, q \in PK : SourcePk(p) = SourcePk(q) => p = q
  /\ \A p \in PK : ViewPk(SourcePk(p)) = p
BY RowsAssumption DEF ViewPk, SourcePk

-----------------------------------------------------------------------------
(* A statement                                                             *)

\* A write that is clear keeps everything apart: it has waited for whoever has
\* written the row, or the same value.
LEMMA WriteKeeps ==
  ASSUME IInv, NEW s \in Session, NEW p \in PK, NEW b \in BaseRow \cup {NoRow},
         Write(s, p, b), Clear(p, b), revealed \subseteq revealed', revealed' \subseteq PK,
         SoftDelete /\ IsTombstone(committed, p) => p \in revealed'
  PROVE  IInv'
<1> DEFINE w == [pk |-> p, row |-> b]
<1>1. w \in Writes /\ w # NoWrite /\ w.pk = p /\ w.row = b
  BY UniquenessAssumption DEF Writes
<1>2. /\ write[s] = NoWrite /\ write' = [write EXCEPT ![s] = w]
      /\ committed' = committed /\ source' = source
  BY DEF Write
<1>3. write'[s] = w /\ \A t \in Session \ {s} : write'[t] = write[t]
  BY <1>2 DEF IInv, TypeOK
<1>4. \A t \in Session \ {s} : write[t] # NoWrite =>
        write[t].pk # p /\ (b # NoRow /\ Indexed(b) => ~Touches(write[t], b.row))
  BY DEF Write, Others
<1> HIDE DEF w
<1>5. \A t \in Session \ {s} : write[t] # NoWrite => Apart(w, write[t]) /\ Apart(write[t], w)
  <2> SUFFICES ASSUME NEW t \in Session \ {s}, write[t] # NoWrite, Indexed(b),
                      Indexed(write[t].row)
               PROVE  ~Same(b.row, write[t].row.row) /\ ~Same(write[t].row.row, b.row)
    BY <1>1 DEF Apart
  <2>1. ~Same(b.row, write[t].row.row)
    BY <1>4 DEF Touches, Indexed
  <2> QED
    BY <2>1, SameSymmetric
<1>6. \A q, r : Clear(q, r) => Clear(q, r)'
  BY <1>2 DEF Clear, ClearOf, Masked
<1>7. TypeOK'
  <2>1. write' \in [Session -> Writes \cup {NoWrite}]
    BY <1>1, <1>2 DEF IInv, TypeOK
  <2>2. \A t, u \in Session :
          t # u /\ write'[t] # NoWrite /\ write'[u] # NoWrite => write'[t].pk # write'[u].pk
    BY <1>1, <1>3, <1>4 DEF IInv, TypeOK
  <2> QED
    BY <1>2, <2>1, <2>2 DEF IInv, TypeOK
<1>8. \A q \in PK : Clear(q, committed[q])'
  BY <1>2 DEF IInv, Clear, ClearOf, Masked
<1>9. ASSUME NEW t \in Session, write'[t] # NoWrite
      PROVE  /\ Clear(write[t].pk, write[t].row)'
             /\ SoftDelete /\ IsTombstone(committed', write'[t].pk) => write'[t].pk \in revealed'
  <2>1. CASE t = s
    <3>1. write'[t].pk = p /\ write'[t].row = b
      BY <1>1, <1>3, <2>1
    <3>2. Clear(write[t].pk, write[t].row)'
      BY <1>2, <3>1 DEF Clear, ClearOf, Masked
    <3> QED
      BY <1>2, <3>1, <3>2
  <2>2. CASE t # s
    <3>1. write'[t] = write[t] /\ write[t] # NoWrite
      BY <1>3, <1>9, <2>2
    <3>2. /\ Clear(write[t].pk, write[t].row)
          /\ SoftDelete /\ IsTombstone(committed, write[t].pk) => write[t].pk \in revealed
      BY <3>1 DEF IInv
    <3>3. Clear(write[t].pk, write[t].row)'
      BY <1>2, <3>1, <3>2 DEF Clear, ClearOf, Masked
    <3> QED
      BY <1>2, <3>1, <3>2, <3>3
  <2> QED
    BY <2>1, <2>2
<1>10. \A t, u \in Session :
         t # u /\ write'[t] # NoWrite /\ write'[u] # NoWrite => Apart(write'[t], write'[u])
  <2> TAKE t, u \in Session
  <2>1. t # u /\ write[t] # NoWrite /\ write[u] # NoWrite => Apart(write[t], write[u])
    BY DEF IInv
  <2> QED
    BY <1>3, <1>5, <2>1
<1> QED
  BY <1>7, <1>8, <1>9, <1>10 DEF IInv, Apart

\* What the two halves of the constraint let through is clear, where the trigger
\* was asked; and where it was not the value was clear already.
LEMMA NotRefused ==
  ASSUME TypeOK, NEW p \in PK, NEW old, NEW new \in BaseRow, ~Refuses(committed, p, old, new),
         old = NoRow \/ Key(old.row) # Key(new.row)
           \/ (Indexed(old) /\ Clear(p, old))
           \/ ~Indexed(new)
  PROVE  Clear(p, new)
<1> DEFINE after == [committed EXCEPT ![p] = new]
<1>1. \A q \in PK \ {p} : after[q] = committed[q]
  BY DEF TypeOK
<1>2. ~IndexRefuses(after, p, new) /\ ~TriggerRefuses(after, p, old, new)
  BY DEF Refuses
<1> HIDE DEF after
<1>3. Indexed(new) =>
        \A q \in PK \ {p} : Indexed(committed[q]) => ~Same(new.row, committed[q].row)
  BY <1>1, <1>2 DEF IndexRefuses
<1>4. ASSUME Indexed(new), NEW v \in VendorId \ {SourcePk(p)}, source[v] \in ExtraWhere,
             Same(new.row, source[v])
      PROVE  Masked(committed, revealed, ViewPk(v))
  <2>1. ViewPk(v) \in PK \ {p}
    BY PkRoundTrip
  <2>2. CASE old = NoRow \/ Key(old.row) # Key(new.row)
    <3>1. ~Reserves(after, source, v, new.row)
      BY <1>2, <1>4, <2>2 DEF TriggerRefuses, Indexed
    <3> QED
      BY <1>1, <1>4, <2>1, <3>1 DEF Reserves, Masked, IsTombstone
  <2>3. CASE Key(old.row) = Key(new.row) /\ Indexed(old) /\ Clear(p, old)
    <3>1. Same(old.row, source[v])
      BY <1>4, <2>3, SameSymmetric
    <3> QED
      BY <1>4, <2>3, <3>1 DEF Clear, ClearOf
  <2> QED
    BY <1>4, <2>2, <2>3
<1> QED
  BY <1>3, <1>4 DEF Clear, ClearOf

\* An insert.
LEMMA InsertKeeps ==
  ASSUME IInv, NEW s \in Session, NEW p \in PK, NEW r \in Row, Insert(s, p, r)
  PROVE  IInv'
<1>1. Live(r) \in BaseRow /\ committed[p] = NoRow
  BY DEF Insert, Live, BaseRow
<1>2. Clear(p, Live(r))
  BY <1>1, NotRefused DEF Insert, IInv
<1>3. revealed' = revealed /\ revealed \subseteq PK /\ Write(s, p, Live(r))
  BY DEF Insert, IInv, TypeOK
<1>4. ~IsTombstone(committed, p)
  BY <1>1 DEF IsTombstone
<1> QED
  BY <1>1, <1>2, <1>3, <1>4, WriteKeeps

\* An update, of a base row or with its copy inserted first.
LEMMA UpdateKeeps ==
  ASSUME IInv, Overridable, ExtraWhereOr = {},
         NEW s \in Session, NEW x \in View(committed, source), NEW r \in Row, Update(s, x, r)
  PROVE  IInv'
<1> DEFINE p == x.pk
           old == IF committed[p] = NoRow THEN Live(x.row) ELSE committed[p]
           new == [old EXCEPT !.row = r]
           copied == [committed EXCEPT ![p] = old]
<1>1. TypeOK /\ p \in PK /\ x.row \in Row
  BY ShownRow DEF IInv
<1>2. /\ ~UpdateRefuses(committed, x, r) /\ Write(s, p, Live(r)) /\ revealed' = revealed
  BY DEF Update
<1>3. /\ committed[p] = NoRow => ~Refuses(committed, p, NoRow, old)
      /\ ~Refuses(copied, p, old, new)
  <2>1. UpdateRefuses(committed, x, r) <=>
          \/ committed[p] = NoRow /\ Refuses(committed, p, NoRow, old)
          \/ Refuses(copied, p, old, new)
    BY DEF UpdateRefuses
  <2> QED
    BY <1>2, <2>1
<1>4. old \in BaseRow /\ Indexed(old) /\ (SoftDelete => ~IsTombstone(committed, p))
  <2>1. CASE committed[p] = NoRow
    <3>1. old = Live(x.row) /\ ~IsTombstone(committed, p)
      BY <2>1 DEF IsTombstone
    <3>2. Live(x.row) \in BaseRow /\ ~Live(x.row).deleted
      BY <1>1 DEF Live, BaseRow
    <3> QED
      BY <3>1, <3>2, RowsAssumption DEF Indexed
  <2>2. CASE committed[p] # NoRow
    BY <2>2, ShownRow, <1>1 DEF Indexed, IsTombstone
  <2> QED
    BY <2>1, <2>2
<1>5. new \in BaseRow /\ new.row = r /\ Indexed(new)
  <2> HIDE DEF old
  <2>1. new \in BaseRow /\ new.row = r /\ new.deleted = old.deleted
    BY <1>4 DEF BaseRow
  <2> QED
    BY <1>4, <2>1, RowsAssumption DEF Indexed
<1>6. Clear(p, old)
  <2>1. CASE committed[p] = NoRow
    BY <1>1, <1>3, <1>4, <2>1, NotRefused
  <2>2. CASE committed[p] # NoRow
    BY <1>1, <2>2 DEF IInv
  <2> QED
    BY <2>1, <2>2
<1>7. ~Refuses(committed, p, old, new)
  <2>1. [copied EXCEPT ![p] = new] = [committed EXCEPT ![p] = new]
    BY <1>1 DEF TypeOK
  <2> HIDE DEF new, old
  <2> QED
    BY <1>3, <2>1 DEF Refuses
<1> HIDE DEF old, new, copied
<1>8. Clear(p, new)
  BY <1>1, <1>4, <1>5, <1>6, <1>7, NotRefused
<1>9. Live(r).row = r /\ Live(r) \in BaseRow /\ revealed \subseteq PK
  BY DEF Live, BaseRow, IInv, TypeOK
<1>10. Clear(p, Live(r))
  BY <1>5, <1>8, <1>9 DEF Clear, ClearOf
<1> HIDE DEF p
<1> QED
  BY <1>1, <1>2, <1>4, <1>9, <1>10, WriteKeeps

\* A delete, with or without a tombstone.
LEMMA DeleteKeeps ==
  ASSUME IInv, Overridable, ExtraWhereOr = {},
         NEW s \in Session, NEW x \in View(committed, source), Delete(s, x)
  PROVE  IInv'
<1> DEFINE p == x.pk
           flags == SoftDelete /\ SourceProbe(source, p, x.row)
           b == committed[p]
           tombstone == [row |-> IF b = NoRow THEN x.row ELSE b.row, deleted |-> TRUE]
           new == IF flags THEN tombstone ELSE NoRow
<1>1. TypeOK /\ p \in PK /\ x.row \in Row
  BY ShownRow DEF IInv
<1>2. Write(s, p, new) /\ revealed' = revealed
  BY DEF Delete
<1>3. new \in BaseRow \cup {NoRow}
  BY <1>1 DEF TypeOK, BaseRow
<1>4. ~Indexed(new)
  BY DEF Indexed
<1>5. SoftDelete => ~IsTombstone(committed, p)
  BY ShownRow, <1>1 DEF Indexed, IsTombstone
<1> HIDE DEF p, new
<1>6. Clear(p, new)
  BY <1>4 DEF Clear, ClearOf
<1>7. revealed \subseteq PK
  BY DEF IInv, TypeOK
<1> QED
  BY <1>1, <1>2, <1>3, <1>5, <1>6, <1>7, WriteKeeps

\* A reset, which is what brings a vendor's value back and says so.
LEMMA ResetKeeps ==
  ASSUME IInv, NEW s \in Session, NEW p \in PK, ResetToSource(s, p)
  PROVE  IInv'
<1>1. /\ Write(s, p, NoRow) /\ revealed \subseteq revealed' /\ revealed' \subseteq PK
      /\ SoftDelete /\ IsTombstone(committed, p) => p \in revealed'
  BY DEF ResetToSource, IsTombstone, IInv, TypeOK
<1>2. Clear(p, NoRow)
  BY DEF Clear, ClearOf, Indexed
<1> QED
  BY <1>1, <1>2, WriteKeeps

-----------------------------------------------------------------------------
(* The end of a transaction                                                *)

\* What is committed was clear of everything, and stays clear: a tombstone that
\* goes is one a reset has taken note of.
LEMMA CommitKeeps ==
  ASSUME IInv, NEW s \in Session, Commit(s)
  PROVE  IInv'
<1> DEFINE p == write[s].pk
           b == write[s].row
<1>1. /\ write[s] # NoWrite /\ committed' = [committed EXCEPT ![p] = b]
      /\ write' = [write EXCEPT ![s] = NoWrite] /\ source' = source /\ revealed' = revealed
  BY DEF Commit
<1>2. TypeOK /\ p \in PK /\ b \in BaseRow \cup {NoRow}
  BY <1>1, WriteType DEF IInv
<1>3. /\ Clear(p, b)
      /\ SoftDelete /\ IsTombstone(committed, p) => p \in revealed
  BY <1>1 DEF IInv
<1>4. \A t \in Session \ {s} : write[t] # NoWrite =>
        /\ write'[t] = write[t] /\ write[t].pk \in PK \ {p}
        /\ Apart(write[s], write[t]) /\ Apart(write[t], write[s])
        /\ Clear(write[t].pk, write[t].row)
        /\ SoftDelete /\ IsTombstone(committed, write[t].pk) => write[t].pk \in revealed
  BY <1>1, WriteType DEF IInv, TypeOK
<1>5. write'[s] = NoWrite /\ \A t \in Session \ {s} : write'[t] = write[t]
  BY <1>1, <1>2 DEF TypeOK
<1>6. \A t \in Session \ {s} : write[t] # NoWrite /\ Indexed(write[t].row) /\ Indexed(b) =>
        ~Same(write[t].row.row, b.row) /\ ~Same(b.row, write[t].row.row)
  BY <1>4 DEF Apart
<1> HIDE DEF p, b
<1>7. committed'[p] = b /\ \A q \in PK \ {p} : committed'[q] = committed[q]
  BY <1>1, <1>2 DEF TypeOK
<1>8. \A q \in PK : Masked(committed, revealed, q) => Masked(committed', revealed, q)
  BY <1>3, <1>7 DEF Masked, IsTombstone
<1>9. ASSUME NEW q \in PK, NEW r, ClearOf(committed, source, revealed, q, r),
             q # p /\ Indexed(r) /\ Indexed(b) => ~Same(r.row, b.row)
      PROVE  ClearOf(committed', source, revealed, q, r)
  <2>1. Indexed(r) =>
          \A u \in PK \ {q} : Indexed(committed'[u]) => ~Same(r.row, committed'[u].row)
    BY <1>7, <1>9 DEF ClearOf
  <2>2. ASSUME Indexed(r), NEW v \in VendorId \ {SourcePk(q)}, source[v] \in ExtraWhere,
               Same(r.row, source[v])
        PROVE  Masked(committed', revealed, ViewPk(v))
    BY <1>8, <1>9, <2>2, PkRoundTrip DEF ClearOf
  <2> QED
    BY <2>1, <2>2 DEF ClearOf
<1>10. ASSUME NEW q \in PK PROVE ClearOf(committed', source, revealed, q, committed'[q])
  <2>1. CASE q = p
    BY <1>3, <1>7, <1>9, <2>1 DEF Clear
  <2>2. CASE q # p
    <3>1. ClearOf(committed, source, revealed, q, committed[q])
      BY DEF IInv, Clear
    <3>2. Indexed(committed[q]) /\ Indexed(b) => ~Same(committed[q].row, b.row)
      BY <1>3, <2>2, SameSymmetric DEF Clear, ClearOf
    <3>3. committed'[q] = committed[q]
      BY <1>7, <2>2
    <3> QED
      BY <1>9, <3>1, <3>2, <3>3
  <2> QED
    BY <2>1, <2>2
<1>11. ASSUME NEW t \in Session, write'[t] # NoWrite
       PROVE  /\ t # s /\ write'[t] = write[t]
              /\ ClearOf(committed', source, revealed, write'[t].pk, write'[t].row)
              /\ SoftDelete /\ IsTombstone(committed', write'[t].pk) => write'[t].pk \in revealed
  <2>1. t # s /\ write'[t] = write[t] /\ write[t] # NoWrite
    BY <1>5, <1>11
  <2>2. ClearOf(committed', source, revealed, write[t].pk, write[t].row)
    BY <1>4, <1>6, <1>9, <2>1 DEF Clear
  <2>3. committed'[write[t].pk] = committed[write[t].pk]
    BY <1>4, <1>7, <2>1
  <2> QED
    BY <1>4, <2>1, <2>2, <2>3 DEF IsTombstone
<1>12. TypeOK'
  <2>1. committed' \in [PK -> BaseRow \cup {NoRow}] /\ write' \in [Session -> Writes \cup {NoWrite}]
    BY <1>1, <1>2 DEF TypeOK
  <2>2. \A t, u \in Session :
          t # u /\ write'[t] # NoWrite /\ write'[u] # NoWrite => write'[t].pk # write'[u].pk
    BY <1>2, <1>11 DEF TypeOK
  <2> QED
    BY <1>1, <1>2, <2>1, <2>2 DEF TypeOK
<1>13. \A t, u \in Session :
         t # u /\ write'[t] # NoWrite /\ write'[u] # NoWrite => Apart(write'[t], write'[u])
  BY <1>11 DEF IInv
<1> QED
  BY <1>1, <1>10, <1>11, <1>12, <1>13 DEF IInv, Clear, Apart

\* What is undone leaves less under way.
LEMMA RollbackKeeps ==
  ASSUME IInv, NEW s \in Session, Rollback(s)
  PROVE  IInv'
<1>1. /\ write' = [write EXCEPT ![s] = NoWrite]
      /\ UNCHANGED <<committed, source, revealed>>
  BY DEF Rollback
<1>2. \A t \in Session : write'[t] # NoWrite => write'[t] = write[t]
  BY <1>1 DEF IInv, TypeOK
<1>3. write' \in [Session -> Writes \cup {NoWrite}]
  BY <1>1 DEF IInv, TypeOK
<1>4. TypeOK'
  BY <1>1, <1>2, <1>3 DEF IInv, TypeOK
<1> QED
  BY <1>1, <1>2, <1>4 DEF IInv, Clear, Apart

\* The invariant holds at first and every step keeps it.
LEMMA Inductive ==
  ASSUME Overridable, ExtraWhereOr = {}
  PROVE  /\ Init => IInv
         /\ IInv /\ [Next]_vars => IInv'
<1>1. Init => IInv
  BY DEF Init, IInv, TypeOK, Clear, ClearOf, Indexed
<1>2. IInv /\ UNCHANGED vars => IInv'
  BY DEF vars, IInv, TypeOK, Clear, Apart
<1> QED
  BY <1>1, <1>2, InsertKeeps, UpdateKeeps, DeleteKeeps, ResetKeeps, CommitKeeps,
     RollbackKeeps DEF Next

\* Rows and writes under way have their types, and no two sessions have the same
\* row under way.
THEOREM UniquenessTypeCorrect ==
  ASSUME Overridable, ExtraWhereOr = {}
  PROVE  Spec => []TypeOK
<1>1. IInv => TypeOK
  BY DEF IInv
<1> QED
  BY <1>1, Inductive, PTL DEF Spec

\* Uniqueness holds across both tables, however many sessions write at once: the
\* only rows of the view that share a value are two of the vendor's, or one whose
\* tombstone was reset away and one that took its value meanwhile.
THEOREM UniqueAcrossTables ==
  ASSUME Overridable, ExtraWhereOr = {}
  PROVE  Spec => []UniqueInView
<1>1. ASSUME IInv, NEW x \in View(committed, source), NEW y \in View(committed, source),
             x.pk # y.pk, Same(x.row, y.row), x.origin = "base"
      PROVE  {x.pk, y.pk} \cap revealed # {}
  <2>1. x.pk \in PK /\ Indexed(committed[x.pk]) /\ x.row = committed[x.pk].row
    BY <1>1, ShownRow DEF IInv
  <2>2. ClearOf(committed, source, revealed, x.pk, committed[x.pk])
    BY <1>1, <2>1 DEF IInv, Clear
  <2>3. /\ y.pk \in PK
        /\ \/ Indexed(committed[y.pk]) /\ y.row = committed[y.pk].row
           \/ /\ committed[y.pk] = NoRow /\ SourcePk(y.pk) \in VendorId
              /\ y.row = source[SourcePk(y.pk)] /\ y.row \in ExtraWhere
    BY <1>1, ShownRow DEF IInv
  <2>4. ~(Indexed(committed[y.pk]) /\ y.row = committed[y.pk].row)
    BY <1>1, <2>1, <2>2, <2>3 DEF ClearOf
  <2>5. Masked(committed, revealed, y.pk)
    BY <1>1, <2>1, <2>2, <2>3, <2>4, PkRoundTrip DEF ClearOf
  <2> QED
    BY <2>3, <2>4, <2>5 DEF Masked, IsTombstone
<1>2. ASSUME IInv PROVE UniqueInView
  <2> SUFFICES ASSUME NEW x \in View(committed, source), NEW y \in View(committed, source),
                      x.pk # y.pk, Same(x.row, y.row),
                      ~(x.origin = "source" /\ y.origin = "source")
               PROVE  {x.pk, y.pk} \cap revealed # {}
    BY DEF UniqueInView
  <2>1. x.origin \in {"base", "source"} /\ y.origin \in {"base", "source"}
    BY DEF View
  <2>2. CASE x.origin = "base"
    BY <1>1, <1>2, <2>2
  <2>3. CASE y.origin = "base"
    <3>1. {y.pk, x.pk} \cap revealed # {}
      BY <1>1, <1>2, <2>3, SameSymmetric
    <3> QED
      BY <3>1
  <2> QED
    BY <2>1, <2>2, <2>3
<1> QED
  BY <1>2, Inductive, PTL DEF Spec
\* Asked of the view and of the two tables the answers differ in one way only: a
\* value that nothing shows is refused where an override hides it.
THEOREM RefusalsAreReserved ==
  ASSUME Overridable, SoftDelete, ExtraWhereOr = {}
  PROVE  Spec => []RefusesOnlyReserved
<1>1. ASSUME TypeOK, NEW p \in PK, NEW r \in Row, committed[p] = NoRow,
             Free(committed, p, r), Refuses(committed, p, NoRow, Live(r))
      PROVE  HiddenByOverride(r)
  <2> DEFINE after == [committed EXCEPT ![p] = Live(r)]
  <2>1. \A q \in PK \ {p} : after[q] = committed[q]
    BY <1>1 DEF TypeOK
  <2>2. IndexRefuses(after, p, Live(r)) \/ TriggerRefuses(after, p, NoRow, Live(r))
    BY <1>1 DEF Refuses
  <2>3. Live(r).row = r
    BY DEF Live
  <2> HIDE DEF after
  <2>4. ASSUME NEW q \in PK \ {p}, Indexed(committed[q]), Same(r, committed[q].row)
        PROVE  FALSE
    <3> DEFINE y == [origin |-> "base", pk |-> q, row |-> committed[q].row]
    <3>1. y \in View(committed, source) /\ y.pk = q /\ y.row = committed[q].row
      BY <2>4 DEF View, BaseShows, Indexed
    <3> QED
      BY <1>1, <2>4, <3>1 DEF Free
  <2>5. PICK v \in VendorId \ {SourcePk(p)} : Reserves(after, source, v, r)
    BY <2>1, <2>2, <2>3, <2>4 DEF IndexRefuses, TriggerRefuses
  <2> DEFINE q == ViewPk(v)
  <2>6. q \in PK \ {p} /\ SourcePk(q) = v
    BY PkRoundTrip
  <2> HIDE DEF q
  <2>7. source[v] \in ExtraWhere /\ Same(r, source[v]) /\ ~IsTombstone(committed, q)
    BY <2>1, <2>5, <2>6 DEF Reserves, IsTombstone, q
  <2>8. ASSUME committed[q] = NoRow PROVE FALSE
    <3> DEFINE y == [origin |-> "source", pk |-> q, row |-> SourceRow(source, q)]
    <3>1. SourceRow(source, q) = source[v]
      BY <2>6 DEF SourceRow
    <3>2. SourceShows(committed, source, q)
      BY <2>7, <2>8, <3>1 DEF SourceShows, Shadowed, AntiJoin
    <3>3. y \in View(committed, source) /\ y.pk = q /\ y.row = source[v]
      BY <2>6, <3>1, <3>2 DEF View
    <3> QED
      BY <1>1, <2>6, <2>7, <3>3 DEF Free
  <2> QED
    BY <2>7, <2>8 DEF HiddenByOverride, q
<1>2. IInv => RefusesOnlyReserved
  BY <1>1 DEF IInv, RefusesOnlyReserved
<1> QED
  BY <1>2, Inductive, PTL DEF Spec

\* A vendor row the view shows conflicts with a base row only if a reset brought
\* it back: whoever else took the value found a tombstone on it.
LEMMA ConflictIsRevealed ==
  ASSUME IInv, NEW p \in PK, committed[p] = NoRow, SourceRow(source, p) \in ExtraWhere,
         NEW q \in PK \ {p}, Indexed(committed[q]),
         Same(SourceRow(source, p), committed[q].row)
  PROVE  p \in revealed
<1>1. SourcePk(p) \in VendorId /\ SourceRow(source, p) = source[SourcePk(p)]
  BY RowsAssumption DEF SourceRow
<1>2. SourcePk(p) # SourcePk(q) /\ ViewPk(SourcePk(p)) = p
  BY PkRoundTrip
<1>3. Masked(committed, revealed, p)
  BY <1>1, <1>2, SameSymmetric DEF IInv, Clear, ClearOf
<1> QED
  BY <1>3 DEF Masked, IsTombstone

\* No row stands in its own way: a vendor's row of the view can be deleted, and
\* updated without a change of value, unless the vendor publishes its value twice
\* or a reset brought it back where another row had taken the value.
THEOREM RowsAreEditable ==
  ASSUME Overridable, ExtraWhereOr = {}
  PROVE  Spec => []RowsStayEditable
<1>1. ASSUME IInv, NEW x \in View(committed, source), SourceRow(source, x.pk) \in ExtraWhere,
             ~\E v \in VendorId \ {SourcePk(x.pk)} :
                 source[v] \in ExtraWhere /\ Same(SourceRow(source, x.pk), source[v]),
             x.pk \notin revealed
      PROVE  /\ SoftDelete => ~Refuses(committed, x.pk, committed[x.pk],
                                       [row |-> x.row, deleted |-> TRUE])
             /\ ~UpdateRefuses(committed, x, x.row)
  <2> DEFINE p == x.pk
             old == IF committed[p] = NoRow THEN Live(x.row) ELSE committed[p]
  <2>1. /\ p \in PK
        /\ \/ committed[p] \in BaseRow /\ Indexed(committed[p]) /\ x.row = committed[p].row
           \/ committed[p] = NoRow /\ x.row = SourceRow(source, p)
    <3>1. TypeOK
      BY <1>1 DEF IInv
    <3> QED
      BY <1>1, <3>1, ShownRow DEF SourceRow
  <2>2. old \in BaseRow /\ old.row = x.row /\ [old EXCEPT !.row = x.row].row = x.row
    <3>1. TypeOK /\ x.row \in Row
      BY <1>1, ShownRow DEF IInv
    <3> QED
      BY <2>1, <3>1 DEF Live, BaseRow
  <2>3. \A q \in PK \ {p} : Indexed(committed[q]) => ~Same(x.row, committed[q].row)
    <3>1. CASE committed[p] = NoRow
      BY <1>1, <2>1, <3>1, ConflictIsRevealed DEF Indexed
    <3>2. CASE committed[p] # NoRow
      BY <1>1, <2>1, <3>2 DEF IInv, Clear, ClearOf
    <3> QED
      BY <3>1, <3>2
  <2>4. committed \in [PK -> BaseRow \cup {NoRow}]
    BY <1>1 DEF IInv, TypeOK
  <2> HIDE DEF old
  <2>5. ASSUME NEW after, \A q \in PK \ {p} : after[q] = committed[q],
               NEW new, new.row = x.row
        PROVE  ~IndexRefuses(after, p, new)
    BY <2>3, <2>5 DEF IndexRefuses
  <2>6. ASSUME NEW after, NEW new, new.row = x.row
        PROVE  ~TriggerRefuses(after, p, committed[p], new)
    <3>1. CASE committed[p] = NoRow
      BY <1>1, <2>1, <2>6, <3>1 DEF TriggerRefuses, Reserves, Indexed
    <3>2. CASE committed[p] # NoRow
      BY <2>1, <2>6, <3>2 DEF TriggerRefuses
    <3> QED
      BY <3>1, <3>2
  <2>7. ASSUME NEW new, new.row = x.row
        PROVE  ~Refuses(committed, p, committed[p], new)
    BY <2>1, <2>4, <2>5, <2>6, <2>7 DEF Refuses
  <2>8. ~Refuses([committed EXCEPT ![p] = old], p, old, [old EXCEPT !.row = x.row])
    <3> DEFINE new == [old EXCEPT !.row = x.row]
               after == [[committed EXCEPT ![p] = old] EXCEPT ![p] = new]
    <3>1. \A q \in PK \ {p} : after[q] = committed[q]
      BY <2>4
    <3>2. new.row = x.row /\ Key(old.row) = Key(new.row) /\ old # NoRow
      BY <2>2, RowsAssumption
    <3> HIDE DEF after, new
    <3>3. ~IndexRefuses(after, p, new) /\ ~TriggerRefuses(after, p, old, new)
      BY <2>5, <3>1, <3>2 DEF TriggerRefuses
    <3> QED
      BY <3>3 DEF Refuses, after, new
  <2>9. ~UpdateRefuses(committed, x, x.row)
    <3>1. committed[p] = NoRow => ~Refuses(committed, p, NoRow, old)
      BY <2>2, <2>7
    <3> QED
      BY <2>8, <3>1 DEF UpdateRefuses, old
  <2> QED
    BY <2>7, <2>9
<1>2. IInv => RowsStayEditable
  BY <1>1 DEF RowsStayEditable
<1> QED
  BY <1>2, Inductive, PTL DEF Spec
=============================================================================
