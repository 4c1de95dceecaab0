-------------------------- MODULE OverlayUniqueness --------------------------
(***************************************************************************)
(* One OverlayUniqueConstraint: a unique index on the base table, partial  *)
(* on a soft-deleting model, and a constraint trigger that looks for the   *)
(* value in the source.  Both act within the statement.  Transactions are  *)
(* of one statement; another one waits for a row this one has written, and *)
(* for an index entry this one has added or taken away.                    *)
(***************************************************************************)
EXTENDS OverlayConstraints

CONSTANTS
  Session,
  NoWrite   \* marks a session with nothing uncommitted

ASSUME UniquenessAssumption == NoWrite \notin [pk : PK, row : BaseRow \cup {NoRow}]

VARIABLES
  committed,  \* the base table
  write,      \* write[s]: the row session s has written and not committed
  source,
  revealed    \* history: vendor rows whose tombstone was reset away

vars == <<committed, write, source, revealed>>

Writes == [pk : PK, row : BaseRow \cup {NoRow}]

Init ==
  /\ committed = [p \in PK |-> NoRow]
  /\ write = [s \in Session |-> NoWrite]
  /\ source \in [VendorId -> Row \cup {NoRow}]
  /\ revealed = {}

-----------------------------------------------------------------------------
(* The two halves of the constraint, asked of the row a statement writes.  *)

IndexRefuses(base, p, b) ==
  /\ Indexed(b)
  /\ \E q \in PK \ {p} : Indexed(base[q]) /\ Same(b.row, base[q].row)

MutantTriggerRefuses(base, p, old, new) == FALSE   \* the native half alone

MutantOwnOrigin(base, p, old, new) ==   \* a row conflicts with its own source
  /\ new # NoRow
  /\ old = NoRow \/ Key(old.row) # Key(new.row)
  /\ \E v \in VendorId : Reserves(base, source, v, new.row)

TriggerRefuses(base, p, old, new) ==
  /\ new # NoRow
  /\ old = NoRow \/ Key(old.row) # Key(new.row)
  /\ \E v \in VendorId \ {SourcePk(p)} : Reserves(base, source, v, new.row)

\* An INSERT or UPDATE of one base row, old to new.
Refuses(base, p, old, new) ==
  LET after == [base EXCEPT ![p] = new]
  IN  IndexRefuses(after, p, new) \/ TriggerRefuses(after, p, old, new)

\* An UPDATE of a vendor's row is the INSERT of its copy first.
UpdateRefuses(base, x, r) ==
  LET old == IF base[x.pk] = NoRow THEN Live(x.row) ELSE base[x.pk]
  IN  \/ base[x.pk] = NoRow /\ Refuses(base, x.pk, NoRow, old)
      \/ Refuses([base EXCEPT ![x.pk] = old], x.pk, old, [old EXCEPT !.row = r])

-----------------------------------------------------------------------------
(* Statements, on a snapshot of what is committed                          *)

\* The row and the index entries a write touches, before and after.
Touches(w, r) ==
  \/ w.row # NoRow /\ Indexed(w.row) /\ Same(r, w.row.row)
  \/ LET b == committed[w.pk] IN Indexed(b) /\ Same(r, b.row)

Others(s) == {write[t] : t \in {u \in Session : write[u] # NoWrite /\ u # s}}

MutantWrite(s, p, b) ==   \* nobody waits
  /\ write[s] = NoWrite
  /\ write' = [write EXCEPT ![s] = [pk |-> p, row |-> b]]
  /\ UNCHANGED <<committed, source>>

Write(s, p, b) ==
  /\ write[s] = NoWrite
  /\ \A w \in Others(s) : w.pk # p /\ ~(b # NoRow /\ Indexed(b) /\ Touches(w, b.row))
  /\ write' = [write EXCEPT ![s] = [pk |-> p, row |-> b]]
  /\ UNCHANGED <<committed, source>>

Insert(s, p, r) ==
  /\ committed[p] = NoRow
  /\ Overridable \/ ~SourceProbe(source, p, r)
  /\ ~Refuses(committed, p, NoRow, Live(r))
  /\ Write(s, p, Live(r))
  /\ UNCHANGED revealed

Update(s, x, r) ==
  /\ committed[x.pk] # NoRow \/ Overridable
  /\ ~UpdateRefuses(committed, x, r)
  /\ Write(s, x.pk, Live(r))
  /\ UNCHANGED revealed

\* The INSERT of a tombstone fires the trigger, flagging a row does not.
Delete(s, x) ==
  LET flags == SoftDelete /\ SourceProbe(source, x.pk, x.row)
      b == committed[x.pk]
      tombstone == [row |-> IF b = NoRow THEN x.row ELSE b.row, deleted |-> TRUE]
  IN  /\ flags => ~Refuses(committed, x.pk, b, tombstone)
      /\ Write(s, x.pk, IF flags THEN tombstone ELSE NoRow)
      /\ UNCHANGED revealed

\* Deletes the base row and asks no trigger.
ResetToSource(s, p) ==
  /\ committed[p] # NoRow
  /\ Write(s, p, NoRow)
  /\ revealed' = IF committed[p].deleted THEN revealed \cup {p} ELSE revealed

Commit(s) ==
  /\ write[s] # NoWrite
  /\ committed' = [committed EXCEPT ![write[s].pk] = write[s].row]
  /\ write' = [write EXCEPT ![s] = NoWrite]
  /\ UNCHANGED <<source, revealed>>

Rollback(s) ==
  /\ write[s] # NoWrite
  /\ write' = [write EXCEPT ![s] = NoWrite]
  /\ UNCHANGED <<committed, source, revealed>>

Next ==
  \E s \in Session :
    \/ \E p \in PK : (\E r \in Row : Insert(s, p, r)) \/ ResetToSource(s, p)
    \/ \E x \in View(committed, source) : Delete(s, x) \/ \E r \in Row : Update(s, x, r)
    \/ Commit(s) \/ Rollback(s)

Spec == Init /\ [][Next]_vars

-----------------------------------------------------------------------------
(* Properties                                                              *)

TypeOK ==
  /\ committed \in [PK -> BaseRow \cup {NoRow}]
  /\ write \in [Session -> Writes \cup {NoWrite}]
  /\ source \in [VendorId -> Row \cup {NoRow}]
  /\ revealed \subseteq PK
  /\ \A s, t \in Session :
       s # t /\ write[s] # NoWrite /\ write[t] # NoWrite => write[s].pk # write[t].pk

\* "Uniqueness has to hold across both" tables (uniqueness.py:3-5): whatever
\* sessions write at the same time, two rows of the view share a value only if
\* the vendor published both so, or a tombstone was reset away from one of them
\* (unique_constraint_trigger.sql.j2:32-35 gave its value to others meanwhile).
UniqueInView ==
  \A x, y \in View(committed, source) :
    x.pk # y.pk /\ Same(x.row, y.row) =>
      \/ x.origin = "source" /\ y.origin = "source"
      \/ {x.pk, y.pk} \cap revealed # {}

\* full_clean() asks the view (uniqueness.py:80-88): what it finds free the
\* database refuses only over a vendor's value that an override hides, which
\* stays reserved so that a reset cannot collide.
Free(base, p, r) ==
  ~\E y \in View(base, source) : y.pk # p /\ Same(r, y.row)

HiddenByOverride(r) ==
  \E v \in VendorId :
    /\ source[v] \in ExtraWhere /\ Same(r, source[v])
    /\ committed[ViewPk(v)] # NoRow /\ ~IsTombstone(committed, ViewPk(v))

RefusesOnlyReserved ==
  \A p \in PK, r \in Row :
    /\ committed[p] = NoRow /\ SourceRow(source, p) = NoRow
    /\ Free(committed, p, r) /\ Refuses(committed, p, NoRow, Live(r))
    => HiddenByOverride(r)

\* The row that is being written never stands in its own way
\* (unique_constraint_trigger.sql.j2:13): a vendor's row can be deleted, or
\* updated without a change of value, unless the vendor publishes the value
\* twice or a reset revealed it where another row has it.
RowsStayEditable ==
  \A x \in View(committed, source) :
    LET tombstone == [row |-> x.row, deleted |-> TRUE] IN
    /\ SourceRow(source, x.pk) \in ExtraWhere
    /\ \/ SoftDelete /\ Refuses(committed, x.pk, committed[x.pk], tombstone)
       \/ UpdateRefuses(committed, x, x.row)
    => \/ \E v \in VendorId \ {SourcePk(x.pk)} :
            source[v] \in ExtraWhere /\ Same(SourceRow(source, x.pk), source[v])
       \/ x.pk \in revealed
=============================================================================
