-------------------------- MODULE OverlayReferences --------------------------
(***************************************************************************)
(* One OverlayForeignKey: a referencing (child) model, a target overlay    *)
(* model, and the two deferred constraint triggers between them.           *)
(* Transactions of several statements run under READ COMMITTED; each       *)
(* statement is atomic here (OverlaySessions opens them up).  A statement  *)
(* queues a trigger event for every row of the two base tables it changes, *)
(* COMMIT runs the queued triggers one by one, each on a new snapshot, and *)
(* only then makes the transaction visible.                                *)
(***************************************************************************)
EXTENDS OverlayRows

CONSTANTS
  Child,           \* rows of the referencing model
  ChildSoftDelete, \* whether the referencing model is a soft-deleting one
  VendorChildren,  \* the referencing rows that can be the vendor's own
  NoPk,            \* a NULL reference
  Session, Nobody,
  RawDelete,       \* which deletes may bypass Django's collector: "none", those
                   \* of "base rows", or "any"
  MaxStatements    \* bound: statements in one transaction

ASSUME ReferencesAssumption ==
  /\ NoPk \notin PK /\ Nobody \notin Session
  /\ ChildSoftDelete \in BOOLEAN /\ RawDelete \in {"none", "base rows", "any"}
  /\ VendorChildren \subseteq Child
  /\ MaxStatements \in Nat

Ref      == PK \cup {NoPk}
ChildRow == [to : Ref, deleted : BOOLEAN]

VARIABLES
  target, children,    \* the base tables, uncommitted writes included
  committedTarget, committedChildren,
  targetLock, childLock,
  source,              \* the target's source table
  vendorRef,           \* vendorRef[c]: what the vendor's row c refers to
  queue,               \* queue[s]: the deferred trigger events of session s
  phase,               \* phase[s]: "open" or "checking", at COMMIT
  done                 \* done[s]: statements run in this transaction

tables    == <<target, children, targetLock, childLock>>
committed == <<committedTarget, committedChildren>>
vendor    == <<source, vendorRef>>
vars      == <<tables, committed, vendor, queue, phase, done>>

Init ==
  /\ target = [p \in PK |-> NoRow] /\ committedTarget = target
  /\ children = [c \in Child |-> NoRow] /\ committedChildren = children
  /\ targetLock = [p \in PK |-> Nobody] /\ childLock = [c \in Child |-> Nobody]
  /\ source \in [VendorId -> Row \cup {NoRow}]
  /\ vendorRef \in [Child -> Ref]
  /\ \A c \in Child :
       vendorRef[c] # NoPk => /\ c \in VendorChildren
                              /\ Visible(target, source, vendorRef[c])
  /\ queue = [s \in Session |-> {}]
  /\ phase = [s \in Session |-> "open"]
  /\ done  = [s \in Session |-> 0]

\* What a new snapshot of session s holds.
Targets(s)  == [p \in PK |-> IF targetLock[p] = s THEN target[p]
                             ELSE committedTarget[p]]
Children(s) == [c \in Child |-> IF childLock[c] = s THEN children[c]
                                ELSE committedChildren[c]]

\* What row c of the referencing model's view refers to.
RefersTo(rows, c) ==
  IF rows[c] = NoRow THEN vendorRef[c]
  ELSE IF rows[c].deleted THEN NoPk ELSE rows[c].to

Live(r) == [row |-> r, deleted |-> FALSE]

-----------------------------------------------------------------------------
(* The triggers                                                            *)

\* Row changes the triggers are declared for: AFTER INSERT OR UPDATE of the
\* reference, and AFTER DELETE OR UPDATE of the target's base row.
Referenced(c, p) == [kind |-> "insert side", child |-> c, to |-> p]
Removed(p, old)  == [kind |-> "delete side", pk |-> p, old |-> old]

MutantTargetExists(s, p) ==   \* a source row counts, masked or not
  \/ BaseShows(Targets(s), p)
  \/ SourceRow(source, p) \in ExtraWhere

\* EXISTS in the base table, or in the source and not masked by a tombstone.
TargetExists(s, p) ==
  \/ BaseShows(Targets(s), p)
  \/ /\ SourceRow(source, p) \in ExtraWhere
     /\ ~(SoftDelete /\ IsTombstone(Targets(s), p))

InsertSideRefuses(s, e) ==
  LET row == Children(s)[e.child] IN
  /\ row # NoRow /\ row.to = e.to     \* still how the row looks
  /\ e.to # NoPk
  /\ ~TargetExists(s, e.to)

MutantDeleteSideRefuses(s, e) ==   \* does not look again without the key
  /\ ~\E x \in View(Targets(s), source) :
        x.pk = e.pk /\ SamePartition(x.row, e.old)
  /\ \E c \in Child : Children(s)[c] # NoRow /\ Children(s)[c].to = e.pk

\* No longer visible, referenced, and not visible by its id alone either.
DeleteSideRefuses(s, e) ==
  /\ ~\E x \in View(Targets(s), source) :
        x.pk = e.pk /\ SamePartition(x.row, e.old)
  /\ \E c \in Child : Children(s)[c] # NoRow /\ Children(s)[c].to = e.pk
  /\ ~Visible(Targets(s), source, e.pk)

Refuses(s, e) ==
  \/ e.kind = "insert side" /\ InsertSideRefuses(s, e)
  \/ e.kind = "delete side" /\ DeleteSideRefuses(s, e)

-----------------------------------------------------------------------------
(* Statements                                                              *)

Statement(s, events) ==
  /\ phase[s] = "open" /\ done[s] < MaxStatements
  /\ done' = [done EXCEPT ![s] = @ + 1]
  /\ queue' = [queue EXCEPT ![s] = @ \cup events]
  /\ UNCHANGED <<committed, vendor, phase>>

CanWriteTarget(s, p) == targetLock[p] \in {s, Nobody}
CanWriteChild(s, c)  == childLock[c] \in {s, Nobody}

WriteTarget(s, p, t) ==
  /\ CanWriteTarget(s, p)
  /\ target' = [target EXCEPT ![p] = t]
  /\ targetLock' = [targetLock EXCEPT ![p] = s]

WriteChildren(s, C, t) ==
  /\ \A c \in C : CanWriteChild(s, c)
  /\ children' = [c \in Child |-> IF c \in C THEN t[c] ELSE children[c]]
  /\ childLock' = [c \in Child |-> IF c \in C THEN s ELSE childLock[c]]

\* Creating a reference, or changing or clearing one; a vendor's row is copied
\* up first, which queues an event for the reference it carries.
Refer(s, c, p) ==
  LET copied == IF children[c] = NoRow /\ vendorRef[c] # NoPk
                THEN {Referenced(c, vendorRef[c])} ELSE {}
      changed == IF children[c] # NoRow /\ children[c].to = p
                 THEN {} ELSE {Referenced(c, p)}
  IN  /\ children[c] # NoRow => ~children[c].deleted
      /\ WriteChildren(s, {c}, [x \in {c} |-> [to |-> p, deleted |-> FALSE]])
      /\ Statement(s, copied \cup changed)
      /\ UNCHANGED <<target, targetLock>>

\* INSTEAD OF DELETE on the referencing model's view.
Flags(c) == ChildSoftDelete /\ vendorRef[c] # NoPk
WithoutChild(c) ==
  IF ~Flags(c) THEN NoRow
  ELSE [to |-> IF children[c] = NoRow THEN vendorRef[c] ELSE children[c].to,
        deleted |-> TRUE]
\* Only the INSERT of a tombstone queues an event: flagging a row does not
\* change its reference, and the insert side does not fire for DELETE.
DeleteEvents(c) ==
  IF Flags(c) /\ children[c] = NoRow THEN {Referenced(c, vendorRef[c])} ELSE {}

DeleteChild(s, c) ==
  /\ Children(s)[c] # NoRow \/ vendorRef[c] # NoPk
  /\ WriteChildren(s, {c}, [x \in {c} |-> WithoutChild(x)])
  /\ Statement(s, DeleteEvents(c))
  /\ UNCHANGED <<target, targetLock>>

InsertTarget(s, p, r) ==
  /\ target[p] = NoRow
  /\ Overridable \/ ~SourceProbe(source, p, r)
  /\ WriteTarget(s, p, Live(r))
  /\ Statement(s, {})
  /\ UNCHANGED <<children, childLock>>

\* The copy-up is an INSERT and an UPDATE, so either way the row is updated.
UpdateTarget(s, old, r) ==
  LET p == old.pk IN
  /\ target[p] # NoRow \/ Overridable
  /\ IF target[p] = NoRow THEN WriteTarget(s, p, Live(r))
                          ELSE WriteTarget(s, p, [target[p] EXCEPT !.row = r])
  /\ Statement(s, {Removed(p, old.row)})
  /\ UNCHANGED <<children, childLock>>

\* The base row goes, or is flagged, or comes into being as a tombstone; the
\* delete side is not declared for that INSERT.
RemoveTarget(s, p, flagged) ==
  LET row == IF target[p] = NoRow THEN SourceRow(source, p) ELSE target[p].row IN
  IF target[p] = NoRow /\ ~flagged
  THEN UNCHANGED <<target, targetLock>>
  ELSE WriteTarget(s, p, IF flagged THEN [row |-> row, deleted |-> TRUE] ELSE NoRow)

RemovalEvents(p) ==
  IF target[p] = NoRow THEN {} ELSE {Removed(p, target[p].row)}

FlagsTarget(old) == SoftDelete /\ SourceProbe(source, old.pk, old.row)

\* A DELETE that the database alone sees.
DeleteTarget(s, old) ==
  /\ RawDelete # "none"
  /\ RawDelete = "base rows" => target[old.pk] # NoRow
  /\ RemoveTarget(s, old.pk, FlagsTarget(old))
  /\ Statement(s, RemovalEvents(old.pk))
  /\ UNCHANGED <<children, childLock>>

\* Model.delete(): Django's collector deletes what refers to the row first.
CascadeDelete(s, old) ==
  LET dependents == {c \in Child : RefersTo(Children(s), c) = old.pk} IN
  /\ WriteChildren(s, dependents, [c \in dependents |-> WithoutChild(c)])
  /\ RemoveTarget(s, old.pk, FlagsTarget(old))
  /\ Statement(s, RemovalEvents(old.pk)
                  \cup UNION {DeleteEvents(c) : c \in dependents})

\* reset_to_source() goes around the collector.
ResetTarget(s, p) ==
  /\ Targets(s)[p] # NoRow
  /\ RemoveTarget(s, p, FALSE)
  /\ Statement(s, RemovalEvents(p))
  /\ UNCHANGED <<children, childLock>>

-----------------------------------------------------------------------------
(* COMMIT                                                                  *)

BeginCommit(s) ==
  /\ phase[s] = "open" /\ done[s] > 0
  /\ phase' = [phase EXCEPT ![s] = "checking"]
  /\ UNCHANGED <<tables, committed, vendor, queue, done>>

CheckPasses(s, e) ==
  /\ phase[s] = "checking" /\ ~Refuses(s, e)
  /\ queue' = [queue EXCEPT ![s] = @ \ {e}]
  /\ UNCHANGED <<tables, committed, vendor, phase, done>>

LetGo(s) ==
  /\ targetLock' = [p \in PK |-> IF targetLock[p] = s THEN Nobody ELSE targetLock[p]]
  /\ childLock' = [c \in Child |-> IF childLock[c] = s THEN Nobody ELSE childLock[c]]
  /\ queue' = [queue EXCEPT ![s] = {}]
  /\ phase' = [phase EXCEPT ![s] = "open"]
  /\ done' = [done EXCEPT ![s] = 0]
  /\ UNCHANGED vendor

Commit(s) ==
  /\ phase[s] = "checking" /\ queue[s] = {}
  /\ committedTarget' = Targets(s)
  /\ committedChildren' = Children(s)
  /\ LetGo(s)
  /\ UNCHANGED <<target, children>>

MutantRollback(s) ==   \* the writes stay
  /\ done[s] > 0
  /\ LetGo(s)
  /\ UNCHANGED <<target, children, committed>>

\* A trigger that raises, or any other error.
Rollback(s) ==
  /\ done[s] > 0
  /\ target' = [p \in PK |-> IF targetLock[p] = s THEN committedTarget[p] ELSE target[p]]
  /\ children' = [c \in Child |-> IF childLock[c] = s THEN committedChildren[c]
                                  ELSE children[c]]
  /\ LetGo(s)
  /\ UNCHANGED committed

TargetStatement(s) ==
  \/ \E p \in PK : (\E r \in Row : InsertTarget(s, p, r)) \/ ResetTarget(s, p)
  \/ \E old \in View(Targets(s), source) :
       \/ \E r \in Row : UpdateTarget(s, old, r)
       \/ DeleteTarget(s, old) \/ CascadeDelete(s, old)

ChildStatement(s) ==
  \E c \in Child : DeleteChild(s, c) \/ \E p \in Ref : Refer(s, c, p)

EndOfTransaction(s) ==
  \/ BeginCommit(s) \/ Commit(s) \/ Rollback(s)
  \/ \E e \in queue[s] : CheckPasses(s, e)

Next ==
  \E s \in Session : TargetStatement(s) \/ ChildStatement(s) \/ EndOfTransaction(s)

Spec == Init /\ [][Next]_vars

-----------------------------------------------------------------------------
(* Properties                                                              *)

Event ==
  [kind : {"insert side"}, child : Child, to : Ref]
  \cup [kind : {"delete side"}, pk : PK, old : Row]

\* Only locked rows differ from what is committed, and only an open
\* transaction holds locks.
TypeOK ==
  /\ target \in [PK -> BaseRow \cup {NoRow}]
  /\ committedTarget \in [PK -> BaseRow \cup {NoRow}]
  /\ children \in [Child -> ChildRow \cup {NoRow}]
  /\ committedChildren \in [Child -> ChildRow \cup {NoRow}]
  /\ targetLock \in [PK -> Session \cup {Nobody}]
  /\ childLock \in [Child -> Session \cup {Nobody}]
  /\ source \in [VendorId -> Row \cup {NoRow}] /\ vendorRef \in [Child -> Ref]
  /\ queue \in [Session -> SUBSET Event]
  /\ phase \in [Session -> {"open", "checking"}]
  /\ done \in [Session -> 0..MaxStatements]
  /\ \A p \in PK : targetLock[p] = Nobody => target[p] = committedTarget[p]
  /\ \A c \in Child : childLock[c] = Nobody => children[c] = committedChildren[c]

Dangles(targets, rows, c) ==
  RefersTo(rows, c) # NoPk /\ ~Visible(targets, source, RefersTo(rows, c))

\* "Together they make referential integrity enforced rather than advisory"
\* (referenced_row_trigger.sql.j2:5-8): every committed reference is to a row
\* the target's view shows.
Integrity ==
  \A c \in Child : ~Dangles(committedTarget, committedChildren, c)

\* A COMMIT is refused only over a reference that really would dangle: a
\* removed or repointed reference, a row reset to its source or a changed
\* partition key is no reason (constraint_trigger.sql.j2:11-19,
\* referenced_row_trigger.sql.j2:10-14, 38-44).
RefusesOnlyDangling ==
  \A s \in Session : \A e \in queue[s] :
    phase[s] = "checking" /\ Refuses(s, e) =>
      \E c \in Child : Dangles(Targets(s), Children(s), c)
=============================================================================
