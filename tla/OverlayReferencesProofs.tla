----------------------- MODULE OverlayReferencesProofs -----------------------
(***************************************************************************)
(* Theorems about OverlayReferences, for every set of ids, rows, children  *)
(* and statements.  Integrity is the work of both triggers together: that  *)
(* a reference which dangles has an event waiting that will find it out is *)
(* the invariant every statement and every passed check has to keep.       *)
(***************************************************************************)
EXTENDS OverlayReferences, TLAPS

-----------------------------------------------------------------------------
(* Type correctness                                                        *)

\* What the source holds for an id.
LEMMA LookupType ==
  ASSUME source \in [VendorId -> Row \cup {NoRow}], NEW p
  PROVE  SourceRow(source, p) \in Row \cup {NoRow}
BY DEF SourceRow

\* A row of the view has an id of the model and a row's columns.
LEMMA SeenType ==
  ASSUME NEW targets \in [PK -> BaseRow \cup {NoRow}],
         source \in [VendorId -> Row \cup {NoRow}],
         NEW x \in View(targets, source)
  PROVE  x.pk \in PK /\ x.row \in Row
<1>1. CASE x \in {[origin |-> "base", pk |-> p, row |-> targets[p].row] :
                    p \in {q \in PK : BaseShows(targets, q)}}
  BY <1>1 DEF BaseShows, BaseRow
<1>2. CASE x \in {[origin |-> "source", pk |-> p, row |-> SourceRow(source, p)] :
                    p \in {q \in PK : SourceShows(targets, source, q)}}
  <2>1. PICK p \in PK : /\ SourceShows(targets, source, p)
                        /\ x = [origin |-> "source", pk |-> p, row |-> SourceRow(source, p)]
    BY <1>2
  <2>2. SourceRow(source, p) \in Row
    BY <2>1, RowsAssumption DEF SourceShows
  <2> QED
    BY <2>1, <2>2
<1> QED
  BY <1>1, <1>2 DEF View

\* The snapshots of a session are tables.
LEMMA SnapshotType ==
  ASSUME TypeOK, NEW s \in Session
  PROVE  /\ Targets(s) \in [PK -> BaseRow \cup {NoRow}]
         /\ Children(s) \in [Child -> ChildRow \cup {NoRow}]
BY DEF TypeOK, Targets, Children

\* What a statement queues.
LEMMA EventTypes ==
  /\ \A c \in Child, p \in Ref : Referenced(c, p) \in Event
  /\ \A p \in PK, r \in Row : Removed(p, r) \in Event
BY DEF Referenced, Removed, Event

\* The tables of the target, or of the children, after a statement of theirs.
TargetOK ==
  /\ target \in [PK -> BaseRow \cup {NoRow}]
  /\ targetLock \in [PK -> Session \cup {Nobody}]
  /\ \A p \in PK : targetLock[p] = Nobody => target[p] = committedTarget[p]

ChildrenOK ==
  /\ children \in [Child -> ChildRow \cup {NoRow}]
  /\ childLock \in [Child -> Session \cup {Nobody}]
  /\ \A c \in Child : childLock[c] = Nobody => children[c] = committedChildren[c]

\* A statement that leaves both in order leaves everything in order.
LEMMA StatementType ==
  ASSUME TypeOK, NEW s \in Session, NEW events \in SUBSET Event, Statement(s, events),
         TargetOK', ChildrenOK'
  PROVE  TypeOK'
<1>1. done' \in [Session -> 0..MaxStatements]
  <2>1. MaxStatements \in Nat
    BY ReferencesAssumption
  <2>2. \A n \in 0..MaxStatements : n < MaxStatements => n + 1 \in 0..MaxStatements
    BY <2>1
  <2> QED
    BY <2>2 DEF TypeOK, Statement
<1>2. queue' \in [Session -> SUBSET Event] /\ phase' = phase
  BY DEF TypeOK, Statement
<1>3. /\ committedTarget' = committedTarget /\ committedChildren' = committedChildren
      /\ source' = source /\ vendorRef' = vendorRef
  BY DEF Statement, committed, vendor
<1> QED
  BY <1>1, <1>2, <1>3 DEF TypeOK, TargetOK, ChildrenOK

\* A row as an insert leaves it.
LEMMA LiveType == \A r \in Row : Live(r) \in BaseRow
BY DEF Live, BaseRow

\* A row that is written is locked.
LEMMA TargetWriteType ==
  ASSUME TypeOK, NEW s \in Session, committedTarget' = committedTarget,
         \/ UNCHANGED <<target, targetLock>>
         \/ \E p \in PK, t \in BaseRow \cup {NoRow} : WriteTarget(s, p, t)
  PROVE  TargetOK'
<1>1. s # Nobody
  BY ReferencesAssumption
<1> QED
  BY <1>1 DEF WriteTarget, TypeOK, TargetOK

\* A referencing row that is written is locked.
LEMMA ChildWriteType ==
  ASSUME TypeOK, NEW s \in Session, committedChildren' = committedChildren,
         NEW C \in SUBSET Child, NEW t, WriteChildren(s, C, t),
         \A c \in C : t[c] \in ChildRow \cup {NoRow}
  PROVE  ChildrenOK'
<1>1. s # Nobody
  BY ReferencesAssumption
<1> QED
  BY <1>1 DEF WriteChildren, TypeOK, ChildrenOK

\* What a statement leaves alone.
LEMMA StatementFrame ==
  ASSUME TypeOK, NEW s, NEW events, Statement(s, events)
  PROVE  /\ committedTarget' = committedTarget /\ committedChildren' = committedChildren
         /\ UNCHANGED <<target, targetLock>> => TargetOK'
         /\ UNCHANGED <<children, childLock>> => ChildrenOK'
BY DEF Statement, committed, TypeOK, TargetOK, ChildrenOK

\* A referencing row that is deleted, and what its delete queues.
LEMMA WithoutChildType ==
  ASSUME TypeOK, NEW c \in Child
  PROVE  /\ WithoutChild(c) \in ChildRow \cup {NoRow}
         /\ DeleteEvents(c) \in SUBSET Event
BY EventTypes DEF WithoutChild, Flags, DeleteEvents, TypeOK, ChildRow

\* Removing a target row writes a tombstone or no row, or nothing at all.
LEMMA RemoveTargetType ==
  ASSUME TypeOK, NEW s, NEW p \in PK, NEW flagged \in BOOLEAN,
         flagged => SourceRow(source, p) # NoRow,
         RemoveTarget(s, p, flagged)
  PROVE  \/ UNCHANGED <<target, targetLock>>
         \/ \E q \in PK, t \in BaseRow \cup {NoRow} : WriteTarget(s, q, t)
<1> DEFINE row == IF target[p] = NoRow THEN SourceRow(source, p) ELSE target[p].row
<1>1. CASE ~flagged
  BY <1>1 DEF RemoveTarget
<1>2. CASE flagged
  <2>1. row \in Row
    BY <1>2, LookupType DEF TypeOK, BaseRow
  <2>2. [row |-> row, deleted |-> TRUE] \in BaseRow
    BY <2>1 DEF BaseRow
  <2>3. WriteTarget(s, p, [row |-> row, deleted |-> TRUE])
    BY <1>2 DEF RemoveTarget
  <2> QED
    BY <2>2, <2>3
<1> QED
  BY <1>1, <1>2

\* What removing a target queues.
LEMMA RemovalEventsType ==
  ASSUME TypeOK, NEW p \in PK
  PROVE  RemovalEvents(p) \in SUBSET Event
BY EventTypes DEF RemovalEvents, TypeOK, BaseRow

\* A transaction that has sent nothing is within the bound.
LEMMA NoStatements == 0 \in 0..MaxStatements
<1>1. MaxStatements \in Nat
  BY ReferencesAssumption
<1> QED
  BY <1>1

\* Every statement and every step of a COMMIT keeps the types.
LEMMA TypeInductive ==
  /\ Init => TypeOK
  /\ TypeOK /\ [Next]_vars => TypeOK'
<1>1. ASSUME Init PROVE TypeOK
  <2>1. 0 \in 0..MaxStatements
    BY NoStatements
  <2>2. /\ target \in [PK -> BaseRow \cup {NoRow}] /\ committedTarget = target
        /\ children \in [Child -> ChildRow \cup {NoRow}] /\ committedChildren = children
    BY <1>1 DEF Init
  <2>3. /\ targetLock \in [PK -> Session \cup {Nobody}]
        /\ childLock \in [Child -> Session \cup {Nobody}]
        /\ queue \in [Session -> SUBSET Event]
        /\ phase \in [Session -> {"open", "checking"}]
        /\ done \in [Session -> 0..MaxStatements]
    BY <1>1, <2>1 DEF Init
  <2>4. source \in [VendorId -> Row \cup {NoRow}] /\ vendorRef \in [Child -> Ref]
    BY <1>1 DEF Init
  <2> QED
    BY <2>2, <2>3, <2>4 DEF TypeOK
<1>2. TypeOK /\ [Next]_vars => TypeOK'
  <2> SUFFICES ASSUME TypeOK, [Next]_vars PROVE TypeOK'
    OBVIOUS
  <2>1. ASSUME NEW s \in Session, NEW p \in PK, NEW r \in Row, InsertTarget(s, p, r)
        PROVE  TypeOK'
    <3>1. Live(r) \in BaseRow \cup {NoRow} /\ {} \in SUBSET Event
      BY LiveType
    <3>2. Statement(s, {}) /\ WriteTarget(s, p, Live(r)) /\ UNCHANGED <<children, childLock>>
      BY <2>1 DEF InsertTarget
    <3>3. TargetOK' /\ ChildrenOK'
      BY <3>1, <3>2, StatementFrame, TargetWriteType
    <3> QED
      BY <3>1, <3>2, <3>3, StatementType
  <2>2. ASSUME NEW s \in Session, NEW p \in PK, ResetTarget(s, p) PROVE TypeOK'
    <3>1. /\ Statement(s, RemovalEvents(p)) /\ RemoveTarget(s, p, FALSE)
          /\ UNCHANGED <<children, childLock>>
      BY <2>2 DEF ResetTarget
    <3>2. TargetOK' /\ ChildrenOK'
      BY <3>1, StatementFrame, RemoveTargetType, TargetWriteType
    <3> QED
      BY <3>1, <3>2, RemovalEventsType, StatementType
  <2>3. ASSUME NEW s \in Session, NEW old \in View(Targets(s), source), NEW r \in Row,
               UpdateTarget(s, old, r)
        PROVE  TypeOK'
    <3>1. old.pk \in PK /\ {Removed(old.pk, old.row)} \in SUBSET Event
      BY SnapshotType, SeenType, EventTypes DEF TypeOK
    <3>2. \E t \in BaseRow \cup {NoRow} : WriteTarget(s, old.pk, t)
      <4>1. CASE target[old.pk] = NoRow
        BY <2>3, <4>1, LiveType DEF UpdateTarget
      <4>2. CASE target[old.pk] # NoRow
        <5>1. [target[old.pk] EXCEPT !.row = r] \in BaseRow
          BY <3>1, <4>2 DEF TypeOK, BaseRow
        <5> QED
          BY <2>3, <4>2, <5>1 DEF UpdateTarget
      <4> QED
        BY <4>1, <4>2
    <3>3. Statement(s, {Removed(old.pk, old.row)}) /\ UNCHANGED <<children, childLock>>
      BY <2>3 DEF UpdateTarget
    <3>4. TargetOK' /\ ChildrenOK'
      BY <3>1, <3>2, <3>3, StatementFrame, TargetWriteType
    <3> QED
      BY <3>1, <3>3, <3>4, StatementType
  <2>4. ASSUME NEW s \in Session, NEW old \in View(Targets(s), source)
        PROVE  /\ old.pk \in PK /\ FlagsTarget(old) \in BOOLEAN
               /\ FlagsTarget(old) => SourceRow(source, old.pk) # NoRow
    BY SnapshotType, SeenType, RowsAssumption DEF FlagsTarget, SourceProbe, SamePartition, TypeOK
  <2>5. ASSUME NEW s \in Session, NEW old \in View(Targets(s), source), DeleteTarget(s, old)
        PROVE  TypeOK'
    <3>1. /\ Statement(s, RemovalEvents(old.pk)) /\ RemoveTarget(s, old.pk, FlagsTarget(old))
          /\ UNCHANGED <<children, childLock>>
      BY <2>5 DEF DeleteTarget
    <3>2. TargetOK' /\ ChildrenOK'
      BY <2>4, <3>1, StatementFrame, RemoveTargetType, TargetWriteType
    <3> QED
      BY <2>4, <3>1, <3>2, RemovalEventsType, StatementType
  <2>6. ASSUME NEW s \in Session, NEW old \in View(Targets(s), source), CascadeDelete(s, old)
        PROVE  TypeOK'
    <3> DEFINE dependents == {c \in Child : RefersTo(Children(s), c) = old.pk}
               events == RemovalEvents(old.pk) \cup UNION {DeleteEvents(c) : c \in dependents}
               t == [c \in dependents |-> WithoutChild(c)]
    <3>1. events \in SUBSET Event
      BY <2>4, RemovalEventsType, WithoutChildType
    <3>2. \A c \in dependents : t[c] \in ChildRow \cup {NoRow}
      BY WithoutChildType
    <3>3. /\ WriteChildren(s, dependents, t) /\ Statement(s, events)
          /\ RemoveTarget(s, old.pk, FlagsTarget(old))
      BY <2>6 DEF CascadeDelete
    <3>4. dependents \in SUBSET Child
      OBVIOUS
    <3> HIDE DEF dependents, events, t
    <3>5. TargetOK'
      BY <2>4, <3>3, StatementFrame, RemoveTargetType, TargetWriteType
    <3>6. ChildrenOK'
      BY <3>2, <3>3, <3>4, StatementFrame, ChildWriteType
    <3> QED
      BY <3>1, <3>3, <3>5, <3>6, StatementType
  <2>7. ASSUME NEW s \in Session, NEW c \in Child, DeleteChild(s, c) PROVE TypeOK'
    <3> DEFINE t == [x \in {c} |-> WithoutChild(x)]
    <3>1. /\ Statement(s, DeleteEvents(c)) /\ WriteChildren(s, {c}, t)
          /\ UNCHANGED <<target, targetLock>>
      BY <2>7 DEF DeleteChild
    <3>2. {c} \in SUBSET Child /\ \A x \in {c} : t[x] \in ChildRow \cup {NoRow}
      BY WithoutChildType
    <3> HIDE DEF t
    <3>3. TargetOK' /\ ChildrenOK'
      BY <3>1, <3>2, StatementFrame, ChildWriteType
    <3> QED
      BY <3>1, <3>3, WithoutChildType, StatementType
  <2>8. ASSUME NEW s \in Session, NEW c \in Child, NEW p \in Ref, Refer(s, c, p)
        PROVE  TypeOK'
    <3> DEFINE t == [x \in {c} |-> [to |-> p, deleted |-> FALSE]]
    <3>1. vendorRef[c] \in Ref /\ [to |-> p, deleted |-> FALSE] \in ChildRow
      BY DEF TypeOK, ChildRow
    <3>2. PICK events \in SUBSET Event : Statement(s, events)
      BY <2>8, <3>1, EventTypes DEF Refer
    <3>3. WriteChildren(s, {c}, t) /\ UNCHANGED <<target, targetLock>>
      BY <2>8 DEF Refer
    <3>4. {c} \in SUBSET Child /\ \A x \in {c} : t[x] \in ChildRow \cup {NoRow}
      BY <3>1
    <3> HIDE DEF t
    <3>5. TargetOK' /\ ChildrenOK'
      BY <3>2, <3>3, <3>4, StatementFrame, ChildWriteType
    <3> QED
      BY <3>2, <3>5, StatementType
  <2>9. ASSUME NEW s \in Session, BeginCommit(s) PROVE TypeOK'
    BY <2>9 DEF BeginCommit, TypeOK, tables, committed, vendor
  <2>10. ASSUME NEW s \in Session, NEW e \in queue[s], CheckPasses(s, e) PROVE TypeOK'
    BY <2>10 DEF CheckPasses, TypeOK, tables, committed, vendor
  <2>11. ASSUME NEW s \in Session, LetGo(s)
         PROVE  /\ queue' \in [Session -> SUBSET Event]
                /\ phase' \in [Session -> {"open", "checking"}]
                /\ done' \in [Session -> 0..MaxStatements]
                /\ targetLock' \in [PK -> Session \cup {Nobody}]
                /\ childLock' \in [Child -> Session \cup {Nobody}]
                /\ source' = source /\ vendorRef' = vendorRef
    <3>1. 0 \in 0..MaxStatements
      BY NoStatements
    <3> QED
      BY <2>11, <3>1 DEF LetGo, TypeOK, vendor
  <2>12. ASSUME NEW s \in Session, Commit(s) PROVE TypeOK'
    <3>1. /\ committedTarget' = Targets(s) /\ committedChildren' = Children(s)
          /\ target' = target /\ children' = children /\ LetGo(s)
      BY <2>12 DEF Commit
    <3>2. \A p \in PK : targetLock'[p] = Nobody => target'[p] = committedTarget'[p]
      BY <3>1 DEF LetGo, Targets, TypeOK
    <3>3. \A c \in Child : childLock'[c] = Nobody => children'[c] = committedChildren'[c]
      BY <3>1 DEF LetGo, Children, TypeOK
    <3> QED
      BY <2>11, <3>1, <3>2, <3>3, SnapshotType DEF TypeOK
  <2>13. ASSUME NEW s \in Session, Rollback(s) PROVE TypeOK'
    <3>1. /\ target' \in [PK -> BaseRow \cup {NoRow}]
          /\ children' \in [Child -> ChildRow \cup {NoRow}]
          /\ committedTarget' = committedTarget /\ committedChildren' = committedChildren
      BY <2>13 DEF Rollback, TypeOK, committed
    <3>2. \A p \in PK : targetLock'[p] = Nobody => target'[p] = committedTarget'[p]
      BY <2>13 DEF Rollback, LetGo, TypeOK, committed
    <3>3. \A c \in Child : childLock'[c] = Nobody => children'[c] = committedChildren'[c]
      BY <2>13 DEF Rollback, LetGo, TypeOK, committed
    <3>4. LetGo(s)
      BY <2>13 DEF Rollback
    <3> QED
      BY <2>11, <3>1, <3>2, <3>3, <3>4 DEF TypeOK
  <2>14. CASE UNCHANGED vars
    BY <2>14 DEF vars, tables, committed, vendor, TypeOK
  <2> QED
    BY <2>1, <2>2, <2>3, <2>5, <2>6, <2>7, <2>8, <2>9, <2>10, <2>12, <2>13, <2>14
    DEF Next, TargetStatement, ChildStatement, EndOfTransaction
<1> QED
  BY <1>1, <1>2

\* Every table, lock and queue has its type, and a row differs from what is
\* committed only under a lock, in any interleaving of any sessions.
THEOREM ReferencesTypeCorrect == Spec => []TypeOK
BY TypeInductive, PTL DEF Spec

-----------------------------------------------------------------------------
(* Refusals                                                                *)

\* The insert side looks for what the target's view would show.
LEMMA ExistsIsVisible ==
  ASSUME TypeOK, NEW s \in Session, NEW p \in PK
  PROVE  /\ TargetExists(s, p) => Visible(Targets(s), source, p)
         /\ ExtraWhereOr = {} /\ Visible(Targets(s), source, p) => TargetExists(s, p)
BY DEF TargetExists, Visible, BaseShows, SourceShows, Shadowed, AntiJoin, IsTombstone

\* Where the referencing model has no soft delete, no row of it is flagged.
NothingFlagged ==
  \A c \in Child : /\ children[c] # NoRow => ~children[c].deleted
                   /\ committedChildren[c] # NoRow => ~committedChildren[c].deleted

\* Where referencing rows are hard-deleted none is ever flagged.
LEMMA NothingFlaggedInductive ==
  ASSUME ~ChildSoftDelete
  PROVE  /\ Init => NothingFlagged
         /\ TypeOK /\ NothingFlagged /\ [Next]_vars => NothingFlagged'
<1>1. Init => NothingFlagged
  BY DEF Init, NothingFlagged
<1>2. TypeOK /\ NothingFlagged /\ [Next]_vars => NothingFlagged'
  <2> SUFFICES ASSUME TypeOK, NothingFlagged, [Next]_vars PROVE NothingFlagged'
    OBVIOUS
  <2> USE DEF NothingFlagged
  <2>1. ASSUME UNCHANGED <<children, committedChildren>> PROVE NothingFlagged'
    BY <2>1
  <2>2. ASSUME committedChildren' = committedChildren,
               NEW s, NEW C, NEW t, WriteChildren(s, C, t),
               \A c \in C \cap Child : t[c] # NoRow => ~t[c].deleted
        PROVE  NothingFlagged'
    BY <2>2 DEF WriteChildren
  <2>3. \A c \in Child : WithoutChild(c) = NoRow
    BY DEF WithoutChild, Flags
  <2>4. ASSUME NEW s \in Session, TargetStatement(s) PROVE NothingFlagged'
    <3>1. ASSUME NEW old, CascadeDelete(s, old) PROVE NothingFlagged'
      <4> DEFINE dependents == {c \in Child : RefersTo(Children(s), c) = old.pk}
                 t == [c \in dependents |-> WithoutChild(c)]
      <4>1. WriteChildren(s, dependents, t) /\ committedChildren' = committedChildren
        BY <3>1 DEF CascadeDelete, Statement, committed
      <4>2. \A c \in dependents \cap Child : t[c] = NoRow
        BY <2>3
      <4> HIDE DEF dependents, t
      <4> QED
        BY <2>2, <4>1, <4>2
    <3>2. ASSUME ~\E old \in View(Targets(s), source) : CascadeDelete(s, old)
          PROVE  UNCHANGED <<children, committedChildren>>
      BY <2>4, <3>2 DEF TargetStatement, InsertTarget, ResetTarget, UpdateTarget, DeleteTarget,
                        Statement, committed
    <3> QED
      BY <2>1, <3>1, <3>2
  <2>5. ASSUME NEW s \in Session, NEW c \in Child, DeleteChild(s, c) PROVE NothingFlagged'
    <3> DEFINE t == [x \in {c} |-> WithoutChild(x)]
    <3>1. WriteChildren(s, {c}, t) /\ committedChildren' = committedChildren
      BY <2>5 DEF DeleteChild, Statement, committed
    <3>2. \A x \in {c} \cap Child : t[x] = NoRow
      BY <2>3
    <3> HIDE DEF t
    <3> QED
      BY <2>2, <3>1, <3>2
  <2>6. ASSUME NEW s \in Session, NEW c \in Child, NEW p \in Ref, Refer(s, c, p)
        PROVE  NothingFlagged'
    <3> DEFINE t == [x \in {c} |-> [to |-> p, deleted |-> FALSE]]
    <3>1. WriteChildren(s, {c}, t) /\ committedChildren' = committedChildren
      BY <2>6 DEF Refer, Statement, committed
    <3>2. \A x \in {c} \cap Child : ~t[x].deleted
      OBVIOUS
    <3> HIDE DEF t
    <3> QED
      BY <2>2, <3>1, <3>2
  <2>7. ASSUME NEW s \in Session, EndOfTransaction(s) PROVE NothingFlagged'
    <3>1. CASE Commit(s)
      BY <3>1 DEF Commit, Children
    <3>2. CASE Rollback(s)
      BY <3>2 DEF Rollback, committed
    <3>3. CASE BeginCommit(s) \/ \E e \in queue[s] : CheckPasses(s, e)
      BY <2>1, <3>3 DEF BeginCommit, CheckPasses, tables, committed
    <3> QED
      BY <2>7, <3>1, <3>2, <3>3 DEF EndOfTransaction
  <2>8. CASE UNCHANGED vars
    BY <2>1, <2>8 DEF vars, tables, committed
  <2> QED
    BY <2>4, <2>5, <2>6, <2>7, <2>8 DEF Next, ChildStatement
<1> QED
  BY <1>1, <1>2

\* A COMMIT is refused over a reference that dangles and over nothing else, in
\* any interleaving of any sessions, where the referencing model does not
\* soft-delete and the target's condition has no top-level OR.
THEOREM RefusalsAreRight ==
  ASSUME ~ChildSoftDelete, ExtraWhereOr = {}
  PROVE  Spec => []RefusesOnlyDangling
<1>1. ASSUME TypeOK, NothingFlagged PROVE RefusesOnlyDangling
  <2> SUFFICES ASSUME NEW s \in Session, NEW e \in queue[s], Refuses(s, e)
               PROVE  \E c \in Child : Dangles(Targets(s), Children(s), c)
    BY DEF RefusesOnlyDangling
  <2>1. e \in Event
    BY <1>1 DEF TypeOK
  <2>2. ASSUME NEW c \in Child, Children(s)[c] # NoRow
        PROVE  RefersTo(Children(s), c) = Children(s)[c].to
    BY <1>1, <2>2 DEF RefersTo, Children, NothingFlagged
  <2>3. CASE e.kind = "insert side"
    <3>1. InsertSideRefuses(s, e)
      BY <2>3 DEF Refuses
    <3>2. e.child \in Child /\ e.to \in PK
      BY <2>1, <2>3, <3>1 DEF Event, Ref, InsertSideRefuses
    <3>3. ~Visible(Targets(s), source, e.to)
      BY <1>1, <3>1, <3>2, ExistsIsVisible DEF InsertSideRefuses
    <3> QED
      BY <2>2, <3>1, <3>2, <3>3 DEF InsertSideRefuses, Dangles
  <2>4. CASE e.kind = "delete side"
    <3>1. DeleteSideRefuses(s, e) /\ e.pk \in PK
      BY <2>1, <2>4 DEF Refuses, Event
    <3>2. PICK c \in Child : Children(s)[c] # NoRow /\ Children(s)[c].to = e.pk
      BY <3>1 DEF DeleteSideRefuses
    <3> QED
      BY <2>2, <3>1, <3>2, ReferencesAssumption DEF DeleteSideRefuses, Dangles
  <2> QED
    BY <2>3, <2>4 DEF Refuses
<1> QED
  BY <1>1, TypeInductive, NothingFlaggedInductive, PTL DEF Spec

-----------------------------------------------------------------------------
(* Integrity, transactions one after the other.  (Two that overlap can each *)
(* pass on a snapshot without the other's writes.)                          *)

\* An event that is about child c or about the row it refers to.
Watches(e, c) ==
  \/ e.kind = "insert side" /\ e.child = c /\ e.to = children[c].to
  \/ e.kind = "delete side" /\ e.pk = children[c].to

\* What the two triggers are for: a reference that dangles is watched.
DanglingIsWatched(s) ==
  \A c \in Child : Dangles(target, children, c) => \E e \in queue[s] : Watches(e, c)

NoVendorChild == \A c \in Child : vendorRef[c] = NoPk

\* A session that is alone sees the tables as they are.
LEMMA AloneSees ==
  ASSUME TypeOK, NEW s, Session = {s}
  PROVE  Targets(s) = target /\ Children(s) = children
<1>1. /\ \A p \in PK : targetLock[p] = s \/ target[p] = committedTarget[p]
      /\ \A c \in Child : childLock[c] = s \/ children[c] = committedChildren[c]
  BY DEF TypeOK
<1>2. target = [p \in PK |-> target[p]] /\ children = [c \in Child |-> children[c]]
  BY DEF TypeOK
<1> QED
  BY <1>1, <1>2 DEF Targets, Children

\* A child that refers to something is a live base row.
LEMMA DanglingChild ==
  ASSUME NoVendorChild, NEW c \in Child, Dangles(target, children, c)
  PROVE  /\ children[c] # NoRow /\ ~children[c].deleted /\ children[c].to # NoPk
         /\ RefersTo(children, c) = children[c].to
BY DEF NoVendorChild, Dangles, RefersTo

\* A statement that queues an event for every row it hides and every reference
\* it makes, unless nothing refers to the one or the other is cleared.
LEMMA StatementKeepsWatch ==
  ASSUME TypeOK, NoVendorChild, NEW s \in Session, DanglingIsWatched(s),
         NEW events \in SUBSET Event, Statement(s, events),
         children' \in [Child -> ChildRow \cup {NoRow}],
         \A p \in PK :
           \/ target'[p] = target[p]
           \/ Visible(target', source, p)
           \/ \E e \in events : e.kind = "delete side" /\ e.pk = p
           \/ \A c \in Child : children'[c] # NoRow /\ ~children'[c].deleted =>
                                children'[c].to # p,
         \A c \in Child :
           \/ children'[c] = children[c]
           \/ children'[c] = NoRow
           \/ \E e \in events : e.kind = "insert side" /\ e.child = c /\ e.to = children'[c].to
           \/ /\ children[c] # NoRow /\ ~children[c].deleted
              /\ children'[c].to = children[c].to
  PROVE  DanglingIsWatched(s)'
<1>1. /\ source' = source /\ vendorRef' = vendorRef
      /\ queue'[s] = queue[s] \cup events
  BY DEF Statement, vendor, TypeOK
<1>2. NoVendorChild'
  BY <1>1 DEF NoVendorChild
<1> SUFFICES ASSUME NEW c \in Child, Dangles(target, children, c)'
             PROVE  \E e \in queue'[s] : Watches(e, c)'
  BY DEF DanglingIsWatched
<1>3. /\ children'[c] # NoRow /\ ~children'[c].deleted /\ children'[c].to # NoPk
      /\ ~Visible(target', source, children'[c].to)
  BY <1>1, <1>2 DEF NoVendorChild, Dangles, RefersTo
<1>4. children'[c].to \in PK
  BY <1>3 DEF ChildRow, Ref
<1>5. CASE \E e \in events : e.kind = "insert side" /\ e.child = c /\ e.to = children'[c].to
  BY <1>1, <1>5 DEF Watches
<1>6. CASE \E e \in events : e.kind = "delete side" /\ e.pk = children'[c].to
  BY <1>1, <1>6 DEF Watches
<1>7. CASE /\ target'[children'[c].to] = target[children'[c].to]
           /\ children[c] # NoRow /\ ~children[c].deleted
           /\ children'[c].to = children[c].to
  <2>1. ~Visible(target, source, children[c].to)
    BY <1>3, <1>7 DEF Visible, BaseShows, SourceShows, Shadowed, IsTombstone
  <2>2. Dangles(target, children, c)
    BY <1>3, <1>7, <2>1 DEF Dangles, RefersTo
  <2>3. PICK e \in queue[s] : Watches(e, c)
    BY <2>2 DEF DanglingIsWatched
  <2> QED
    BY <1>1, <1>7, <2>3 DEF Watches
<1> QED
  BY <1>3, <1>4, <1>5, <1>6, <1>7

\* A check that passes was not the one that watched a dangling reference.
LEMMA PassedCheckKeepsWatch ==
  ASSUME TypeOK, NoVendorChild, NEW s, Session = {s}, DanglingIsWatched(s),
         NEW e \in queue[s], CheckPasses(s, e)
  PROVE  DanglingIsWatched(s)'
<1>1. /\ target' = target /\ children' = children
      /\ source' = source /\ vendorRef' = vendorRef
      /\ queue'[s] = queue[s] \ {e}
  BY DEF CheckPasses, tables, vendor, TypeOK
<1> SUFFICES ASSUME NEW c \in Child, Dangles(target, children, c)
             PROVE  \E f \in queue'[s] : Watches(f, c)'
  BY <1>1 DEF DanglingIsWatched, Dangles, RefersTo
<1>2. PICK f \in queue[s] : Watches(f, c)
  BY DEF DanglingIsWatched
<1>3. Refuses(s, f)
  <2> DEFINE p == children[c].to
  <2>1. /\ children[c] # NoRow /\ p # NoPk /\ ~Visible(target, source, p)
    BY DanglingChild DEF Dangles
  <2>2. p \in PK
    BY <2>1 DEF TypeOK, ChildRow, Ref
  <2>3. Targets(s) = target /\ Children(s) = children
    BY AloneSees
  <2>4. CASE f.kind = "insert side"
    <3>1. f.child = c /\ f.to = p
      BY <1>2, <2>4 DEF Watches
    <3>2. ~TargetExists(s, p)
      BY <2>1, <2>2, <2>3, ExistsIsVisible
    <3> QED
      BY <2>1, <2>3, <2>4, <3>1, <3>2 DEF Refuses, InsertSideRefuses
  <2>5. CASE f.kind = "delete side"
    <3>1. f.pk = p
      BY <1>2, <2>5 DEF Watches
    <3>2. \A x \in View(target, source) : x.pk # p
      BY <2>1 DEF View, Visible
    <3> QED
      BY <2>1, <2>3, <2>5, <3>1, <3>2 DEF Refuses, DeleteSideRefuses
  <2> QED
    BY <1>2, <2>4, <2>5 DEF Watches
<1>4. f # e
  BY <1>3 DEF CheckPasses
<1> QED
  BY <1>1, <1>2, <1>4 DEF Watches

\* What a removal of row p does to the row, and the events it queues.
LEMMA RemovalWatched ==
  ASSUME TypeOK, NEW s, NEW p \in PK, NEW flagged, RemoveTarget(s, p, flagged),
         target[p] # NoRow
  PROVE  \E e \in RemovalEvents(p) : e.kind = "delete side" /\ e.pk = p
BY DEF RemovalEvents, Removed

\* A removal is of one target row.
LEMMA RemovalElsewhere ==
  ASSUME TypeOK, NEW s, NEW p \in PK, NEW flagged, RemoveTarget(s, p, flagged)
  PROVE  \A q \in PK \ {p} : target'[q] = target[q]
BY DEF RemoveTarget, WriteTarget, TypeOK

\* A removal that queues its event keeps the watch.
LEMMA RemovalKeepsWatch ==
  ASSUME TypeOK, TypeOK', NoVendorChild, NEW s \in Session, DanglingIsWatched(s),
         NEW p \in PK, NEW flagged, RemoveTarget(s, p, flagged), target[p] # NoRow,
         NEW events \in SUBSET Event, RemovalEvents(p) \subseteq events, Statement(s, events),
         \A c \in Child : children'[c] = children[c] \/ children'[c] = NoRow
  PROVE  DanglingIsWatched(s)'
<1>1. PICK e \in events : e.kind = "delete side" /\ e.pk = p
  BY RemovalWatched
<1>2. \A q \in PK : \/ target'[q] = target[q]
                     \/ \E f \in events : f.kind = "delete side" /\ f.pk = q
  BY <1>1, RemovalElsewhere
<1>3. children' \in [Child -> ChildRow \cup {NoRow}]
  BY DEF TypeOK
<1> QED
  BY <1>2, <1>3, StatementKeepsWatch

IntegrityInv(s) == NoVendorChild /\ DanglingIsWatched(s) /\ Integrity

\* No statement lets a dangling reference out of sight.
LEMMA StatementsKeepWatch ==
  ASSUME TypeOK, TypeOK', NoVendorChild, NEW s, Session = {s}, DanglingIsWatched(s),
         RawDelete # "any", TargetStatement(s) \/ ChildStatement(s)
  PROVE  DanglingIsWatched(s)'
<1>0. s \in Session /\ children' \in [Child -> ChildRow \cup {NoRow}]
  BY DEF TypeOK
<1>1. ASSUME NEW p \in PK, NEW r \in Row, InsertTarget(s, p, r)
      PROVE  DanglingIsWatched(s)'
  <2>1. Statement(s, {}) /\ children' = children
    BY <1>1 DEF InsertTarget
  <2>2. /\ target'[p] = Live(r)
        /\ \A q \in PK \ {p} : target'[q] = target[q]
    BY <1>1 DEF InsertTarget, WriteTarget, TypeOK
  <2>3. Live(r) # NoRow
    BY LiveType, RowsAssumption
  <2>4. Visible(target', source, p)
    BY <2>2, <2>3 DEF Visible, BaseShows, Live
  <2> QED
    BY <1>0, <2>1, <2>2, <2>4, StatementKeepsWatch
<1>2. ASSUME NEW p \in PK, ResetTarget(s, p) PROVE DanglingIsWatched(s)'
  <2>1. /\ Statement(s, RemovalEvents(p)) /\ RemoveTarget(s, p, FALSE)
        /\ children' = children /\ target[p] # NoRow
    BY <1>2, AloneSees DEF ResetTarget
  <2>2. RemovalEvents(p) \in SUBSET Event
    BY RemovalEventsType
  <2> QED
    BY <1>0, <2>1, <2>2, RemovalKeepsWatch
<1>3. ASSUME NEW old \in View(Targets(s), source), NEW r \in Row, UpdateTarget(s, old, r)
      PROVE  DanglingIsWatched(s)'
  <2>1. old.pk \in PK /\ Removed(old.pk, old.row) \in Event
    BY <1>0, SnapshotType, SeenType, EventTypes DEF TypeOK
  <2>2. Statement(s, {Removed(old.pk, old.row)}) /\ children' = children
    BY <1>3 DEF UpdateTarget
  <2>3. \A q \in PK \ {old.pk} : target'[q] = target[q]
    BY <1>3 DEF UpdateTarget, WriteTarget, TypeOK
  <2>4. \E e \in {Removed(old.pk, old.row)} : e.kind = "delete side" /\ e.pk = old.pk
    BY DEF Removed
  <2>5. {Removed(old.pk, old.row)} \in SUBSET Event
    BY <2>1
  <2> QED
    BY <1>0, <2>1, <2>2, <2>3, <2>4, <2>5, StatementKeepsWatch
<1>4. ASSUME NEW old \in View(Targets(s), source), DeleteTarget(s, old)
      PROVE  DanglingIsWatched(s)'
  <2>1. old.pk \in PK
    BY <1>0, SnapshotType, SeenType DEF TypeOK
  <2>2. target[old.pk] # NoRow
    BY <1>4, ReferencesAssumption DEF DeleteTarget
  <2>3. /\ Statement(s, RemovalEvents(old.pk)) /\ children' = children
        /\ RemoveTarget(s, old.pk, FlagsTarget(old))
    BY <1>4 DEF DeleteTarget
  <2>4. RemovalEvents(old.pk) \in SUBSET Event
    BY <2>1, RemovalEventsType
  <2> QED
    BY <1>0, <2>1, <2>2, <2>3, <2>4, RemovalKeepsWatch
<1>5. ASSUME NEW old \in View(Targets(s), source), CascadeDelete(s, old)
      PROVE  DanglingIsWatched(s)'
  <2> DEFINE dependents == {c \in Child : RefersTo(Children(s), c) = old.pk}
             t == [c \in dependents |-> WithoutChild(c)]
             events == RemovalEvents(old.pk) \cup UNION {DeleteEvents(c) : c \in dependents}
  <2>1. old.pk \in PK /\ Children(s) = children
    BY <1>0, SnapshotType, SeenType, AloneSees DEF TypeOK
  <2>2. /\ Statement(s, events) /\ RemoveTarget(s, old.pk, FlagsTarget(old))
        /\ WriteChildren(s, dependents, t)
    BY <1>5 DEF CascadeDelete
  <2>3. events \in SUBSET Event
    BY <2>1, RemovalEventsType, WithoutChildType
  <2>4. \A c \in Child : children'[c] = IF c \in dependents THEN NoRow ELSE children[c]
    <3>1. \A c \in dependents : t[c] = NoRow
      BY DEF WithoutChild, Flags, NoVendorChild
    <3> HIDE DEF dependents, t
    <3> QED
      BY <2>2, <3>1 DEF WriteChildren
  <2>5. RemovalEvents(old.pk) \subseteq events
    OBVIOUS
  <2>6. \A q \in PK \ {old.pk} : target'[q] = target[q]
    BY <2>1, <2>2, RemovalElsewhere
  <2>7. \A c \in Child : children'[c] # NoRow /\ ~children'[c].deleted => children'[c].to # old.pk
    BY <2>1, <2>4 DEF RefersTo
  <2> HIDE DEF dependents, t, events
  <2>8. \A c \in Child : children'[c] = children[c] \/ children'[c] = NoRow
    BY <2>4
  <2>9. CASE target[old.pk] # NoRow
    BY <1>0, <2>1, <2>2, <2>3, <2>5, <2>8, <2>9, RemovalKeepsWatch
  <2>10. CASE target[old.pk] = NoRow
    BY <1>0, <2>1, <2>2, <2>3, <2>6, <2>7, <2>8, <2>10, StatementKeepsWatch
  <2> QED
    BY <2>9, <2>10
<1>6. ASSUME NEW c \in Child, DeleteChild(s, c) PROVE DanglingIsWatched(s)'
  <2>1. Statement(s, DeleteEvents(c)) /\ DeleteEvents(c) \in SUBSET Event /\ target' = target
    BY <1>6, WithoutChildType DEF DeleteChild
  <2>2. /\ children'[c] = NoRow
        /\ \A d \in Child \ {c} : children'[d] = children[d]
    BY <1>6 DEF DeleteChild, WriteChildren, WithoutChild, Flags, NoVendorChild
  <2> QED
    BY <1>0, <2>1, <2>2, StatementKeepsWatch
<1>7. ASSUME NEW c \in Child, NEW p \in Ref, Refer(s, c, p) PROVE DanglingIsWatched(s)'
  <2> DEFINE changed == IF children[c] # NoRow /\ children[c].to = p
                        THEN {} ELSE {Referenced(c, p)}
  <2>1. Statement(s, changed) /\ target' = target /\ (children[c] # NoRow => ~children[c].deleted)
    <3>1. vendorRef[c] = NoPk
      BY DEF NoVendorChild
    <3> QED
      BY <1>7, <3>1 DEF Refer
  <2>2. changed \in SUBSET Event
    BY EventTypes
  <2>3. /\ children'[c].to = p
        /\ \A d \in Child \ {c} : children'[d] = children[d]
    BY <1>7 DEF Refer, WriteChildren
  <2>4. \/ children[c] # NoRow /\ children[c].to = p
        \/ \E e \in changed : e.kind = "insert side" /\ e.child = c /\ e.to = p
    BY DEF Referenced
  <2> HIDE DEF changed
  <2> QED
    BY <1>0, <2>1, <2>2, <2>3, <2>4, StatementKeepsWatch
<1> QED
  BY <1>1, <1>2, <1>3, <1>4, <1>5, <1>6, <1>7 DEF TargetStatement, ChildStatement

\* The vendor publishes nothing meanwhile.
LEMMA VendorStays == [Next]_vars => vendorRef' = vendorRef /\ source' = source
<1>1. ASSUME NEW s, TargetStatement(s) PROVE UNCHANGED vendor
  BY <1>1 DEF TargetStatement, InsertTarget, ResetTarget, UpdateTarget, DeleteTarget,
              CascadeDelete, Statement
<1>2. ASSUME NEW s, ChildStatement(s) PROVE UNCHANGED vendor
  BY <1>2 DEF ChildStatement, DeleteChild, Refer, Statement
<1>3. ASSUME NEW s, EndOfTransaction(s) PROVE UNCHANGED vendor
  BY <1>3 DEF EndOfTransaction, BeginCommit, CheckPasses, Commit, Rollback, LetGo
<1>4. UNCHANGED vars => UNCHANGED vendor
  BY DEF vars
<1>5. Next => UNCHANGED vendor
  BY <1>1, <1>2, <1>3 DEF Next
<1>6. UNCHANGED vendor => vendorRef' = vendorRef /\ source' = source
  BY DEF vendor
<1> QED
  BY <1>4, <1>5, <1>6

\* From watched references to committed ones: a COMMIT has no event left.
LEMMA IntegrityInductive ==
  ASSUME NEW s, Session = {s}, VendorChildren = {}, RawDelete # "any"
  PROVE  /\ Init => IntegrityInv(s)
         /\ TypeOK /\ TypeOK' /\ IntegrityInv(s) /\ [Next]_vars => IntegrityInv(s)'
<1>1. ASSUME Init PROVE IntegrityInv(s)
  <2>1. NoVendorChild
    BY <1>1 DEF Init, NoVendorChild
  <2>2. \A c \in Child : /\ ~Dangles(target, children, c)
                         /\ ~Dangles(committedTarget, committedChildren, c)
    BY <1>1, <2>1 DEF Init, NoVendorChild, Dangles, RefersTo
  <2> QED
    BY <2>1, <2>2 DEF IntegrityInv, DanglingIsWatched, Integrity
<1>2. TypeOK /\ TypeOK' /\ IntegrityInv(s) /\ [Next]_vars => IntegrityInv(s)'
  <2> SUFFICES ASSUME TypeOK, TypeOK', IntegrityInv(s), [Next]_vars PROVE IntegrityInv(s)'
    OBVIOUS
  <2>1. NoVendorChild /\ DanglingIsWatched(s) /\ Integrity /\ s \in Session
    BY DEF IntegrityInv
  <2>2. vendorRef' = vendorRef /\ source' = source
    BY VendorStays
  <2>3. NoVendorChild'
    BY <2>1, <2>2 DEF NoVendorChild
  <2>4. CASE TargetStatement(s) \/ ChildStatement(s)
    <3>1. DanglingIsWatched(s)'
      BY <2>1, <2>4, StatementsKeepWatch
    <3>2. UNCHANGED committed
      BY <2>4 DEF TargetStatement, ChildStatement, InsertTarget, ResetTarget, UpdateTarget,
                  DeleteTarget, CascadeDelete, DeleteChild, Refer, Statement
    <3>3. Integrity'
      BY <2>1, <2>2, <3>2 DEF Integrity, Dangles, RefersTo, committed
    <3> QED
      BY <2>3, <3>1, <3>3 DEF IntegrityInv
  <2>5. CASE BeginCommit(s) \/ UNCHANGED vars
    <3>1. UNCHANGED <<tables, committed, queue, vendor>>
      BY <2>5 DEF BeginCommit, vars
    <3> QED
      BY <2>1, <3>1 DEF IntegrityInv, NoVendorChild, DanglingIsWatched, Watches, Dangles,
                        RefersTo, Integrity, tables, committed, vendor
  <2>6. ASSUME NEW e \in queue[s], CheckPasses(s, e) PROVE IntegrityInv(s)'
    <3>1. DanglingIsWatched(s)'
      BY <2>1, <2>6, PassedCheckKeepsWatch
    <3>2. Integrity'
      BY <2>1, <2>2, <2>6 DEF CheckPasses, Integrity, Dangles, RefersTo, committed
    <3> QED
      BY <2>3, <3>1, <3>2 DEF IntegrityInv
  <2>7. CASE Commit(s)
    <3>1. /\ queue[s] = {} /\ target' = target /\ children' = children
          /\ committedTarget' = target /\ committedChildren' = children
      BY <2>1, <2>7, AloneSees DEF Commit
    <3>2. \A c \in Child : ~Dangles(target, children, c)
      BY <2>1, <3>1 DEF DanglingIsWatched
    <3>3. \A c \in Child : ~Dangles(target, children, c)'
      BY <2>2, <3>1, <3>2 DEF Dangles, RefersTo
    <3> QED
      BY <2>2, <2>3, <3>1, <3>3 DEF IntegrityInv, DanglingIsWatched, Integrity, Dangles
  <2>8. CASE Rollback(s)
    <3>1. committedTarget' = committedTarget /\ committedChildren' = committedChildren
      BY <2>8 DEF Rollback, committed
    <3>2. target' = committedTarget /\ children' = committedChildren
      <4>1. /\ \A p \in PK : targetLock[p] # s => target[p] = committedTarget[p]
            /\ \A c \in Child : childLock[c] # s => children[c] = committedChildren[c]
        BY DEF TypeOK
      <4>2. /\ committedTarget = [p \in PK |-> committedTarget[p]]
            /\ committedChildren = [c \in Child |-> committedChildren[c]]
        BY DEF TypeOK
      <4> QED
        BY <2>8, <4>1, <4>2 DEF Rollback
    <3>3. Integrity'
      BY <2>1, <2>2, <3>1 DEF Integrity, Dangles, RefersTo
    <3>4. DanglingIsWatched(s)'
      BY <3>1, <3>2, <3>3 DEF Integrity, DanglingIsWatched, Dangles
    <3> QED
      BY <2>3, <3>3, <3>4 DEF IntegrityInv
  <2> QED
    BY <2>4, <2>5, <2>6, <2>7, <2>8 DEF Next, EndOfTransaction
<1> QED
  BY <1>1, <1>2

\* No committed reference dangles, whatever one session after another does in
\* transactions of any length, as long as deletes that bypass the collector
\* are of base rows and the vendor publishes no referencing rows.
THEOREM IntegrityHolds ==
  ASSUME NEW s, Session = {s}, VendorChildren = {}, RawDelete # "any"
  PROVE  Spec => []Integrity
<1>1. IntegrityInv(s) => Integrity
  BY DEF IntegrityInv
<1> QED
  BY <1>1, TypeInductive, IntegrityInductive, PTL DEF Spec
=============================================================================
