------------------------- MODULE OverlaySessionsProofs -------------------------
(***************************************************************************)
(* Theorems about OverlaySessions, for every number of sessions, every     *)
(* mixture of statements an application can send and every declaration of  *)
(* the model.  A trigger of several SQL statements is right because of     *)
(* what its session knows between two of them: the row it started from is  *)
(* its own, and the row it wrote is locked.                                *)
(***************************************************************************)
EXTENDS OverlaySessions, TLAPS

-----------------------------------------------------------------------------
(* What a session carries from one SQL statement to the next               *)

Carries(t) ==
  t # Idle =>
    /\ t.at = "insert" => t.new \in Row
    /\ t.at \in {"update", "copyup", "reupdate"} => t.old \in Row /\ t.new \in Row
    /\ t.at \in {"flag", "entomb", "copy"} => t.old \in Row
    /\ t.op = "expression" => t.new \in Expression
    /\ t.at = "scan" => t.op # "delete"

\* The delete of a vendor's row ends with the flag on a row that is locked.
Hides(s) ==
  /\ st[s] # Idle /\ st[s].op = "delete" /\ SoftDelete
  /\ SourceProbe(source, st[s].pk, st[s].old)
  => /\ st[s].at \in {"flag", "entomb", "done"}
     /\ st[s].at = "done" => /\ lock[st[s].pk] = s
                             /\ base[st[s].pk] # NoRow /\ base[st[s].pk].deleted

IInv ==
  /\ TypeOK
  /\ \A s \in Session : Carries(st[s])
  /\ \A s \in Session : Hides(s)

-----------------------------------------------------------------------------
(* Rows                                                                    *)

\* A row as an insert leaves it, and a row with an update merged into it.
LEMMA LiveAndMerged ==
  /\ \A r \in Row : Live(r) \in BaseRow
  /\ \A old, new, current : new \in Row /\ current \in Row =>
       Merge(old, new, current) \in Row
BY DEF Live, BaseRow, Merge, Row

\* A row of the view has a row's columns.
LEMMA SeenType ==
  ASSUME NEW b \in [PK -> BaseRow \cup {NoRow}],
         source \in [VendorId -> Row \cup {NoRow}],
         NEW x \in View(b, source)
  PROVE  x.pk \in PK /\ x.row \in Row
BY RowsAssumption DEF View, BaseShows, SourceShows, BaseRow

\* A snapshot is a base table.
LEMMA SnapshotType ==
  ASSUME TypeOK, NEW s \in Session
  PROVE  Snapshot(s) \in [PK -> BaseRow \cup {NoRow}]
BY DEF TypeOK, Snapshot

\* A row that is found and can be locked is there.
LEMMA FoundIsThere ==
  ASSUME TypeOK, NEW s \in Session, NEW p \in PK, Finds(s, p), CanLock(s, p)
  PROVE  base[p] # NoRow /\ base[p] \in BaseRow /\ base[p].row \in Row
                          /\ base[p].deleted \in BOOLEAN
<1>1. base[p] # NoRow
  BY DEF Finds, CanLock, Snapshot, TypeOK
<1> QED
  BY <1>1 DEF TypeOK, BaseRow

-----------------------------------------------------------------------------
(* One SQL statement                                                       *)

\* What every SQL statement of session s does: nothing to the tables, or one row
\* written and locked; and it goes on at another point.
Wrote(s, p, b) == CanLock(s, p) /\ Write(s, p, b)

\* A transaction's next point leaves the rest of it as it is.
LEMMA GoesOn ==
  ASSUME TypeOK, NEW s \in Session, st[s] # Idle, NEW step \in ProgramPoint, Go(s, step)
  PROVE  \E t \in Transaction :
           /\ st' = [st EXCEPT ![s] = t] /\ t.at = step
           /\ t.op = st[s].op /\ t.pk = st[s].pk /\ t.old = st[s].old
           /\ t.new = st[s].new
<1> DEFINE t == [st[s] EXCEPT !.at = step]
<1>1. st[s] \in Transaction
  BY DEF TypeOK
<1>2. /\ t \in Transaction /\ t.at = step /\ t.op = st[s].op /\ t.pk = st[s].pk
      /\ t.old = st[s].old /\ t.new = st[s].new
  BY <1>1 DEF Transaction
<1>3. st' = [st EXCEPT ![s] = t]
  BY DEF Go, TypeOK
<1> HIDE DEF t
<1> QED
  BY <1>2, <1>3

\* The types and the other sessions' knowledge survive it.
LEMMA StatementKeeps ==
  ASSUME IInv, NEW s \in Session, NEW t \in Transaction, st' = [st EXCEPT ![s] = t],
         \/ Keep
         \/ \E p \in PK, b \in BaseRow \cup {NoRow} : Wrote(s, p, b)
  PROVE  /\ TypeOK' /\ source' = source
         /\ st'[s] = t /\ t # Idle
         /\ \A u \in Session \ {s} : Carries(st[u])' /\ Hides(u)'
<1>1. t # Idle
  BY DEF Transaction, Idle, ProgramPoint
<1>2. st'[s] = t /\ \A u \in Session \ {s} : st'[u] = st[u]
  BY DEF IInv, TypeOK
<1>3. st' \in [Session -> Transaction \cup {Idle}]
  BY DEF IInv, TypeOK
<1>4. /\ base' \in [PK -> BaseRow \cup {NoRow}] /\ lock' \in [PK -> Session \cup {Nobody}]
      /\ committed' = committed /\ source' = source /\ sends' = sends
  BY DEF IInv, TypeOK, Keep, Wrote, Write, given
<1>5. \A q \in PK : \/ base'[q] = base[q] /\ lock'[q] = lock[q]
                    \/ lock[q] \in {s, Nobody} /\ lock'[q] = s
  BY DEF IInv, TypeOK, Keep, Wrote, Write, CanLock
<1>6. \A q \in PK : /\ lock'[q] = Nobody => base'[q] = committed'[q]
                    /\ lock'[q] \in Session => st'[lock'[q]] # Idle
  <2> TAKE q \in PK
  <2>1. s # Nobody
    BY SessionAssumption
  <2>2. /\ lock[q] = Nobody => base[q] = committed[q]
        /\ lock[q] \in Session => st[lock[q]] # Idle
    BY DEF IInv, TypeOK
  <2> QED
    BY <1>1, <1>2, <1>4, <1>5, <2>1, <2>2
<1>7. TypeOK'
  BY <1>3, <1>4, <1>6 DEF IInv, TypeOK
<1>8. ASSUME NEW u \in Session \ {s} PROVE Carries(st[u])' /\ Hides(u)'
  <2>1. Carries(st[u]) /\ Hides(u) /\ st'[u] = st[u] /\ u # Nobody
    BY <1>2, SessionAssumption DEF IInv
  <2>2. Carries(st[u])'
    BY <2>1 DEF Carries
  <2>3. st[u] # Idle => st[u].pk \in PK
    BY DEF IInv, TypeOK, Transaction
  <2>4. Hides(u)'
    BY <1>4, <1>5, <2>1, <2>3 DEF Hides
  <2> QED
    BY <2>2, <2>4
<1> QED
  BY <1>1, <1>2, <1>4, <1>7, <1>8

\* So a step of session s is right if what s itself carries on is.
LEMMA StepKeeps ==
  ASSUME IInv, NEW s \in Session, NEW t \in Transaction, st' = [st EXCEPT ![s] = t],
         \/ Keep
         \/ \E p \in PK, b \in BaseRow \cup {NoRow} : Wrote(s, p, b),
         Carries(t),
         /\ t.op = "delete" /\ SoftDelete /\ SourceProbe(source, t.pk, t.old)
         => /\ t.at \in {"flag", "entomb", "done"}
            /\ t.at = "done" => /\ lock'[t.pk] = s
                               /\ base'[t.pk] # NoRow /\ base'[t.pk].deleted
  PROVE  IInv'
<1>1. /\ TypeOK' /\ source' = source
      /\ st'[s] = t /\ t # Idle
      /\ \A u \in Session \ {s} : Carries(st[u])' /\ Hides(u)'
  BY StatementKeeps
<1>2. Carries(st[s])'
  BY <1>1 DEF Carries
<1>3. Hides(s)'
  BY <1>1 DEF Hides
<1> QED
  BY <1>1, <1>2, <1>3 DEF IInv

\* The step that goes on after writing a row, or without.
LEMMA GoKeeps ==
  ASSUME IInv, NEW s \in Session, st[s] # Idle, NEW step \in ProgramPoint \ {"scan"},
         Go(s, step),
         \/ Keep
         \/ \E b \in BaseRow \cup {NoRow} : Wrote(s, st[s].pk, b),
         step = "insert" => st[s].new \in Row,
         step \in {"update", "copyup", "reupdate"} => st[s].old \in Row /\ st[s].new \in Row,
         step \in {"flag", "entomb", "copy"} => st[s].old \in Row,
         /\ st[s].op = "delete" /\ SoftDelete /\ SourceProbe(source, st[s].pk, st[s].old)
         => /\ step \in {"flag", "entomb", "done"}
            /\ step = "done" =>
                 \E b \in BaseRow : b.deleted /\ Wrote(s, st[s].pk, b)
  PROVE  IInv'
<1>1. PICK t \in Transaction :
        /\ st' = [st EXCEPT ![s] = t] /\ t.at = step
        /\ t.op = st[s].op /\ t.pk = st[s].pk /\ t.old = st[s].old
        /\ t.new = st[s].new
  BY GoesOn DEF IInv
<1>2. st[s] \in Transaction /\ st[s].pk \in PK
  BY DEF IInv, TypeOK, Transaction
<1>3. Carries(t)
  <2>1. Carries(st[s])
    BY DEF IInv
  <2> QED
    BY <1>1, <2>1 DEF Carries
<1>4. \A b \in BaseRow : Wrote(s, st[s].pk, b) =>
        lock'[st[s].pk] = s /\ base'[st[s].pk] = b /\ b # NoRow
  BY <1>2, RowsAssumption DEF Wrote, Write, IInv, TypeOK
<1>5. \/ Keep
      \/ \E p \in PK, b \in BaseRow \cup {NoRow} : Wrote(s, p, b)
  BY <1>2
<1>6. /\ t.op = "delete" /\ SoftDelete /\ SourceProbe(source, t.pk, t.old)
      => /\ t.at \in {"flag", "entomb", "done"}
         /\ t.at = "done" => /\ lock'[t.pk] = s
                            /\ base'[t.pk] # NoRow /\ base'[t.pk].deleted
  BY <1>1, <1>4
<1> QED
  BY <1>1, <1>3, <1>5, <1>6, StepKeeps
-----------------------------------------------------------------------------
(* Every step                                                              *)

\* A transaction starts with the row it was given.
LEMMA StartKeeps ==
  ASSUME IInv, NEW s \in Session, NEW p \in PK, NEW op \in Statement,
         NEW old \in Row \cup {NoRow}, NEW new \in Row \cup {NoRow} \cup Expression,
         NEW step \in {"insert", "update", "flag", "remove", "scan"},
         Start(s, p, op, old, new, step),
         step = "insert" => new \in Row,
         step = "update" => old \in Row /\ new \in Row,
         step = "flag" => old \in Row, step = "scan" => op # "delete",
         op = "expression" => new \in Expression,
         op = "delete" /\ SoftDelete /\ SourceProbe(source, p, old) => step = "flag"
  PROVE  IInv'
<1> DEFINE t == [at |-> step, op |-> op, pk |-> p, old |-> old, new |-> new]
<1>1. st' = [st EXCEPT ![s] = t] /\ Keep
  BY DEF Start
<1>2. t \in Transaction
  BY DEF Transaction, ProgramPoint
<1>3. Carries(t)
  BY DEF Carries
<1>4. t.op = op /\ t.pk = p /\ t.old = old /\ t.at = step
  OBVIOUS
<1> HIDE DEF t
<1> QED
  BY <1>1, <1>2, <1>3, <1>4, StepKeeps

\* Every way a transaction can begin.
LEMMA BeginKeeps ==
  ASSUME IInv, NEW s \in Session, Begin(s)
  PROVE  IInv'
<1>1. ASSUME NEW p \in PK, NEW r \in Row, BeginInsert(s, p, r) PROVE IInv'
  BY <1>1, StartKeeps DEF BeginInsert, Statement
<1>2. ASSUME NEW p \in PK, BeginReset(s, p) PROVE IInv'
  BY <1>2, StartKeeps DEF BeginReset, Statement
<1>3. ASSUME NEW p \in PK, BeginMaterialize(s, p) PROVE IInv'
  BY <1>3, StartKeeps DEF BeginMaterialize, Statement
<1>4. ASSUME NEW p \in PK, NEW f \in Expression, BeginExpression(s, p, f) PROVE IInv'
  BY <1>4, StartKeeps DEF BeginExpression, Statement
<1>5. ASSUME NEW x \in View(committed, source) PROVE x.pk \in PK /\ x.row \in Row
  BY <1>5, SeenType DEF IInv, TypeOK
<1>6. ASSUME NEW x \in View(committed, source), NEW r \in Row, BeginUpdate(s, x, r)
      PROVE  IInv'
  BY <1>5, <1>6, StartKeeps DEF BeginUpdate, Statement
<1>7. ASSUME NEW x \in View(committed, source), BeginDelete(s, x) PROVE IInv'
  <2> DEFINE step == IF SoftDelete /\ SourceProbe(source, x.pk, x.row)
                     THEN "flag" ELSE "remove"
  <2>1. Start(s, x.pk, "delete", x.row, NoRow, step)
    BY <1>7 DEF BeginDelete
  <2>2. step \in {"flag", "remove"}
        /\ (SoftDelete /\ SourceProbe(source, x.pk, x.row) => step = "flag")
    OBVIOUS
  <2> HIDE DEF step
  <2> QED
    BY <1>5, <1>7, <2>1, <2>2, StartKeeps DEF Statement
<1> QED
  BY <1>1, <1>2, <1>3, <1>4, <1>6, <1>7 DEF Begin

\* Every SQL statement.  A delete of a vendor's row is at none of the points of
\* the other statements, which is what Hides is for.
LEMMA StepsKeep ==
  ASSUME IInv, NEW s \in Session, Step(s)
  PROVE  IInv'
<1> DEFINE p == st[s].pk
           hides == /\ st[s].op = "delete" /\ SoftDelete
                    /\ SourceProbe(source, p, st[s].old)
<1>1. st[s].at \in ProgramPoint /\ st[s] # Idle
  <2>1. st[s].at # "idle"
    BY DEF Step, Insert, FirstUpdate, CopyUp, SecondUpdate, Flag, Entomb, Remove, Scan,
           Copy, Apply
  <2> QED
    BY <2>1 DEF IInv, TypeOK, Transaction, Idle
<1>2. /\ st[s] \in Transaction /\ p \in PK
      /\ st[s].at = "insert" => st[s].new \in Row
      /\ st[s].at \in {"update", "copyup", "reupdate"} => st[s].old \in Row /\ st[s].new \in Row
      /\ st[s].at \in {"flag", "entomb", "copy"} => st[s].old \in Row
      /\ st[s].op = "expression" => st[s].new \in Expression
      /\ st[s].at = "scan" => st[s].op # "delete"
  BY <1>1 DEF IInv, TypeOK, Transaction, Carries
<1>3. hides => st[s].at \in {"flag", "entomb", "done"}
  BY <1>1 DEF IInv, Hides
<1>4. Finds(s, p) /\ CanLock(s, p) =>
        /\ base[p] # NoRow /\ base[p] \in BaseRow
        /\ base[p].row \in Row /\ base[p].deleted \in BOOLEAN
  BY <1>2, FoundIsThere DEF IInv
<1>5. base[p] \in BaseRow \cup {NoRow}
  BY <1>2 DEF IInv, TypeOK
<1>6. st[s].old \in Row => Live(st[s].old) \in BaseRow
  BY LiveAndMerged
<1> HIDE DEF p, hides
<1>7. \A step \in ProgramPoint \ {"scan"} :
        /\ Go(s, step)
        /\ Keep \/ \E b \in BaseRow \cup {NoRow} : Wrote(s, p, b)
        /\ step = "insert" => st[s].new \in Row
        /\ step \in {"update", "copyup", "reupdate"} => st[s].old \in Row /\ st[s].new \in Row
        /\ step \in {"flag", "entomb", "copy"} => st[s].old \in Row
        /\ hides => /\ step \in {"flag", "entomb", "done"}
                    /\ step = "done" => \E b \in BaseRow : b.deleted /\ Wrote(s, p, b)
        => IInv'
  BY <1>1, GoKeeps DEF p, hides
<1>8. CASE Insert(s)
  <2>1. Wrote(s, p, Live(st[s].new)) /\ Go(s, "done") /\ st[s].at = "insert"
    BY <1>8 DEF Insert, Wrote, p
  <2>2. Live(st[s].new) \in BaseRow
    BY <1>2, <2>1, LiveAndMerged
  <2> QED
    BY <1>3, <1>7, <2>1, <2>2 DEF ProgramPoint
<1>9. ASSUME NEW found \in {"done"}, NEW missing \in {"copyup", "done"},
             MergeInto(s, found, missing), st[s].at \in {"update", "reupdate"}
      PROVE  IInv'
  <2> DEFINE b == [base[p] EXCEPT !.row = Merge(st[s].old, st[s].new, @)]
  <2>1. CASE Finds(s, p) /\ CanLock(s, p) /\ Write(s, p, b) /\ Go(s, found)
    <3>1. b \in BaseRow
      <4>1. Merge(st[s].old, st[s].new, base[p].row) \in Row
        BY <1>2, <1>4, <1>9, <2>1, LiveAndMerged
      <4> QED
        BY <1>4, <2>1, <4>1 DEF BaseRow
    <3> HIDE DEF b
    <3>2. Wrote(s, p, b)
      BY <2>1 DEF Wrote
    <3> QED
      BY <1>3, <1>7, <1>9, <2>1, <3>1, <3>2 DEF ProgramPoint
  <2>2. CASE Keep /\ Go(s, missing)
    BY <1>2, <1>3, <1>7, <1>9, <2>2 DEF ProgramPoint
  <2> QED
    BY <1>9, <2>1, <2>2 DEF MergeInto, p
<1>10. CASE FirstUpdate(s) \/ SecondUpdate(s)
  BY <1>9, <1>10 DEF FirstUpdate, SecondUpdate
<1>11. CASE CopyUp(s)
  <2>1. /\ st[s].at = "copyup" /\ Go(s, "reupdate")
        /\ Keep \/ Wrote(s, p, Live(st[s].old))
    BY <1>11 DEF CopyUp, Wrote, p
  <2> QED
    BY <1>2, <1>3, <1>6, <1>7, <2>1 DEF ProgramPoint
<1>12. CASE Flag(s)
  <2> DEFINE b == [base[p] EXCEPT !.deleted = TRUE]
  <2>1. CASE Finds(s, p) /\ CanLock(s, p) /\ Write(s, p, b) /\ Go(s, "done")
    <3>1. b \in BaseRow /\ b.deleted
      BY <1>4, <2>1 DEF BaseRow
    <3> HIDE DEF b
    <3>2. Wrote(s, p, b)
      BY <2>1 DEF Wrote
    <3> QED
      BY <1>7, <2>1, <3>1, <3>2 DEF ProgramPoint
  <2>2. CASE Keep /\ Go(s, "entomb")
    <3>1. st[s].old \in Row
      BY <1>2, <1>12 DEF Flag
    <3> QED
      BY <1>7, <2>2, <3>1 DEF ProgramPoint
  <2> QED
    BY <1>12, <2>1, <2>2 DEF Flag, p
<1>13. CASE Entomb(s)
  <2> DEFINE b == [row |-> IF base[p] = NoRow THEN st[s].old ELSE base[p].row,
                   deleted |-> TRUE]
  <2>1. b \in BaseRow /\ b.deleted
    BY <1>2, <1>5, <1>13 DEF Entomb, BaseRow
  <2>2. Wrote(s, p, b) /\ Go(s, "done")
    BY <1>13 DEF Entomb, Wrote, p
  <2> HIDE DEF b
  <2> QED
    BY <1>7, <2>1, <2>2 DEF ProgramPoint
<1>14. CASE Remove(s)
  <2>1. /\ st[s].at = "remove" /\ Go(s, "done")
        /\ Keep \/ Wrote(s, p, NoRow)
    BY <1>14 DEF Remove, Wrote, p
  <2> QED
    BY <1>3, <1>7, <2>1 DEF ProgramPoint
<1>15. CASE Scan(s)
  <2> DEFINE shown == {x \in View(Snapshot(s), source) : x.pk = p}
  <2>1. st[s].at = "scan" /\ Keep
    BY <1>15 DEF Scan
  <2>2. ASSUME NEW x \in shown, st' = [st EXCEPT ![s].at = "copy", ![s].old = x.row]
        PROVE  IInv'
    <3> DEFINE t == [st[s] EXCEPT !.at = "copy", !.old = x.row]
    <3>1. x.row \in Row
      BY SnapshotType, SeenType DEF IInv, TypeOK
    <3>2. st' = [st EXCEPT ![s] = t]
      BY <2>2 DEF IInv, TypeOK
    <3>3. /\ t \in Transaction /\ t.at = "copy" /\ t.op = st[s].op /\ t.old = x.row
          /\ t.new = st[s].new
      BY <1>2, <3>1 DEF Transaction, ProgramPoint
    <3> HIDE DEF t
    <3>4. Carries(t)
      BY <1>2, <3>1, <3>3 DEF Carries
    <3>5. t.op # "delete"
      BY <1>2, <2>1, <3>3
    <3> QED
      BY <2>1, <3>2, <3>3, <3>4, <3>5, StepKeeps
  <2>3. CASE Go(s, "apply")
    BY <1>3, <1>7, <2>1, <2>3 DEF ProgramPoint
  <2> QED
    BY <1>15, <2>2, <2>3 DEF Scan, p
<1>16. CASE Copy(s)
  <2>1. /\ st[s].at = "copy" /\ Go(s, "apply")
        /\ Keep \/ Wrote(s, p, Live(st[s].old))
    BY <1>16 DEF Copy, Wrote, p
  <2> QED
    BY <1>2, <1>3, <1>6, <1>7, <2>1 DEF ProgramPoint
<1>17. CASE Apply(s)
  <2> DEFINE b == [base[p] EXCEPT !.row = st[s].new[@]]
  <2>1. st[s].at = "apply" /\ Go(s, "done")
    BY <1>17 DEF Apply
  <2>2. CASE st[s].op = "expression" /\ Finds(s, p) /\ CanLock(s, p) /\ Write(s, p, b)
    <3>1. st[s].new \in [Row -> Row]
      BY <1>2, <2>2, SessionAssumption
    <3>2. b \in BaseRow
      BY <1>4, <2>2, <3>1 DEF BaseRow
    <3> HIDE DEF b
    <3>3. Wrote(s, p, b)
      BY <2>2 DEF Wrote
    <3> QED
      BY <1>3, <1>7, <2>1, <3>2, <3>3 DEF ProgramPoint
  <2>3. CASE Keep
    BY <1>3, <1>7, <2>1, <2>3 DEF ProgramPoint
  <2> QED
    BY <1>17, <2>2, <2>3 DEF Apply, p
<1> QED
  BY <1>8, <1>10, <1>11, <1>12, <1>13, <1>14, <1>15, <1>16, <1>17 DEF Step

\* The end of a transaction gives up its rows and takes nobody else's.
LEMMA EndKeeps ==
  ASSUME IInv, NEW s \in Session, Commit(s) \/ Rollback(s)
  PROVE  IInv'
<1>1. /\ st' = [st EXCEPT ![s] = Idle] /\ source' = source /\ sends' = sends
      /\ lock' = [p \in PK |-> IF lock[p] = s THEN Nobody ELSE lock[p]]
  BY DEF Commit, Rollback, given
<1>2. st'[s] = Idle /\ \A u \in Session \ {s} : st'[u] = st[u]
  BY <1>1 DEF IInv, TypeOK
<1>3. \A p \in PK :
        /\ base'[p] \in BaseRow \cup {NoRow} /\ committed'[p] \in BaseRow \cup {NoRow}
        /\ lock[p] # s => base'[p] = base[p] /\ committed'[p] = committed[p]
        /\ lock[p] = s => base'[p] = committed'[p]
  BY DEF Commit, Rollback, IInv, TypeOK
<1>4. /\ base' \in [PK -> BaseRow \cup {NoRow}]
      /\ committed' \in [PK -> BaseRow \cup {NoRow}]
  BY DEF Commit, Rollback, IInv, TypeOK
<1>5. TypeOK'
  <2>1. lock' \in [PK -> Session \cup {Nobody}] /\ st' \in [Session -> Transaction \cup {Idle}]
    BY <1>1 DEF IInv, TypeOK
  <2>2. \A p \in PK : /\ lock'[p] = Nobody => base'[p] = committed'[p]
                      /\ lock'[p] \in Session => st'[lock'[p]] # Idle
    <3> TAKE p \in PK
    <3>1. /\ lock[p] = Nobody => base[p] = committed[p]
          /\ lock[p] \in Session => st[lock[p]] # Idle
      BY DEF IInv, TypeOK
    <3>2. lock'[p] = IF lock[p] = s THEN Nobody ELSE lock[p]
      BY <1>1
    <3> QED
      BY <1>2, <1>3, <3>1, <3>2, SessionAssumption
  <2> QED
    BY <1>1, <1>4, <2>1, <2>2 DEF IInv, TypeOK
<1>6. ASSUME NEW u \in Session PROVE Carries(st[u])' /\ Hides(u)'
  <2>1. CASE u = s
    BY <1>2, <2>1 DEF Carries, Hides
  <2>2. CASE u # s
    <3>1. Carries(st[u]) /\ Hides(u) /\ st'[u] = st[u]
      BY <1>2, <2>2 DEF IInv
    <3>2. st[u] # Idle => st[u].pk \in PK
      BY DEF IInv, TypeOK, Transaction
    <3> QED
      BY <1>1, <1>3, <2>2, <3>1, <3>2 DEF Carries, Hides
  <2> QED
    BY <2>1, <2>2
<1> QED
  BY <1>5, <1>6 DEF IInv

\* The invariant holds at first and every step keeps it.
LEMMA Inductive ==
  /\ Init => IInv
  /\ IInv /\ [Next]_vars => IInv'
<1>1. ASSUME Init PROVE IInv
  <2>1. TypeOK
    BY <1>1, SessionAssumption DEF Init, TypeOK
  <2> QED
    BY <1>1, <2>1 DEF Init, IInv, Carries, Hides
<1>2. IInv /\ UNCHANGED vars => IInv'
  BY DEF vars, given, IInv, TypeOK, Carries, Hides
<1> QED
  BY <1>1, <1>2, BeginKeeps, StepsKeep, EndKeeps DEF Next

\* In every reachable state the tables and the transactions under way have their
\* types, and a row differs from what is committed only while the session that
\* wrote it is in a transaction and holds it.
THEOREM SessionsTypeCorrect == Spec => []TypeOK
<1>1. IInv => TypeOK
  BY DEF IInv
<1> QED
  BY <1>1, Inductive, PTL DEF Spec

\* A delete of a vendor's row that commits has hidden it, whatever other sessions
\* did to the row between the statements of its trigger: the flag is on a row
\* the session holds.
THEOREM DeletesLandForEveryone ==
  ASSUME ExtraWhereOr = {}
  PROVE  Spec => DeletesLand
<1>1. ASSUME IInv, NEW s \in Session, Commits(s, "delete"), SoftDelete,
             SourceProbe(source, st[s].pk, st[s].old)
      PROVE  Seen(committed')[st[s].pk] = NoRow
  <2> DEFINE p == st[s].pk
  <2>1. st[s].at = "done" /\ st[s].op = "delete" /\ Commit(s)
    BY <1>1 DEF Commits
  <2>2. st[s] # Idle
    BY <2>1 DEF Idle
  <2>3. p \in PK
    BY <1>1, <2>2 DEF IInv, TypeOK, Transaction
  <2>4. lock[p] = s /\ base[p] # NoRow /\ base[p].deleted
    BY <1>1, <2>1, <2>2 DEF IInv, Hides
  <2> HIDE DEF p
  <2>5. committed'[p] = base[p]
    BY <2>1, <2>3, <2>4 DEF Commit
  <2>6. ~BaseShows(committed', p) /\ IsTombstone(committed', p)
    BY <1>1, <2>4, <2>5 DEF BaseShows, IsTombstone
  <2>7. ~SourceShows(committed', source, p)
    BY <1>1, <2>4, <2>5, <2>6 DEF SourceShows, Shadowed, AntiJoin
  <2>8. Seen(committed')[p] = NoRow
    BY <2>3, <2>6, <2>7 DEF Seen
  <2> QED
    BY <2>8 DEF p
<1>2. IInv /\ [Next]_vars =>
        [\A s \in Session :
           LET p == st[s].pk IN
           Commits(s, "delete") /\ SoftDelete /\ SourceProbe(source, p, st[s].old)
             => Seen(committed')[p] = NoRow]_vars
  BY <1>1
<1> QED
  BY <1>2, Inductive, PTL DEF Spec, DeletesLand

-----------------------------------------------------------------------------
(* What a statement that copies a row down knows of it                     *)
(*                                                                         *)
(* update, expression and materialize read a row of the view in one SQL    *)
(* statement and write it to the base table in a later one.  What was read *)
(* stays true of the row as long as nobody takes the base row away again.  *)

Copying == {"update", "expression", "materialize"}

\* Of the statements an application sends for id p, none takes its base row away:
\* no reset, and a delete only where it flags the row.
Lasts(f, p) ==
  /\ "reset" \notin f[p]
  /\ "delete" \in f[p] => SoftDelete /\ PartitionKey = {} /\ "insert" \notin f[p]

RowsLast == \A f \in Workload, p \in PK : f[p] \cap Copying # {} => Lasts(f, p)

PointsOf ==
  [insert |-> {"insert", "done"},
   update |-> {"update", "copyup", "reupdate", "done"},
   delete |-> {"flag", "entomb", "remove", "done"},
   reset |-> {"remove", "done"},
   materialize |-> {"scan", "copy", "apply", "done"},
   expression |-> {"scan", "copy", "apply", "done"}]

Follows(t) == t # Idle => t.op \in sends[t.pk] /\ t.at \in PointsOf[t.op]

\* A session locks the row it is about, once it has written it.
Holds(s) ==
  \A p \in PK : lock[p] = s =>
    st[s] # Idle /\ st[s].pk = p /\ st[s].at \in {"reupdate", "apply", "done"}

\* r is what the view shows of the vendor's table where it has no base row.
Offers(p, r) == r \in ExtraWhere /\ SourceRow(source, p) = r

\* What the statement makes of a row.
Computed(t, r) ==
  IF t.op = "update" THEN Merge(t.old, t.new, r)
  ELSE IF t.op = "expression" THEN t.new[r] ELSE r

\* Before it writes, the row it read is the vendor's or a base row is there.
\* After, the row it holds is the one it was asked for; a row it did not find is
\* one that nobody sees.
Knows(s) ==
  LET t == st[s]
      p == t.pk
  IN  t # Idle /\ t.op \in Copying =>
        /\ t.op = "update" => t.old \in Row /\ t.new \in Row
        /\ t.at = "scan" => t.old = NoRow
        /\ t.at \in {"update", "copyup", "copy"} =>
             committed[p] # NoRow \/ Offers(p, t.old)
        /\ t.at \in {"reupdate", "apply"} =>
             IF lock[p] = s
             THEN committed[p] = NoRow /\ Offers(p, t.old) /\ base[p] = Live(t.old)
             ELSE t.old = NoRow \/ committed[p] # NoRow
        /\ t.at = "done" =>
             IF lock[p] # s
             THEN \/ t.op = "materialize" \/ t.old = NoRow
                  \/ committed[p] # NoRow /\ ~BaseShows(committed, p)
             ELSE IF committed[p] = NoRow
             THEN Offers(p, t.old) /\ base[p] = Live(Computed(t, t.old))
             ELSE base[p] = [committed[p] EXCEPT !.row = Computed(t, @)]

\* A delete leaves no row, or a flagged one where flags count.
Deleting(s) ==
  LET t == st[s]
      p == t.pk
  IN  t # Idle /\ t.op = "delete" =>
        /\ t.at \in {"flag", "entomb"} => SoftDelete /\ SourceRow(source, p) # NoRow
        /\ t.at = "done" /\ lock[p] = s =>
             base[p] = NoRow \/ (SoftDelete /\ base[p].deleted)

\* A committed row stays, and so does its flag; where rows are deleted and the
\* vendor has none, there never is one.
Stays(p) ==
  Lasts(sends, p) =>
    /\ committed[p] # NoRow =>
         base[p] # NoRow /\ (committed[p].deleted => base[p].deleted)
    /\ "delete" \in sends[p] /\ SourceRow(source, p) = NoRow =>
         base[p] = NoRow /\ committed[p] = NoRow

KInv ==
  /\ \A s \in Session : Follows(st[s]) /\ Holds(s) /\ Knows(s) /\ Deleting(s)
  /\ \A p \in PK : Stays(p)

-----------------------------------------------------------------------------
(* What other sessions know                                                *)

\* A step of session s leaves alone what others hold, and lasting rows committed.
Spares(s) ==
  \A q \in PK :
    /\ lock[q] \notin {s, Nobody} =>
         base'[q] = base[q] /\ committed'[q] = committed[q] /\ lock'[q] = lock[q]
    /\ lock'[q] \in {s, Nobody, lock[q]}
    /\ Lasts(sends, q) /\ committed[q] # NoRow =>
         committed'[q] # NoRow /\ (committed[q].deleted => committed'[q].deleted)
    /\ committed[q] = NoRow => committed'[q] \in BaseRow \cup {NoRow}

\* Then what another session knows of its row stays true.
LEMMA OthersKnow ==
  ASSUME IInv, KInv, RowsLast, NEW s \in Session, NEW u \in Session \ {s},
         source' = source, sends' = sends, st'[u] = st[u], Spares(s), TypeOK'
  PROVE  Follows(st[u])' /\ Holds(u)' /\ Knows(u)' /\ Deleting(u)'
<1> DEFINE p == st[u].pk
<1>1. Follows(st[u]) /\ Holds(u) /\ Knows(u) /\ Deleting(u)
  BY DEF KInv
<1>2. u # Nobody
  BY SessionAssumption
<1>3. st[u] # Idle => p \in PK
  BY DEF IInv, TypeOK, Transaction
<1>4. Follows(st[u])'
  BY <1>1 DEF Follows
<1>5. Holds(u)'
  BY <1>1, <1>2 DEF Holds, Spares
<1>6. \A q \in PK :
        IF lock[q] = u
        THEN base'[q] = base[q] /\ committed'[q] = committed[q] /\ lock'[q] = u
        ELSE lock'[q] # u
  BY <1>2 DEF Spares
<1>7. Deleting(u)'
  BY <1>1, <1>3, <1>6 DEF Deleting
<1>8. ASSUME st[u] # Idle, st[u].op \in Copying PROVE Lasts(sends, p)
  <2>1. st[u].op \in sends[p] /\ sends \in Workload
    BY <1>1, <1>8 DEF Follows, IInv, TypeOK
  <2> QED
    BY <1>3, <1>8, <2>1 DEF RowsLast
<1>9. ASSUME st[u] # Idle, st[u].op \in Copying, committed[p] # NoRow
      PROVE  /\ committed'[p] # NoRow
             /\ ~BaseShows(committed, p) => ~BaseShows(committed', p)
  BY <1>3, <1>8, <1>9 DEF Spares, BaseShows
<1>10. \A r : Offers(p, r)' <=> Offers(p, r)
  BY DEF Offers
<1>11. ASSUME NEW r PROVE Live(r)' = Live(r) /\ Computed(st[u], r)' = Computed(st[u], r)
  BY DEF Live, Computed, Merge
<1> HIDE DEF p
<1>12. Knows(u)'
  BY <1>1, <1>3, <1>6, <1>9, <1>10, <1>11 DEF Knows, p
<1> QED
  BY <1>4, <1>5, <1>7, <1>12


-----------------------------------------------------------------------------
(* What a session knows after its own step                                 *)

\* Writing b over row p takes away no row that should last.
Respects(p, b) ==
  Lasts(sends, p) =>
    /\ base[p] # NoRow => b # NoRow /\ (base[p].deleted => b.deleted)
    /\ "delete" \in sends[p] /\ SourceRow(source, p) = NoRow => b = NoRow

\* What an SQL statement of session s does to its row p.
Does(s, p) ==
  \/ Keep
  \/ \E b \in BaseRow \cup {NoRow} : Wrote(s, p, b) /\ Respects(p, b)

\* An SQL statement spares what others hold and leaves lasting rows there.
LEMMA StatementSpares ==
  ASSUME IInv, KInv, NEW s \in Session, NEW p \in PK, Does(s, p)
  PROVE  /\ Spares(s) /\ source' = source /\ sends' = sends
         /\ \A q \in PK : Stays(q)'
         /\ \A q \in PK \ {p} : lock'[q] = lock[q]
<1>1. committed' = committed /\ source' = source /\ sends' = sends
  BY DEF Does, Keep, Wrote, Write, given
<1>2. committed \in [PK -> BaseRow \cup {NoRow}]
  BY DEF IInv, TypeOK
<1>3. CASE Keep
  <2>1. base' = base /\ lock' = lock
    BY <1>3 DEF Keep
  <2>2. Spares(s)
    BY <1>1, <1>2, <2>1 DEF Spares
  <2>3. \A q \in PK : Stays(q)'
    BY <1>1, <2>1 DEF KInv, Stays
  <2> QED
    BY <1>1, <2>1, <2>2, <2>3
<1>4. ASSUME NEW b \in BaseRow \cup {NoRow}, Wrote(s, p, b), Respects(p, b)
      PROVE  /\ Spares(s) /\ \A q \in PK : Stays(q)'
             /\ \A q \in PK \ {p} : lock'[q] = lock[q]
  <2>1. /\ lock[p] \in {s, Nobody} /\ lock'[p] = s /\ base'[p] = b
        /\ \A q \in PK \ {p} : lock'[q] = lock[q] /\ base'[q] = base[q]
    BY <1>4 DEF Wrote, Write, CanLock, IInv, TypeOK
  <2>2. Spares(s)
    BY <1>1, <1>2, <2>1 DEF Spares
  <2>3. ASSUME NEW q \in PK PROVE Stays(q)'
    <3>1. Stays(q)
      BY DEF KInv
    <3>2. CASE q # p
      BY <1>1, <2>1, <3>1, <3>2 DEF Stays
    <3>3. CASE q = p
      BY <1>1, <1>4, <2>1, <3>1, <3>3 DEF Stays, Respects
    <3> QED
      BY <3>2, <3>3
  <2> QED
    BY <2>1, <2>2, <2>3
<1> QED
  BY <1>1, <1>3, <1>4 DEF Does

\* So a step of session s is right if what s itself knows after it is.
LEMMA StatementKnows ==
  ASSUME IInv, IInv', KInv, RowsLast, NEW s \in Session, NEW t \in Transaction,
         st' = [st EXCEPT ![s] = t], st[s] = Idle \/ st[s].pk = t.pk,
         t.op \in sends[t.pk], t.at \in PointsOf[t.op], Does(s, t.pk),
         lock'[t.pk] = s => t.at \in {"reupdate", "apply", "done"},
         Knows(s)', Deleting(s)'
  PROVE  KInv'
<1>1. t.pk \in PK /\ t # Idle
  BY DEF Transaction, Idle, ProgramPoint
<1>2. /\ Spares(s) /\ source' = source /\ sends' = sends
      /\ \A q \in PK : Stays(q)'
      /\ \A q \in PK \ {t.pk} : lock'[q] = lock[q]
  BY <1>1, StatementSpares
<1>3. st'[s] = t /\ \A u \in Session \ {s} : st'[u] = st[u]
  BY DEF IInv, TypeOK
<1>4. \A u \in Session \ {s} : Follows(st[u])' /\ Holds(u)' /\ Knows(u)' /\ Deleting(u)'
  BY <1>2, <1>3, OthersKnow DEF IInv
<1>5. Follows(st[s])'
  BY <1>2, <1>3 DEF Follows
<1>6. Holds(s)'
  <2>1. Holds(s)
    BY DEF KInv
  <2> QED
    BY <1>1, <1>2, <1>3, <2>1 DEF Holds
<1> QED
  BY <1>2, <1>4, <1>5, <1>6 DEF KInv

\* A transaction begins with a row the view showed, or with none.
LEMMA StartKnows ==
  ASSUME IInv, IInv', KInv, RowsLast, NEW s \in Session, NEW p \in PK,
         NEW op \in Statement,
         NEW old \in Row \cup {NoRow}, NEW new \in Row \cup {NoRow} \cup Expression,
         NEW step \in {"insert", "update", "flag", "remove", "scan"},
         Start(s, p, op, old, new, step), step \in PointsOf[op],
         step = "flag" => SoftDelete /\ SourceRow(source, p) # NoRow,
         step = "scan" => old = NoRow,
         op = "update" => /\ old \in Row /\ new \in Row
                          /\ committed[p] # NoRow \/ Offers(p, old)
  PROVE  KInv'
<1> DEFINE t == [at |-> step, op |-> op, pk |-> p, old |-> old, new |-> new]
<1>1. st' = [st EXCEPT ![s] = t] /\ Keep /\ st[s] = Idle /\ op \in sends[p]
  BY DEF Start
<1>2. t \in Transaction
  BY DEF Transaction, ProgramPoint
<1>3. t.op = op /\ t.pk = p /\ t.old = old /\ t.at = step /\ t.new = new
  OBVIOUS
<1> HIDE DEF t
<1>4. st'[s] = t
  BY <1>1 DEF IInv, TypeOK
<1>5. lock'[p] # s
  BY <1>1 DEF KInv, Holds, Keep
<1>6. committed' = committed /\ source' = source
  BY <1>1 DEF Keep, given
<1>7. Knows(s)'
  <2>1. step = "update" => op = "update"
    BY DEF Statement, PointsOf
  <2>2. t.at \notin {"copyup", "copy", "reupdate", "apply", "done"}
    BY <1>3
  <2> QED
    BY <1>3, <1>4, <1>6, <2>1, <2>2 DEF Knows, Offers, Copying
<1>8. Deleting(s)'
  BY <1>3, <1>4, <1>6 DEF Deleting, SourceRow
<1>9. Does(s, p)
  BY <1>1 DEF Does
<1> QED
  BY <1>1, <1>2, <1>3, <1>5, <1>7, <1>8, <1>9, StatementKnows

\* A row of the view is a base row, or what the vendor's table offers.
LEMMA ShownIs ==
  ASSUME ExtraWhereOr = {}, IInv, NEW b \in [PK -> BaseRow \cup {NoRow}],
         NEW x \in View(b, source)
  PROVE  /\ x.pk \in PK /\ x.row \in Row
         /\ b[x.pk] # NoRow \/ Offers(x.pk, x.row)
<1>1. x.pk \in PK /\ x.row \in Row
  BY SeenType DEF IInv, TypeOK
<1>2. b[x.pk] # NoRow \/ Offers(x.pk, x.row)
  BY DEF View, BaseShows, SourceShows, Offers
<1> QED
  BY <1>1, <1>2

\* Every way a transaction can begin.
LEMMA BeginKnows ==
  ASSUME ExtraWhereOr = {}, IInv, IInv', KInv, RowsLast, NEW s \in Session, Begin(s)
  PROVE  KInv'
<1>1. ASSUME NEW p \in PK, NEW r \in Row, BeginInsert(s, p, r) PROVE KInv'
  BY <1>1, StartKnows DEF BeginInsert, Statement, PointsOf
<1>2. ASSUME NEW p \in PK, BeginReset(s, p) PROVE KInv'
  BY <1>2, StartKnows DEF BeginReset, Statement, PointsOf
<1>3. ASSUME NEW p \in PK, BeginMaterialize(s, p) PROVE KInv'
  BY <1>3, StartKnows DEF BeginMaterialize, Statement, PointsOf
<1>4. ASSUME NEW p \in PK, NEW f \in Expression, BeginExpression(s, p, f) PROVE KInv'
  BY <1>4, StartKnows DEF BeginExpression, Statement, PointsOf
<1>5. ASSUME NEW x \in View(committed, source)
      PROVE  /\ x.pk \in PK /\ x.row \in Row
             /\ committed[x.pk] # NoRow \/ Offers(x.pk, x.row)
  <2>1. committed \in [PK -> BaseRow \cup {NoRow}]
    BY DEF IInv, TypeOK
  <2> QED
    BY <1>5, <2>1, ShownIs
<1>6. ASSUME NEW x \in View(committed, source), NEW r \in Row, BeginUpdate(s, x, r)
      PROVE  KInv'
  BY <1>5, <1>6, StartKnows DEF BeginUpdate, Statement, PointsOf
<1>7. ASSUME NEW x \in View(committed, source), BeginDelete(s, x) PROVE KInv'
  <2> DEFINE step == IF SoftDelete /\ SourceProbe(source, x.pk, x.row)
                     THEN "flag" ELSE "remove"
  <2>1. Start(s, x.pk, "delete", x.row, NoRow, step)
    BY <1>7 DEF BeginDelete
  <2>2. /\ step \in {"flag", "remove"}
        /\ step = "flag" => SoftDelete /\ SourceRow(source, x.pk) # NoRow
    BY DEF SourceProbe
  <2> HIDE DEF step
  <2> QED
    BY <1>5, <1>7, <2>1, <2>2, StartKnows DEF Statement, PointsOf
<1> QED
  BY <1>1, <1>2, <1>3, <1>4, <1>6, <1>7 DEF Begin

-----------------------------------------------------------------------------
(* Every SQL statement                                                     *)

\* t is st[s] gone on to another point.
Continues(s, t, step) ==
  /\ st'[s] = t /\ t.at = step
  /\ t.op = st[s].op /\ t.pk = st[s].pk /\ t.old = st[s].old /\ t.new = st[s].new

\* A step that goes on is right if what its session knows then is.
LEMMA GoKnows ==
  ASSUME IInv, IInv', KInv, RowsLast, NEW s \in Session, st[s] # Idle,
         NEW step \in ProgramPoint, step \in PointsOf[st[s].op], Go(s, step),
         Does(s, st[s].pk),
         lock'[st[s].pk] = s => step \in {"reupdate", "apply", "done"},
         \A t \in Transaction : Continues(s, t, step) => Knows(s)' /\ Deleting(s)'
  PROVE  KInv'
<1>1. PICK t \in Transaction :
        /\ st' = [st EXCEPT ![s] = t] /\ t.at = step
        /\ t.op = st[s].op /\ t.pk = st[s].pk /\ t.old = st[s].old
        /\ t.new = st[s].new
  BY GoesOn DEF IInv
<1>2. st'[s] = t
  BY <1>1 DEF IInv, TypeOK
<1>3. Knows(s)' /\ Deleting(s)'
  BY <1>1, <1>2 DEF Continues
<1>4. st[s].op \in sends[st[s].pk]
  BY DEF KInv, Follows
<1> QED
  BY <1>1, <1>3, <1>4, StatementKnows

\* What holds of every session that is in a transaction.
LEMMA UnderWay ==
  ASSUME IInv, KInv, NEW s \in Session, st[s] # Idle
  PROVE  /\ st[s] \in Transaction /\ st[s].pk \in PK
         /\ st[s].op \in sends[st[s].pk] /\ st[s].at \in PointsOf[st[s].op]
         /\ st[s].op \in Statement
         /\ base[st[s].pk] \in BaseRow \cup {NoRow}
         /\ committed[st[s].pk] \in BaseRow \cup {NoRow}
         /\ Stays(st[s].pk) /\ Knows(s) /\ Deleting(s)
         /\ st[s].at \notin {"reupdate", "apply", "done"} => lock[st[s].pk] # s
<1>1. st[s] \in Transaction
  BY DEF IInv, TypeOK
<1>2. st[s].pk \in PK /\ st[s].op \in Statement
  BY <1>1 DEF Transaction
<1>3. Follows(st[s]) /\ Holds(s) /\ Knows(s) /\ Deleting(s) /\ Stays(st[s].pk)
  BY <1>2 DEF KInv
<1>4. /\ base[st[s].pk] \in BaseRow \cup {NoRow}
      /\ committed[st[s].pk] \in BaseRow \cup {NoRow}
  BY <1>2 DEF IInv, TypeOK
<1> QED
  BY <1>1, <1>2, <1>3, <1>4 DEF Follows, Holds

\* A row that can be locked and is not yet is as it was committed.
LEMMA FreeIsCommitted ==
  ASSUME IInv, NEW s \in Session, NEW p \in PK, CanLock(s, p), lock[p] # s
  PROVE  base[p] = committed[p]
BY DEF IInv, TypeOK, CanLock

\* What a session finds is its own row, or else the committed one.
LEMMA FoundIs ==
  ASSUME NEW s \in Session, NEW p \in PK
  PROVE  Snapshot(s)[p] = IF lock[p] = s THEN base[p] ELSE committed[p]
BY DEF Snapshot

\* What a row that is written becomes, in the tables.
LEMMA WrittenIs ==
  ASSUME IInv, NEW s \in Session, NEW p \in PK, NEW b, Write(s, p, b)
  PROVE  base'[p] = b /\ lock'[p] = s /\ committed' = committed /\ source' = source
BY DEF IInv, TypeOK, Write, given

\* And a row that is not.
LEMMA KeptIs ==
  ASSUME Keep
  PROVE  base' = base /\ lock' = lock /\ committed' = committed /\ source' = source
BY DEF Keep, given

\* An insert, where a row that should last is never deleted.
LEMMA InsertKnows ==
  ASSUME IInv, IInv', KInv, RowsLast, NEW s \in Session, st[s] # Idle, Insert(s)
  PROVE  KInv'
<1> DEFINE p == st[s].pk
           b == Live(st[s].new)
<1>1. /\ st[s].at = "insert" /\ CanLock(s, p) /\ base[p] = NoRow
      /\ Write(s, p, b) /\ Go(s, "done")
  BY DEF Insert
<1>2. /\ st[s].op = "insert" /\ p \in PK /\ "insert" \in sends[p]
  BY <1>1, UnderWay DEF PointsOf, Statement
<1>3. b \in BaseRow
  <2>1. st[s].new \in Row
    BY <1>1 DEF IInv, Carries
  <2> QED
    BY <2>1, LiveAndMerged
<1>4. Respects(p, b)
  BY <1>1, <1>2 DEF Respects, Lasts
<1>5. Does(s, p)
  BY <1>1, <1>3, <1>4 DEF Does, Wrote
<1>6. \A t \in Transaction : Continues(s, t, "done") => Knows(s)' /\ Deleting(s)'
  BY <1>2 DEF Continues, Knows, Deleting, Copying
<1>7. "done" \in PointsOf[st[s].op] /\ "done" \in ProgramPoint
  BY <1>2 DEF PointsOf, ProgramPoint
<1> QED
  BY <1>1, <1>5, <1>6, <1>7, GoKnows

\* The vendor's row that was copied down, with the edit made to it.
LEMMA LiveRow ==
  ASSUME NEW r \in Row, NEW q \in Row
  PROVE  /\ Live(r) # NoRow /\ Live(r) \in BaseRow
         /\ Live(r).row = r /\ ~Live(r).deleted
         /\ [Live(r) EXCEPT !.row = q] = Live(q)
<1>1. Live(r) \in BaseRow /\ Live(q) \in BaseRow /\ Live(r) # NoRow
  BY LiveAndMerged, RowsAssumption
<1>2. /\ Live(r).row = r /\ ~Live(r).deleted
      /\ Live(q).row = q /\ ~Live(q).deleted
  BY DEF Live
<1>3. [Live(r) EXCEPT !.row = q] = Live(q)
  <2> HIDE DEF Live
  <2> QED
    BY <1>1, <1>2 DEF BaseRow
<1> QED
  BY <1>1, <1>2, <1>3

\* A base row that is found is there to be written over.
LEMMA OverwritingRespects ==
  ASSUME NEW p \in PK, Stays(p), base[p] # NoRow,
         NEW b, b # NoRow, base[p].deleted => b.deleted
  PROVE  Respects(p, b)
BY DEF Stays, Respects

\* A copying statement that ends with its row written.
LEMMA KnowsWritten ==
  ASSUME NEW s \in Session, NEW t, st'[s] = t, t.at = "done", t.op \in Copying,
         t.op = "update" => t.old \in Row /\ t.new \in Row,
         lock'[t.pk] = s, source' = source, committed' = committed,
         IF committed[t.pk] = NoRow
         THEN Offers(t.pk, t.old) /\ base'[t.pk] = Live(Computed(t, t.old))
         ELSE base'[t.pk] = [committed[t.pk] EXCEPT !.row = Computed(t, @)]
  PROVE  Knows(s)' /\ Deleting(s)'
<1>1. Deleting(s)'
  BY DEF Deleting, Copying
<1>2. Offers(t.pk, t.old)' <=> Offers(t.pk, t.old)
  BY DEF Offers
<1>3. \A q : Live(q)' = Live(q) /\ Computed(t, q)' = Computed(t, q)
  OBVIOUS
<1>4. Knows(s)'
  BY <1>2, <1>3 DEF Knows
<1> QED
  BY <1>1, <1>4

\* The UPDATE of the base row that an update of the view tries first, and again
\* after the copy-up: it merges into the committed row, or into its own copy.
LEMMA MergeKnows ==
  ASSUME IInv, IInv', KInv, RowsLast, NEW s \in Session, st[s] # Idle,
         NEW missing \in {"copyup", "done"}, MergeInto(s, "done", missing),
         \/ st[s].at = "update" /\ missing = "copyup"
         \/ st[s].at = "reupdate"
  PROVE  KInv'
<1> DEFINE p == st[s].pk
           old == st[s].old
           new == st[s].new
           b == [base[p] EXCEPT !.row = Merge(old, new, @)]
<1>1. /\ st[s].op = "update" /\ p \in PK /\ Knows(s)
      /\ base[p] \in BaseRow \cup {NoRow} /\ committed[p] \in BaseRow \cup {NoRow}
      /\ st[s].at = "update" => lock[p] # s
  BY UnderWay DEF PointsOf, Statement
<1>2. old \in Row /\ new \in Row /\ old # NoRow
  BY <1>1, RowsAssumption DEF Knows, Copying
<1>3. IF lock[p] = s
      THEN committed[p] = NoRow /\ Offers(p, old) /\ base[p] = Live(old)
      ELSE CanLock(s, p) => base[p] = committed[p]
  BY <1>1, FreeIsCommitted DEF Knows, Copying
<1>4. {"done", "copyup"} \subseteq PointsOf[st[s].op] \cap ProgramPoint
  BY <1>1 DEF PointsOf, ProgramPoint
<1>5. CASE Finds(s, p) /\ CanLock(s, p) /\ Write(s, p, b) /\ Go(s, "done")
  <2>1. base[p] # NoRow /\ base[p] \in BaseRow /\ base[p].row \in Row
    BY <1>1, <1>5, FoundIsThere DEF IInv
  <2>2. b \in BaseRow /\ b.deleted = base[p].deleted
    <3>1. Merge(old, new, base[p].row) \in Row
      BY <1>2, <2>1, LiveAndMerged
    <3> QED
      BY <2>1, <3>1 DEF BaseRow
  <2>3. IF committed[p] = NoRow
        THEN Offers(p, old) /\ b = Live(Merge(old, new, old))
        ELSE b = [committed[p] EXCEPT !.row = Merge(old, new, @)]
    <3>1. CASE lock[p] = s
      <4>1. committed[p] = NoRow /\ Offers(p, old) /\ base[p] = Live(old)
        BY <1>3, <3>1
      <4>2. Merge(old, new, old) \in Row
        BY <1>2, LiveAndMerged
      <4>3. Live(old).row = old /\ [Live(old) EXCEPT !.row = Merge(old, new, old)]
                                   = Live(Merge(old, new, old))
        BY <1>2, <4>2, LiveRow
      <4> HIDE DEF old, new, p
      <4>4. b = Live(Merge(old, new, old))
        BY <4>1, <4>3
      <4> QED
        BY <4>1, <4>4
    <3>2. CASE lock[p] # s
      BY <1>3, <1>5, <2>1, <3>2
    <3> QED
      BY <3>1, <3>2
  <2> HIDE DEF b
  <2>4. b # NoRow
    BY <2>2, RowsAssumption
  <2>5. Does(s, p)
    <3>1. Respects(p, b)
      BY <1>1, <2>1, <2>2, <2>4, UnderWay, OverwritingRespects
    <3>2. Wrote(s, p, b)
      BY <1>5 DEF Wrote
    <3> QED
      BY <2>2, <3>1, <3>2 DEF Does
  <2>6. base'[p] = b /\ lock'[p] = s /\ committed' = committed /\ source' = source
    BY <1>1, <1>5, WrittenIs
  <2>7. ASSUME NEW t \in Transaction, Continues(s, t, "done")
        PROVE  Knows(s)' /\ Deleting(s)'
    <3>1. /\ st'[s] = t /\ t.at = "done" /\ t.op = "update" /\ t.pk = p
          /\ t.old = old /\ t.new = new
      BY <1>1, <2>7 DEF Continues
    <3>2. \A r : Computed(t, r) = Merge(old, new, r)
      BY <3>1 DEF Computed
    <3>3. IF committed[t.pk] = NoRow
          THEN Offers(t.pk, t.old) /\ base'[t.pk] = Live(Computed(t, t.old))
          ELSE base'[t.pk] = [committed[t.pk] EXCEPT !.row = Computed(t, @)]
      BY <2>3, <2>6, <3>1, <3>2
    <3> QED
      BY <1>2, <2>6, <3>1, <3>3, KnowsWritten DEF Copying
  <2> QED
    BY <1>4, <1>5, <2>5, <2>7, GoKnows
<1>6. CASE ~Finds(s, p) /\ Keep /\ Go(s, missing)
  <2>1. st[s].at = "update" /\ missing = "copyup"
    <3>1. st[s].at # "reupdate"
      <4>1. SUFFICES ASSUME st[s].at = "reupdate" PROVE FALSE
        OBVIOUS
      <4>2. IF lock[p] = s THEN base[p] = Live(old) ELSE committed[p] # NoRow
        BY <1>1, <1>2, <4>1 DEF Knows, Copying
      <4>3. Live(old) # NoRow
        BY <1>2, LiveAndMerged, RowsAssumption
      <4> QED
        BY <1>1, <1>6, <4>2, <4>3, FoundIs DEF Finds
    <3> QED
      BY <3>1
  <2>2. lock[p] # s
    BY <1>1, <2>1
  <2>3. base' = base /\ lock' = lock /\ committed' = committed /\ source' = source
    BY <1>6, KeptIs
  <2>4. ASSUME NEW t \in Transaction, Continues(s, t, "copyup")
        PROVE  Knows(s)' /\ Deleting(s)'
    BY <1>1, <1>2, <2>1, <2>3, <2>4 DEF Continues, Knows, Deleting, Copying, Offers
  <2> QED
    BY <1>4, <1>6, <2>1, <2>2, <2>3, <2>4, GoKnows DEF Does
<1> QED
  BY <1>5, <1>6 DEF MergeInto

\* The copy of a row of the view, ON CONFLICT DO NOTHING: either the row is now
\* the session's own copy of what the vendor offers, or there is a committed one.
LEMMA CopyKnows ==
  ASSUME IInv, IInv', KInv, RowsLast, NEW s \in Session, st[s] # Idle,
         NEW step \in {"reupdate", "apply"}, Go(s, step),
         \/ st[s].at = "copyup" /\ step = "reupdate"
         \/ st[s].at = "copy" /\ step = "apply",
         CanLock(s, st[s].pk),
         IF base[st[s].pk] = NoRow THEN Write(s, st[s].pk, Live(st[s].old)) ELSE Keep
  PROVE  KInv'
<1> DEFINE p == st[s].pk
           old == st[s].old
<1>1. /\ p \in PK /\ st[s].op \in Copying /\ Knows(s) /\ Stays(p)
      /\ lock[p] # s /\ step \in PointsOf[st[s].op] /\ step \in ProgramPoint
  BY UnderWay DEF PointsOf, Statement, Copying, ProgramPoint
<1>2. old \in Row
  BY DEF IInv, Carries
<1>3. base[p] = committed[p]
  BY <1>1, FreeIsCommitted
<1>4. committed[p] # NoRow \/ Offers(p, old)
  BY <1>1 DEF Knows
<1>5. CASE base[p] = NoRow
  <2>1. Write(s, p, Live(old)) /\ Offers(p, old) /\ committed[p] = NoRow
    BY <1>3, <1>4, <1>5
  <2>2. Live(old) \in BaseRow
    BY <1>2, LiveAndMerged
  <2>3. Does(s, p)
    <3>1. Respects(p, Live(old))
      BY <1>2, <1>5, <2>1, RowsAssumption DEF Respects, Offers
    <3> QED
      BY <2>1, <2>2, <3>1 DEF Does, Wrote
  <2>4. base'[p] = Live(old) /\ lock'[p] = s /\ committed' = committed /\ source' = source
    BY <1>1, <2>1, WrittenIs
  <2>5. ASSUME NEW t \in Transaction, Continues(s, t, step)
        PROVE  Knows(s)' /\ Deleting(s)'
    <3>1. /\ st'[s] = t /\ t.at = step /\ t.op = st[s].op /\ t.pk = p /\ t.old = old
          /\ t.op = "update" => t.old \in Row /\ t.new \in Row
      BY <1>1, <2>5 DEF Continues, Knows
    <3>2. /\ committed'[t.pk] = NoRow /\ lock'[t.pk] = s
          /\ base'[t.pk] = Live(t.old) /\ Offers(t.pk, t.old)'
      BY <2>1, <2>4, <3>1 DEF Offers
    <3> HIDE DEF p, old
    <3>3. Live(t.old)' = Live(t.old)
      OBVIOUS
    <3>4. Knows(s)'
      BY <3>1, <3>2, <3>3 DEF Knows
    <3>5. t.op \in Copying
      BY <1>1, <3>1
    <3> QED
      BY <3>1, <3>4, <3>5 DEF Deleting, Copying
  <2> QED
    BY <1>1, <2>3, <2>5, GoKnows
<1>6. CASE base[p] # NoRow
  <2>1. Keep /\ committed[p] # NoRow
    BY <1>3, <1>6
  <2>2. base' = base /\ lock' = lock /\ committed' = committed /\ source' = source
    BY <2>1, KeptIs
  <2>3. ASSUME NEW t \in Transaction, Continues(s, t, step)
        PROVE  Knows(s)' /\ Deleting(s)'
    <3>1. /\ st'[s] = t /\ t.at = step /\ t.op = st[s].op /\ t.pk = p
          /\ t.op = "update" => t.old \in Row /\ t.new \in Row
      BY <1>1, <2>3 DEF Continues, Knows
    <3>2. committed'[t.pk] # NoRow /\ lock'[t.pk] # s /\ t.op \in Copying
      BY <1>1, <2>1, <2>2, <3>1
    <3> HIDE DEF p, old
    <3> QED
      BY <3>1, <3>2 DEF Knows, Deleting, Copying
  <2> QED
    BY <1>1, <2>1, <2>2, <2>3, GoKnows DEF Does
<1> QED
  BY <1>5, <1>6

\* The flag, the tombstone and the removal of a delete or a reset.
LEMMA DeleteKnows ==
  ASSUME IInv, IInv', KInv, RowsLast, NEW s \in Session, st[s] # Idle,
         Flag(s) \/ Entomb(s) \/ Remove(s)
  PROVE  KInv'
<1> DEFINE p == st[s].pk
<1>1. /\ st[s].at \in {"flag", "entomb", "remove"}
      /\ p \in PK /\ Stays(p) /\ Deleting(s) /\ lock[p] # s
      /\ base[p] \in BaseRow \cup {NoRow}
      /\ st[s].op \in sends[p] /\ st[s].op \in {"delete", "reset"}
      /\ st[s].at # "remove" => st[s].op = "delete"
  BY UnderWay DEF PointsOf, Statement, Flag, Entomb, Remove
<1>2. /\ st[s].at = "remove" => "done" \in PointsOf[st[s].op]
      /\ st[s].at # "remove" => {"entomb", "done"} \subseteq PointsOf[st[s].op]
      /\ {"entomb", "done"} \subseteq ProgramPoint
  BY <1>1 DEF PointsOf, ProgramPoint
<1>3. ASSUME NEW step \in {"entomb", "done"}, Keep, Go(s, step),
             step = "entomb" => st[s].at = "flag"
      PROVE  KInv'
  <2>1. lock' = lock /\ source' = source
    BY <1>3, KeptIs
  <2>2. ASSUME NEW t \in Transaction, Continues(s, t, step)
        PROVE  Knows(s)' /\ Deleting(s)'
    <3>1. /\ st'[s] = t /\ t.at = step /\ t.op = st[s].op /\ t.pk = p
          /\ lock'[t.pk] # s
          /\ step = "entomb" => SoftDelete /\ SourceRow(source, t.pk) # NoRow
      BY <1>1, <1>3, <2>1, <2>2 DEF Continues, Deleting
    <3>2. Knows(s)'
      BY <1>1, <3>1 DEF Knows, Copying
    <3>3. SourceRow(source, t.pk)' = SourceRow(source, t.pk)
      BY <2>1 DEF SourceRow
    <3>4. Deleting(s)'
      BY <3>1, <3>3 DEF Deleting
    <3> QED
      BY <3>2, <3>4
  <2>3. step \in PointsOf[st[s].op] /\ step \in ProgramPoint
    BY <1>1, <1>2, <1>3
  <2> QED
    BY <1>1, <1>3, <2>1, <2>2, <2>3, GoKnows DEF Does
<1>4. ASSUME NEW b \in BaseRow \cup {NoRow}, Wrote(s, p, b), Respects(p, b), Go(s, "done"),
             st[s].op = "delete" => b = NoRow \/ (SoftDelete /\ b.deleted)
      PROVE  KInv'
  <2>1. base'[p] = b /\ lock'[p] = s
    BY <1>1, <1>4, WrittenIs DEF Wrote
  <2>2. ASSUME NEW t \in Transaction, Continues(s, t, "done")
        PROVE  Knows(s)' /\ Deleting(s)'
    <3>1. st'[s] = t /\ t.at = "done" /\ t.op = st[s].op /\ t.pk = p /\ base'[t.pk] = b
      BY <2>1, <2>2 DEF Continues
    <3>2. t.op \notin Copying
      BY <1>1, <3>1 DEF Copying
    <3>3. Knows(s)'
      BY <3>1, <3>2 DEF Knows
    <3>4. Deleting(s)'
      BY <1>4, <3>1 DEF Deleting
    <3> QED
      BY <3>3, <3>4
  <2>3. Does(s, p) /\ "done" \in PointsOf[st[s].op] /\ "done" \in ProgramPoint
    BY <1>1, <1>2, <1>4 DEF Does
  <2> QED
    BY <1>4, <2>2, <2>3, GoKnows
<1>5. CASE Flag(s)
  <2> DEFINE b == [base[p] EXCEPT !.deleted = TRUE]
  <2>1. CASE Finds(s, p) /\ CanLock(s, p) /\ Write(s, p, b) /\ Go(s, "done")
    <3>1. base[p] # NoRow /\ base[p] \in BaseRow
      BY <1>1, <2>1, FoundIsThere DEF IInv
    <3>2. b \in BaseRow /\ b.deleted
      BY <3>1 DEF BaseRow
    <3>3. SoftDelete
      BY <1>1, <1>5 DEF Flag, Deleting
    <3> HIDE DEF b
    <3>4. Respects(p, b)
      BY <1>1, <3>1, <3>2, RowsAssumption, OverwritingRespects
    <3> QED
      BY <1>4, <2>1, <3>2, <3>3, <3>4 DEF Wrote
  <2>2. CASE Keep /\ Go(s, "entomb")
    BY <1>3, <1>5, <2>2 DEF Flag
  <2> QED
    BY <1>5, <2>1, <2>2 DEF Flag
<1>6. CASE Entomb(s)
  <2> DEFINE b == [row |-> IF base[p] = NoRow THEN st[s].old ELSE base[p].row,
                   deleted |-> TRUE]
  <2>1. Wrote(s, p, b) /\ Go(s, "done")
    BY <1>6 DEF Entomb, Wrote
  <2>2. SoftDelete /\ SourceRow(source, p) # NoRow
    BY <1>1, <1>6 DEF Entomb, Deleting
  <2>3. b \in BaseRow /\ b.deleted
    <3>1. st[s].old \in Row
      BY <1>6 DEF Entomb, IInv, Carries
    <3> QED
      BY <1>1, <3>1 DEF BaseRow
  <2> HIDE DEF b
  <2>4. Respects(p, b)
    BY <2>2, <2>3, RowsAssumption DEF Respects
  <2> QED
    BY <1>4, <2>1, <2>2, <2>3, <2>4
<1>7. CASE Remove(s)
  <2>1. CASE Finds(s, p) /\ CanLock(s, p) /\ Write(s, p, NoRow) /\ Go(s, "done")
    <3>1. base[p] # NoRow
      BY <1>1, <2>1, FoundIsThere DEF IInv
    <3>2. ~Lasts(sends, p)
      <4> SUFFICES ASSUME Lasts(sends, p) PROVE FALSE
        OBVIOUS
      <4>1. st[s].op = "delete" /\ SoftDelete /\ PartitionKey = {} /\ "delete" \in sends[p]
        BY <1>1 DEF Lasts
      <4>2. ~SourceProbe(source, p, st[s].old)
        BY <1>7, <4>1 DEF Remove, IInv, Hides
      <4>3. SourceRow(source, p) = NoRow
        BY <4>1, <4>2 DEF SourceProbe, SamePartition
      <4> QED
        BY <1>1, <3>1, <4>1, <4>3 DEF Stays
    <3> QED
      BY <1>4, <2>1, <3>2 DEF Wrote, Respects
  <2>2. CASE Keep /\ Go(s, "done")
    BY <1>3, <2>2
  <2> QED
    BY <1>7, <2>1, <2>2 DEF Remove
<1> QED
  BY <1>5, <1>6, <1>7

\* What the SELECT of an INSERT ... SELECT reads is committed: its session has
\* not written anything yet.
LEMMA ScanKnows ==
  ASSUME ExtraWhereOr = {}, IInv, IInv', KInv, RowsLast, NEW s \in Session,
         st[s] # Idle, Scan(s)
  PROVE  KInv'
<1> DEFINE p == st[s].pk
<1>1. /\ st[s].at = "scan" /\ Keep
      /\ p \in PK /\ st[s] \in Transaction /\ Knows(s) /\ lock[p] # s
      /\ st[s].op \in sends[p] /\ st[s].op \in {"materialize", "expression"}
  BY UnderWay DEF Scan, PointsOf, Statement
<1>2. base' = base /\ lock' = lock /\ committed' = committed /\ source' = source
  BY <1>1, KeptIs
<1>3. st[s].old = NoRow
  BY <1>1 DEF Knows, Copying
<1>4. {"copy", "apply"} \subseteq PointsOf[st[s].op] \cap ProgramPoint
  BY <1>1 DEF PointsOf, ProgramPoint
<1>5. \A t : st'[s] = t /\ t.op = st[s].op => Deleting(s)'
  BY <1>1 DEF Deleting
<1>6. ASSUME NEW x \in View(Snapshot(s), source), x.pk = p,
             st' = [st EXCEPT ![s].at = "copy", ![s].old = x.row]
      PROVE  KInv'
  <2>1. x.row \in Row /\ (Snapshot(s)[p] # NoRow \/ Offers(p, x.row))
    <3>1. Snapshot(s) \in [PK -> BaseRow \cup {NoRow}]
      BY SnapshotType DEF IInv
    <3> QED
      BY <1>6, <3>1, ShownIs
  <2>2. committed[p] # NoRow \/ Offers(p, x.row)
    BY <1>1, <2>1, FoundIs
  <2>3. PICK t \in Transaction :
          /\ st' = [st EXCEPT ![s] = t]
          /\ t.at = "copy" /\ t.op = st[s].op /\ t.pk = p /\ t.old = x.row
    <3> DEFINE t == [[st[s] EXCEPT !.at = "copy"] EXCEPT !.old = x.row]
    <3>1. st' = [st EXCEPT ![s] = t]
      BY <1>6 DEF IInv, TypeOK
    <3>2. /\ t \in Transaction /\ t.at = "copy" /\ t.op = st[s].op /\ t.pk = p
          /\ t.old = x.row
      BY <1>1, <2>1 DEF Transaction, ProgramPoint
    <3> HIDE DEF t
    <3> QED
      BY <3>1, <3>2
  <2>4. t.at = "copy" /\ t.op = st[s].op /\ t.pk = p /\ t.old = x.row
    BY <2>3
  <2>5. st'[s] = t
    BY <2>3 DEF IInv, TypeOK
  <2>6. committed'[t.pk] # NoRow \/ Offers(t.pk, t.old)'
    BY <1>2, <2>2, <2>4 DEF Offers
  <2>7. Knows(s)'
    <3>1. t.op # "update"
      BY <1>1, <2>4
    <3> QED
      BY <2>4, <2>5, <2>6, <3>1 DEF Knows
  <2>8. Does(s, p) /\ lock'[p] # s /\ Deleting(s)'
    BY <1>1, <1>2, <1>5, <2>4, <2>5 DEF Does
  <2> QED
    BY <1>1, <1>4, <2>3, <2>4, <2>7, <2>8, StatementKnows
<1>7. CASE Go(s, "apply")
  <2>1. ASSUME NEW t \in Transaction, Continues(s, t, "apply")
        PROVE  Knows(s)' /\ Deleting(s)'
    <3>1. st'[s] = t /\ t.at = "apply" /\ t.op = st[s].op /\ t.pk = p /\ t.old = NoRow
      BY <1>3, <2>1 DEF Continues
    <3>2. lock'[t.pk] # s /\ t.op # "update"
      BY <1>1, <1>2, <3>1
    <3> QED
      BY <1>5, <3>1, <3>2 DEF Knows
  <2> QED
    BY <1>1, <1>2, <1>4, <1>7, <2>1, GoKnows DEF Does
<1> QED
  BY <1>6, <1>7 DEF Scan

\* The UPDATE with the expression: it computes on the committed row or on the
\* session's own copy, and misses only a row that nobody sees.
LEMMA ApplyKnows ==
  ASSUME IInv, IInv', KInv, RowsLast, NEW s \in Session, st[s] # Idle, Apply(s)
  PROVE  KInv'
<1> DEFINE p == st[s].pk
           old == st[s].old
           b == [base[p] EXCEPT !.row = st[s].new[@]]
<1>1. /\ st[s].at = "apply" /\ Go(s, "done")
      /\ p \in PK /\ Knows(s) /\ Stays(p)
      /\ st[s].op \in {"materialize", "expression"} /\ st[s].op \in Copying
      /\ base[p] \in BaseRow \cup {NoRow} /\ old \in Row \cup {NoRow}
      /\ "done" \in PointsOf[st[s].op] /\ "done" \in ProgramPoint
  BY UnderWay DEF Apply, PointsOf, Statement, Copying, ProgramPoint, Transaction
<1>2. IF lock[p] = s
      THEN committed[p] = NoRow /\ Offers(p, old) /\ base[p] = Live(old) /\ old \in Row
      ELSE old = NoRow \/ committed[p] # NoRow
  <2>1. ExtraWhere \subseteq Row
    BY RowsAssumption
  <2> QED
    BY <1>1, <2>1 DEF Knows, Offers
<1>3. CASE /\ st[s].op = "expression" /\ Finds(s, p) /\ CanLock(s, p)
           /\ Write(s, p, b)
  <2>1. base[p] # NoRow /\ base[p] \in BaseRow /\ base[p].row \in Row
    BY <1>1, <1>3, FoundIsThere DEF IInv
  <2>2. st[s].new \in [Row -> Row]
    <3>1. st[s].new \in Expression
      BY <1>3 DEF IInv, Carries
    <3> QED
      BY <3>1, SessionAssumption
  <2>3. b \in BaseRow /\ b.deleted = base[p].deleted
    BY <2>1, <2>2 DEF BaseRow
  <2>4. IF committed[p] = NoRow
        THEN Offers(p, old) /\ b = Live(st[s].new[old])
        ELSE b = [committed[p] EXCEPT !.row = st[s].new[@]]
    <3>1. CASE lock[p] = s
      <4>1. committed[p] = NoRow /\ Offers(p, old) /\ base[p] = Live(old) /\ old \in Row
        BY <1>2, <3>1
      <4>2. st[s].new[old] \in Row
        BY <2>2, <4>1
      <4>3. Live(old).row = old
            /\ [Live(old) EXCEPT !.row = st[s].new[old]] = Live(st[s].new[old])
        BY <4>1, <4>2, LiveRow
      <4> HIDE DEF old, p
      <4>4. b = Live(st[s].new[old])
        BY <4>1, <4>3
      <4> QED
        BY <4>1, <4>4
    <3>2. CASE lock[p] # s
      <4>1. base[p] = committed[p]
        BY <1>1, <1>3, <3>2, FreeIsCommitted
      <4> QED
        BY <2>1, <4>1
    <3> QED
      BY <3>1, <3>2
  <2> HIDE DEF b
  <2>5. Does(s, p)
    <3>1. Respects(p, b)
      BY <1>1, <2>1, <2>3, RowsAssumption, OverwritingRespects
    <3> QED
      BY <1>3, <2>3, <3>1 DEF Does, Wrote
  <2>6. base'[p] = b /\ lock'[p] = s /\ committed' = committed /\ source' = source
    BY <1>1, <1>3, WrittenIs
  <2>7. ASSUME NEW t \in Transaction, Continues(s, t, "done")
        PROVE  Knows(s)' /\ Deleting(s)'
    <3>1. /\ st'[s] = t /\ t.at = "done" /\ t.op = "expression" /\ t.pk = p
          /\ t.old = old /\ t.new = st[s].new
      BY <1>3, <2>7 DEF Continues
    <3>2. \A r : Computed(t, r) = t.new[r]
      BY <3>1 DEF Computed
    <3>3. IF committed[t.pk] = NoRow
          THEN Offers(t.pk, t.old) /\ base'[t.pk] = Live(Computed(t, t.old))
          ELSE base'[t.pk] = [committed[t.pk] EXCEPT !.row = Computed(t, @)]
      BY <2>4, <2>6, <3>1, <3>2
    <3> QED
      BY <2>6, <3>1, <3>3, KnowsWritten DEF Copying
  <2> QED
    BY <1>1, <2>5, <2>7, GoKnows
<1>4. CASE /\ \/ st[s].op = "materialize"
              \/ ~(Finds(s, p) /\ Visible(Snapshot(s), source, p))
           /\ Keep
  <2>1. base' = base /\ lock' = lock /\ committed' = committed /\ source' = source
    BY <1>4, KeptIs
  <2>2. CASE st[s].op = "expression"
    <3>1. lock[p] # s
      <4> SUFFICES ASSUME lock[p] = s PROVE FALSE
        OBVIOUS
      <4>1. Snapshot(s)[p] = Live(old) /\ old \in Row
        BY <1>1, <1>2, FoundIs
      <4>2. Live(old) # NoRow /\ ~Live(old).deleted
        BY <4>1, LiveRow
      <4> QED
        BY <1>4, <2>2, <4>1, <4>2 DEF Finds, Visible, BaseShows
    <3>2. old = NoRow \/ (committed[p] # NoRow /\ ~BaseShows(committed, p))
      <4>1. Snapshot(s)[p] = committed[p]
        BY <1>1, <3>1, FoundIs
      <4> QED
        BY <1>2, <1>4, <2>2, <3>1, <4>1 DEF Finds, Visible, BaseShows
    <3>3. ASSUME NEW t \in Transaction, Continues(s, t, "done")
          PROVE  Knows(s)' /\ Deleting(s)'
      <4>1. /\ st'[s] = t /\ t.at = "done" /\ t.op = "expression" /\ t.pk = p
            /\ t.old = old
        BY <2>2, <3>3 DEF Continues
      <4>2. /\ lock'[t.pk] # s
            /\ t.old = NoRow \/ (committed'[t.pk] # NoRow /\ ~BaseShows(committed', t.pk))
        BY <2>1, <3>1, <3>2, <4>1
      <4> QED
        BY <4>1, <4>2 DEF Knows, Deleting
    <3> QED
      BY <1>1, <1>4, <3>3, GoKnows DEF Does
  <2>3. CASE st[s].op = "materialize"
    <3>1. ASSUME NEW t \in Transaction, Continues(s, t, "done")
          PROVE  Knows(s)' /\ Deleting(s)'
      <4>1. /\ st'[s] = t /\ t.at = "done" /\ t.op = "materialize" /\ t.pk = p
            /\ t.old = old
        BY <2>3, <3>1 DEF Continues
      <4>2. \A r : Computed(t, r) = r
        BY <4>1 DEF Computed
      <4>3. CASE lock[p] # s
        <5>1. lock'[t.pk] # s
          BY <2>1, <4>1, <4>3
        <5> QED
          BY <4>1, <5>1 DEF Knows, Deleting
      <4>4. CASE lock[p] = s
        <5>1. /\ committed[t.pk] = NoRow /\ Offers(t.pk, t.old) /\ lock'[t.pk] = s
              /\ base'[t.pk] = Live(Computed(t, t.old))
          BY <1>2, <2>1, <4>1, <4>2, <4>4
        <5> QED
          BY <2>1, <4>1, <5>1, KnowsWritten DEF Copying
      <4> QED
        BY <4>3, <4>4
    <3> QED
      BY <1>1, <1>4, <3>1, GoKnows DEF Does
  <2> QED
    BY <1>1, <2>2, <2>3
<1> QED
  BY <1>3, <1>4 DEF Apply

-----------------------------------------------------------------------------
(* The end of a transaction, and the invariant                             *)

\* A commit publishes its own row, a rollback restores it.
LEMMA EndKnows ==
  ASSUME IInv, IInv', KInv, RowsLast, NEW s \in Session, Commit(s) \/ Rollback(s)
  PROVE  KInv'
<1>1. /\ st' = [st EXCEPT ![s] = Idle] /\ source' = source /\ sends' = sends
      /\ lock' = [p \in PK |-> IF lock[p] = s THEN Nobody ELSE lock[p]]
  BY DEF Commit, Rollback, given
<1>2. st'[s] = Idle /\ \A u \in Session \ {s} : st'[u] = st[u]
  BY <1>1 DEF IInv, TypeOK
<1>3. \A p \in PK :
        /\ base[p] \in BaseRow \cup {NoRow} /\ committed[p] \in BaseRow \cup {NoRow}
        /\ lock[p] # s => base'[p] = base[p] /\ committed'[p] = committed[p]
        /\ lock[p] = s => /\ base'[p] = committed'[p]
                          /\ committed'[p] \in {base[p], committed[p]}
  BY DEF Commit, Rollback, IInv, TypeOK
<1>4. Spares(s)
  <2> SUFFICES ASSUME NEW q \in PK
               PROVE  /\ lock[q] \notin {s, Nobody} =>
                           /\ base'[q] = base[q] /\ committed'[q] = committed[q]
                           /\ lock'[q] = lock[q]
                      /\ lock'[q] \in {s, Nobody, lock[q]}
                      /\ Lasts(sends, q) /\ committed[q] # NoRow =>
                           /\ committed'[q] # NoRow
                           /\ committed[q].deleted => committed'[q].deleted
                      /\ committed[q] = NoRow => committed'[q] \in BaseRow \cup {NoRow}
    BY DEF Spares
  <2>1. Stays(q)
    BY DEF KInv
  <2>2. lock'[q] = IF lock[q] = s THEN Nobody ELSE lock[q]
    BY <1>1
  <2> QED
    BY <1>3, <2>1, <2>2 DEF Stays
<1>5. ASSUME NEW q \in PK PROVE Stays(q)'
  <2>1. Stays(q)
    BY DEF KInv
  <2> QED
    BY <1>1, <1>3, <2>1 DEF Stays, Lasts, SourceRow
<1>6. \A u \in Session \ {s} : Follows(st[u])' /\ Holds(u)' /\ Knows(u)' /\ Deleting(u)'
  BY <1>1, <1>2, <1>4, OthersKnow DEF IInv
<1>7. Holds(s)'
  <2>1. s # Nobody
    BY SessionAssumption
  <2> QED
    BY <1>1, <2>1 DEF Holds
<1>8. Follows(st[s])' /\ Knows(s)' /\ Deleting(s)'
  BY <1>2 DEF Follows, Knows, Deleting
<1> QED
  BY <1>5, <1>6, <1>7, <1>8 DEF KInv

\* Every SQL statement.
LEMMA StepsKnow ==
  ASSUME ExtraWhereOr = {}, IInv, IInv', KInv, RowsLast, NEW s \in Session, Step(s)
  PROVE  KInv'
<1>1. st[s] # Idle
  BY DEF Step, Insert, FirstUpdate, CopyUp, SecondUpdate, Flag, Entomb, Remove, Scan,
         Copy, Apply, Idle
<1>2. CASE Insert(s)
  BY <1>1, <1>2, InsertKnows
<1>3. CASE FirstUpdate(s) \/ SecondUpdate(s)
  BY <1>1, <1>3, MergeKnows DEF FirstUpdate, SecondUpdate
<1>4. CASE CopyUp(s) \/ Copy(s)
  BY <1>1, <1>4, CopyKnows DEF CopyUp, Copy
<1>5. CASE Flag(s) \/ Entomb(s) \/ Remove(s)
  BY <1>1, <1>5, DeleteKnows
<1>6. CASE Scan(s)
  BY <1>1, <1>6, ScanKnows
<1>7. CASE Apply(s)
  BY <1>1, <1>7, ApplyKnows
<1> QED
  BY <1>2, <1>3, <1>4, <1>5, <1>6, <1>7 DEF Step

\* The invariant of lasting rows holds at first and every step keeps it.
LEMMA KnowledgeInductive ==
  ASSUME ExtraWhereOr = {}, RowsLast
  PROVE  /\ Init => IInv /\ KInv
         /\ IInv /\ KInv /\ [Next]_vars => IInv' /\ KInv'
<1>1. ASSUME Init PROVE KInv
  <2>1. \A s \in Session : st[s] = Idle
    BY <1>1 DEF Init
  <2>2. \A p \in PK : lock[p] = Nobody /\ base[p] = NoRow /\ committed[p] = NoRow
    BY <1>1 DEF Init
  <2>3. ASSUME NEW s \in Session PROVE Follows(st[s]) /\ Holds(s) /\ Knows(s) /\ Deleting(s)
    BY <2>1, <2>2, SessionAssumption DEF Follows, Holds, Knows, Deleting
  <2>4. \A p \in PK : Stays(p)
    BY <2>2 DEF Stays
  <2> QED
    BY <2>3, <2>4 DEF KInv
<1>2. ASSUME KInv, UNCHANGED vars PROVE KInv'
  BY <1>2 DEF vars, given, KInv, Follows, Holds, Knows, Deleting, Stays, Offers, Computed,
              Live, Merge, Lasts, SourceRow, BaseShows
<1>3. ASSUME IInv, IInv', KInv, Next PROVE KInv'
  BY <1>3, BeginKnows, StepsKnow, EndKnows DEF Next
<1> QED
  BY <1>1, <1>2, <1>3, Inductive

-----------------------------------------------------------------------------
(* What a commit does to what the tenant sees                              *)

\* What the tenant sees of one id.
LEMMA SeenIs ==
  ASSUME ExtraWhereOr = {}, NEW b, NEW p \in PK
  PROVE  Seen(b)[p] =
           IF b[p] = NoRow
           THEN IF SourceRow(source, p) \in ExtraWhere THEN SourceRow(source, p) ELSE NoRow
           ELSE IF SoftDelete /\ b[p].deleted THEN NoRow ELSE b[p].row
<1>1. CASE b[p] = NoRow
  BY <1>1 DEF Seen, BaseShows, SourceShows, Shadowed, IsTombstone
<1>2. CASE b[p] # NoRow /\ ~(SoftDelete /\ b[p].deleted)
  BY <1>2 DEF Seen, BaseShows
<1>3. CASE b[p] # NoRow /\ SoftDelete /\ b[p].deleted
  <2>1. Shadowed(b, p)
    BY <1>3 DEF Shadowed, AntiJoin, IsTombstone
  <2> QED
    BY <1>3, <2>1 DEF Seen, BaseShows, SourceShows
<1> QED
  BY <1>1, <1>2, <1>3

\* A commit publishes the rows its session holds, which are at most the one its
\* statement is about.
LEMMA CommitPublishes ==
  ASSUME IInv, KInv, NEW s \in Session, Commit(s)
  PROVE  /\ st[s] # Idle /\ st[s].at = "done" /\ source' = source
         /\ \A q \in PK : committed'[q] = IF lock[q] = s THEN base[q] ELSE committed[q]
         /\ \A q \in PK : q # st[s].pk => lock[q] # s
<1>1. Holds(s)
  BY DEF KInv
<1> QED
  BY <1>1 DEF Commit, Idle, Holds, given

\* It computes a row from a row.
LEMMA ComputedRow ==
  ASSUME IInv, KInv, NEW s \in Session, st[s] # Idle, st[s].op \in Copying, NEW r \in Row
  PROVE  Computed(st[s], r) \in Row
<1>1. CASE st[s].op = "update"
  <2>1. Knows(s)
    BY DEF KInv
  <2> QED
    BY <1>1, <2>1, LiveAndMerged DEF Knows, Copying, Computed
<1>2. CASE st[s].op = "expression"
  <2>1. st[s].new \in Expression
    BY <1>2 DEF IInv, Carries
  <2>2. st[s].new \in [Row -> Row]
    BY <2>1, SessionAssumption
  <2> QED
    BY <1>2, <2>2 DEF Computed
<1>3. CASE st[s].op = "materialize"
  BY <1>3 DEF Computed
<1> QED
  BY <1>1, <1>2, <1>3 DEF Copying

\* A statement that copies a row down, and found one or wrote one, leaves what it
\* computes on the row as it was when the statement committed; where there was
\* nothing to see there still is not.
LEMMA CopyingLands ==
  ASSUME ExtraWhereOr = {}, IInv, KInv, NEW s \in Session, Commit(s),
         st[s].op \in Copying,
         st[s].op = "materialize" \/ st[s].old # NoRow \/ lock[st[s].pk] = s
  PROVE  Seen(committed')[st[s].pk] =
           IF Seen(committed)[st[s].pk] = NoRow THEN NoRow
           ELSE Computed(st[s], Seen(committed)[st[s].pk])
<1> DEFINE p == st[s].pk
           old == st[s].old
<1>1. /\ st[s] # Idle /\ st[s].at = "done" /\ p \in PK /\ Knows(s) /\ IInv /\ KInv
      /\ committed[p] \in BaseRow \cup {NoRow}
      /\ committed'[p] = IF lock[p] = s THEN base[p] ELSE committed[p]
  BY CommitPublishes, UnderWay
<1>2. CASE lock[p] # s
  <2>1. committed'[p] = committed[p]
    BY <1>1, <1>2
  <2>2. Seen(committed')[p] = Seen(committed)[p]
    BY <1>1, <2>1, SeenIs
  <2>3. st[s].op = "materialize" \/ (committed[p] # NoRow /\ ~BaseShows(committed, p))
    BY <1>1, <1>2 DEF Knows
  <2>4. CASE st[s].op = "materialize"
    BY <2>2, <2>4 DEF Computed
  <2>5. CASE committed[p] # NoRow /\ ~BaseShows(committed, p)
    <3>1. Seen(committed)[p] = NoRow
      BY <1>1, <2>5, SeenIs DEF BaseShows
    <3> QED
      BY <2>2, <3>1
  <2> QED
    BY <2>3, <2>4, <2>5
<1>3. CASE lock[p] = s /\ committed[p] = NoRow
  <2>1. Offers(p, old) /\ committed'[p] = Live(Computed(st[s], old))
    BY <1>1, <1>3 DEF Knows
  <2>2. Seen(committed)[p] = old /\ old \in Row /\ old # NoRow
    <3>1. old \in Row /\ old # NoRow
      BY <2>1, RowsAssumption DEF Offers
    <3> QED
      BY <1>1, <1>3, <2>1, <3>1, SeenIs DEF Offers
  <2>3. /\ committed'[p].row = Computed(st[s], old) /\ ~committed'[p].deleted
        /\ committed'[p] # NoRow
    <3>1. Computed(st[s], old) \in Row
      BY <1>1, <2>2, ComputedRow
    <3> QED
      BY <2>1, <3>1, LiveRow
  <2>4. Seen(committed')[p] = Computed(st[s], old)
    BY <1>1, <2>3, SeenIs
  <2> QED
    BY <2>2, <2>4
<1>4. CASE lock[p] = s /\ committed[p] # NoRow
  <2>1. committed'[p] = [committed[p] EXCEPT !.row = Computed(st[s], @)]
    BY <1>1, <1>4 DEF Knows
  <2>2. committed[p] \in BaseRow
    BY <1>1, <1>4
  <2>3. /\ committed'[p].row = Computed(st[s], committed[p].row)
        /\ committed'[p].deleted = committed[p].deleted
    BY <2>1, <2>2 DEF BaseRow
  <2>4. committed'[p] # NoRow
    <3>1. Computed(st[s], committed[p].row) \in Row
      BY <1>1, <2>2, ComputedRow DEF BaseRow
    <3>2. committed'[p] \in BaseRow
      BY <2>1, <2>2, <3>1 DEF BaseRow
    <3> QED
      BY <3>2, RowsAssumption
  <2>5. committed[p].row # NoRow
    BY <2>2, RowsAssumption DEF BaseRow
  <2>6. CASE SoftDelete /\ committed[p].deleted
    <3>1. committed'[p].deleted
      BY <2>3, <2>6
    <3>2. Seen(committed)[p] = NoRow /\ Seen(committed')[p] = NoRow
      BY <1>1, <1>4, <2>4, <2>6, <3>1, SeenIs
    <3> QED
      BY <3>2
  <2>7. CASE ~(SoftDelete /\ committed[p].deleted)
    <3>1. ~(SoftDelete /\ committed'[p].deleted)
      BY <2>3, <2>7
    <3>2. /\ Seen(committed)[p] = committed[p].row
          /\ Seen(committed')[p] = committed'[p].row
      BY <1>1, <1>4, <2>4, <2>7, <3>1, SeenIs
    <3> QED
      BY <2>3, <2>5, <3>2
  <2> QED
    BY <2>6, <2>7
<1> QED
  BY <1>2, <1>3, <1>4

\* An update that commits has changed the columns it was asked to change, of the
\* row as it was when it committed, and nothing another session wrote meanwhile:
\* its two UPDATEs and the copy-up between them merge into the committed row or
\* into a copy of what the vendor offers.
THEOREM UpdatesMerge ==
  ASSUME ExtraWhereOr = {}, RowsLast
  PROVE  Spec => EditsMerge
<1>1. ASSUME IInv, KInv, NEW s \in Session, Commits(s, "update"),
             Seen(committed)[st[s].pk] # NoRow
      PROVE  Seen(committed')[st[s].pk]
               = Merge(st[s].old, st[s].new, Seen(committed)[st[s].pk])
  <2>1. Commit(s) /\ st[s].op = "update" /\ st[s] # Idle
    BY <1>1, CommitPublishes DEF Commits
  <2>2. st[s].op \in Copying /\ Knows(s)
    BY <1>1, <2>1 DEF Copying, KInv
  <2>3. st[s].old \in Row
    BY <2>1, <2>2 DEF Knows
  <2>4. Seen(committed')[st[s].pk] = Computed(st[s], Seen(committed)[st[s].pk])
    BY <1>1, <2>1, <2>2, <2>3, CopyingLands, RowsAssumption
  <2> QED
    BY <2>1, <2>4 DEF Computed
<1>2. IInv /\ KInv /\ [Next]_vars =>
        [\A s \in Session :
           LET p == st[s].pk IN
           Commits(s, "update") /\ Seen(committed)[p] # NoRow =>
             Seen(committed')[p] = Merge(st[s].old, st[s].new, Seen(committed)[p])]_vars
  BY <1>1
<1> QED
  BY <1>2, KnowledgeInductive, PTL DEF Spec, EditsMerge

\* An F() update of a row it found is computed on the row as it is when the
\* update commits: between its copy and its UPDATE nobody can take the row away,
\* and the UPDATE waits for whoever is writing it.
THEOREM NoIncrementIsLost ==
  ASSUME ExtraWhereOr = {}, RowsLast
  PROVE  Spec => IncrementsLand
<1>1. ASSUME IInv, KInv, NEW s \in Session, Commits(s, "expression"),
             st[s].old # NoRow, Seen(committed)[st[s].pk] # NoRow
      PROVE  Seen(committed')[st[s].pk] = st[s].new[Seen(committed)[st[s].pk]]
  <2>1. Commit(s) /\ st[s].op = "expression" /\ st[s].op \in Copying
    BY <1>1 DEF Commits, Copying
  <2>2. Seen(committed')[st[s].pk] = Computed(st[s], Seen(committed)[st[s].pk])
    BY <1>1, <2>1, CopyingLands
  <2> QED
    BY <2>1, <2>2 DEF Computed
<1>2. IInv /\ KInv /\ [Next]_vars =>
        [\A s \in Session :
           LET p == st[s].pk IN
           /\ Commits(s, "expression")
           /\ st[s].old # NoRow /\ Seen(committed)[p] # NoRow
           => Seen(committed')[p] = st[s].new[Seen(committed)[p]]]_vars
  BY <1>1
<1> QED
  BY <1>2, KnowledgeInductive, PTL DEF Spec, IncrementsLand

\* Copying rows down changes nothing the tenant sees: what is copied is what the
\* vendor's table still offers, and a row another session put there is left.
THEOREM CopiesAreInvisible ==
  ASSUME ExtraWhereOr = {}, RowsLast
  PROVE  Spec => MaterializeIsInvisible
<1>1. ASSUME IInv, KInv, NEW s \in Session, Commits(s, "materialize")
      PROVE  Seen(committed') = Seen(committed)
  <2>1. Commit(s) /\ st[s].op = "materialize" /\ st[s].op \in Copying
    BY <1>1 DEF Commits, Copying
  <2>2. Seen(committed')[st[s].pk] = Seen(committed)[st[s].pk]
    BY <1>1, <2>1, CopyingLands DEF Computed
  <2>3. ASSUME NEW q \in PK PROVE Seen(committed')[q] = Seen(committed)[q]
    <3>1. CASE q = st[s].pk
      BY <2>2, <3>1
    <3>2. CASE q # st[s].pk
      <4>1. committed'[q] = committed[q]
        BY <1>1, <2>1, <3>2, CommitPublishes
      <4> QED
        BY <4>1, SeenIs
    <3> QED
      BY <3>1, <3>2
  <2>4. DOMAIN Seen(committed') = PK /\ DOMAIN Seen(committed) = PK
        /\ Seen(committed') = [q \in PK |-> Seen(committed')[q]]
        /\ Seen(committed) = [q \in PK |-> Seen(committed)[q]]
    BY DEF Seen
  <2> QED
    BY <2>3, <2>4
<1>2. IInv /\ KInv /\ [Next]_vars =>
        [\A s \in Session :
           Commits(s, "materialize") => Seen(committed') = Seen(committed)]_vars
  BY <1>1
<1> QED
  BY <1>2, KnowledgeInductive, PTL DEF Spec, MaterializeIsInvisible

\* "The row stays gone" (DELETION.md:3), whatever sessions do at once: only an
\* insert or a reset brings an id back that shows nothing.  Where rows are
\* deleted with a flag, the partition of a row must not tell its delete from
\* another's.
THEOREM DeletedStaysDeleted ==
  ASSUME ExtraWhereOr = {}, RowsLast,
         \A f \in Workload, p \in PK : SoftDelete /\ "delete" \in f[p] => PartitionKey = {}
  PROVE  Spec => StaysDeleted
<1>1. ASSUME IInv, KInv, [Next]_vars, NEW p \in PK,
             Seen(committed)[p] = NoRow, Seen(committed')[p] # NoRow
      PROVE  \E s \in Session : /\ Commits(s, "insert") \/ Commits(s, "reset")
                               /\ st[s].pk = p
  <2>1. committed'[p] # committed[p]
    <3> SUFFICES ASSUME committed'[p] = committed[p] PROVE FALSE
      OBVIOUS
    <3>1. Seen(committed')[p] = Seen(committed)[p]
      BY SeenIs
    <3> QED
      BY <1>1, <3>1
  <2>2. PICK s \in Session : Commit(s)
    BY <1>1, <2>1 DEF Next, Begin, BeginInsert, BeginUpdate, BeginDelete, BeginReset,
       BeginMaterialize, BeginExpression, Start, Step, Insert, FirstUpdate, SecondUpdate,
       MergeInto, CopyUp, Flag, Entomb, Remove, Scan, Copy, Apply, Write, Keep, Rollback,
       vars
  <2>3. /\ st[s] # Idle /\ st[s].at = "done" /\ lock[p] = s /\ st[s].pk = p
        /\ committed'[p] = base[p] /\ source' = source
    BY <1>1, <2>1, <2>2, CommitPublishes
  <2>4. /\ st[s].op \in Statement /\ st[s].op \in sends[p] /\ sends \in Workload
        /\ Knows(s) /\ Deleting(s) /\ Hides(s)
        /\ committed[p] \in BaseRow \cup {NoRow}
    BY <1>1, <2>3, UnderWay DEF IInv, TypeOK
  <2>5. CASE st[s].op \in Copying
    BY <1>1, <2>2, <2>3, <2>5, CopyingLands
  <2>6. CASE st[s].op = "delete"
    <3>1. base[p] = NoRow \/ (SoftDelete /\ base[p].deleted)
      BY <2>3, <2>4, <2>6 DEF Deleting
    <3>2. committed'[p] = NoRow /\ SourceRow(source, p) # NoRow
      BY <1>1, <2>3, <3>1, SeenIs
    <3>3. committed[p] # NoRow /\ SoftDelete /\ committed[p].deleted
      <4>1. committed[p] # NoRow
        BY <2>1, <3>2
      <4>2. committed[p].row # NoRow
        BY <2>4, <4>1, RowsAssumption DEF BaseRow
      <4> QED
        BY <1>1, <4>1, <4>2, SeenIs
    <3>4. SourceProbe(source, p, st[s].old)
      <4>1. PartitionKey = {}
        BY <2>4, <2>6, <3>3
      <4> QED
        BY <3>2, <4>1 DEF SourceProbe, SamePartition
    <3> QED
      BY <2>3, <2>4, <2>6, <3>2, <3>3, <3>4 DEF Hides
  <2> QED
    BY <2>2, <2>3, <2>4, <2>5, <2>6 DEF Commits, Statement, Copying
<1>2. IInv /\ KInv /\ [Next]_vars =>
        [\A p \in PK :
           Seen(committed)[p] = NoRow /\ Seen(committed')[p] # NoRow =>
             \E s \in Session : /\ Commits(s, "insert") \/ Commits(s, "reset")
                               /\ st[s].pk = p]_vars
  BY <1>1
<1> QED
  BY <1>2, KnowledgeInductive, PTL DEF Spec, StaysDeleted

-----------------------------------------------------------------------------
(* The sessions' commits are the operations of one ordinary table          *)

\* What the tenant has taken over, and what the vendor offers.
Owned == {p \in PK : committed[p] # NoRow}
Offered ==
  [p \in PK |-> IF SourceRow(source, p) \in ExtraWhere THEN SourceRow(source, p) ELSE NoRow]

Tenant == INSTANCE TenantTable
            WITH rows <- Seen(committed), vendor <- Offered, owned <- Owned

\* What a session holds when its insert, its reset or its delete is done.
Lands(s) ==
  LET t == st[s]
      p == t.pk
  IN  t # Idle /\ t.at = "done" /\ lock[p] = s =>
        /\ t.op = "insert" =>
             committed[p] = NoRow /\ t.new \in Row /\ base[p] = Live(t.new)
        /\ t.op = "reset" => base[p] = NoRow
        /\ t.op = "delete" => base[p] = NoRow \/ SourceRow(source, p) # NoRow

LInv == \A s \in Session : Lands(s)

\* An SQL statement writes its session's row or none, and goes on.
LEMMA StepWrites ==
  ASSUME IInv, NEW s \in Session, Step(s)
  PROVE  /\ st[s] # Idle
         /\ Keep \/ \E b : Wrote(s, st[s].pk, b)
         /\ \A u \in Session \ {s} : st'[u] = st[u]
<1>1. st[s] # Idle
  BY DEF Step, Insert, FirstUpdate, CopyUp, SecondUpdate, Flag, Entomb, Remove, Scan,
         Copy, Apply, Idle
<1>2. Keep \/ \E b : Wrote(s, st[s].pk, b)
  <2>1. CASE Insert(s) \/ CopyUp(s) \/ Copy(s)
    BY <2>1 DEF Insert, CopyUp, Copy, Wrote
  <2>2. CASE FirstUpdate(s) \/ SecondUpdate(s)
    BY <2>2 DEF FirstUpdate, SecondUpdate, MergeInto, Wrote
  <2>3. CASE Flag(s) \/ Entomb(s) \/ Remove(s)
    BY <2>3 DEF Flag, Entomb, Remove, Wrote
  <2>4. CASE Scan(s) \/ Apply(s)
    BY <2>4 DEF Scan, Apply, Wrote
  <2> QED
    BY <2>1, <2>2, <2>3, <2>4 DEF Step
<1>3. \A u \in Session \ {s} : st'[u] = st[u]
  <2>1. st \in [Session -> Transaction \cup {Idle}]
    BY DEF IInv, TypeOK
  <2>2. CASE Scan(s)
    BY <2>1, <2>2 DEF Scan, Go
  <2>3. CASE ~Scan(s)
    <3>1. \E step : Go(s, step)
      BY <2>3 DEF Step, Insert, FirstUpdate, CopyUp, SecondUpdate, MergeInto, Flag, Entomb,
         Remove, Copy, Apply
    <3> QED
      BY <2>1, <3>1 DEF Go
  <2> QED
    BY <2>2, <2>3
<1> QED
  BY <1>1, <1>2, <1>3

\* The row one session holds is out of another's reach.
LEMMA HeldByAnother ==
  ASSUME IInv, NEW s \in Session, Begin(s) \/ Step(s) \/ Commit(s) \/ Rollback(s),
         NEW u \in Session \ {s}
  PROVE  /\ st'[u] = st[u] /\ source' = source
         /\ \A p \in PK : lock'[p] = u =>
              lock[p] = u /\ base'[p] = base[p] /\ committed'[p] = committed[p]
<1>1. s # Nobody /\ u # Nobody /\ u # s
  BY SessionAssumption
<1>2. CASE Begin(s)
  BY <1>2 DEF Begin, BeginInsert, BeginReset, BeginMaterialize, BeginExpression,
     BeginUpdate, BeginDelete, Start, Keep, given, IInv, TypeOK
<1>3. CASE Step(s)
  <2>1. /\ st'[u] = st[u]
        /\ Keep \/ \E b : Wrote(s, st[s].pk, b)
    BY <1>3, StepWrites
  <2> QED
    BY <1>1, <2>1 DEF Keep, Wrote, Write, given, IInv, TypeOK
<1>4. CASE Commit(s) \/ Rollback(s)
  BY <1>1, <1>4 DEF Commit, Rollback, given, IInv, TypeOK
<1> QED
  BY <1>2, <1>3, <1>4

\* What a session's own statement leaves it with.
LEMMA StepLands ==
  ASSUME IInv, KInv, NEW s \in Session, Step(s)
  PROVE  Lands(s)'
<1> DEFINE p == st[s].pk
<1>1. st[s] # Idle /\ st[s] \in Transaction /\ p \in PK
  BY StepWrites DEF IInv, TypeOK, Transaction
<1>2. /\ st[s].at \in PointsOf[st[s].op] /\ Deleting(s)
      /\ st[s].at \notin {"reupdate", "apply", "done"} => lock[p] # s
  BY <1>1, UnderWay
<1>3. ASSUME NEW step \in ProgramPoint, Go(s, step)
      PROVE  /\ st'[s] # Idle /\ st'[s].at = step
             /\ st'[s].op = st[s].op /\ st'[s].pk = p /\ st'[s].new = st[s].new
  BY <1>1, <1>3, GoesOn DEF IInv, TypeOK, Transaction, Idle, ProgramPoint
<1>4. CASE Insert(s)
  <2>1. /\ st[s].at = "insert" /\ CanLock(s, p) /\ base[p] = NoRow
        /\ Write(s, p, Live(st[s].new)) /\ Go(s, "done")
    BY <1>4 DEF Insert
  <2>2. st[s].new \in Row /\ committed[p] = NoRow
    BY <1>1, <1>2, <2>1, FreeIsCommitted DEF IInv, Carries
  <2>3. st[s].op = "insert"
    BY <1>1, <2>1, UnderWay DEF PointsOf, Statement
  <2>4. base'[p] = Live(st[s].new) /\ committed' = committed
    BY <1>1, <2>1, WrittenIs
  <2>5. "done" \in ProgramPoint
    BY DEF ProgramPoint
  <2> QED
    BY <1>3, <2>1, <2>2, <2>3, <2>4, <2>5 DEF Lands, Live
<1>5. CASE Flag(s) \/ Entomb(s)
  <2>1. st[s].op = "delete" /\ SourceRow(source, p) # NoRow
    BY <1>1, <1>5, UnderWay DEF Flag, Entomb, PointsOf, Statement, Deleting
  <2>2. \E step \in ProgramPoint : Go(s, step)
    BY <1>5 DEF Flag, Entomb, ProgramPoint
  <2>3. source' = source
    BY <1>5 DEF Flag, Entomb, Write, Keep, given
  <2> QED
    BY <1>3, <2>1, <2>2, <2>3 DEF Lands, SourceRow
<1>6. CASE Remove(s)
  <2>1. st[s].at = "remove" /\ Go(s, "done") /\ "done" \in ProgramPoint
    BY <1>6 DEF Remove, ProgramPoint
  <2>2. st[s].op \in {"delete", "reset"} /\ lock[p] # s
    BY <1>1, <1>2, <2>1, UnderWay DEF PointsOf, Statement
  <2>3. base'[p] = NoRow \/ lock'[p] # s
    BY <1>1, <1>6, <2>2, WrittenIs DEF Remove, Keep
  <2> QED
    BY <1>3, <2>1, <2>2, <2>3 DEF Lands
<1>7. CASE ~(Insert(s) \/ Flag(s) \/ Entomb(s) \/ Remove(s))
  <2>1. st[s].op \in Copying
    BY <1>1, <1>7, UnderWay DEF Step, FirstUpdate, SecondUpdate, CopyUp, Scan, Copy, Apply,
       PointsOf, Statement, Copying
  <2>2. st'[s] # Idle => st'[s].op = st[s].op
    BY <1>1, <1>7 DEF Step, FirstUpdate, SecondUpdate, MergeInto, CopyUp, Scan, Copy, Apply,
       Go, IInv, TypeOK, Transaction
  <2> QED
    BY <2>1, <2>2 DEF Lands, Copying
<1> QED
  BY <1>4, <1>5, <1>6, <1>7

\* What a session is about to commit stays what it is.
LEMMA LandingInductive ==
  ASSUME ExtraWhereOr = {}, RowsLast
  PROVE  /\ Init => LInv
         /\ IInv /\ KInv /\ LInv /\ [Next]_vars => LInv'
<1>1. Init => LInv
  BY DEF Init, LInv, Lands
<1>2. ASSUME LInv, UNCHANGED vars PROVE LInv'
  BY <1>2 DEF LInv, Lands, vars, given, Live, SourceRow
<1>3. ASSUME IInv, KInv, LInv, NEW s \in Session,
             Begin(s) \/ Step(s) \/ Commit(s) \/ Rollback(s)
      PROVE  LInv'
  <2>1. ASSUME NEW u \in Session \ {s} PROVE Lands(u)'
    <3>1. /\ st'[u] = st[u] /\ source' = source
          /\ \A p \in PK : lock'[p] = u =>
               lock[p] = u /\ base'[p] = base[p] /\ committed'[p] = committed[p]
      BY <1>3, HeldByAnother
    <3>2. st[u] # Idle => st[u].pk \in PK
      BY <1>3 DEF IInv, TypeOK, Transaction
    <3>3. Lands(u)
      BY <1>3 DEF LInv
    <3> QED
      BY <3>1, <3>2, <3>3 DEF Lands, Live, SourceRow
  <2>2. Lands(s)'
    <3>1. CASE Begin(s)
      BY <1>3, <3>1 DEF Begin, BeginInsert, BeginReset, BeginMaterialize, BeginExpression,
         BeginUpdate, BeginDelete, Start, Lands, IInv, TypeOK
    <3>2. CASE Step(s)
      BY <1>3, <3>2, StepLands
    <3>3. CASE Commit(s) \/ Rollback(s)
      BY <1>3, <3>3 DEF Commit, Rollback, Lands, IInv, TypeOK
    <3> QED
      BY <1>3, <3>1, <3>2, <3>3
  <2> QED
    BY <2>1, <2>2 DEF LInv
<1> QED
  BY <1>1, <1>2, <1>3 DEF Next

\* A commit changes what the tenant sees and owns at its own id only.
LEMMA CommitTouches ==
  ASSUME IInv, KInv, NEW s \in Session, Commit(s)
  PROVE  /\ Offered' = Offered
         /\ Seen(committed)' =
              [Seen(committed) EXCEPT ![st[s].pk] = Seen(committed')[st[s].pk]]
         /\ Owned' = IF committed'[st[s].pk] # NoRow THEN Owned \cup {st[s].pk}
                     ELSE Owned \ {st[s].pk}
<1> DEFINE p == st[s].pk
<1>1. /\ st[s] # Idle /\ source' = source
      /\ \A q \in PK : q # p => committed'[q] = committed[q]
  BY CommitPublishes
<1>2. p \in PK
  BY <1>1, UnderWay
<1>3. Offered' = Offered
  BY <1>1 DEF Offered, SourceRow
<1>4. Seen(committed)' = Seen(committed')
  BY <1>1 DEF Seen, BaseShows, SourceShows, SourceRow, Shadowed, IsTombstone
<1>5. \A q \in PK \ {p} : Seen(committed')[q] = Seen(committed)[q]
  BY <1>1 DEF Seen, BaseShows, SourceShows, Shadowed, IsTombstone
<1>6. Seen(committed') = [Seen(committed) EXCEPT ![p] = Seen(committed')[p]]
  <2>1. /\ Seen(committed') = [q \in PK |-> Seen(committed')[q]]
        /\ Seen(committed) = [q \in PK |-> Seen(committed)[q]]
    BY DEF Seen
  <2> HIDE DEF p
  <2> QED
    BY <1>2, <1>5, <2>1
<1>7. Owned' = IF committed'[p] # NoRow THEN Owned \cup {p} ELSE Owned \ {p}
  BY <1>1, <1>2 DEF Owned
<1> QED
  BY <1>3, <1>4, <1>6, <1>7

\* The commit of a statement that copies a row down is an edit, a computation or
\* an adoption of the row the tenant sees, and nothing where there is none.
LEMMA CopyingIsTenants ==
  ASSUME ExtraWhereOr = {}, IInv, KInv, NEW s \in Session, Commit(s),
         st[s].op \in Copying, lock[st[s].pk] = s
  PROVE  Tenant!Next \/ UNCHANGED Tenant!tenantVars
<1> DEFINE p == st[s].pk
           r == Seen(committed)[p]
<1>1. /\ st[s] # Idle /\ st[s].at = "done" /\ p \in PK /\ Knows(s)
      /\ committed[p] \in BaseRow \cup {NoRow} /\ committed'[p] = base[p]
  BY CommitPublishes, UnderWay
<1>2. /\ Offered' = Offered
      /\ Seen(committed)' = [Seen(committed) EXCEPT ![p] = Seen(committed')[p]]
      /\ Owned' = IF committed'[p] # NoRow THEN Owned \cup {p} ELSE Owned \ {p}
  BY CommitTouches
<1>3. Seen(committed')[p] = IF r = NoRow THEN NoRow ELSE Computed(st[s], r)
  BY CopyingLands
<1>4. r \in Row \cup {NoRow}
  BY <1>1, SeenIs, RowsAssumption DEF BaseRow
<1>5. Computed(st[s], r) \in Row \/ r = NoRow
  BY <1>1, <1>4, ComputedRow
<1>6. committed'[p] # NoRow /\ (r = NoRow => committed[p] # NoRow)
  <2>1. CASE committed[p] = NoRow
    <3>1. Offers(p, st[s].old) /\ base[p] = Live(Computed(st[s], st[s].old))
      BY <1>1, <2>1 DEF Knows
    <3>2. st[s].old \in Row /\ st[s].old # NoRow
      BY <3>1, RowsAssumption DEF Offers
    <3>3. Computed(st[s], st[s].old) \in Row
      BY <1>1, <3>2, ComputedRow
    <3>4. r = st[s].old
      BY <1>1, <2>1, <3>1, SeenIs DEF Offers
    <3> QED
      BY <1>1, <3>1, <3>2, <3>3, <3>4, LiveRow
  <2>2. CASE committed[p] # NoRow
    <3>1. base[p] = [committed[p] EXCEPT !.row = Computed(st[s], @)]
      BY <1>1, <2>2 DEF Knows
    <3>2. Computed(st[s], committed[p].row) \in Row
      BY <1>1, <2>2, ComputedRow DEF BaseRow
    <3>3. base[p] \in BaseRow
      BY <1>1, <2>2, <3>1, <3>2 DEF BaseRow
    <3> QED
      BY <1>1, <2>2, <3>3, RowsAssumption
  <2> QED
    BY <2>1, <2>2
<1>7. Seen(committed) = [q \in PK |-> Seen(committed)[q]]
  BY DEF Seen
<1>8. Owned' = Owned \cup {p}
  BY <1>2, <1>6
<1>9. CASE r = NoRow
  <2>1. p \in Owned
    BY <1>1, <1>6, <1>9 DEF Owned
  <2>2. Seen(committed)' = Seen(committed)
    BY <1>2, <1>3, <1>7, <1>9
  <2> QED
    BY <1>2, <1>8, <2>1, <2>2 DEF Tenant!tenantVars
<1>10. CASE r # NoRow /\ st[s].op = "update"
  <2> DEFINE c == Computed(st[s], r)
  <2>1. c \in Row /\ Seen(committed)' = [Seen(committed) EXCEPT ![p] = c]
    BY <1>2, <1>3, <1>5, <1>10
  <2> HIDE DEF c
  <2>2. Tenant!Edit(p, c)
    BY <1>2, <1>8, <1>10, <2>1 DEF Tenant!Edit
  <2> QED
    BY <1>1, <2>1, <2>2 DEF Tenant!Next
<1>11. CASE r # NoRow /\ st[s].op = "expression"
  <2>1. st[s].new \in Expression
    BY <1>1, <1>11 DEF IInv, Carries
  <2>2. Seen(committed)' = [Seen(committed) EXCEPT ![p] = st[s].new[r]]
    BY <1>2, <1>3, <1>11 DEF Computed
  <2>3. {q \in {p} : Seen(committed)[q] # NoRow} = {p}
    BY <1>11
  <2>4. Seen(committed)' =
          [q \in PK |-> IF q \in {p} THEN st[s].new[Seen(committed)[q]]
                        ELSE Seen(committed)[q]]
    BY <1>7, <2>2
  <2>5. Tenant!Compute({p}, st[s].new)
    BY <1>2, <1>8, <2>3, <2>4 DEF Tenant!Compute
  <2> QED
    BY <1>1, <2>1, <2>5 DEF Tenant!Next
<1>12. CASE r # NoRow /\ st[s].op = "materialize"
  <2>1. Seen(committed)' = Seen(committed)
    BY <1>2, <1>3, <1>7, <1>12 DEF Computed
  <2>2. {q \in {p} : Seen(committed)[q] # NoRow} = {p}
    BY <1>12
  <2>3. Tenant!Adopt({p})
    BY <1>2, <1>8, <2>1, <2>2 DEF Tenant!Adopt
  <2> QED
    BY <1>1, <2>3 DEF Tenant!Next
<1> QED
  BY <1>9, <1>10, <1>11, <1>12 DEF Copying

\* The commit of an insert creates the row, that of a reset gives the id back,
\* and that of a delete removes the row or gives the id back.
LEMMA CommitIsTenants ==
  ASSUME ExtraWhereOr = {}, SoftDelete => ExtraWhere = Row,
         IInv, KInv, LInv, NEW s \in Session, Commit(s)
  PROVE  Tenant!Next \/ UNCHANGED Tenant!tenantVars
<1> DEFINE p == st[s].pk
<1>1. /\ st[s] # Idle /\ st[s].at = "done" /\ p \in PK /\ st[s].op \in Statement
      /\ Lands(s) /\ Deleting(s)
      /\ committed[p] \in BaseRow \cup {NoRow}
      /\ committed'[p] = IF lock[p] = s THEN base[p] ELSE committed[p]
  BY CommitPublishes, UnderWay DEF LInv
<1>2. /\ Offered' = Offered
      /\ Seen(committed)' = [Seen(committed) EXCEPT ![p] = Seen(committed')[p]]
      /\ Owned' = IF committed'[p] # NoRow THEN Owned \cup {p} ELSE Owned \ {p}
  BY CommitTouches
<1>3. Seen(committed) = [q \in PK |-> Seen(committed)[q]]
  BY DEF Seen
<1>4. ASSUME committed'[p] # NoRow <=> committed[p] # NoRow,
             Seen(committed')[p] = Seen(committed)[p]
      PROVE  UNCHANGED Tenant!tenantVars
  <2>1. Owned' = Owned
    BY <1>1, <1>2, <1>4 DEF Owned
  <2>2. Seen(committed)' = Seen(committed)
    BY <1>2, <1>3, <1>4
  <2> QED
    BY <1>2, <2>1, <2>2 DEF Tenant!tenantVars
<1>5. ASSUME committed'[p] = NoRow PROVE Tenant!Next
  <2>1. Seen(committed')[p] = Offered[p]
    BY <1>1, <1>5, SeenIs DEF Offered
  <2>2. Tenant!Reset(p)
    BY <1>2, <1>5, <2>1 DEF Tenant!Reset
  <2> QED
    BY <1>1, <2>2 DEF Tenant!Next
<1>6. CASE lock[p] # s
  <2>1. committed'[p] = committed[p]
    BY <1>1, <1>6
  <2>2. Seen(committed')[p] = Seen(committed)[p]
    BY <1>1, <2>1, SeenIs
  <2> QED
    BY <1>4, <2>1, <2>2
<1>7. CASE lock[p] = s /\ st[s].op = "insert"
  <2> DEFINE r == st[s].new
  <2>1. committed[p] = NoRow /\ r \in Row /\ committed'[p] = Live(r)
    BY <1>1, <1>7 DEF Lands
  <2> HIDE DEF r
  <2>2. committed'[p] # NoRow /\ committed'[p].row = r /\ ~committed'[p].deleted
    BY <2>1, LiveRow
  <2>3. Seen(committed')[p] = r
    BY <1>1, <2>2, SeenIs
  <2>4. p \notin Owned
    BY <2>1 DEF Owned
  <2>5. Tenant!Create(p, r)
    BY <1>2, <2>2, <2>3, <2>4 DEF Tenant!Create
  <2> QED
    BY <1>1, <2>1, <2>5 DEF Tenant!Next
<1>8. CASE lock[p] = s /\ st[s].op = "reset"
  BY <1>1, <1>5, <1>8 DEF Lands
<1>9. CASE lock[p] = s /\ st[s].op = "delete"
  <2>1. CASE committed'[p] = NoRow
    BY <1>5, <2>1
  <2>2. CASE committed'[p] # NoRow
    <3>1. /\ SoftDelete /\ committed'[p].deleted
          /\ SourceRow(source, p) # NoRow
      BY <1>1, <1>9, <2>2 DEF Deleting, Lands
    <3>2. Seen(committed')[p] = NoRow
      BY <1>1, <2>2, <3>1, SeenIs
    <3>3. CASE Seen(committed)[p] # NoRow
      <4>1. Tenant!Remove(p)
        BY <1>2, <2>2, <3>1, <3>2, <3>3 DEF Tenant!Remove
      <4> QED
        BY <1>1, <4>1 DEF Tenant!Next
    <3>4. CASE Seen(committed)[p] = NoRow
      <4>1. SourceRow(source, p) \in ExtraWhere
        BY <3>1 DEF SourceRow, IInv, TypeOK
      <4>2. committed[p] # NoRow
        BY <1>1, <3>1, <3>4, <4>1, SeenIs
      <4> QED
        BY <1>4, <2>2, <3>2, <3>4, <4>2
    <3> QED
      BY <3>3, <3>4
  <2> QED
    BY <2>1, <2>2
<1>10. CASE lock[p] = s /\ st[s].op \in Copying
  BY <1>10, CopyingIsTenants
<1> QED
  BY <1>1, <1>6, <1>7, <1>8, <1>9, <1>10 DEF Statement, Copying

\* Several sessions at once are one ordinary table to the tenant: every commit is
\* one operation of TenantTable on the row its statement is about, done at that
\* moment, and no other step changes what is seen or owned: the SQL statements a
\* trigger is made of, and what other sessions do between them, leave no trace.
\* With soft delete the vendor's rows must satisfy extra_where, or the delete of an
\* override that is reset meanwhile entombs an id that shows nothing
\* (instead_of_delete_soft.sql.j2:27-36).
THEOREM SessionsImplementTenantTable ==
  ASSUME ExtraWhereOr = {}, RowsLast, SoftDelete => ExtraWhere = Row
  PROVE  Spec => Tenant!Spec
<1>1. ASSUME Init PROVE Tenant!Init
  <2>1. \A p \in PK : committed[p] = NoRow
    BY <1>1 DEF Init
  <2>2. Offered \in [PK -> Row \cup {NoRow}]
    BY RowsAssumption DEF Offered
  <2>3. Seen(committed) = Offered
    <3>1. \A p \in PK : Seen(committed)[p] = Offered[p]
      BY <2>1, SeenIs DEF Offered
    <3> QED
      BY <3>1 DEF Seen, Offered
  <2>4. Owned = {}
    BY <2>1 DEF Owned
  <2> QED
    BY <2>2, <2>3, <2>4 DEF Tenant!Init
<1>2. ASSUME committed' = committed, source' = source
      PROVE  UNCHANGED Tenant!tenantVars
  BY <1>2 DEF Tenant!tenantVars, Seen, Offered, Owned, BaseShows, SourceShows, SourceRow,
     Shadowed, IsTombstone
<1>3. ASSUME IInv, KInv, LInv, [Next]_vars
      PROVE  [Tenant!Next]_(Tenant!tenantVars)
  <2>1. CASE \E s \in Session : Commit(s)
    BY <1>3, <2>1, CommitIsTenants
  <2>2. CASE ~\E s \in Session : Commit(s)
    <3>1. committed' = committed /\ source' = source
      BY <1>3, <2>2 DEF Next, Begin, BeginInsert, BeginUpdate, BeginDelete, BeginReset,
         BeginMaterialize, BeginExpression, Start, Step, Insert, FirstUpdate, SecondUpdate,
         MergeInto, CopyUp, Flag, Entomb, Remove, Scan, Copy, Apply, Write, Keep, Rollback,
         given, vars
    <3> QED
      BY <1>2, <3>1
  <2> QED
    BY <2>1, <2>2
<1> QED
  BY <1>1, <1>3, KnowledgeInductive, LandingInductive, PTL DEF Spec, Tenant!Spec
=============================================================================
