--------------------------- MODULE OverlaySessions ---------------------------
(***************************************************************************)
(* The same overlay model written by several database sessions at once,    *)
(* under READ COMMITTED, Django's and PostgreSQL's default.  A statement   *)
(* on the view runs a trigger of several SQL statements, each of which     *)
(* takes a new snapshot, and every SQL statement is an action here.        *)
(*                                                                         *)
(* The row locks are PostgreSQL's, modelled from how the triggers rely on  *)
(* them: a writer holds the rows it wrote until it commits; UPDATE and     *)
(* DELETE do not see another session's uncommitted insert, but wait for    *)
(* the writer of a row they do see and then look at what it left; INSERT   *)
(* waits for any writer of its id before it decides whether it conflicts.  *)
(***************************************************************************)
EXTENDS OverlayRows

CONSTANTS
  Session,
  Nobody,      \* holds the lock of a row nobody is writing
  Expression,  \* what an F() update can compute
  Workload     \* what an application sends: functions from ids to statements

Statement == {"insert", "update", "delete", "reset", "materialize", "expression"}

ASSUME SessionAssumption ==
  /\ Nobody \notin Session
  /\ Expression \subseteq [Row -> Row]
  /\ Workload \subseteq [PK -> SUBSET Statement]

VARIABLES
  committed,  \* the base table as of the last commit
  base,       \* the base table with every session's uncommitted writes
  lock,       \* lock[p]: the session with an uncommitted write of row p
  source,     \* the vendor's table
  sends,      \* sends[p]: the statements the application sends for id p
  st          \* st[s]: where session s is in its transaction

given == <<source, sends>>
vars  == <<committed, base, lock, given, st>>

\* A session's transaction: the statement, the SQL statement of its trigger that
\* runs next, the row of the view it started from, and what it asks for.
Idle == [at |-> "idle"]

Init ==
  /\ committed = [p \in PK |-> NoRow]
  /\ base = committed
  /\ lock = [p \in PK |-> Nobody]
  /\ source \in [VendorId -> Row \cup {NoRow}]
  /\ sends \in Workload
  /\ st = [s \in Session |-> Idle]

\* What a new snapshot of session s holds.
Snapshot(s) == [p \in PK |-> IF lock[p] = s THEN base[p] ELSE committed[p]]

\* An UPDATE or DELETE by id: not found without waiting, else once it can lock.
Finds(s, p)   == Snapshot(s)[p] # NoRow
CanLock(s, p) == lock[p] \in {s, Nobody}

Write(s, p, t) ==
  /\ base' = [base EXCEPT ![p] = t]
  /\ lock' = [lock EXCEPT ![p] = s]
  /\ UNCHANGED <<committed, given>>

Keep == UNCHANGED <<committed, base, lock, given>>

Go(s, step) == st' = [st EXCEPT ![s].at = step]

Live(r) == [row |-> r, deleted |-> FALSE]

Merge(old, new, current) ==
  [c \in Column |-> IF new[c] # old[c] THEN new[c] ELSE current[c]]

-----------------------------------------------------------------------------
(* A statement arrives.  UPDATE and DELETE start from a row the view shows.*)

Start(s, p, op, old, new, step) ==
  /\ st[s] = Idle
  /\ op \in sends[p]
  /\ st' = [st EXCEPT ![s] = [at |-> step, op |-> op, pk |-> p,
                              old |-> old, new |-> new]]
  /\ Keep

BeginInsert(s, p, r) == Start(s, p, "insert", NoRow, r, "insert")

BeginUpdate(s, x, r) == Start(s, x.pk, "update", x.row, r, "update")

BeginDelete(s, x) ==
  Start(s, x.pk, "delete", x.row, NoRow,
        IF SoftDelete /\ SourceProbe(source, x.pk, x.row)
        THEN "flag" ELSE "remove")

BeginReset(s, p) == Start(s, p, "reset", NoRow, NoRow, "remove")

BeginMaterialize(s, p) == Start(s, p, "materialize", NoRow, NoRow, "scan")

BeginExpression(s, p, f) == Start(s, p, "expression", NoRow, f, "scan")

-----------------------------------------------------------------------------
(* The SQL statements of the triggers and of the queryset methods          *)

\* Plain INSERT: an id already there raises, and the transaction rolls back.
Insert(s) ==
  LET p == st[s].pk IN
  /\ st[s].at = "insert"
  /\ CanLock(s, p) /\ base[p] = NoRow
  /\ Overridable \/ ~SourceProbe(source, p, st[s].new)
  /\ Write(s, p, Live(st[s].new))
  /\ Go(s, "done")

MutantMergeInto(s, found, missing) ==   \* SET with the caller's whole row
  LET p == st[s].pk IN
  \/ /\ Finds(s, p) /\ CanLock(s, p)
     /\ Write(s, p, [base[p] EXCEPT !.row = st[s].new])
     /\ Go(s, found)
  \/ ~Finds(s, p) /\ Keep /\ Go(s, missing)

\* UPDATE base SET (only the columns this statement changed) WHERE pk.
MergeInto(s, found, missing) ==
  LET p == st[s].pk IN
  \/ /\ Finds(s, p) /\ CanLock(s, p)
     /\ Write(s, p, [base[p] EXCEPT !.row = Merge(st[s].old, st[s].new, @)])
     /\ Go(s, found)
  \/ ~Finds(s, p) /\ Keep /\ Go(s, missing)

FirstUpdate(s)  == st[s].at = "update" /\ MergeInto(s, "done", "copyup")
SecondUpdate(s) == st[s].at = "reupdate" /\ MergeInto(s, "done", "done")

MutantCopyUp(s) ==   \* ON CONFLICT DO UPDATE with the whole row
  /\ st[s].at = "copyup"
  /\ Overridable
  /\ CanLock(s, st[s].pk)
  /\ Write(s, st[s].pk, Live(st[s].old))
  /\ Go(s, "reupdate")

\* INSERT of the row the view showed, ON CONFLICT DO NOTHING.
CopyUp(s) ==
  LET p == st[s].pk IN
  /\ st[s].at = "copyup"
  /\ Overridable     \* raises otherwise, and the transaction rolls back
  /\ CanLock(s, p)
  /\ IF base[p] = NoRow THEN Write(s, p, Live(st[s].old)) ELSE Keep
  /\ Go(s, "reupdate")

\* UPDATE base SET _overlay_deleted WHERE pk.
Flag(s) ==
  LET p == st[s].pk IN
  /\ st[s].at = "flag"
  /\ \/ /\ Finds(s, p) /\ CanLock(s, p)
        /\ Write(s, p, [base[p] EXCEPT !.deleted = TRUE])
        /\ Go(s, "done")
     \/ ~Finds(s, p) /\ Keep /\ Go(s, "entomb")

MutantEntomb(s) ==   \* ON CONFLICT DO NOTHING
  LET p == st[s].pk IN
  /\ st[s].at = "entomb"
  /\ CanLock(s, p)
  /\ IF base[p] = NoRow
     THEN Write(s, p, [row |-> st[s].old, deleted |-> TRUE]) ELSE Keep
  /\ Go(s, "done")

\* INSERT of the tombstone, ON CONFLICT DO UPDATE SET _overlay_deleted.
Entomb(s) ==
  LET p == st[s].pk IN
  /\ st[s].at = "entomb"
  /\ CanLock(s, p)
  /\ Write(s, p, [row |-> IF base[p] = NoRow THEN st[s].old ELSE base[p].row,
                  deleted |-> TRUE])
  /\ Go(s, "done")

\* DELETE FROM base WHERE pk.
Remove(s) ==
  LET p == st[s].pk IN
  /\ st[s].at = "remove"
  /\ \/ Finds(s, p) /\ CanLock(s, p) /\ Write(s, p, NoRow)
     \/ ~Finds(s, p) /\ Keep
  /\ Go(s, "done")

\* INSERT ... SELECT from the view: what the SELECT reads,
Scan(s) ==
  LET p == st[s].pk
      shown == {x \in View(Snapshot(s), source) : x.pk = p}
  IN  /\ st[s].at = "scan"
      /\ Keep
      /\ \/ \E x \in shown :
              st' = [st EXCEPT ![s].at = "copy", ![s].old = x.row]
         \/ shown = {} /\ Go(s, "apply")

MutantCopy(s) ==   \* ON CONFLICT DO UPDATE
  /\ st[s].at = "copy"
  /\ CanLock(s, st[s].pk)
  /\ Write(s, st[s].pk, Live(st[s].old))
  /\ Go(s, "apply")

\* and what the INSERT does with it, ON CONFLICT DO NOTHING.
Copy(s) ==
  LET p == st[s].pk IN
  /\ st[s].at = "copy"
  /\ CanLock(s, p)
  /\ IF base[p] = NoRow THEN Write(s, p, Live(st[s].old)) ELSE Keep
  /\ Go(s, "apply")

MutantApply(s) ==   \* the expression folded into a value when it was read
  LET p == st[s].pk IN
  /\ st[s].at = "apply"
  /\ \/ /\ st[s].op = "expression" /\ st[s].old # NoRow
        /\ Finds(s, p) /\ Visible(Snapshot(s), source, p) /\ CanLock(s, p)
        /\ Write(s, p, [base[p] EXCEPT !.row = st[s].new[st[s].old]])
     \/ ~Finds(s, p) /\ Keep
  /\ Go(s, "done")

\* UPDATE base SET column = expression WHERE pk IN (SELECT pk FROM view).
Apply(s) ==
  LET p == st[s].pk IN
  /\ st[s].at = "apply"
  /\ \/ /\ st[s].op = "expression"
        /\ Finds(s, p) /\ Visible(Snapshot(s), source, p) /\ CanLock(s, p)
        /\ Write(s, p, [base[p] EXCEPT !.row = st[s].new[@]])
     \/ /\ \/ st[s].op = "materialize"
           \/ ~(Finds(s, p) /\ Visible(Snapshot(s), source, p))
        /\ Keep
  /\ Go(s, "done")

-----------------------------------------------------------------------------
(* The end of a transaction                                                *)

Commit(s) ==
  /\ st[s].at = "done"
  /\ committed' = [p \in PK |-> IF lock[p] = s THEN base[p] ELSE committed[p]]
  /\ lock' = [p \in PK |-> IF lock[p] = s THEN Nobody ELSE lock[p]]
  /\ st' = [st EXCEPT ![s] = Idle]
  /\ UNCHANGED <<base, given>>

MutantRollback(s) ==   \* lets go of the rows without undoing the writes
  /\ st[s] # Idle
  /\ lock' = [p \in PK |-> IF lock[p] = s THEN Nobody ELSE lock[p]]
  /\ st' = [st EXCEPT ![s] = Idle]
  /\ UNCHANGED <<committed, base, given>>

\* An error, a deadlock victim, a dropped connection.
Rollback(s) ==
  /\ st[s] # Idle
  /\ base' = [p \in PK |-> IF lock[p] = s THEN committed[p] ELSE base[p]]
  /\ lock' = [p \in PK |-> IF lock[p] = s THEN Nobody ELSE lock[p]]
  /\ st' = [st EXCEPT ![s] = Idle]
  /\ UNCHANGED <<committed, given>>

Begin(s) ==
  \/ \E p \in PK :
       \/ \E r \in Row : BeginInsert(s, p, r)
       \/ BeginReset(s, p)
       \/ BeginMaterialize(s, p)
       \/ \E f \in Expression : BeginExpression(s, p, f)
  \/ \E x \in View(committed, source) :
       \/ \E r \in Row : BeginUpdate(s, x, r)
       \/ BeginDelete(s, x)

Step(s) ==
  \/ Insert(s)
  \/ FirstUpdate(s) \/ CopyUp(s) \/ SecondUpdate(s)
  \/ Flag(s) \/ Entomb(s) \/ Remove(s)
  \/ Scan(s) \/ Copy(s) \/ Apply(s)

Next == \E s \in Session : Begin(s) \/ Step(s) \/ Commit(s) \/ Rollback(s)

Spec == Init /\ [][Next]_vars

-----------------------------------------------------------------------------
(* Properties.  Each says of a commit what it does to the rows the tenant  *)
(* sees: what the same statement would do run alone, after everything that *)
(* committed before it.                                                    *)

ProgramPoint ==
  {"insert", "update", "copyup", "reupdate", "flag", "entomb", "remove",
   "scan", "copy", "apply", "done"}
Transaction ==
  [at : ProgramPoint, op : Statement, pk : PK, old : Row \cup {NoRow},
   new : Row \cup {NoRow} \cup Expression]

\* Rows differ from what is committed only while somebody holds them.
TypeOK ==
  /\ committed \in [PK -> BaseRow \cup {NoRow}]
  /\ base \in [PK -> BaseRow \cup {NoRow}]
  /\ lock \in [PK -> Session \cup {Nobody}]
  /\ source \in [VendorId -> Row \cup {NoRow}] /\ sends \in Workload
  /\ st \in [Session -> Transaction \cup {Idle}]
  /\ \A p \in PK : /\ lock[p] = Nobody => base[p] = committed[p]
                   /\ lock[p] \in Session => st[lock[p]] # Idle

Seen(b) ==
  [p \in PK |-> IF BaseShows(b, p) THEN b[p].row
                ELSE IF SourceShows(b, source, p) THEN SourceRow(source, p)
                ELSE NoRow]

Commits(s, op) == st[s].at = "done" /\ st[s].op = op /\ Commit(s)

\* "Two writers, different columns: both survive" (COMPATIBILITY.md:88): an
\* update changes the columns it was asked to change, of the row as it is when
\* the update commits, and nothing another session wrote meanwhile
\* (instead_of_update.sql.j2:9-12, 41-45).
EditsMerge ==
  [][\A s \in Session :
       LET p == st[s].pk IN
       Commits(s, "update") /\ Seen(committed)[p] # NoRow =>
         Seen(committed')[p] = Merge(st[s].old, st[s].new, Seen(committed)[p])]_vars

\* An F() update of a row it found is computed on the row as it is when the
\* update commits, so that no increment is lost (queryset.py:681-695).
IncrementsLand ==
  [][\A s \in Session :
       LET p == st[s].pk IN
       /\ Commits(s, "expression")
       /\ st[s].old # NoRow /\ Seen(committed)[p] # NoRow
       => Seen(committed')[p] = st[s].new[Seen(committed)[p]]]_vars

\* Copying rows down changes nothing the tenant sees, another session's edit of
\* the row included (queryset.py:739-749).
MaterializeIsInvisible ==
  [][\A s \in Session :
       Commits(s, "materialize") => Seen(committed') = Seen(committed)]_vars

\* Deleting a vendor's row hides it, whatever was committed in between
\* (instead_of_delete_soft.sql.j2:27-36).
DeletesLand ==
  [][\A s \in Session :
       LET p == st[s].pk IN
       Commits(s, "delete") /\ SoftDelete /\ SourceProbe(source, p, st[s].old)
         => Seen(committed')[p] = NoRow]_vars

\* "The row stays gone" (DELETION.md:3): an id that shows nothing shows
\* something again only when somebody inserts it or resets it.
StaysDeleted ==
  [][\A p \in PK :
       Seen(committed)[p] = NoRow /\ Seen(committed')[p] # NoRow =>
         \E s \in Session : /\ Commits(s, "insert") \/ Commits(s, "reset")
                           /\ st[s].pk = p]_vars
=============================================================================
