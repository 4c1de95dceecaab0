------------------------------ MODULE SourceSwap ------------------------------
(***************************************************************************)
(* Cutting one overlay model over from one source table to another while   *)
(* tenants write.  What get_source() says (configured) and what the view   *)
(* and every trigger were built from (deployed) are separate: the operator *)
(* changes the first, swap_source() the second, in one transaction, after  *)
(* checking twice.  A tenant's transaction is one statement, one row; the  *)
(* source tables themselves do not change meanwhile.                       *)
(***************************************************************************)
EXTENDS SourceChecks

CONSTANTS
  Source, NoSource,  \* the tables get_source() can name
  Landscape,         \* what the source tables can be
  Edit,              \* the rows a tenant writes
  Command,           \* the ways swap_source() is called
  Session, NoWrite,
  SelfReference,     \* the references are in the base table's own rows
  MaxWrites          \* bound: statements the tenants send

ASSUME SwapAssumption ==
  /\ NoSource \notin Source /\ NoPk \notin PK
  /\ Landscape \subseteq [Source -> Table]
  /\ Edit \subseteq Row /\ MaxWrites \in Nat /\ SelfReference \in BOOLEAN
  /\ Command \subseteq [allow : SUBSET STRING, identity : SUBSET STRING,
                        dry : BOOLEAN, current : Source \cup {NoSource}]

VARIABLES
  base, refs,          \* committed: the base table, the references to the model
  pending,             \* pending[s]: what session s wrote and did not commit
  writes,              \* counts statements
  tables,              \* the source tables
  configured, deployed,
  orderedAlike,        \* the view has its columns in the model's order
  op                   \* the swap_source() that is running, or last ran

tenant == <<base, refs, pending, writes>>
vars   == <<tenant, tables, configured, deployed, orderedAlike, op>>

RowWrites == [kind : {"row"}, pk : PK, row : BaseRow \cup {NoRow}]
RefWrites == [kind : {"reference"}, child : Child, to : Ref, checked : BOOLEAN]

Operation == [at : {"ended", "preflight", "lock", "recheck", "replace"},
              outcome : {"none", "S017", "S018", "dry run", "refused", "swapped", "failed"},
              current : Source \cup {NoSource}, candidate : Source \cup {NoSource},
              allow : SUBSET STRING, identity : SUBSET STRING, dry : BOOLEAN]

Idle == [at |-> "ended", outcome |-> "none", current |-> NoSource,
         candidate |-> NoSource, allow |-> {}, identity |-> {}, dry |-> FALSE]

Init ==
  /\ base = [p \in PK |-> NoRow]
  /\ refs = [c \in Child |-> NoPk]
  /\ pending = [s \in Session |-> NoWrite]
  /\ writes = 0
  /\ tables \in Landscape
  /\ configured \in Source
  /\ deployed \in {configured, NoSource}
  /\ orderedAlike \in BOOLEAN
  /\ op = Idle

\* Holding EXCLUSIVE on the base table, from the lock to the end of the swap.
Locked == op.at \in {"recheck", "replace"}

Writing(kinds) ==
  {s \in Session : pending[s] # NoWrite /\ pending[s].kind \in kinds}

-----------------------------------------------------------------------------
(* Tenants, against what is deployed                                       *)

Others(s) == {pending[t] : t \in {u \in Session \ {s} : pending[u] # NoWrite}}

Send(s, w) ==
  /\ pending[s] = NoWrite /\ writes < MaxWrites
  /\ deployed # NoSource
  /\ pending' = [pending EXCEPT ![s] = w]
  /\ writes' = writes + 1
  /\ UNCHANGED <<base, refs, tables, configured, deployed, orderedAlike, op>>

MutantWriteRow(s, p, b) ==   \* writers do not wait for the swap
  /\ \A w \in Others(s) : w.kind = "row" => w.pk # p
  /\ Send(s, [kind |-> "row", pk |-> p, row |-> b])

\* ROW EXCLUSIVE on the base table, and nobody else's row.
WriteRow(s, p, b) ==
  /\ ~Locked
  /\ \A w \in Others(s) : w.kind = "row" => w.pk # p
  /\ Send(s, [kind |-> "row", pk |-> p, row |-> b])

\* The values that row p as r collides with, or would have to wait for.
UniqueRefuses(p, r) ==
  \/ \E q \in PK \ {p} : Indexed(base[q]) /\ Same(r, base[q].row)
  \/ \E v \in VendorId \ {SourcePk(p)} : Reserves(base, tables[deployed].rows, v, r)
  \/ \E s \in Session : /\ pending[s] # NoWrite /\ pending[s].kind = "row"
                        /\ Indexed(pending[s].row) /\ Same(r, pending[s].row.row)

\* A row of the tenant's own, or an override.
Save(s, p, r) ==
  /\ deployed # NoSource /\ ~UniqueRefuses(p, r)
  /\ base[p] # NoRow => ~base[p].deleted
  /\ WriteRow(s, p, Live(r))

Tombstone(s, p) ==
  /\ SoftDelete /\ deployed # NoSource
  /\ SourceRow(tables[deployed].rows, p) # NoRow
  /\ WriteRow(s, p, [row |-> IF base[p] = NoRow
                             THEN SourceRow(tables[deployed].rows, p)
                             ELSE base[p].row, deleted |-> TRUE])

ResetToSource(s, p) == base[p] # NoRow /\ WriteRow(s, p, NoRow)

\* The referencing table's write; deferred, its trigger waits for COMMIT.
Refer(s, c, p) ==
  /\ SelfReference => ~Locked
  /\ \A w \in Others(s) : w.kind = "reference" => w.child # c
  /\ Send(s, [kind |-> "reference", child |-> c, to |-> p, checked |-> FALSE])

CheckReference(s) ==
  /\ s \in Writing({"reference"}) /\ ~pending[s].checked
  /\ pending[s].to # NoPk => TargetExists(base, tables[deployed].rows, pending[s].to)
  /\ pending' = [pending EXCEPT ![s].checked = TRUE]
  /\ UNCHANGED <<base, refs, writes, tables, configured, deployed, orderedAlike, op>>

\* The delete side fires for an UPDATE or a DELETE of the target's row.
RemovalRefused(p, b) ==
  /\ base[p] # NoRow
  /\ \E c \in Child : refs[c] = p
  /\ ~Visible([base EXCEPT ![p] = b], tables[deployed].rows, p)

Commit(s) ==
  /\ \/ /\ s \in Writing({"row"})
        /\ ~RemovalRefused(pending[s].pk, pending[s].row)
        /\ base' = [base EXCEPT ![pending[s].pk] = pending[s].row]
        /\ UNCHANGED refs
     \/ /\ s \in Writing({"reference"}) /\ pending[s].checked
        /\ refs' = [refs EXCEPT ![pending[s].child] = pending[s].to]
        /\ UNCHANGED base
  /\ pending' = [pending EXCEPT ![s] = NoWrite]
  /\ UNCHANGED <<writes, tables, configured, deployed, orderedAlike, op>>

Rollback(s) ==
  /\ pending[s] # NoWrite
  /\ pending' = [pending EXCEPT ![s] = NoWrite]
  /\ UNCHANGED <<base, refs, writes, tables, configured, deployed, orderedAlike, op>>

Tenant(s) ==
  \/ \E p \in PK : (\E r \in Edit : Save(s, p, r)) \/ Tombstone(s, p) \/ ResetToSource(s, p)
  \/ \E c \in Child, p \in Ref : Refer(s, c, p)
  \/ CheckReference(s) \/ Commit(s) \/ Rollback(s)

-----------------------------------------------------------------------------
(* The operator                                                            *)

Goes(step)     == op' = [op EXCEPT !.at = step]
Ends(outcome)  == op' = [Idle EXCEPT !.outcome = outcome]
Elsewhere      == UNCHANGED <<tenant, tables, configured, orderedAlike>>

\* A deploy of the code, with another get_source().
Configure(src) ==
  /\ configured' = src
  /\ UNCHANGED <<tenant, tables, deployed, orderedAlike, op>>

\* The view's query makes sense of the table.
Selectable(table) ==
  /\ table.exists
  /\ \A c \in Column : table.type[c] # Missing
  /\ ExtraWhere # Row => table.resolves

\* resync_view(): locks the base and the referencing tables for its triggers.
\* It keeps the view's order, or drops and builds it where the types change.
Resync ==
  /\ ~Locked /\ \A s \in Session : pending[s] = NoWrite
  /\ Selectable(tables[configured])
  /\ deployed' = configured
  /\ orderedAlike' = (orderedAlike \/ deployed = NoSource)
  /\ UNCHANGED <<tenant, tables, configured, op>>

\* The candidate is what is configured, the current table is read out of the
\* view unless the caller names it.
Start(command) ==
  LET current == IF command.current # NoSource THEN command.current ELSE deployed IN
  /\ op.at = "ended"
  /\ IF current = NoSource THEN Ends("S017")
     ELSE IF current = configured THEN Ends("S018")
     ELSE op' = [at |-> "preflight", outcome |-> "none", current |-> current,
                 candidate |-> configured, allow |-> command.allow,
                 identity |-> command.identity, dry |-> command.dry]
  /\ Elsewhere /\ UNCHANGED deployed

Check ==
  LET report == Allow(Preflight(base, refs, op.identity, tables[op.current],
                                tables[op.candidate]), op.allow)
  IN  /\ op.at = "preflight"
      /\ IF op.dry THEN Ends("dry run")
         ELSE IF Ok(report) THEN Goes("lock") ELSE Ends("refused")
      /\ Elsewhere /\ UNCHANGED deployed

\* Waits for every transaction that has written to the base table.
Lock ==
  /\ op.at = "lock"
  /\ Writing({"row"} \cup IF SelfReference THEN {"reference"} ELSE {}) = {}
  /\ Goes("recheck")
  /\ Elsewhere /\ UNCHANGED deployed

MutantCheckAgain ==   \* trusts the preflight
  /\ op.at = "recheck"
  /\ Goes("replace")
  /\ Elsewhere /\ UNCHANGED deployed

CheckAgain ==
  LET report == Allow(Recheck(base, refs, op.identity, tables[op.current],
                              tables[op.candidate]), op.allow)
  IN  /\ op.at = "recheck"
      /\ IF Ok(report) THEN Goes("replace") ELSE Ends("refused")
      /\ Elsewhere /\ UNCHANGED deployed

\* CREATE OR REPLACE VIEW keeps the columns' order and types.
Replaceable ==
  /\ Selectable(tables[op.candidate])
  /\ deployed # NoSource =>
       orderedAlike /\ tables[op.candidate].type = tables[deployed].type

\* Replacing a foreign key's trigger waits for writers of the referencing table.
Replace ==
  /\ op.at = "replace"
  /\ \/ /\ Replaceable /\ Writing({"reference"}) = {}
        /\ deployed' = op.candidate
        /\ Ends("swapped")
     \/ ~Replaceable /\ Ends("failed") /\ UNCHANGED deployed
  /\ Elsewhere

MutantTimeOut ==   \* set after the lock was waited for
  /\ op.at = "replace"
  /\ Ends("failed")
  /\ Elsewhere /\ UNCHANGED deployed

\* lock_timeout, at either wait.
TimeOut ==
  /\ op.at \in {"lock", "replace"}
  /\ Ends("failed")
  /\ Elsewhere /\ UNCHANGED deployed

Swap == Check \/ Lock \/ CheckAgain \/ Replace \/ TimeOut

Operator ==
  \/ \E src \in Source : Configure(src)
  \/ Resync
  \/ \E command \in Command : Start(command)
  \/ Swap

Next == Operator \/ \E s \in Session : Tenant(s)

\* A command that was started runs: no step of it waits longer than lock_timeout.
Spec == Init /\ [][Next]_vars /\ WF_vars(Swap)

-----------------------------------------------------------------------------
(* Properties                                                              *)

TypeOK ==
  /\ base \in [PK -> BaseRow \cup {NoRow}] /\ refs \in [Child -> Ref]
  /\ pending \in [Session -> RowWrites \cup RefWrites \cup {NoWrite}]
  /\ writes \in 0..MaxWrites
  /\ tables \in Landscape
  /\ configured \in Source /\ deployed \in Source \cup {NoSource}
  /\ orderedAlike \in BOOLEAN
  /\ op \in Operation
  /\ op.at # "ended" => op.current \in Source /\ op.candidate \in Source
  /\ Locked => Writing({"row"}) = {}

Swapped == op.at = "replace" /\ op' # op /\ op'.outcome = "swapped"
Allowed(codes) == codes \cap op.allow # {}

\* "Are all the existing ones still valid against the table we are about to
\* point at" (dangling_references.sql.j2): the moment the view is replaced no
\* more references dangle than would with the table it was checked against.
NoReferenceBroken ==
  [][Swapped /\ ~Allowed({"S007"}) =>
       Cardinality(Dangling(base', refs', tables[deployed'].rows))
         <= Cardinality(Dangling(base, refs, tables[op.current].rows))]_vars

\* A late collision (SOURCE_SWAPS.md:29-32): no row of the tenant's shares a
\* value with a row the new source shows, whatever was written while the
\* candidate was being checked.
NoLateCollision ==
  [][Swapped /\ ~Allowed({"S009"}) =>
       \A x, y \in View(base', tables[deployed'].rows) :
         x.origin = "base" /\ y.origin = "source" /\ Same(x.row, y.row) => x.pk = y.pk]_vars

\* Renumbering (SOURCE_SWAPS.md:21-27): what a base row shadows or masks and a
\* reference points at is the same entity before and after, if a natural key
\* was given, all of it fields of the model.
IdentityKept ==
  [][Swapped /\ op.identity # {} /\ ~Allowed({"S003", "S004", "S016"}) =>
       \A v, w \in VendorId :
         LET old == tables[op.current].rows
             new == tables[deployed'].rows IN
         There(old, v) /\ There(new, w) =>
           /\ v = w => \A c \in op.identity : old[v][c] = new[w][c]
           /\ SameEntity(op.identity, old[v], new[w]) => v = w]_vars

\* "Better to fail and retry than to queue" (SOURCE_SWAPS.md:122-124): a swap
\* that has started ends, and lets go of the base table, tenants committing
\* or not.
SwapEnds == op.at # "ended" ~> op.at = "ended"
=============================================================================
