# A formal model of django-overlay

django-overlay gives a Django model a hidden base table for the tenant's rows, a
read-only source table that belongs to a vendor, and a view that shows the two
as one table. Writes go through the view: `INSTEAD OF` triggers send them to the
base table. This directory holds TLA+ modules of that machinery, TLC runs of
small instances, and theorems about the same modules that TLAPS checks for every
value of their constants.

    tlc -config table_soft.cfg MCOverlayTable      # a run: see the table below
    tlapm OverlayTableProofs.tla                   # the proofs of one module

Paths in this file are relative to `src/django_overlay/` unless they begin with
`docs/` or `tests/`.

## The system

| Component | State | Operations | Interacts with | What is hard | What makes it correct |
|---|---|---|---|---|---|
| Overlay table (`sql_templates/view`, `triggers/instead_of_*`, `sql.py`, `strategies.py`, `models/meta.py`) | base table, source table | insert, update, delete through the view; `reset_to_source()` | every other component reads its view or writes its base table | an update is a copy-up in up to three SQL statements; the anti-join is cheapened by declaration; tombstones | one row per id; edits win over the vendor; deleted rows stay deleted; nothing lost under concurrency |
| Queryset writes and `count()` (`models/queryset.py`) | none of its own | `materialize()`, `update()`/`save()` with an expression, `count()` | writes the base table past the triggers; `count()` restates the view | two places that must agree on what is visible | count is exact; expressions read the live row |
| Key strategies (`strategies.py`, `ddl/pk_sequence_direction`) | the base table's sequence | next id, set direction | ids chosen here must miss the vendor's | boundaries at zero, strategy changes | a generated id never stands for a vendor row |
| UUID7 generator (`uuid7.py`) | `_last_ms`, `_counter`, `_lock` | `uuid7()` | used by the uuid7 strategies | threads, clock set back, full counter | ids sort in call order, none twice |
| Foreign keys (`triggers/constraint_trigger`, `referenced_row_trigger`, `fields.py`) | PostgreSQL's queue of deferred events | insert side and delete side, at COMMIT | the target's tables, the referencing base table, Django's collector | events hold old rows; order within a transaction; two sessions | no committed reference dangles; no COMMIT refused for nothing |
| Uniqueness (`triggers/unique_constraint_trigger`, `uniqueness.py`, `constraints.py`) | partial unique index | source-side check on write | reads the source past the view | tombstones, resets, snapshots of other sessions | no two visible rows with one value, and no more refused than that takes |
| Synchronisation (`sync.py`, `introspection.py`) | deployed views and triggers | `sync_view`, `sync_source_triggers`, `resync_view` | replays declarations | live code against deployed SQL | what is deployed fits what is declared |
| Migrations (`operations.py`, `makemigrations`) | migration history | forwards, backwards, autodetect | calls synchronisation | old shapes rebuilt with today's declarations; PostgreSQL refuses some view changes | migrations apply, and install what the code declares |
| Source swaps (`swaps/`) | configured and deployed source | preflight, lock, recheck, cutover | replaces the view under running writers | check and cutover apart in time | nothing the swap checked is broken after it |
| Swap checks (`swaps/preflight.py`, `columns.py`, `size.py`, `indexes.py`, `identity.py`, `integrity.py`) | none | findings with codes and levels | gate the swap | a finding skipped, hidden or allowed | a report that says ok is worth something |
| Query rewriting (`models/query.py`, `queryset.py`, `fields.py`) | none | traversal rewrite, many-to-many fence, literal arrays, page by keys | reads the tables under the view | a semi-join is not a join; NULL, repeats, LIMIT | the same rows, as often |
| Planner settings (`models/planning.py`) | the session's `enable_nestloop` | ban nested loops around a statement | decides by the shape the rewriting left | nesting, failure, rolled back savepoints | the ban follows the query; the setting comes back |
| Metaclass, fields and system checks; commands, templates, package glue; benchmarks, lint plugin, CI scripts | – | – | – | – | no behaviour over time; not modelled |

`PROJECT.json` lists these with their sources and status, and the hazards of
each at the line where it bites.

## Modules

| Module | What it is |
|---|---|
| `OverlayRows` | No state: the declaration of one model as `CONSTANTS`, and the view, its anti-joins and `count()` as functions of the two tables |
| `TenantTable` | The abstract specification: one ordinary table with a vendor in the background |
| `OverlayTable` | One session at a time: each trigger body and queryset write is one action. Extends `OverlayRows`, implements `TenantTable` |
| `OverlaySessions` | Several sessions under READ COMMITTED: each SQL statement inside a trigger is one action. Extends `OverlayRows`; its commits implement `TenantTable` |
| `OverlayReferences` | A target and a referencing model, transactions of several statements, deferred constraint triggers at COMMIT. Extends `OverlayRows` |
| `OverlayConstraints` | No state: what one unique constraint and one foreign key mean, shared by the next three. Extends `OverlayRows` |
| `OverlayUniqueness` | Sessions writing a constrained column: the partial index and the source-side trigger. Extends `OverlayConstraints` |
| `SourceChecks` | No state: the preflight of a swap, from the catalogue and the rows to a report. Extends `OverlayConstraints` |
| `SourceSwap` | `swap_source()` step by step, beside tenants' transactions, deploys of configuration and resyncs. Extends `SourceChecks` |
| `OverlayDeployment` | The code's declaration, the migrations written from it, and what each tenant's schema has installed |
| `OverlayFilters` | No state: one read as Django builds it and as the rewrites do |
| `OverlayQueries` | A session that runs such reads, with the nested-loop ban around them. Extends `OverlayFilters` |
| `Uuid7` | The generator: one action per step of `_next_timestamp_and_counter` |
| `MC...` | Constant values for TLC, one module per state machine that needs them |
| `...Proofs` | Theorems: `OverlayTableProofs` (the refinement of `TenantTable` included), `OverlaySessionsProofs`, `OverlayReferencesProofs`, `OverlayUniquenessProofs`, `SourceSwapProofs`, `OverlayDeploymentProofs`, `OverlayQueriesProofs`, `Uuid7Proofs` |

Definitions named `Mutant...` are plausible bugs in the definition after them;
each is caught by the property `PROJECT.json` pairs it with.

### OverlayRows and OverlayTable

A base table is a function from the view's ids to `[row, deleted]` or `NoRow`;
`deleted` is `_overlay_deleted`. The source table is a function from the
vendor's ids to a row or `NoRow`; `ViewPk` applies the sign of the `negative_id`
strategy. `View` is the template's `UNION ALL` with each row tagged by its
branch, so one id in both branches is two rows of the model as it is of the
view. `extra_where` is a predicate, that is the set of rows that satisfy it. The
view template splices it in without parentheses: `ExtraWhereOr` is what the text
accepts left of a top-level `OR` (see the hazards).

| Action | Code |
|---|---|
| `InsertWithPk`, `InsertWithoutPk` | `instead_of_insert.sql.j2`; without an id it comes from the sequence, which a failed insert does not rewind |
| `InsteadOfUpdate` | `instead_of_update.sql.j2`: update the base row, else copy the view's row up and update it; only changed columns are written |
| `InsteadOfDelete` | `instead_of_delete_soft.sql.j2`, `instead_of_delete.sql.j2`: flag where the source has the row, else delete |
| `ResetToSource` | `OverlayModel.reset_to_source()` |
| `Materialize`, `UpdateWithExpression` | `models/queryset.py`: `INSERT ... SELECT ... ON CONFLICT DO NOTHING`, then an `UPDATE` of the base table |
| `VendorPublish` | whoever owns the source table |

A statement that raises is rolled back and changes nothing, so it is not an
action. `Next` allows every write to every model. `TriggerSpec` is what
`overridable = False` is meant for: writes through the view, and a vendor that
does not publish an id the tenant already uses.

### OverlaySessions

Each session runs transactions of one statement. `st[s].at` names the SQL
statement its trigger runs next. `committed` is the table as of the last commit,
`base` holds uncommitted writes as well, and `lock[p]` names the writer of a
row. `Snapshot(s)` is what a new statement of `s` sees. Row locks follow
PostgreSQL: `UPDATE` and `DELETE` ignore another session's uncommitted insert,
and wait for the writer of a row they do see; `INSERT` waits for any writer of
its id before it decides whether it conflicts. A wait is an action that is not
enabled. A rollback (an error, a deadlock victim, a lost connection) is possible
at every point, so sessions that wait for each other are not a deadlock of the
model, as they are not one of the database.

`Workload` is a set of applications; `Init` picks one. An application is a
function from ids to the kinds of statement it sends for that id.

### OverlayReferences

Statements are atomic here and transactions have several. A statement queues one
event for each row change the triggers are declared for, with the row as it was:
`Referenced` for `AFTER INSERT OR UPDATE OF` the reference, `Removed` for `AFTER
DELETE OR UPDATE` of the target's base row. `BeginCommit` starts the checks,
`CheckPasses` runs one on a new snapshot, `Commit` publishes when none is left,
`Rollback` is open throughout. The queue is a set: events run in any order, and
no check depends on another's having run. `CascadeDelete` is Django's collector.
`RawDelete` says which deletes may go around it: `"none"`, those of `"base
rows"` only (a vendor's row somebody has edited, or a row of the tenant's own),
or `"any"`.

### OverlayConstraints and OverlayUniqueness

`Indexed` is the partial index's `WHERE`, `Reserves` the probe in
`unique_constraint_trigger.sql.j2`, `TargetExists` the one in
`constraint_trigger.sql.j2`. `Refuses` puts index and trigger together for a
write of one base row; `UpdateRefuses` asks it twice where an update is a
copy-up, an `INSERT` of the vendor's values first. Each transaction is one
statement and has one row under way (`write[s]`). Another session waits for that
row, and for an index entry with the value that the write adds or takes away
(`Touches`), as a unique index makes it. `Commit` and `Rollback` are steps of
their own, so checks of one session run on a snapshot without the other's write.
`revealed` is history: the vendor rows that came back because their tombstone
was reset, which fires no trigger.

### SourceChecks and SourceSwap

A source table is a record of what the catalogue says of it and of its rows. A
report is a set of findings, each a code (`S001` ... `S016`) and a level.
`Preflight` has the gates of the code: a table that is not there ends it, and a
shape error, or an identity column that is no field, leaves the rows unchecked.
`Recheck` is the row checks alone. `Allow` downgrades a finding to a warning.

| Action | Code |
|---|---|
| `Configure` | a deploy with another `get_source()` |
| `Start` | `swap_source()` up to the preflight: reading the deployed source out of the view, `S017`, `S018` |
| `Check` | `verify_source_swap()`, a dry run, a refusal |
| `Lock` | `LOCK TABLE ... IN EXCLUSIVE MODE` under `lock_timeout` |
| `CheckAgain` | the row checks, in the transaction |
| `Replace` | `resync_view()` of the candidate, which waits for the referencing table and fails where PostgreSQL cannot replace the view (`Replaceable`) |
| `TimeOut` | `lock_timeout` at either wait |
| `Resync` | `resync_overlay_views` at any time between |
| `Save`, `Tombstone`, `ResetToSource`, `Refer`, `CheckReference`, `Commit`, `Rollback` | a tenant's transaction of one row, against the view that is deployed |

### OverlayDeployment

`live` is the declaration in the code, `history` the migrations, `db[t]` a
tenant's schema: how many migrations it has applied, the state they describe,
and what is installed (the view's columns in order, soft delete, source and
overridable; the shape and source of each trigger). Columns in an order are a
set of names and the strict order `before` on them, which is what PostgreSQL
asks of a replaced view: the old columns, in the old order, before the new. A
migration says which operations it has; `Perform` runs them in the one order
that Django's autodetector and `ExtraOps` leave them in. An operation takes a
schema to the set of schemas it can leave, empty when PostgreSQL or a lookup
refuses, so a migration is one transaction.

| Definition | Code |
|---|---|
| `SyncOverlayView`, `AddOverlayConstraint`, ... and `Undo` | `operations.py`, forwards and backwards |
| `ExtraOps`, `DropsView` | `management/commands/makemigrations.py` |
| `Reshape`, `Created`, `Altered` | Django's own operations and autodetector, as the code uses them |
| `Resync`, `ColumnsInViewOrder`, `SyncSourceTriggers` | `sync.py` |
| `Edit`, `MakeMigrations`, `Migrate`, `MigrateBack` | developers and tenants, in any order |

`astray` is history: tenants resynced while the code was ahead of their
migrations, for which the code promises nothing until it is in step again.

### OverlayFilters and OverlayQueries

A *world* is what the near model's view, its targets and its link tables show; a
query is the shape the rewrites look at: arguments with their path, test and
negation, `AND`/`OR`, one `filter()` or a chain, a `pk__in` list, a projection,
`distinct()` and a slice. Answers are bags. `DjangoMatches` counts the
combinations of joined rows that satisfy the tree, with Django's rules for
sharing joins. `OverlayMatches` is the same with `build_filter()`'s semi-joins
and fences and `literal_array_in()`. `LateRowLookup` takes the keys of a page
and then their rows. `IsAnswer` says which bags Django could have returned; a
page may be any that the ordering allows.

`OverlayQueries` runs them: `ForceHashJoins` is the `SHOW` and `SET` of one
bracket, entered as often as `get_aggregation()` and `get_compiler()` do
(`Bans`). What it counts (`OverlayViewsRead`) are the views of the alias map,
trimmed joins included, and of the subqueries. `Execute` answers or fails,
`Restore` is the `finally` clause, refused in an aborted transaction. The caller
sets `enable_nestloop` itself and opens nested `atomic()` blocks; `Rollback`
puts back what PostgreSQL puts back.
`asked` is history: what the setting would be had only the caller set it.

### Uuid7

One action per step of `_next_timestamp_and_counter`: read the clock before
taking the lock, then the three branches, each assignment a step of its own.
`Tick` moves the clock to any value in its bound, backwards too. An id is its
(millisecond, counter) pair, since those fields have fixed widths and come
first.

## Runs

| Run | Expected | What it shows | Distinct states |
|---|---|---|---|
| `table_soft` | holds | An overridable, soft-deleting model is one ordinary table under every sequence of writes (`ImplementsTenantTable`), returns no id twice, counts exactly, loses no edit and no delete | 3,375 |
| `table_tombstones` | holds | A non-overridable model written through its view holds no live copy of a vendor row, which is what makes its narrower anti-join sound | 1,728 |
| `sessions` | holds | Two sessions, statement by statement: edits merge, increments land, copying is invisible, deletes land and last | 117,040 |
| `uuid7` | holds | Ids sort in call order across threads and clock jumps; calls return | 81,936 |
| `references` | holds | Deletes through the collector and behind its back, soft deletes, a partition key, an `extra_where`: nothing committed dangles, no COMMIT is refused for nothing | 950,532 |
| `uniqueness` | holds | Two sessions writing the same values: a value is unique across both tables, refused only where it is reserved, and no row stands in its own way | 340,510 |
| `swap` | holds | Tenants writing between preflight, lock, recheck and replacement: no reference broken, no value repeated, no entity renamed, and the command ends | 855,176 |
| `deployment` | holds | Edits of a declaration, migrations replayed at any later time, rollbacks, resyncs: migrations apply, and leave what the code declares | 1,628,582 |
| `queries` | holds | Rewritten reads return what the plain ones could; the ban follows the query; the caller's setting comes back | 79,742 |
| `references_tombstone` | violates `Integrity` | finding 1 | – |
| `deployment_rename` | violates `MigrationsApply` | finding 2 | – |
| `queries_rewrites` | violates `SameRows` | findings 3 and 4 | – |

Bounds, and why they are enough:

- *Ids.* The anti-joins, triggers and locks look at one id at a time; two ids of
  opposite sign give an organic row, a source-backed row, and one write that
  touches both (`Materialize`, `count()`). `table_soft` has a third id so the
  sequence can collide with an id a caller chose and step past it. `uniqueness`
  and `swap` have two vendor rows and one of the tenant's own: a conflict is
  between two rows, of either origin, and renumbering takes two ids.
- *Columns and values.* `table_soft` and `sessions` have two columns over {0,
  1}: fewer would not tell merging columns from overwriting a row. `uniqueness`
  has NULL and two values, one of which `extra_where` hides. `swap` has the
  unique column and a natural key. `deployment` has two columns, one a foreign
  key's, which `CreateModel` leaves to a later `AddField`. Elsewhere one is
  enough. `MCFlip`, the F() expression, is its own inverse and has no fixed
  point, so one application lost shows.
- *Sessions and threads:* two in `sessions`, `uniqueness` and `uuid7`. Every
  rule modelled there is between the writer of a row and one other; the theorems
  are for any number. `references` has one session: two that overlap can pass on
  each other's snapshots, and `Integrity` fails (see the hazards). `swap` has
  one beside the operator, whose transaction can be open at each of its steps.
- *`Workload`* of `sessions`: four mixtures, each on one id. They leave two
  mixtures out on purpose, resets beside updates of one vendor row and updates
  beside deletes of a row of the tenant's own: the first breaks `EditsMerge`,
  the second `StaysDeleted` (`Workload <- MCOwnDeletes` shows it). The theorems
  hold of every mixture that leaves such pairs out (`RowsLast`).
- *`MaxStatements`* = 3 in `references`: enough to create a reference, change
  its target and undo either in one transaction.
- *`MaxWrites`* = 3 in `swap`: an override or tombstone before the preflight,
  one more write after it and one that waits. The candidates of `MCSourceSwap`
  differ from the current table by a new row, a changed value, a renumbered row,
  a reassigned id, an empty load, a column's type, a missing column, or by not
  existing.
- *`MaxEdits`* = 3 in `deployment`: change, change back and change something
  else, or two changes whose migrations are replayed after a third. One tenant
  is enough, since tenants share nothing but the code and the migrations; a
  model that was deleted does not come back. `CHECK_DEADLOCK` is off there
  because a project may have nothing left to edit or migrate.
- *`queries`:* three near rows, two rows per target, up to two arguments, blocks
  to depth 2. Two targets of one row are what repeats it, and two arguments what
  shares a join or does not. `WithNulls` and `WithProjections` add the shapes
  that `queries_rewrites` shows to differ. The second workload uses one world,
  because its questions are about the session.
- *`CounterMax`* = 3, `SeedMask` = 1, `MaxMs` = 1: the seed stays in the lower
  half as in the code, and two threads can fill the counter, borrow a
  millisecond and have the real clock catch up with it. `MaxMs` only stops new
  calls, so every call already started ends.

Deadlock is checked in every other run; it says most in `uuid7`.

Fairness is assumed in two places. In `uuid7`, weak and per thread: the
operating system runs a thread that can run, and a lock that is free can be
taken. The clock and the callers are under no obligation. In `swap`, weak
fairness of `Swap`, the steps of a command that was started: it is one
sequential function, and both of its waits end in `lock_timeout` if in nothing
else, so some step of it is always enabled. Tenants are under no obligation: a
transaction may stay open for ever. Everything else checked is safety.

What a property excepts is written into it as a term and is part of what it
says. `UniqueInView`: two vendor rows the vendor itself published with one
value, and rows a reset revealed. `RefusesOnlyReserved`: values that an override
hides. `RowsStayEditable`: the same two as `UniqueInView`. `NoReferenceBroken`,
`NoLateCollision` and `IdentityKept`: swaps told to allow the finding.
`MigrationsApply`: a deleted model's triggers, which cannot be looked up.
`NothingAheadOfItsMigration` and `MigratedIsDeclared`: a uniqueness trigger is
built from the live `soft_delete`, and a link in another app keeps its old
shape; both are said so in the code.

## Theorems

| Theorem | States | Hypotheses |
|---|---|---|
| `TypeCorrect` | `Spec => []TypeOK` | – |
| `SequenceSafe` | a generated id is not a vendor row's | – |
| `FullAntiJoinIsExact` | `Spec => []NoIdTwice` | `Overridable`, `ExtraWhereOr = {}` |
| `UpdatesLand` | `Spec => []UpdateLands` | `Overridable`, `ExtraWhereOr = {}` |
| `DeletesHide` | `Spec => []DeletedIsGone` | `ExtraWhereOr = {}`, `PartitionKey = {}` |
| `CountsTheView` | `Spec => []CountIsExact` | `Overridable`, finitely many ids |
| `TriggersMaterialiseNothing` | `TriggerSpec => []NothingMaterialised` | `~Overridable`, `PartitionKey = {}` |
| `CheapViewIsExact` | `TriggerSpec => []NoIdTwice` | the same |
| `CountsTheCheapView` | `TriggerSpec => []CountIsExact` | the same, finitely many ids |
| `ImplementsTenant` | `Spec => ImplementsTenantTable` | `Overridable`, `ExtraWhereOr = {}`, `PartitionKey = {}` |
| `TombstonesAreSetToMask` | `Spec => TombstonesMask` | – |
| `SessionsTypeCorrect` | `Spec => []TypeOK` | – |
| `DeletesLandForEveryone` | `Spec => DeletesLand` | `ExtraWhereOr = {}` |
| `UpdatesMerge`, `NoIncrementIsLost`, `CopiesAreInvisible` | `Spec => EditsMerge`, `IncrementsLand`, `MaterializeIsInvisible` | `ExtraWhereOr = {}`, `RowsLast` |
| `DeletedStaysDeleted` | `Spec => StaysDeleted` | the same, no soft deletes with a partition key |
| `SessionsImplementTenantTable` | `Spec => Tenant!Spec` | `ExtraWhereOr = {}`, `RowsLast`, with soft delete every vendor row satisfies `extra_where` |
| `ReferencesTypeCorrect` | `Spec => []TypeOK` | – |
| `RefusalsAreRight` | `Spec => []RefusesOnlyDangling` | `~ChildSoftDelete`, `ExtraWhereOr = {}` |
| `IntegrityHolds` | `Spec => []Integrity` | one session, `VendorChildren = {}`, `RawDelete # "any"` |
| `UniquenessTypeCorrect`, `UniqueAcrossTables` | `Spec => []TypeOK`, `Spec => []UniqueInView` | `Overridable`, `ExtraWhereOr = {}` |
| `RefusalsAreReserved` | `Spec => []RefusesOnlyReserved` | the same, `SoftDelete` |
| `RowsAreEditable` | `Spec => []RowsStayEditable` | `Overridable`, `ExtraWhereOr = {}` |
| `SwapTypeCorrect` | `Spec => []TypeOK` | – |
| `NoneMoreDangle` | `Spec => NoReferenceBroken` | `SelfReference`, finitely many children, no command allows `S001` |
| `LateCollisionsAreSeen` | `Spec => NoLateCollision` | `ExtraWhereOr = {}`, and the last two |
| `EntitiesKeepTheirIds` | `Spec => IdentityKept` | the last two |
| `DeploymentTypeCorrect` | `Spec => []TypeOK` | – |
| `NothingIsAhead` | `Spec => []NothingAheadOfItsMigration` | `~CanRename` |
| `MigrationsReplay` | `Spec => []MigrationsApply` | `~CanRename` |
| `ReplayEndsDeclared` | `Spec => []MigratedIsDeclared` | – |
| `ResyncsRepair` | `Spec => ResyncRepairs` | – |
| `SettingComesBack`, `BanIsOfTheQuery` | `SettingReturned`, `BanFollowsTheQuery` | – |
| `RewritesKeepRows` | `Spec => [](Agreed(query) => SameRows)` | `Error` is no function |
| `CounterFits`, `IdsSortByCallOrder`, `PairsOnlyGrow` | the safety properties of `Uuid7` | – |

They hold for every set of ids, rows, columns and expressions, every strategy,
either kind of deletion, any number of sessions, threads and tenants, histories
of any length and finite worlds of any size, under the assumptions the modules
name: `RowsAssumption` (the constants have the types the declaration gives
them), `SignAssumption` (the vendor's ids are on the vendor's side of zero,
which the code takes for granted), and one per module for its own constants
(`ExpressionAssumption`, `SessionAssumption`, `ReferencesAssumption`,
`ConstraintsAssumption`, `UniquenessAssumption`, `SwapAssumption`,
`DeploymentAssumption`, `NothingAssumption`, `FiltersAssumption`,
`WorkloadAssumption`, `Uuid7Assumption`). Each hypothesis of a theorem restricts
it to a declaration or a use for which the argument goes through; most are ones
the code needs, and the runs and hazards say what happens without them: a
partition key breaks `DeletedIsGone`, a top-level `OR` in `extra_where` breaks
`NoIdTwice`, direct writes break a non-overridable model, a second session or a
raw delete of an unedited vendor row breaks `Integrity`, a separate referencing
table breaks `NoReferenceBroken`, a renamed field breaks `MigrationsApply`.
Allowing `S001` lets a table that does not exist through, whose rows nobody can
check.

*The overlay table.* `TypeOK` is inductive as it stands. It does not imply that
a generated id misses the vendor: for that, `SequenceSide` says that the
sequence has only ever moved away from zero on the tenant's side.
`NothingMaterialised` is inductive relative to `TypeOK` and `SequenceSide`: the
only step that could put a live row on a vendor's id is an insert, and one with
an id is refused by the collision check while one without takes it from the
sequence. `NoIdTwice` then follows in a state, from the full anti-join or from
`NothingMaterialised` (`OneRowPerId`). `UpdatesLand` needs it in turn: where an
id shows once, the trigger's "is there a base row" and "does the view's row come
from the base table" are the same question (`ShownFromBase`). `CountIsExact` is
a fact about cardinalities: the base branch is in bijection with the live base
rows (`Paired`), the source branch with the vendor rows less those with a base
row (`SameSourceRows`), and the two are disjoint by their origin
(`CountInState`).

*The refinement.* `SeenById` reduces what the tenant sees at an id to the base
row and the vendor's offer at that id, `OneIdChanges` says what writing one base
row does to the mapped table, and there is one lemma per action. An insert is a
`Create`, a copy-up an `Edit`, `Materialize` an `Adopt`, an expression update a
`Compute`. Resetting or deleting gives the id back unless a tombstone keeps it.
A refused or colliding insert is a stutter.

*Sessions.* `TypeOK` includes that a row no one has locked is committed; it is
not inductive without `Carries`, what a session holds between two statements of
its trigger. `DeletesLand` needs `Hides`: a delete of a vendor's row that is
about to commit has flagged a row that it still holds, so no other session's
write between its statements can have undone it.

The other four are about statements that read a row of the view and write it
down later (`Copying`: an update, an F() update, `materialize()`). `KInv` says
what such a session still knows when it writes. Before: the row it read is what
the vendor's table offers, or there is a committed base row (`Offers`, the first
lines of `Knows`). After: the row it holds is the one it was asked for, computed
from the committed row or from its own copy; and a row its `UPDATE` did not find
is a tombstone. This is inductive only where a base row, once committed, stays,
which is `Stays`, and which the hypothesis `RowsLast` gives: an application that
copies an id's row down sends no reset for it, and deletes only where a delete
flags. Both halves are needed: a reset beside an update breaks `EditsMerge`, one
beside an F() update `IncrementsLand`, an update beside the delete of an own row
`StaysDeleted`. `CopyingLands` then reads all four off `KInv` at the commit.
`DeletedStaysDeleted` also asks that a soft delete have no partition key: two
deletes that saw the row in different partitions remove the tombstone between
them.

`SessionsImplementTenantTable` puts the whole together: under the mapping
`OverlayTable` uses, applied to what is committed, each commit is one operation
of `TenantTable` and every other step a stutter. An insert is a `Create`, an
update an `Edit`, an F() update a `Compute`, `materialize()` an `Adopt`, a flag
or a tombstone a `Remove`, and what takes the base row away a `Reset`; so
sessions that overlap are serial to the tenant, in the order they commit.
`Lands` adds to `KInv` what an insert, a reset and a delete hold when they are
done. The last hypothesis is needed: with soft delete and a vendor row outside
`extra_where`, a delete that saw an override which is reset before its tombstone
is written takes over an id that shows nothing. This one is proved only; the
runs check the same mapping for one session, in `table_soft`.

*References.* `RefusesOnlyDangling` follows from `NothingFlagged`: a referencing
model that deletes hard has no tombstones, so the row whose reference an event
refuses is one its view shows. `Integrity` is not inductive, since an open
transaction may dangle. Its strengthening is that each reference a statement
leaves dangling is watched by an event in the queue that refuses, and that a
passed check takes no watch away from what still dangles.

*Uniqueness.* The index sees the base table and the trigger the source, each on
a snapshot. `IInv` says why together they suffice: a committed row, and each row
under way, is `Clear` of every other base row and of every vendor row not
masked; two rows under way are `Apart`; and a write over a tombstone is a reset
that `revealed` has noted. `RowsStayEditable` needs no more: what refuses a row
its own value is another row that shows it, and `ConflictIsRevealed` says which
rows those can be.

*Swaps.* `Guarded` carries what the recheck found from `CheckAgain` to
`Replace`: from the lock on no session holds or can take a write on the base
table (the last conjunct of `TypeOK`), so the two tables the recheck read are
still the ones that are replaced. `Found` restates a report without errors as
the facts the properties need.

*Deployment.* The properties compare what is installed with declarations, and
migrations stand between the two. `HistoryInv` ties each migration to the states
before and after it: it rebuilds the view whenever its shape changes
(`Reshaped`), the triggers whenever theirs does (`Switched`, `Relinked`), and
does nothing else. `SteadyInv` ties each schema to the migrations it has
applied: what is installed has their shape. A rollback drops what its migration
built and builds nothing again, so not everything that is declared is there; but
what is missing is *ahead*, that is built by a migration the schema has yet to
apply again (`ViewAhead`, `UniqueAhead`, `LinkAhead`; `AheadMoves` is how they
move with the schema). At the end of the history nothing is ahead, which is
`MigratedIsDeclared`. `PerformIs`, `ForwardIs`, `BackwardIs` and `ResyncIs` are
the operations in closed form, and the lemmas about `Only`, `With` and `Extends`
the algebra of column orders. All that holds with renames. Without them a
migration that leaves the view in place only appends columns (`HistoryAppends`),
so PostgreSQL can replace it, and no view reads a column its tables lack
(`ReadsInv`): `MigrationsApply` and `NothingAheadOfItsMigration`.

*The rewrites.* Both forms count the tuples of joined rows that satisfy the
query (`Unfolded`). A rewrite drops the join of a reference, which finds one
target or none (`OneTarget`), so each tuple of the joins that are left extends
to exactly one of Django's (`TuplesExtend`), which is kept or not alike where no
traversal asks for NULL (`SameKept`): every row is matched as often
(`SameMatches`). A page by keys is taken where no join can repeat a row, and
then is the same page (`PageOfItsKeys`). `Agreed` excludes what findings 3 and 4
are about, literal keys too large for their column, and late pages of
`values()`.

*The planner's setting.* `SessionInv`: the value the outermost ban read is what
the caller asked for, and a block is entered only between statements, so both of
its values agree. `BanInv` compares the views counted in the rewritten query
with those of the query as it was written, relation by relation.

*The generator.* `SortsByCallOrder` is about an id already out of the lock, so
`IInv` follows the pair through it: only the lock's holder is between `Acquire`
and `Release` (`Exclusion`), the pair under construction is above the last one
issued from the point where its branch is done (`Settled`), and what has been
issued bounds everything returned (`NothingAbove`).

*Model-checked only:* the liveness properties `CallsReturn` and `SwapEnds`,
since fairness and `ENABLED` are out of TLAPS's reach; and of `SameRows`, late
pages of `values()`, whose bags are sums over the page and need an induction
over it.

## Findings

1. A raw delete of a vendor row nobody edited makes a tombstone by `INSERT`, for
   which the delete side of a foreign key is not declared: the reference dangles
   (`docs/operations/LIMITATIONS.md:150-156`).
2. A renamed field: makemigrations drops the view before `RemoveField` and
   `DeleteModel` only, so the migration's own `SyncOverlayView` is refused by
   PostgreSQL, which cannot rename a column of a view in place
   (`sync.py:20-23`).
3. A page of `distinct()` or grouped values without the primary key is taken by
   its rows' keys first and returns fewer or other values
   (`models/queryset.py:431-432`).
4. `filter(fk__column__isnull=True)` across a nullable `OverlayForeignKey`, and
   across a many-to-many, matches rows with no target in Django and loses them
   when rewritten (`models/query.py:93-94`). The run
   stops at the page of 3; with `WithProjections = FALSE` in its cfg it prints
   this one.

`PROJECT.json` quotes the text each disagrees with. The model exhibits these as
well; no run keeps them, and the hazards name them:

- `materialize()` and writes with an expression copy a non-overridable model's
  rows down past the trigger that refuses it, and the view returns ids twice
  (`Spec` in place of `TriggerSpec` in `table_tombstones`; `NoIdTwice`).
- With a partition key, deleting a row whose key the tenant edited removes the
  base row instead of flagging it, and the vendor's row is back (`PartitionKey`
  non-empty in `table_soft`; `DeletedIsGone`).
- An update that waited for a concurrent delete copies up what it saw before
  (`MCOwnDeletes`; `StaysDeleted`), and an update racing a reset re-inserts the
  override (`EditsMerge`).
- A cascade onto a soft-deleting, vendor-backed referencing row is refused at
  COMMIT over its own tombstone (`ChildSoftDelete = TRUE`;
  `RefusesOnlyDangling`).
- Two sessions break referential integrity between them, since neither trigger
  locks the other's table (two sessions in `references`; `Integrity`).
- A swap locks the base table only, so a separate referencing table can commit a
  reference checked against the old source (`SelfReference = FALSE` in `swap`;
  `NoReferenceBroken`).
- An `OR` at the top level of `extra_where` escapes the anti-join
  (`ExtraWhereOr`; `NoIdTwice`).

One more is outside the properties, which take the ban's own count as given:
`filter(customer__isnull=True)` reads one view, since Django tests the local
column, but the trimmed join stays in `alias_map`. `_overlay_views_read()`,
"the distinct overlay views this statement reads" (`planning.py:153`), counts
two, and a limited one of these runs with nested loops banned.

## Not modelled, and why

- Sessions: transactions of several statements in `OverlaySessions` and
  `OverlayUniqueness`; REPEATABLE READ and SERIALIZABLE, where PostgreSQL aborts
  what this model lets through; a compare-and-set condition on an update; the
  vendor changing rows in the middle of a trigger, or during a swap.
- Queryset: `bulk_create()`, `update_or_create()` and `select_for_update()`,
  which forward or refuse.
- Keys: a change of strategy on a table with rows, and the turning of its
  sequence.
- Foreign keys: `partition_column`, which narrows the insert side's probe; the
  vendor's own child rows in the runs (`VendorChildren` is empty), which the
  delete side does not search.
- Uniqueness: `SET CONSTRAINTS ... DEFERRED`.
- Deployment: several links and constraints, hand-written migrations, squashing,
  unmanaged models, `RemoveOverlayConstraint` without its `column`.
- Swaps: several constraints and inbound keys, the wording of findings, the
  catalogue queries.
- Queries: `select_related` redirected to prefetches, origin filters,
  `OuterRef`, orderings across joins, a fence nested in a longer path, slices of
  slices; a key in a literal array too large for its column, which fails where
  `pk = ...` would find nothing (`ArrayFails` has the case, no workload sends
  one); `SET LOCAL` by the caller.
- The random tail of a uuid and forked processes.
- Metaclass, fields and system checks; commands, templates and glue; benchmarks,
  the lint plugin and CI scripts: no state that changes over time, pure
  declarations, or printing.

## Plan

Done, in this order: `OverlayRows`, `TenantTable` and `OverlayTable`;
`OverlaySessions`; `Uuid7`; `OverlayReferences`; `OverlayConstraints` and
`OverlayUniqueness`; `SourceChecks` and `SourceSwap`; `OverlayDeployment`;
`OverlayFilters` and `OverlayQueries`; the proofs of each.

Left, by what it would add:

1. The compare-and-set update in `OverlaySessions`: a condition re-evaluated, or
   not, once the row lock is taken.
2. `partition_column` and the vendor's own child rows in `OverlayReferences`.
3. A change of strategy in `OverlayDeployment`, with the sequence's direction
   beside the rows of `OverlayTable`.
4. `select_related` and the origin filters in `OverlayFilters`.
5. Theorems: `Integrity` for referencing models with rows of the vendor's.
