-------------------------- MODULE OverlayDeployment --------------------------
(***************************************************************************)
(* What is installed in a tenant's schema for one overlay model and for    *)
(* one OverlayForeignKey to it, against what the code declares: the code   *)
(* changes, makemigrations writes migrations, every tenant replays them    *)
(* from its own point with today's code, rolls back, or is resynced.  An   *)
(* operation reads the shape from the migrations and the source from the   *)
(* code, and the two need not be of the same time.                         *)
(***************************************************************************)
EXTENDS Naturals, Sequences

CONSTANTS
  Column,    \* the model's columns, numbered in the order the class has them
  Link,      \* those of foreign keys, which CreateModel leaves to AddFields
  Shadow,    \* _overlay_deleted, a column of the base table alone
  Source,
  Tenant,
  Nothing,   \* no view, or no trigger
  Start,     \* the declarations a project begins with
  CanRename, \* a field can be renamed
  MaxEdits   \* bound: edits of the declaration

\* A link's own partition_column, which its trigger's text depends on.
Reference == {"none", "plain", "keyed"}

Declaration ==
  [exists : BOOLEAN, columns : SUBSET Column, soft : BOOLEAN, unique : BOOLEAN,
   reference : Reference, overridable : BOOLEAN, source : Source]

ASSUME DeploymentAssumption ==
  /\ Column \subseteq Nat \ {Shadow} /\ Shadow \in Nat /\ Link \subseteq Column
  /\ CanRename \in BOOLEAN /\ MaxEdits \in Nat
  /\ Start \subseteq Declaration

VARIABLES
  live,     \* the declaration in the code
  sameApp,  \* whether the link is declared in the model's own app
  history,  \* the migrations written so far
  db,       \* db[t]: a tenant's schema
  edits,    \* counts edits
  astray    \* history: tenants resynced while code and migrations disagreed

vars == <<live, sameApp, history, db, edits, astray>>

\* Columns in an order: which there are, and which of any two comes first.
NoColumns == [names |-> {}, before |-> {}]

Only(columns, C) ==
  [names |-> columns.names \cap C, before |-> columns.before \cap (C \X C)]

\* C goes to the end, in the order of the class.
With(columns, C) ==
  [names  |-> columns.names \cup C,
   before |-> columns.before \cup (columns.names \X C) \cup {p \in C \X C : p[1] < p[2]}]

\* Migration state: the columns in the order the migrations added them.
Unmigrated == [exists |-> FALSE, columns |-> NoColumns, unique |-> "none", reference |-> "none"]

Empty == [applied |-> 0, state |-> Unmigrated, view |-> Nothing,
          unique |-> Nothing, reference |-> Nothing]

Init ==
  /\ live \in Start /\ sameApp \in BOOLEAN
  /\ history = <<>> /\ edits = 0 /\ astray = {}
  /\ db = [t \in Tenant |-> Empty]

SoftDeletes(state) == Shadow \in state.columns.names
Declared(columns)  == Only(columns, Column)

-----------------------------------------------------------------------------
(* The operations.  Each gives the database it leaves, or none: a          *)
(* migration is one transaction.                                           *)

\* CREATE OR REPLACE VIEW can append columns, and move, rename or drop none.
Replaces(view, columns) ==
  view # Nothing =>
    LET old == view.columns IN
    /\ old = Only(columns, old.names)
    /\ old.names \X (columns.names \ old.names) \subseteq columns.before

View(columns, soft) ==
  [columns |-> columns, soft |-> soft,
   overridable |-> live.overridable, source |-> live.source]

MutantSyncOverlayView(d) ==   \* soft_delete as the code has it today
  LET columns == Declared(d.state.columns) IN
  IF ~live.exists THEN {d}
  ELSE IF Replaces(d.view, columns) THEN {[d EXCEPT !.view = View(columns, live.soft)]}
  ELSE {}

SyncOverlayView(d) ==
  LET columns == Declared(d.state.columns) IN
  IF ~live.exists THEN {d}
  ELSE IF Replaces(d.view, columns)
  THEN {[d EXCEPT !.view = View(columns, SoftDeletes(d.state))]}
  ELSE {}

DropOverlayView(d) == [d EXCEPT !.view = Nothing]

\* Both of the link's triggers; the live model is looked up, or LookupError.
AddOverlayConstraint(d) ==
  IF live.exists
  THEN {[d EXCEPT !.reference = [soft |-> SoftDeletes(d.state), source |-> live.source,
                                 keyed |-> d.state.reference = "keyed"]]}
  ELSE {}

RemoveOverlayConstraint(d) == {[d EXCEPT !.reference = Nothing]}

\* soft_delete is the live model's here; early is history, that the migrations
\* did not say the same.
AddOverlayUniqueConstraint(d) ==
  IF live.exists
  THEN {[d EXCEPT !.unique = [soft |-> live.soft, source |-> live.source,
                              early |-> live.soft # SoftDeletes(d.state)]]}
  ELSE {}

RemoveOverlayUniqueConstraint(d) ==
  IF live.exists THEN {[d EXCEPT !.unique = Nothing]} ELSE {}

Each(D, Op(_))       == UNION {Op(d) : d \in D}
If(condition, D, Op(_)) == IF condition THEN Each(D, Op) ELSE D

\* In the order in which makemigrations puts them.
Perform(d, ops) ==
  LET freed   == If("RemoveOverlayUniqueConstraint" \in ops, {d}, RemoveOverlayUniqueConstraint)
      synced  == If("SyncOverlayView" \in ops, freed, SyncOverlayView)
      removed == If("RemoveOverlayConstraint" \in ops, synced, RemoveOverlayConstraint)
      added   == If("AddOverlayConstraint" \in ops, removed, AddOverlayConstraint)
  IN  If("AddOverlayUniqueConstraint" \in ops, added, AddOverlayUniqueConstraint)

\* Backwards, what was created is dropped and nothing is created again.
Undo(d, ops) ==
  LET unsync(x)     == {IF live.exists THEN DropOverlayView(x) ELSE x}
      unreference(x) == IF live.exists THEN RemoveOverlayConstraint(x) ELSE {}
      free == If("AddOverlayUniqueConstraint" \in ops, {d}, RemoveOverlayUniqueConstraint)
      bare == If("AddOverlayConstraint" \in ops, free, unreference)
  IN  If("SyncOverlayView" \in ops, bare, unsync)

Reads(view) == view.columns.names \cup IF view.soft THEN {Shadow} ELSE {}

\* Django's own operations: the tables get the shape the migrations say, and
\* Postgres refuses to drop a column, or the table, under a view.
Reshape(d, to, renamed) ==
  IF d.view # Nothing /\ (~to.exists \/ Reads(d.view) \ to.columns.names # renamed)
  THEN {}
  ELSE {[d EXCEPT !.state = to, !.unique = IF to.exists THEN @ ELSE Nothing]}

Forward(d, m) ==
  UNION {Perform([x EXCEPT !.applied = @ + 1], m.operations) :
           x \in Reshape(IF m.dropsView THEN DropOverlayView(d) ELSE d, m.to, m.renamed)}

StateAt(n) == IF n = 0 THEN Unmigrated ELSE history[n].to

Backward(d, m) ==
  UNION {Reshape([x EXCEPT !.applied = @ - 1], StateAt(d.applied - 1), {}) :
           x \in Undo(d, m.operations)}

-----------------------------------------------------------------------------
(* makemigrations: Django's autodetector, and the operations added to it   *)

Fields(d)     == d.columns \cup IF d.soft THEN {Shadow} ELSE {}
Constraint(d) == IF ~d.unique THEN "none" ELSE IF d.soft THEN "partial" ELSE "full"

\* A new model's columns; what is added later goes to the end, by name.
Created(d) ==
  With(With(With(NoColumns, d.columns \ Link), IF d.soft THEN {Shadow} ELSE {}),
       d.columns \cap Link)

\* renamed is {} or one field, the answer the developer gives.
Altered(state, d, renamed) ==
  LET have  == state.columns
      to(c) == IF c \in renamed THEN CHOOSE e \in Fields(d) \ have.names : e # Shadow ELSE c
      kept  == [names  |-> {to(c) : c \in have.names},
                before |-> {<<to(p[1]), to(p[2])>> : p \in have.before}]
  IN  With(Only(kept, Fields(d)), Fields(d) \ kept.names)

\* Which of the two apps a migration is for.
NextState(state, d, renamed, apps) ==
  LET models == [exists |-> d.exists,
                 columns |-> IF ~d.exists THEN NoColumns
                             ELSE IF state.exists THEN Altered(state, d, renamed)
                             ELSE Created(d),
                 unique |-> IF d.exists THEN Constraint(d) ELSE "none"]
  IN  [exists  |-> IF "model" \in apps THEN models.exists ELSE state.exists,
       columns |-> IF "model" \in apps THEN models.columns ELSE state.columns,
       unique  |-> IF "model" \in apps THEN models.unique ELSE state.unique,
       reference |-> IF "link" \in apps THEN d.reference ELSE state.reference]

\* What CreateModel, AddField, RemoveField and RenameField are found to do.
Reshaped(from, to) == to.exists /\ (~from.exists \/ to.columns # from.columns)

Emit(condition, op) == IF condition THEN {op} ELSE {}

MutantExtraOps(from, to) ==   \* nothing for what points at the model
  LET switched == to.exists /\ to.unique # from.unique /\ live.exists IN
  Emit(switched /\ from.unique # "none", "RemoveOverlayUniqueConstraint")
  \cup Emit(Reshaped(from, to) /\ live.exists, "SyncOverlayView")
  \cup Emit(to.reference # from.reference /\ to.reference = "none", "RemoveOverlayConstraint")
  \cup Emit(to.reference # from.reference /\ to.reference # "none", "AddOverlayConstraint")
  \cup Emit(switched /\ to.unique # "none", "AddOverlayUniqueConstraint")

\* extra_ops_for_migration(): one SyncOverlayView for all the changed fields, a
\* trigger for what is added and a drop for what is removed; a changed shadow
\* flag also rebuilds the triggers of the links in the model's own app.
ExtraOps(from, to) ==
  LET switched == to.exists /\ to.unique # from.unique /\ live.exists
      toggled  == from.exists /\ to.exists /\ SoftDeletes(from) # SoftDeletes(to)
      inbound  == toggled /\ sameApp /\ live.reference # "none"
      linked   == to.reference # from.reference
  IN  Emit(switched /\ from.unique # "none", "RemoveOverlayUniqueConstraint")
      \cup Emit(Reshaped(from, to) /\ live.exists, "SyncOverlayView")
      \cup Emit(linked /\ to.reference = "none", "RemoveOverlayConstraint")
      \cup Emit((linked /\ to.reference # "none") \/ inbound, "AddOverlayConstraint")
      \cup Emit(switched /\ to.unique # "none", "AddOverlayUniqueConstraint")

MutantDropsView(from, to, renamed) == from.exists /\ ~to.exists   \* DeleteModel only

\* A DropOverlayView goes before every DeleteModel and RemoveField.
DropsView(from, to, renamed) ==
  \/ from.exists /\ ~to.exists
  \/ from.columns.names \ (to.columns.names \cup renamed) # {}

Renamable(state) ==
  LET gone == state.columns.names \ Fields(live)
      new  == Fields(live) \ state.columns.names
  IN  IF CanRename /\ live.exists /\ state.exists /\ new \ {Shadow} # {}
      THEN {{c} : c \in gone \ {Shadow}} ELSE {}

MakeMigrations(apps, renamed) ==
  LET from == StateAt(Len(history))
      to   == NextState(from, live, renamed, apps)
  IN  /\ to # from
      /\ to.reference # "none" => to.exists
      /\ history' = Append(history,
           [to |-> to, renamed |-> renamed, dropsView |-> DropsView(from, to, renamed),
            operations |-> ExtraOps(from, to)])
      /\ UNCHANGED <<live, sameApp, db, edits, astray>>

-----------------------------------------------------------------------------
(* What happens to the code and to a tenant's schema                       *)

\* One change of the declaration.  A model that is gone does not come back.
Edits(d) ==
  IF ~d.exists THEN {}
  ELSE {[d EXCEPT !.columns = (@ \cup {c}) \ (@ \cap {c})] : c \in Column}
       \cup {[d EXCEPT !.columns = (@ \ {c}) \cup {e}] : c \in d.columns, e \in Column \ d.columns}
       \cup {[d EXCEPT !.soft = ~@], [d EXCEPT !.unique = ~@], [d EXCEPT !.overridable = ~@]}
       \cup {[d EXCEPT !.source = s] : s \in Source}
       \cup {[d EXCEPT !.reference = r] : r \in Reference}
       \cup IF d.reference = "none" THEN {[d EXCEPT !.exists = FALSE]} ELSE {}

Edit ==
  /\ edits < MaxEdits
  /\ live' \in Edits(live) \ {live}
  /\ edits' = edits + 1
  /\ UNCHANGED <<sameApp, history, db, astray>>

Migrate(t) ==
  /\ db[t].applied < Len(history)
  /\ \E d \in Forward(db[t], history[db[t].applied + 1]) : db' = [db EXCEPT ![t] = d]
  /\ UNCHANGED <<live, sameApp, history, edits, astray>>

MigrateBack(t) ==
  /\ db[t].applied > 0
  /\ \E d \in Backward(db[t], history[db[t].applied]) : db' = [db EXCEPT ![t] = d]
  /\ UNCHANGED <<live, sameApp, history, edits, astray>>

\* The applied migrations say what the code says.
InStep(d) ==
  /\ d.state.exists = live.exists
  /\ live.exists => /\ d.state.columns.names = Fields(live)
                    /\ d.state.unique = Constraint(live)
  /\ d.state.reference = live.reference

MutantColumnsInViewOrder(d) ==   \* what the view has already is appended again
  With(IF d.view = Nothing THEN NoColumns ELSE Only(d.view.columns, live.columns),
       live.columns)

\* The live columns in the view's order, the ones it lacks at the end.
ColumnsInViewOrder(d) ==
  LET existing == IF d.view = Nothing THEN NoColumns ELSE Only(d.view.columns, live.columns)
  IN  With(existing, live.columns \ existing.names)

MutantSyncSourceTriggers(d) ==   \* the view and its own triggers only
  d

\* Every trigger that names the source is rebuilt from the code, none dropped.
SyncSourceTriggers(d) ==
  [d EXCEPT
     !.unique = IF ~live.unique THEN @
                ELSE [soft |-> live.soft, source |-> live.source, early |-> FALSE],
     !.reference = IF live.reference = "none" THEN @
                   ELSE [soft |-> live.soft, source |-> live.source,
                         keyed |-> live.reference = "keyed"]]

\* resync_view(), in one transaction: a view that cannot be replaced is dropped
\* and built again.  It fails where the base table lacks a column of the code's.
Resync(t) ==
  /\ live.exists /\ db[t].state.exists
  /\ Fields(live) \subseteq db[t].state.columns.names
  /\ LET view == View(ColumnsInViewOrder(db[t]), live.soft)
     IN  db' = [db EXCEPT ![t] = SyncSourceTriggers([@ EXCEPT !.view = view])]
  /\ astray' = IF InStep(db[t]) /\ db[t].view # Nothing THEN astray ELSE astray \cup {t}
  /\ UNCHANGED <<live, sameApp, history, edits>>

Next ==
  \/ Edit
  \/ \E apps \in IF sameApp THEN {{"model", "link"}} ELSE {{"model"}, {"link"}} :
     \E renamed \in {{}} \cup Renamable(StateAt(Len(history))) :
       MakeMigrations(apps, renamed)
  \/ \E t \in Tenant : Migrate(t) \/ MigrateBack(t) \/ Resync(t)

Spec == Init /\ [][Next]_vars

-----------------------------------------------------------------------------
(* Properties                                                              *)

Columns ==
  [names : SUBSET (Column \cup {Shadow}),
   before : SUBSET ((Column \cup {Shadow}) \X (Column \cup {Shadow}))]

\* One of any two columns comes first, and none comes before itself.
Ordered(columns) ==
  \A c, d \in columns.names :
    <<c, d>> \in columns.before <=> c # d /\ <<d, c>> \notin columns.before

States ==
  [exists : BOOLEAN, columns : Columns,
   unique : {"none", "full", "partial"}, reference : Reference]

Operations ==
  {"SyncOverlayView", "AddOverlayConstraint", "RemoveOverlayConstraint",
   "AddOverlayUniqueConstraint", "RemoveOverlayUniqueConstraint"}

Migrations ==
  [to : States, renamed : SUBSET Column, dropsView : BOOLEAN, operations : SUBSET Operations]

Views ==
  [columns : Columns, soft : BOOLEAN, overridable : BOOLEAN, source : Source]
References == [soft : BOOLEAN, source : Source, keyed : BOOLEAN]
Uniques    == [soft : BOOLEAN, source : Source, early : BOOLEAN]

Schemas ==
  [applied : Nat, state : States, view : Views \cup {Nothing},
   unique : Uniques \cup {Nothing}, reference : References \cup {Nothing}]

ASSUME NothingAssumption == Nothing \notin Views \cup References \cup Uniques

TypeOK ==
  /\ live \in Declaration /\ sameApp \in BOOLEAN
  /\ history \in Seq(Migrations)
  /\ db \in [Tenant -> Schemas]
  /\ \A t \in Tenant :
       /\ db[t].applied <= Len(history) /\ db[t].state = StateAt(db[t].applied)
       /\ ~db[t].state.exists => db[t].view = Nothing /\ db[t].unique = Nothing
       /\ Ordered(db[t].state.columns)
       /\ db[t].view # Nothing => Ordered(db[t].view.columns)
  /\ edits \in 0..MaxEdits /\ astray \subseteq Tenant

Steady == Tenant \ astray

\* Migrations written at any time apply, in order, to a schema at any point,
\* with whatever the code says by then (sync.py:20-32, MIGRATIONS.md:20-27).  Of
\* a model that is gone only the views can be replayed (operations.py:62-71).
MigrationsApply ==
  \A t \in Steady :
    db[t].applied < Len(history) =>
      LET m == history[db[t].applied + 1] IN
      live.exists \/ m.operations \subseteq {"SyncOverlayView", "RemoveOverlayConstraint"}
      => Forward(db[t], m) # {}

\* "Each has to reflect the shape that existed at that point in history, not
\* today's" (sync.py:50-56): at no point of a replay or of a rollback does the
\* view, or a link's trigger, name a column that the tables do not have.
NothingAheadOfItsMigration ==
  \A t \in Steady :
    LET d == db[t] IN
    /\ d.view # Nothing => Reads(d.view) \subseteq d.state.columns.names
    /\ d.reference # Nothing => /\ d.state.reference # "none"
                                /\ d.reference.soft /\ sameApp => SoftDeletes(d.state)
                                /\ d.reference.keyed => d.state.reference = "keyed"
    /\ d.unique # Nothing => /\ d.state.unique # "none"
                             /\ d.unique.soft => SoftDeletes(d.state) \/ d.unique.early

\* The shape of what is installed, the source aside.
Guards(d) ==
  /\ d.view # Nothing
  /\ d.view.columns.names = live.columns /\ d.view.soft = live.soft
  /\ d.unique # Nothing <=> live.unique
  /\ live.unique => d.unique.soft = live.soft \/ d.unique.early
  /\ d.reference # Nothing <=> live.reference # "none"
  /\ live.reference # "none" => d.reference.keyed = (live.reference = "keyed")

\* makemigrations appends all it takes (MIGRATIONS.md:20-27): a schema that has
\* applied everything, however it came there, has the view and each trigger the
\* code declares, in the code's shape, and no other.  A link declared in another
\* app keeps the shape that soft_delete had before (makemigrations.py:164-168),
\* and a uniqueness trigger the shape that the code had when it was replayed.
MigratedIsDeclared ==
  \A t \in Steady :
    db[t].applied = Len(history) /\ InStep(db[t]) =>
      IF live.exists
      THEN /\ Guards(db[t])
           /\ sameApp /\ live.reference # "none" => db[t].reference.soft = live.soft
      ELSE {db[t].view, db[t].unique, db[t].reference} = {Nothing}

\* "The old source or the new one and never a mixture" (sync.py:247-253): after
\* a resync in step with the migrations all that is installed is what the code
\* declares, source, soft_delete and overridable included.
ResyncRepairs ==
  [][\A t \in Tenant :
       Resync(t) /\ InStep(db[t]) /\ t \notin astray =>
         LET d == db'[t] IN
         /\ Guards(d)
         /\ d.view.source = live.source /\ d.view.overridable = live.overridable
         /\ live.unique => d.unique.source = live.source /\ d.unique.soft = live.soft
         /\ live.reference # "none" =>
              d.reference.source = live.source /\ d.reference.soft = live.soft]_vars
=============================================================================
