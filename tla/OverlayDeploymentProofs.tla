----------------------- MODULE OverlayDeploymentProofs -----------------------
(***************************************************************************)
(* Theorems about OverlayDeployment, for every set of columns, sources and *)
(* tenants and any number of edits, migrations, rollbacks and resyncs.  An *)
(* operation reads the code of today and a migration may be of any time,   *)
(* so what a schema holds is tied to the migrations it has applied, never  *)
(* to the code; the code matters only in that a model that is gone does    *)
(* not come back.                                                          *)
(***************************************************************************)
EXTENDS OverlayDeployment, TLAPS, SequenceTheorems

-----------------------------------------------------------------------------
(* Columns in an order                                                     *)

\* An order of the columns it names, and of no others.
Trimmed(columns) == columns.before \subseteq columns.names \X columns.names

\* What Postgres accepts in place of a view of the columns old.
Extends(columns, old) ==
  /\ old.names \subseteq columns.names
  /\ columns.before \cap (old.names \X old.names) = old.before
  /\ old.names \X (columns.names \ old.names) \subseteq columns.before

WellFormed(columns) == columns \in Columns /\ Ordered(columns) /\ Trimmed(columns)

\* No columns are in order.
LEMMA NoColumnsWellFormed == WellFormed(NoColumns)
BY DEF WellFormed, Columns, Ordered, Trimmed, NoColumns

\* Leaving columns out keeps the order of the others.
LEMMA OnlyWellFormed ==
  ASSUME NEW columns, WellFormed(columns), NEW C
  PROVE  /\ WellFormed(Only(columns, C))
         /\ Only(columns, C).names = columns.names \cap C
BY DEF WellFormed, Columns, Ordered, Trimmed, Only

\* New columns, appended by number, come after all there are.
LEMMA WithWellFormed ==
  ASSUME NEW columns, WellFormed(columns), NEW C \in SUBSET (Column \cup {Shadow}),
         columns.names \cap C = {}
  PROVE  /\ WellFormed(With(columns, C))
         /\ With(columns, C).names = columns.names \cup C
         /\ Extends(With(columns, C), columns)
<1> DEFINE w == With(columns, C)
<1>1. \A a \in columns.names \cup C : a \in Nat
  BY DeploymentAssumption DEF WellFormed, Columns
<1>2. /\ w.names = columns.names \cup C
      /\ w.before = columns.before \cup (columns.names \X C) \cup {p \in C \X C : p[1] < p[2]}
  BY DEF With
<1>3. w \in Columns /\ Trimmed(w)
  BY <1>2 DEF WellFormed, Columns, Trimmed, With
<1>4. ASSUME NEW a \in w.names, NEW b \in w.names
      PROVE  <<a, b>> \in w.before <=> a # b /\ <<b, a>> \notin w.before
  <2> HIDE DEF w
  <2>1. \A x, y : <<x, y>> \in w.before <=>
          \/ <<x, y>> \in columns.before
          \/ x \in columns.names /\ y \in C
          \/ x \in C /\ y \in C /\ x < y
    BY <1>2
  <2>2. \A x, y : <<x, y>> \in columns.before => x \in columns.names /\ y \in columns.names
    BY DEF WellFormed, Trimmed
  <2>3. CASE a \in columns.names /\ b \in columns.names
    BY <2>1, <2>2, <2>3 DEF WellFormed, Ordered
  <2>4. CASE a \in C /\ b \in C
    <3>1. a \in Nat /\ b \in Nat
      BY <1>1, <2>4
    <3> QED
      BY <2>1, <2>2, <2>4, <3>1
  <2>5. CASE a \in columns.names /\ b \in C
    BY <2>1, <2>2, <2>5
  <2>6. CASE a \in C /\ b \in columns.names
    BY <2>1, <2>2, <2>6
  <2> QED
    BY <1>2, <2>3, <2>4, <2>5, <2>6
<1>5. Extends(w, columns)
  BY <1>2 DEF WellFormed, Trimmed, Extends
<1> QED
  BY <1>2, <1>3, <1>4, <1>5 DEF WellFormed, Ordered

\* The columns of a new model: those of the class, the links last.
LEMMA CreatedWellFormed ==
  ASSUME NEW d \in Declaration
  PROVE  WellFormed(Created(d)) /\ Created(d).names = Fields(d)
<1> DEFINE own    == With(NoColumns, d.columns \ Link)
           shadow == With(own, IF d.soft THEN {Shadow} ELSE {})
<1>1. d.columns \subseteq Column /\ d.soft \in BOOLEAN /\ Shadow \notin Column
  BY DeploymentAssumption DEF Declaration
<1>2. WellFormed(own) /\ own.names = d.columns \ Link
  <2>1. /\ d.columns \ Link \in SUBSET (Column \cup {Shadow})
        /\ NoColumns.names \cap (d.columns \ Link) = {}
    BY <1>1 DEF NoColumns
  <2> QED
    BY <2>1, NoColumnsWellFormed, WithWellFormed DEF NoColumns
<1> HIDE DEF own
<1>3. WellFormed(shadow) /\ shadow.names = (d.columns \ Link) \cup IF d.soft THEN {Shadow} ELSE {}
  <2>1. /\ (IF d.soft THEN {Shadow} ELSE {}) \in SUBSET (Column \cup {Shadow})
        /\ own.names \cap (IF d.soft THEN {Shadow} ELSE {}) = {}
    BY <1>1, <1>2
  <2> QED
    BY <1>2, <2>1, WithWellFormed
<1> HIDE DEF shadow
<1>4. /\ d.columns \cap Link \in SUBSET (Column \cup {Shadow})
      /\ shadow.names \cap (d.columns \cap Link) = {}
  BY <1>1, <1>3
<1>5. Created(d) = With(shadow, d.columns \cap Link)
  BY DEF Created, shadow, own
<1> QED
  BY <1>3, <1>4, <1>5, WithWellFormed DEF Fields

\* The answers a developer can give: no field, or one that is there no more for
\* one that was not there.
Renames(state, d, renamed) ==
  \/ renamed = {}
  \/ \E c \in state.columns.names \ Fields(d), e \in Fields(d) \ state.columns.names :
       renamed = {c} /\ e # Shadow

\* The columns of an altered model: the fields of the class, those that stay in
\* the order they had and the new ones after them.
LEMMA AlteredWellFormed ==
  ASSUME NEW state, WellFormed(state.columns), NEW d \in Declaration, NEW renamed,
         Renames(state, d, renamed)
  PROVE  LET to == Altered(state, d, renamed) IN
         /\ WellFormed(to) /\ to.names = Fields(d)
         /\ renamed = {} /\ state.columns.names \subseteq Fields(d) =>
              Extends(to, state.columns)
<1> DEFINE have  == state.columns
           new   == CHOOSE e \in Fields(d) \ have.names : e # Shadow
           to(c) == IF c \in renamed THEN new ELSE c
           kept  == [names  |-> {to(c) : c \in have.names},
                     before |-> {<<to(p[1]), to(p[2])>> : p \in have.before}]
           stay  == Only(kept, Fields(d))
<1>1. Fields(d) \subseteq Column \cup {Shadow}
  BY DEF Fields, Declaration
<1>2. renamed # {} => new \in Fields(d) \ have.names
  BY DEF Renames
<1> HIDE DEF new
<1>3. /\ have.names \subseteq Column \cup {Shadow}
      /\ \A x, y : <<x, y>> \in have.before => x \in have.names /\ y \in have.names
      /\ \A p \in have.before : p = <<p[1], p[2]>>
  BY DEF WellFormed, Columns, Trimmed
<1>4. \A c, e \in have.names : to(c) = to(e) => c = e
  BY <1>2, <1>3 DEF Renames
<1>5. \A c \in have.names : to(c) \in Column \cup {Shadow}
  BY <1>1, <1>2, <1>3
<1>6. WellFormed(kept)
  <2>1. ASSUME NEW c \in have.names, NEW e \in have.names
        PROVE  <<to(c), to(e)>> \in kept.before <=> <<c, e>> \in have.before
    <3>1. kept.before = {<<to(p[1]), to(p[2])>> : p \in have.before}
      OBVIOUS
    <3> HIDE DEF kept, to
    <3>2. <<to(c), to(e)>> \in kept.before <=>
            \E p \in have.before : to(p[1]) = to(c) /\ to(p[2]) = to(e)
      BY <3>1
    <3>3. ASSUME NEW p \in have.before, to(p[1]) = to(c), to(p[2]) = to(e)
          PROVE  p = <<c, e>>
      <4>1. p = <<p[1], p[2]>> /\ p[1] \in have.names /\ p[2] \in have.names
        BY <1>3
      <4>2. p[1] = c /\ p[2] = e
        BY <1>4, <3>3, <4>1
      <4> QED
        BY <4>1, <4>2
    <3>4. <<c, e>>[1] = c /\ <<c, e>>[2] = e
      OBVIOUS
    <3> QED
      BY <3>2, <3>3, <3>4
  <2>2. kept \in Columns /\ Trimmed(kept)
    BY <1>3, <1>5 DEF Columns, Trimmed
  <2>3. Ordered(kept)
    <3> SUFFICES ASSUME NEW a \in kept.names, NEW b \in kept.names
                 PROVE  <<a, b>> \in kept.before <=> a # b /\ <<b, a>> \notin kept.before
      BY DEF Ordered
    <3>1. PICK c \in have.names, e \in have.names : a = to(c) /\ b = to(e)
      OBVIOUS
    <3>2. <<c, e>> \in have.before <=> c # e /\ <<e, c>> \notin have.before
      BY DEF WellFormed, Ordered
    <3> HIDE DEF kept, to
    <3> QED
      BY <2>1, <3>1, <3>2, <1>4
  <2> QED
    BY <2>2, <2>3 DEF WellFormed
<1>7. WellFormed(stay) /\ stay.names = kept.names \cap Fields(d)
  BY <1>6, OnlyWellFormed
<1>8. Altered(state, d, renamed) = With(stay, Fields(d) \ kept.names)
  BY DEF Altered, new
<1>9. renamed = {} => kept.names = have.names /\ kept.before = have.before
  BY <1>3
<1>10. renamed = {} /\ have.names \subseteq Fields(d) =>
         stay.names = have.names /\ stay.before = have.before
  BY <1>3, <1>9 DEF Only
<1> HIDE DEF kept, stay
<1>11. /\ Fields(d) \ kept.names \in SUBSET (Column \cup {Shadow})
       /\ stay.names \cap (Fields(d) \ kept.names) = {}
  BY <1>1, <1>7
<1>12. /\ WellFormed(With(stay, Fields(d) \ kept.names))
       /\ With(stay, Fields(d) \ kept.names).names = stay.names \cup (Fields(d) \ kept.names)
       /\ Extends(With(stay, Fields(d) \ kept.names), stay)
  BY <1>7, <1>11, WithWellFormed
<1>13. stay.names \cup (Fields(d) \ kept.names) = Fields(d)
  BY <1>7
<1> QED
  BY <1>8, <1>10, <1>12, <1>13 DEF Extends

-----------------------------------------------------------------------------
(* Applying and rolling back one migration, in closed form                 *)

Schema(applied, state, view, unique, reference) ==
  [applied |-> applied, state |-> state, view |-> view, unique |-> unique,
   reference |-> reference]

\* A schema is its five parts, and a change of one leaves the others.
LEMMA SchemaParts ==
  /\ \A d \in Schemas : d = Schema(d.applied, d.state, d.view, d.unique, d.reference)
  /\ \A a, s, v, u, r :
       LET d == Schema(a, s, v, u, r) IN
       d.applied = a /\ d.state = s /\ d.view = v /\ d.unique = u /\ d.reference = r
  /\ \A a, s, v, u, r, x : [Schema(a, s, v, u, r) EXCEPT !.applied = x] = Schema(x, s, v, u, r)
  /\ \A a, s, v, u, r, x : [Schema(a, s, v, u, r) EXCEPT !.state = x] = Schema(a, x, v, u, r)
  /\ \A a, s, v, u, r, x : [Schema(a, s, v, u, r) EXCEPT !.view = x] = Schema(a, s, x, u, r)
  /\ \A a, s, v, u, r, x : [Schema(a, s, v, u, r) EXCEPT !.unique = x] = Schema(a, s, v, x, r)
  /\ \A a, s, v, u, r, x : [Schema(a, s, v, u, r) EXCEPT !.reference = x] = Schema(a, s, v, u, x)
<1>1. \A d \in Schemas : d = Schema(d.applied, d.state, d.view, d.unique, d.reference)
  BY DEF Schemas, Schema
<1>2. \A a, s, v, u, r :
        LET d == Schema(a, s, v, u, r) IN
        d.applied = a /\ d.state = s /\ d.view = v /\ d.unique = u /\ d.reference = r
  BY DEF Schema
<1>3. \A a, s, v, u, r, x : [Schema(a, s, v, u, r) EXCEPT !.applied = x] = Schema(x, s, v, u, r)
  BY DEF Schema
<1>4. \A a, s, v, u, r, x : [Schema(a, s, v, u, r) EXCEPT !.state = x] = Schema(a, x, v, u, r)
  BY DEF Schema
<1>5. \A a, s, v, u, r, x : [Schema(a, s, v, u, r) EXCEPT !.view = x] = Schema(a, s, x, u, r)
  BY DEF Schema
<1>6. \A a, s, v, u, r, x : [Schema(a, s, v, u, r) EXCEPT !.unique = x] = Schema(a, s, v, x, r)
  BY DEF Schema
<1>7. \A a, s, v, u, r, x : [Schema(a, s, v, u, r) EXCEPT !.reference = x] = Schema(a, s, v, u, x)
  BY DEF Schema
<1> QED
  BY <1>1, <1>2, <1>3, <1>4, <1>5, <1>6, <1>7

\* What a migration's own operations leave, and when they succeed.
Performed(d, ops) ==
  Schema(
    d.applied,
    d.state,
    IF "SyncOverlayView" \in ops /\ live.exists
    THEN View(Declared(d.state.columns), SoftDeletes(d.state)) ELSE d.view,
    IF "AddOverlayUniqueConstraint" \in ops
    THEN [soft |-> live.soft, source |-> live.source, early |-> live.soft # SoftDeletes(d.state)]
    ELSE IF "RemoveOverlayUniqueConstraint" \in ops THEN Nothing ELSE d.unique,
    IF "AddOverlayConstraint" \in ops
    THEN [soft |-> SoftDeletes(d.state), source |-> live.source,
          keyed |-> d.state.reference = "keyed"]
    ELSE IF "RemoveOverlayConstraint" \in ops THEN Nothing ELSE d.reference)

Performs(d, ops) ==
  /\ ops \cap {"RemoveOverlayUniqueConstraint", "AddOverlayConstraint",
               "AddOverlayUniqueConstraint"} # {} => live.exists
  /\ "SyncOverlayView" \in ops /\ live.exists => Replaces(d.view, Declared(d.state.columns))

\* A migration's own operations give one database, or none.
LEMMA PerformIs ==
  ASSUME NEW d \in Schemas, NEW ops
  PROVE  Perform(d, ops) = IF Performs(d, ops) THEN {Performed(d, ops)} ELSE {}
<1> DEFINE freed == IF "RemoveOverlayUniqueConstraint" \in ops
                    THEN [d EXCEPT !.unique = Nothing] ELSE d
           synced == IF "SyncOverlayView" \in ops /\ live.exists
                     THEN [freed EXCEPT !.view = View(Declared(d.state.columns), SoftDeletes(d.state))]
                     ELSE freed
           removed == IF "RemoveOverlayConstraint" \in ops
                      THEN [synced EXCEPT !.reference = Nothing] ELSE synced
           added == IF "AddOverlayConstraint" \in ops
                    THEN [removed EXCEPT !.reference =
                            [soft |-> SoftDeletes(d.state), source |-> live.source,
                             keyed |-> d.state.reference = "keyed"]]
                    ELSE removed
           Freed == If("RemoveOverlayUniqueConstraint" \in ops, {d}, RemoveOverlayUniqueConstraint)
           Synced == If("SyncOverlayView" \in ops, Freed, SyncOverlayView)
           Removed == If("RemoveOverlayConstraint" \in ops, Synced, RemoveOverlayConstraint)
           Added == If("AddOverlayConstraint" \in ops, Removed, AddOverlayConstraint)
           mayFree == "RemoveOverlayUniqueConstraint" \in ops => live.exists
           maySync == "SyncOverlayView" \in ops /\ live.exists =>
                        Replaces(d.view, Declared(d.state.columns))
           mayAdd  == "AddOverlayConstraint" \in ops => live.exists
<1>1. Freed = IF mayFree THEN {freed} ELSE {}
  BY DEF If, Each, RemoveOverlayUniqueConstraint
<1>2. freed.state = d.state /\ freed.view = d.view
  BY DEF Schemas
<1> HIDE DEF Freed, freed
<1>3. Synced = IF mayFree /\ maySync THEN {synced} ELSE {}
  BY <1>1, <1>2 DEF If, Each, SyncOverlayView
<1>4. synced.state = d.state
  BY <1>2
<1> HIDE DEF Synced, synced
<1>5. Removed = IF mayFree /\ maySync THEN {removed} ELSE {}
  BY <1>3 DEF If, Each, RemoveOverlayConstraint
<1>6. removed.state = d.state
  BY <1>4
<1> HIDE DEF Removed, removed
<1>7. added.state = d.state
  BY <1>6
<1>8. Added = IF mayFree /\ maySync /\ mayAdd THEN {added} ELSE {}
  <2>1. "AddOverlayConstraint" \in ops =>
          AddOverlayConstraint(removed) = IF live.exists THEN {added} ELSE {}
    BY <1>6 DEF AddOverlayConstraint
  <2>2. "AddOverlayConstraint" \notin ops => added = removed
    OBVIOUS
  <2> HIDE DEF added
  <2> QED
    BY <1>5, <2>1, <2>2 DEF If, Each
<1> HIDE DEF Added, added
<1> DEFINE done == IF "AddOverlayUniqueConstraint" \in ops
                   THEN [added EXCEPT !.unique = [soft |-> live.soft, source |-> live.source,
                                                  early |-> live.soft # SoftDeletes(d.state)]]
                   ELSE added
<1>9. done = Performed(d, ops)
  BY DEF Performed, Schema, Schemas, added, removed, synced, freed
<1>10. /\ "AddOverlayUniqueConstraint" \in ops =>
            AddOverlayUniqueConstraint(added) = IF live.exists THEN {done} ELSE {}
       /\ "AddOverlayUniqueConstraint" \notin ops => done = added
  BY <1>7 DEF AddOverlayUniqueConstraint
<1> HIDE DEF done
<1>11. Perform(d, ops) = If("AddOverlayUniqueConstraint" \in ops, Added, AddOverlayUniqueConstraint)
  BY DEF Perform, Added, Removed, Synced, Freed
<1>12. Perform(d, ops) =
         IF mayFree /\ maySync /\ mayAdd
            /\ ("AddOverlayUniqueConstraint" \in ops => live.exists)
         THEN {done} ELSE {}
  BY <1>8, <1>10, <1>11 DEF If, Each
<1> QED
  BY <1>9, <1>12 DEF Performs

\* The schema a migration leaves, and when it applies.
ViewAfter(d, m) ==
  IF "SyncOverlayView" \in m.operations /\ live.exists
  THEN View(Declared(m.to.columns), SoftDeletes(m.to))
  ELSE IF m.dropsView THEN Nothing ELSE d.view
UniqueAfter(d, m) ==
  IF "AddOverlayUniqueConstraint" \in m.operations
  THEN [soft |-> live.soft, source |-> live.source, early |-> live.soft # SoftDeletes(m.to)]
  ELSE IF "RemoveOverlayUniqueConstraint" \in m.operations \/ ~m.to.exists
  THEN Nothing ELSE d.unique
LinkAfter(d, m) ==
  IF "AddOverlayConstraint" \in m.operations
  THEN [soft |-> SoftDeletes(m.to), source |-> live.source, keyed |-> m.to.reference = "keyed"]
  ELSE IF "RemoveOverlayConstraint" \in m.operations THEN Nothing ELSE d.reference

Moved(d, m) ==
  Schema(d.applied + 1, m.to, ViewAfter(d, m), UniqueAfter(d, m), LinkAfter(d, m))

Admits(d, m) ==
  LET view == IF m.dropsView THEN Nothing ELSE d.view IN
  /\ view # Nothing => m.to.exists /\ Reads(view) \ m.to.columns.names = m.renamed
  /\ m.operations \cap {"RemoveOverlayUniqueConstraint", "AddOverlayConstraint",
                        "AddOverlayUniqueConstraint"} # {} => live.exists
  /\ "SyncOverlayView" \in m.operations /\ live.exists =>
       Replaces(view, Declared(m.to.columns))

\* Dropping the view and reshaping the tables leave a schema.
LEMMA ReshapeIs ==
  ASSUME NEW d \in Schemas, NEW to \in States, NEW renamed
  PROVE  Reshape(d, to, renamed) =
           IF d.view # Nothing => to.exists /\ Reads(d.view) \ to.columns.names = renamed
           THEN {Schema(d.applied, to, d.view, IF to.exists THEN d.unique ELSE Nothing,
                        d.reference)}
           ELSE {}
<1> DEFINE stated == [d EXCEPT !.state = to]
           left   == IF to.exists THEN d.unique ELSE Nothing
           next   == [stated EXCEPT !.unique = left]
<1>1. next = Schema(d.applied, to, d.view, left, d.reference)
  <2>1. stated = Schema(d.applied, to, d.view, d.unique, d.reference)
    BY DEF Schemas, Schema
  <2> HIDE DEF stated
  <2> QED
    BY <2>1, SchemaParts
<1>2. Reshape(d, to, renamed) =
        IF d.view # Nothing => to.exists /\ Reads(d.view) \ to.columns.names = renamed
        THEN {next} ELSE {}
  BY DEF Reshape
<1> QED
  BY <1>1, <1>2

\* Migrating forwards gives the one schema of the closed form, or fails.
LEMMA ForwardIs ==
  ASSUME NEW d \in Schemas, NEW m \in Migrations
  PROVE  Forward(d, m) = IF Admits(d, m) THEN {Moved(d, m)} ELSE {}
<1> DEFINE view == IF m.dropsView THEN Nothing ELSE d.view
           left == IF m.to.exists THEN d.unique ELSE Nothing
           bare == Schema(d.applied, d.state, view, d.unique, d.reference)
           next == Schema(d.applied, m.to, view, left, d.reference)
           here == Schema(d.applied + 1, m.to, view, left, d.reference)
           may  == view # Nothing => m.to.exists /\ Reads(view) \ m.to.columns.names = m.renamed
<1>1. /\ m.to \in States /\ view \in Views \cup {Nothing} /\ left \in Uniques \cup {Nothing}
      /\ d = Schema(d.applied, d.state, d.view, d.unique, d.reference)
      /\ d.applied \in Nat /\ d.state \in States /\ d.unique \in Uniques \cup {Nothing}
      /\ d.reference \in References \cup {Nothing}
  BY SchemaParts DEF Migrations, Schemas
<1>2. here \in Schemas /\ bare \in Schemas
  BY <1>1 DEF Schemas, Schema
<1>3. Performed(here, m.operations) = Moved(d, m)
  <2>1. /\ here.applied = d.applied + 1 /\ here.state = m.to /\ here.view = view
        /\ here.unique = left /\ here.reference = d.reference
    BY SchemaParts
  <2> HIDE DEF here
  <2> QED
    BY <2>1 DEF Performed, Moved, ViewAfter, UniqueAfter, LinkAfter
<1>4. (IF m.dropsView THEN DropOverlayView(d) ELSE d) = bare
  BY <1>1, SchemaParts DEF DropOverlayView
<1>5. /\ [next EXCEPT !.applied = @ + 1] = here
      /\ bare.applied = d.applied /\ bare.view = view /\ bare.unique = d.unique
      /\ bare.reference = d.reference
  BY SchemaParts
<1>6. Reshape(bare, m.to, m.renamed) = IF may THEN {next} ELSE {}
  <2>1. next = Schema(bare.applied, m.to, bare.view,
                      IF m.to.exists THEN bare.unique ELSE Nothing, bare.reference)
    BY <1>5
  <2> HIDE DEF bare, next, view
  <2>2. Reshape(bare, m.to, m.renamed) =
          IF bare.view # Nothing => m.to.exists /\ Reads(bare.view) \ m.to.columns.names = m.renamed
          THEN {Schema(bare.applied, m.to, bare.view,
                       IF m.to.exists THEN bare.unique ELSE Nothing, bare.reference)}
          ELSE {}
    BY <1>1, <1>2, ReshapeIs
  <2> QED
    BY <1>5, <2>1, <2>2
<1>7. Perform(here, m.operations) =
        IF Performs(here, m.operations) THEN {Performed(here, m.operations)} ELSE {}
  <2> HIDE DEF here
  <2> QED
    BY <1>2, PerformIs
<1>8. Forward(d, m) = UNION {Perform([x EXCEPT !.applied = @ + 1], m.operations) :
                               x \in Reshape(bare, m.to, m.renamed)}
  BY <1>4 DEF Forward
<1>9. Forward(d, m) = IF may THEN Perform(here, m.operations) ELSE {}
  <2> DEFINE after(x) == Perform([x EXCEPT !.applied = @ + 1], m.operations)
  <2>1. after(next) = Perform(here, m.operations)
    BY <1>5
  <2>2. Forward(d, m) = UNION {after(x) : x \in Reshape(bare, m.to, m.renamed)}
    BY <1>8
  <2> HIDE DEF next, here, bare, after
  <2> QED
    BY <1>6, <2>1, <2>2
<1>10. Admits(d, m) <=> may /\ Performs(here, m.operations)
  BY SchemaParts DEF Admits, Performs
<1> QED
  BY <1>3, <1>7, <1>9, <1>10

\* The schema a rollback leaves, and when it applies.
MovedBack(d, m) ==
  LET to == StateAt(d.applied - 1) IN
  Schema(
    d.applied - 1,
    to,
    IF "SyncOverlayView" \in m.operations /\ live.exists THEN Nothing ELSE d.view,
    IF "AddOverlayUniqueConstraint" \in m.operations \/ ~to.exists THEN Nothing ELSE d.unique,
    IF "AddOverlayConstraint" \in m.operations THEN Nothing ELSE d.reference)

AdmitsBack(d, m) ==
  LET to   == StateAt(d.applied - 1)
      view == MovedBack(d, m).view
  IN  /\ view # Nothing => to.exists /\ Reads(view) \subseteq to.columns.names
      /\ m.operations \cap {"AddOverlayConstraint", "AddOverlayUniqueConstraint"} # {} =>
           live.exists

\* Rolling one migration back gives the one schema of the closed form, or fails.
LEMMA BackwardIs ==
  ASSUME NEW d \in Schemas, NEW m \in Migrations, d.applied > 0,
         StateAt(d.applied - 1) \in States
  PROVE  Backward(d, m) = IF AdmitsBack(d, m) THEN {MovedBack(d, m)} ELSE {}
<1> DEFINE to   == StateAt(d.applied - 1)
           view == IF "SyncOverlayView" \in m.operations /\ live.exists THEN Nothing ELSE d.view
           kept == IF "AddOverlayUniqueConstraint" \in m.operations THEN Nothing ELSE d.unique
           link == IF "AddOverlayConstraint" \in m.operations THEN Nothing ELSE d.reference
           free == Schema(d.applied, d.state, d.view, kept, d.reference)
           bare == Schema(d.applied, d.state, d.view, kept, link)
           done == Schema(d.applied, d.state, view, kept, link)
           here == Schema(d.applied - 1, d.state, view, kept, link)
           next == Schema(d.applied - 1, to, view, IF to.exists THEN kept ELSE Nothing, link)
           mayFree == "AddOverlayUniqueConstraint" \in m.operations => live.exists
           mayBare == "AddOverlayConstraint" \in m.operations => live.exists
           mayBack == view # Nothing => to.exists /\ Reads(view) \ to.columns.names = {}
<1>1. next = MovedBack(d, m) /\ view = MovedBack(d, m).view
  BY SchemaParts DEF MovedBack
<1>2. /\ d = Schema(d.applied, d.state, d.view, d.unique, d.reference)
      /\ view \in Views \cup {Nothing} /\ kept \in Uniques \cup {Nothing}
      /\ link \in References \cup {Nothing} /\ d.state \in States
      /\ d.applied - 1 \in Nat
  BY SchemaParts DEF Schemas
<1>3. here \in Schemas
  BY <1>2 DEF Schemas, Schema
<1>4. /\ here.applied = d.applied - 1 /\ here.view = view /\ here.unique = kept
      /\ here.reference = link
  BY SchemaParts
<1>5. Reshape(here, to, {}) = IF mayBack THEN {next} ELSE {}
  <2>1. next = Schema(here.applied, to, here.view,
                      IF to.exists THEN here.unique ELSE Nothing, here.reference)
    BY <1>4
  <2> HIDE DEF here, next, view
  <2>2. Reshape(here, to, {}) =
          IF here.view # Nothing => to.exists /\ Reads(here.view) \ to.columns.names = {}
          THEN {Schema(here.applied, to, here.view,
                       IF to.exists THEN here.unique ELSE Nothing, here.reference)}
          ELSE {}
    BY <1>3, ReshapeIs
  <2> QED
    BY <1>4, <2>1, <2>2
<1>6. /\ "AddOverlayUniqueConstraint" \in m.operations =>
           RemoveOverlayUniqueConstraint(d) = IF live.exists THEN {free} ELSE {}
      /\ "AddOverlayUniqueConstraint" \notin m.operations => free = d
  <2>1. [d EXCEPT !.unique = Nothing] = Schema(d.applied, d.state, d.view, Nothing, d.reference)
    BY DEF Schemas, Schema
  <2> QED
    BY <1>2, <2>1 DEF RemoveOverlayUniqueConstraint
<1>7. /\ "AddOverlayConstraint" \in m.operations => RemoveOverlayConstraint(free) = {bare}
      /\ "AddOverlayConstraint" \notin m.operations => bare = free
  BY SchemaParts DEF RemoveOverlayConstraint
<1>8. IF "SyncOverlayView" \in m.operations
      THEN (IF live.exists THEN DropOverlayView(bare) ELSE bare) = done
      ELSE bare = done
  BY SchemaParts DEF DropOverlayView
<1>9. [done EXCEPT !.applied = @ - 1] = here
  BY SchemaParts
<1> HIDE DEF next, free, bare, done, here
<1>10. Undo(d, m.operations) = IF mayFree /\ mayBare THEN {done} ELSE {}
  <2> DEFINE unsync(x)      == {IF live.exists THEN DropOverlayView(x) ELSE x}
             unreference(x) == IF live.exists THEN RemoveOverlayConstraint(x) ELSE {}
             Free == If("AddOverlayUniqueConstraint" \in m.operations, {d},
                        RemoveOverlayUniqueConstraint)
             Bare == If("AddOverlayConstraint" \in m.operations, Free, unreference)
  <2>1. Undo(d, m.operations) = If("SyncOverlayView" \in m.operations, Bare, unsync)
    BY DEF Undo
  <2>2. Free = IF mayFree THEN {free} ELSE {}
    BY <1>6 DEF If, Each
  <2> HIDE DEF Free
  <2>3. Bare = IF mayFree /\ mayBare THEN {bare} ELSE {}
    BY <1>7, <2>2 DEF If, Each
  <2> HIDE DEF Bare
  <2> QED
    BY <1>8, <2>1, <2>3 DEF If, Each
<1>11. Backward(d, m) = IF mayFree /\ mayBare THEN Reshape(here, to, {}) ELSE {}
  <2> DEFINE after(x) == Reshape([x EXCEPT !.applied = @ - 1], StateAt(d.applied - 1), {})
  <2>1. after(done) = Reshape(here, to, {})
    BY <1>9
  <2>2. Backward(d, m) = UNION {after(x) : x \in Undo(d, m.operations)}
    BY DEF Backward
  <2> HIDE DEF after
  <2> QED
    BY <1>10, <2>1, <2>2
<1>12. AdmitsBack(d, m) <=> mayFree /\ mayBare /\ mayBack
  BY <1>1 DEF AdmitsBack
<1> QED
  BY <1>1, <1>5, <1>11, <1>12

-----------------------------------------------------------------------------
(* Types                                                                   *)

\* The columns of a migration are in one order, and one that leaves no model
\* makes nothing for it.
MigrationTyped(m) ==
  /\ m \in Migrations /\ WellFormed(m.to.columns)
  /\ ~m.to.exists =>
       m.operations \cap {"SyncOverlayView", "AddOverlayUniqueConstraint"} = {}

HistoryTyped ==
  /\ history \in Seq(Migrations)
  /\ \A i \in 1..Len(history) : MigrationTyped(history[i])

SchemaTyped(d) ==
  /\ d \in Schemas /\ d.applied <= Len(history) /\ d.state = StateAt(d.applied)
  /\ ~d.state.exists => d.view = Nothing /\ d.unique = Nothing
  /\ d.view # Nothing => WellFormed(d.view.columns)

TypeInv ==
  /\ live \in Declaration /\ sameApp \in BOOLEAN
  /\ HistoryTyped
  /\ db \in [Tenant -> Schemas] /\ \A t \in Tenant : SchemaTyped(db[t])
  /\ edits \in 0..MaxEdits /\ astray \subseteq Tenant

\* The migrations lead from state to state, each well formed.
LEMMA StateAtType ==
  ASSUME HistoryTyped, NEW n \in 0..Len(history)
  PROVE  StateAt(n) \in States /\ WellFormed(StateAt(n).columns)
<1>1. CASE n = 0
  <2>1. Unmigrated \in States /\ WellFormed(Unmigrated.columns)
    BY NoColumnsWellFormed DEF Unmigrated, States, Reference, WellFormed
  <2> QED
    BY <1>1, <2>1 DEF StateAt
<1>2. CASE n # 0
  <2>1. n \in 1..Len(history)
    BY <1>2 DEF HistoryTyped
  <2>2. StateAt(n) = history[n].to
    BY <1>2 DEF StateAt
  <2> QED
    BY <2>1, <2>2 DEF HistoryTyped, MigrationTyped, Migrations
<1> QED
  BY <1>1, <1>2

\* One more migration leaves the ones before it, and their states, alone.
LEMMA AppendKeeps ==
  ASSUME HistoryTyped, NEW m \in Migrations, history' = Append(history, m)
  PROVE  /\ history' \in Seq(Migrations) /\ Len(history') = Len(history) + 1
         /\ history'[Len(history) + 1] = m
         /\ \A i \in 1..Len(history) : history'[i] = history[i]
         /\ \A n \in 0..Len(history) : StateAt(n)' = StateAt(n)
         /\ \A n : n = Len(history) + 1 => StateAt(n)' = m.to
<1>1. /\ history \in Seq(Migrations) /\ Len(history) \in Nat
      /\ history' \in Seq(Migrations) /\ Len(history') = Len(history) + 1
      /\ history'[Len(history) + 1] = m
      /\ \A i \in 1..Len(history) : history'[i] = history[i]
  BY DEF HistoryTyped
<1>2. \A n \in 0..Len(history) : StateAt(n)' = StateAt(n)
  BY <1>1 DEF StateAt
<1>3. \A n : n = Len(history) + 1 => StateAt(n)' = m.to
  BY <1>1 DEF StateAt
<1> QED
  BY <1>1, <1>2, <1>3

\* The state that makemigrations writes, and what it is made of.
LEMMA NextStateType ==
  ASSUME live \in Declaration, NEW from \in States, WellFormed(from.columns),
         NEW apps, NEW renamed, Renames(from, live, renamed) \/ ~live.exists \/ ~from.exists
  PROVE  LET to == NextState(from, live, renamed, apps) IN
         /\ to \in States /\ WellFormed(to.columns)
<1> DEFINE to   == NextState(from, live, renamed, apps)
           have == IF ~live.exists THEN NoColumns
                   ELSE IF from.exists THEN Altered(from, live, renamed) ELSE Created(live)
<1>1. WellFormed(have)
  BY NoColumnsWellFormed, CreatedWellFormed, AlteredWellFormed
<1>2. to.columns = IF "model" \in apps THEN have ELSE from.columns
  BY DEF NextState
<1>3. WellFormed(to.columns)
  BY <1>1, <1>2
<1>4. /\ to.exists \in BOOLEAN /\ to.unique \in {"none", "full", "partial"}
      /\ to.reference \in Reference
  BY DEF NextState, Constraint, Declaration, States
<1>5. to = [exists |-> to.exists, columns |-> to.columns, unique |-> to.unique,
            reference |-> to.reference]
  BY DEF NextState
<1> HIDE DEF to
<1>6. to \in States
  BY <1>3, <1>4, <1>5 DEF States, WellFormed
<1> QED
  BY <1>3, <1>6 DEF to

\* A schema stays typed while the migrations it has applied do.
LEMMA TypedOnAppend ==
  ASSUME HistoryTyped, NEW m \in Migrations, history' = Append(history, m),
         NEW d, SchemaTyped(d)
  PROVE  SchemaTyped(d)'
<1>1. d.applied \in 0..Len(history) /\ Len(history') = Len(history) + 1 /\ Len(history) \in Nat
  BY AppendKeeps DEF SchemaTyped, Schemas, HistoryTyped
<1>2. \A n : n = d.applied => StateAt(n)' = d.state
  BY <1>1, AppendKeeps DEF SchemaTyped
<1> QED
  BY <1>1, <1>2 DEF SchemaTyped

\* A rollback, a replay or a resync of one tenant leaves the others.
LEMMA TypedElsewhere ==
  ASSUME TypeInv, NEW t \in Tenant, NEW d \in Schemas, SchemaTyped(d),
         db' = [db EXCEPT ![t] = d], UNCHANGED <<live, sameApp, history, edits>>,
         astray' \in SUBSET Tenant
  PROVE  TypeInv'
<1>1. db' \in [Tenant -> Schemas] /\ \A u \in Tenant : db'[u] = IF u = t THEN d ELSE db[u]
  BY DEF TypeInv
<1>2. \A u : SchemaTyped(u)' <=> SchemaTyped(u)
  BY DEF SchemaTyped, StateAt
<1>3. \A u \in Tenant : SchemaTyped(db'[u])
  BY <1>1 DEF TypeInv
<1>4. HistoryTyped'
  BY DEF TypeInv, HistoryTyped
<1> QED
  BY <1>1, <1>2, <1>3, <1>4 DEF TypeInv

\* A view over migrated columns is one, and in order.
LEMMA ViewTyped ==
  ASSUME live \in Declaration, NEW columns, WellFormed(columns), NEW soft \in BOOLEAN
  PROVE  View(columns, soft) \in Views /\ WellFormed(View(columns, soft).columns)
BY DEF View, Views, Declaration, WellFormed

\* A schema that a migration leaves is typed.
LEMMA MovedTyped ==
  ASSUME TypeInv, NEW d, SchemaTyped(d), d.applied < Len(history),
         NEW m, m = history[d.applied + 1], Admits(d, m)
  PROVE  SchemaTyped(Moved(d, m)) /\ Moved(d, m) \in Schemas
<1> DEFINE n == Moved(d, m)
<1>1. d.applied \in Nat /\ Len(history) \in Nat /\ d.applied + 1 \in 1..Len(history)
      /\ d.applied + 1 \in 0..Len(history)
  BY DEF TypeInv, HistoryTyped, SchemaTyped, Schemas
<1>2. MigrationTyped(m) /\ m \in Migrations /\ m.to \in States /\ WellFormed(m.to.columns)
  BY <1>1 DEF TypeInv, HistoryTyped, MigrationTyped, Migrations
<1>3. /\ n.applied = d.applied + 1 /\ n.state = m.to /\ n.view = ViewAfter(d, m)
      /\ n.unique = UniqueAfter(d, m) /\ n.reference = LinkAfter(d, m)
  BY SchemaParts DEF Moved
<1>4. StateAt(d.applied + 1) = m.to
  BY <1>1 DEF StateAt
<1>5. SoftDeletes(m.to) \in BOOLEAN /\ live \in Declaration
  BY DEF SoftDeletes, TypeInv
<1>6. n.view # Nothing => n.view \in Views /\ WellFormed(n.view.columns)
  <2>1. WellFormed(Declared(m.to.columns))
    BY <1>2, OnlyWellFormed DEF Declared
  <2>2. d.view # Nothing => d.view \in Views /\ WellFormed(d.view.columns)
    BY DEF SchemaTyped, Schemas
  <2> QED
    BY <1>3, <1>5, <2>1, <2>2, ViewTyped DEF ViewAfter
<1>7. n.unique \in Uniques \cup {Nothing}
  BY <1>3, <1>5 DEF UniqueAfter, Uniques, SchemaTyped, Schemas, Declaration
<1>8. n.reference \in References \cup {Nothing}
  BY <1>3, <1>5 DEF LinkAfter, References, SchemaTyped, Schemas, Declaration
<1>9. ~m.to.exists => n.view = Nothing /\ n.unique = Nothing
  BY <1>2, <1>3 DEF ViewAfter, UniqueAfter, Admits, MigrationTyped
<1>10. n \in Schemas
  BY <1>1, <1>2, <1>3, <1>6, <1>7, <1>8 DEF Moved, Schema, Schemas
<1> HIDE DEF n
<1> QED
  BY <1>1, <1>3, <1>4, <1>6, <1>9, <1>10 DEF SchemaTyped, n

\* A schema that a rollback leaves is typed.
LEMMA MovedBackTyped ==
  ASSUME TypeInv, NEW d, SchemaTyped(d), d.applied > 0,
         NEW m, m = history[d.applied], AdmitsBack(d, m)
  PROVE  SchemaTyped(MovedBack(d, m)) /\ MovedBack(d, m) \in Schemas
<1> DEFINE n  == MovedBack(d, m)
           to == StateAt(d.applied - 1)
<1>1. d.applied \in Nat /\ Len(history) \in Nat /\ d.applied - 1 \in 0..Len(history)
  BY DEF TypeInv, HistoryTyped, SchemaTyped, Schemas
<1>2. to \in States /\ WellFormed(to.columns)
  BY <1>1, StateAtType DEF TypeInv
<1>3. /\ n.applied = d.applied - 1 /\ n.state = to
      /\ n.view = (IF "SyncOverlayView" \in m.operations /\ live.exists
                   THEN Nothing ELSE d.view)
      /\ n.unique = (IF "AddOverlayUniqueConstraint" \in m.operations \/ ~to.exists
                     THEN Nothing ELSE d.unique)
      /\ n.reference = (IF "AddOverlayConstraint" \in m.operations
                        THEN Nothing ELSE d.reference)
  BY SchemaParts DEF MovedBack
<1>4. n.view # Nothing => to.exists
  BY DEF AdmitsBack
<1>5. n \in Schemas
  BY <1>1, <1>2, <1>3 DEF MovedBack, Schema, SchemaTyped, Schemas
<1> HIDE DEF n, to
<1>6. n.view # Nothing => WellFormed(n.view.columns)
  BY <1>3 DEF SchemaTyped
<1> QED
  BY <1>1, <1>3, <1>4, <1>5, <1>6 DEF SchemaTyped, n, to

\* The schema a resync leaves.
Resynced(d) ==
  Schema(
    d.applied,
    d.state,
    View(ColumnsInViewOrder(d), live.soft),
    IF ~live.unique THEN d.unique
    ELSE [soft |-> live.soft, source |-> live.source, early |-> FALSE],
    IF live.reference = "none" THEN d.reference
    ELSE [soft |-> live.soft, source |-> live.source, keyed |-> live.reference = "keyed"])

\* Resyncing gives the one schema of the closed form.
LEMMA ResyncIs ==
  ASSUME NEW d \in Schemas
  PROVE  SyncSourceTriggers([d EXCEPT !.view = View(ColumnsInViewOrder(d), live.soft)]) =
           Resynced(d)
<1> DEFINE view  == View(ColumnsInViewOrder(d), live.soft)
           check == IF ~live.unique THEN d.unique
                    ELSE [soft |-> live.soft, source |-> live.source, early |-> FALSE]
           link  == IF live.reference = "none" THEN d.reference
                    ELSE [soft |-> live.soft, source |-> live.source,
                          keyed |-> live.reference = "keyed"]
           seen    == [d EXCEPT !.view = view]
           checked == [seen EXCEPT !.unique = check]
<1>1. seen = Schema(d.applied, d.state, view, d.unique, d.reference)
  BY DEF Schemas, Schema
<1>2. seen.unique = d.unique /\ seen.reference = d.reference
  BY <1>1, SchemaParts
<1> HIDE DEF seen
<1>3. SyncSourceTriggers(seen) = [checked EXCEPT !.reference = link]
  BY <1>2 DEF SyncSourceTriggers
<1>4. checked = Schema(d.applied, d.state, view, check, d.reference)
  <2> HIDE DEF check
  <2> QED
    BY <1>1, SchemaParts
<1> HIDE DEF checked, view, check, link
<1>5. [checked EXCEPT !.reference = link] = Schema(d.applied, d.state, view, check, link)
  BY <1>4, SchemaParts
<1> QED
  BY <1>3, <1>5 DEF Resynced, seen, view, check, link

\* The live columns in the view's order are the live columns.
LEMMA InViewOrder ==
  ASSUME live \in Declaration, NEW d, d.view # Nothing => WellFormed(d.view.columns)
  PROVE  /\ WellFormed(ColumnsInViewOrder(d))
         /\ ColumnsInViewOrder(d).names = live.columns
<1> DEFINE existing == IF d.view = Nothing THEN NoColumns ELSE Only(d.view.columns, live.columns)
           C == live.columns \ existing.names
<1>1. WellFormed(existing) /\ existing.names \subseteq live.columns
  BY NoColumnsWellFormed, OnlyWellFormed DEF NoColumns
<1> HIDE DEF existing
<1>2. C \in SUBSET (Column \cup {Shadow}) /\ existing.names \cap C = {}
  BY DEF Declaration
<1>3. WellFormed(With(existing, C)) /\ With(existing, C).names = existing.names \cup C
  BY <1>1, <1>2, WithWellFormed
<1>4. ColumnsInViewOrder(d) = With(existing, C)
  BY DEF ColumnsInViewOrder, existing
<1> QED
  BY <1>1, <1>3, <1>4

\* A schema that a resync leaves is typed.
LEMMA ResyncedTyped ==
  ASSUME TypeInv, NEW d, SchemaTyped(d), d.state.exists
  PROVE  SchemaTyped(Resynced(d)) /\ Resynced(d) \in Schemas
<1> DEFINE n == Resynced(d)
           view == View(ColumnsInViewOrder(d), live.soft)
<1>1. live \in Declaration /\ live.soft \in BOOLEAN
  BY DEF TypeInv, Declaration
<1>2. view \in Views /\ WellFormed(view.columns)
  BY <1>1, InViewOrder, ViewTyped DEF SchemaTyped
<1>3. n.applied = d.applied /\ n.state = d.state /\ n.view = view
  BY SchemaParts DEF Resynced
<1> HIDE DEF view
<1>4. n \in Schemas
  BY <1>1, <1>2 DEF Resynced, Schema, SchemaTyped, Schemas, Declaration, Uniques,
                    References, view
<1> HIDE DEF n
<1> QED
  BY <1>2, <1>3, <1>4 DEF SchemaTyped, n

\* An edited declaration is a declaration, and a model that is gone stays gone.
LEMMA EditsType ==
  ASSUME NEW d \in Declaration, NEW e \in Edits(d)
  PROVE  e \in Declaration /\ d.exists
<1>1. d.exists
  BY DEF Edits
<1> SUFFICES e \in Declaration
  BY <1>1
<1>2. CASE \E c \in Column : e = [d EXCEPT !.columns = (@ \cup {c}) \ (@ \cap {c})]
  BY <1>2 DEF Declaration
<1>3. CASE \E c \in d.columns, f \in Column \ d.columns :
             e = [d EXCEPT !.columns = (@ \ {c}) \cup {f}]
  BY <1>3 DEF Declaration
<1>4. CASE e \in {[d EXCEPT !.soft = ~@], [d EXCEPT !.unique = ~@], [d EXCEPT !.overridable = ~@]}
  BY <1>4 DEF Declaration
<1>5. CASE \E s \in Source : e = [d EXCEPT !.source = s]
  BY <1>5 DEF Declaration
<1>6. CASE \E r \in Reference : e = [d EXCEPT !.reference = r]
  BY <1>6 DEF Declaration
<1>7. CASE e = [d EXCEPT !.exists = FALSE]
  BY <1>7 DEF Declaration
<1> QED
  BY <1>1, <1>2, <1>3, <1>4, <1>5, <1>6, <1>7 DEF Edits

\* A developer is asked about a field that is gone and one that is new.
LEMMA RenamableType ==
  ASSUME NEW from \in States, NEW renamed \in {{}} \cup Renamable(from)
  PROVE  Renames(from, live, renamed) /\ renamed \in SUBSET Column
<1>1. CASE renamed = {}
  BY <1>1 DEF Renames
<1>2. CASE renamed # {}
  <2>1. PICK c \in (from.columns.names \ Fields(live)) \ {Shadow} : renamed = {c}
    BY <1>2 DEF Renamable
  <2>2. (Fields(live) \ from.columns.names) \ {Shadow} # {}
    BY <1>2 DEF Renamable
  <2> QED
    BY <2>1, <2>2 DEF Renames, States, Columns
<1> QED
  BY <1>1, <1>2

\* The migration that makemigrations appends.
Made(from, apps, renamed) ==
  LET to == NextState(from, live, renamed, apps) IN
  [to |-> to, renamed |-> renamed, dropsView |-> DropsView(from, to, renamed),
   operations |-> ExtraOps(from, to)]

\* It is well formed.
LEMMA MadeTyped ==
  ASSUME live \in Declaration, NEW from \in States, WellFormed(from.columns),
         NEW apps, NEW renamed \in {{}} \cup Renamable(from)
  PROVE  MigrationTyped(Made(from, apps, renamed)) /\ Made(from, apps, renamed) \in Migrations
<1> DEFINE to == NextState(from, live, renamed, apps)
           m  == Made(from, apps, renamed)
<1>1. Renames(from, live, renamed) /\ renamed \in SUBSET Column
  BY RenamableType
<1>2. to \in States /\ WellFormed(to.columns)
  BY <1>1, NextStateType
<1>3. /\ m.to = to /\ m.renamed = renamed /\ m.operations = ExtraOps(from, to)
      /\ m = [to |-> to, renamed |-> renamed, dropsView |-> DropsView(from, to, renamed),
              operations |-> ExtraOps(from, to)]
  BY DEF Made
<1> HIDE DEF to, m
<1>4. ExtraOps(from, to) \in SUBSET Operations
  BY DEF ExtraOps, Emit, Operations
<1>5. DropsView(from, to, renamed) \in BOOLEAN
  BY DEF DropsView, States
<1>6. ~to.exists => ExtraOps(from, to) \cap {"SyncOverlayView", "AddOverlayUniqueConstraint"} = {}
  BY DEF ExtraOps, Emit, Reshaped
<1>7. m \in Migrations
  BY <1>1, <1>2, <1>3, <1>4, <1>5 DEF Migrations
<1> QED
  BY <1>2, <1>3, <1>6, <1>7 DEF MigrationTyped, m

\* Each kind of step keeps the types.
LEMMA TypeInductive ==
  ASSUME TypeInv, [Next]_vars
  PROVE  TypeInv'
<1>1. ASSUME Edit
      PROVE  TypeInv'
  <2>1. live' \in Declaration
    BY <1>1, EditsType DEF Edit, TypeInv
  <2>2. edits' \in 0..MaxEdits
    BY <1>1, DeploymentAssumption DEF Edit, TypeInv
  <2>3. HistoryTyped' /\ \A u : SchemaTyped(u)' <=> SchemaTyped(u)
    BY <1>1 DEF Edit, TypeInv, HistoryTyped, SchemaTyped, StateAt
  <2> QED
    BY <1>1, <2>1, <2>2, <2>3 DEF Edit, TypeInv
<1>2. ASSUME NEW apps, NEW renamed \in {{}} \cup Renamable(StateAt(Len(history))),
             MakeMigrations(apps, renamed)
      PROVE  TypeInv'
  <2> DEFINE from == StateAt(Len(history))
             m    == Made(from, apps, renamed)
  <2>1. HistoryTyped /\ live \in Declaration /\ Len(history) \in 0..Len(history)
        /\ Len(history) \in Nat
    BY DEF TypeInv, HistoryTyped
  <2>2. from \in States /\ WellFormed(from.columns)
    BY <2>1, StateAtType
  <2>3. MigrationTyped(m) /\ m \in Migrations
    BY <2>1, <2>2, MadeTyped
  <2>4. history' = Append(history, m) /\ UNCHANGED <<live, sameApp, db, edits, astray>>
    BY <1>2 DEF MakeMigrations, Made
  <2> HIDE DEF m
  <2>5. HistoryTyped'
    <3>1. /\ history' \in Seq(Migrations) /\ Len(history') = Len(history) + 1
          /\ history'[Len(history) + 1] = m
          /\ \A i \in 1..Len(history) : history'[i] = history[i]
      BY <2>1, <2>3, <2>4, AppendKeeps
    <3>2. ASSUME NEW i \in 1..Len(history')
          PROVE  MigrationTyped(history'[i])
      <4>1. CASE i \in 1..Len(history)
        BY <2>1, <3>1, <4>1 DEF HistoryTyped
      <4>2. CASE i = Len(history) + 1
        BY <2>3, <3>1, <4>2
      <4> QED
        BY <2>1, <3>1, <4>1, <4>2
    <3> QED
      BY <3>1, <3>2 DEF HistoryTyped, MigrationTyped
  <2>6. \A u \in Tenant : SchemaTyped(db[u])'
    <3>1. ASSUME NEW u \in Tenant, NEW d, d = db[u]
          PROVE  SchemaTyped(d)'
      BY <2>1, <2>3, <2>4, <3>1, TypedOnAppend DEF TypeInv
    <3> QED
      BY <2>4, <3>1
  <2> QED
    BY <2>4, <2>5, <2>6 DEF TypeInv
<1>3. ASSUME NEW t \in Tenant, Migrate(t)
      PROVE  TypeInv'
  <2> DEFINE d == db[t]
             m == history[d.applied + 1]
  <2>1. SchemaTyped(d) /\ d \in Schemas /\ d.applied < Len(history)
    BY <1>3 DEF TypeInv, Migrate
  <2>2. m \in Migrations
    BY <2>1 DEF TypeInv, HistoryTyped, MigrationTyped, Schemas
  <2>3. Admits(d, m) /\ db' = [db EXCEPT ![t] = Moved(d, m)]
    BY <1>3, <2>1, <2>2, ForwardIs DEF Migrate
  <2>4. SchemaTyped(Moved(d, m)) /\ Moved(d, m) \in Schemas
    BY <2>1, <2>3, MovedTyped
  <2> QED
    BY <1>3, <2>3, <2>4, TypedElsewhere DEF Migrate, TypeInv
<1>4. ASSUME NEW t \in Tenant, MigrateBack(t)
      PROVE  TypeInv'
  <2> DEFINE d == db[t]
             m == history[d.applied]
  <2>1. SchemaTyped(d) /\ d \in Schemas /\ d.applied > 0
    BY <1>4 DEF TypeInv, MigrateBack
  <2>2. m \in Migrations
    BY <2>1 DEF TypeInv, HistoryTyped, MigrationTyped, SchemaTyped, Schemas
  <2>3. StateAt(d.applied - 1) \in States
    BY <2>1, StateAtType DEF TypeInv, HistoryTyped, SchemaTyped, Schemas
  <2>4. AdmitsBack(d, m) /\ db' = [db EXCEPT ![t] = MovedBack(d, m)]
    BY <1>4, <2>1, <2>2, <2>3, BackwardIs DEF MigrateBack
  <2>5. SchemaTyped(MovedBack(d, m)) /\ MovedBack(d, m) \in Schemas
    BY <2>1, <2>4, MovedBackTyped
  <2> QED
    BY <1>4, <2>4, <2>5, TypedElsewhere DEF MigrateBack, TypeInv
<1>5. ASSUME NEW t \in Tenant, Resync(t)
      PROVE  TypeInv'
  <2> DEFINE d == db[t]
  <2>1. SchemaTyped(d) /\ d \in Schemas /\ d.state.exists
    BY <1>5 DEF TypeInv, Resync
  <2>2. db' = [db EXCEPT ![t] = Resynced(d)]
    BY <1>5, <2>1, ResyncIs DEF Resync
  <2>3. SchemaTyped(Resynced(d)) /\ Resynced(d) \in Schemas
    BY <2>1, ResyncedTyped
  <2>4. astray' \in SUBSET Tenant
    BY <1>5 DEF Resync, TypeInv
  <2> QED
    BY <1>5, <2>2, <2>3, <2>4, TypedElsewhere DEF Resync
<1>6. CASE UNCHANGED vars
  BY <1>6 DEF vars, TypeInv, HistoryTyped, SchemaTyped, StateAt
<1> QED
  BY <1>1, <1>2, <1>3, <1>4, <1>5, <1>6 DEF Next

\* A project starts without migrations, and a tenant with an empty schema.
LEMMA TypeInit ==
  ASSUME Init
  PROVE  TypeInv
<1>1. Empty \in Schemas /\ Empty.applied = 0 /\ Empty.state = Unmigrated
      /\ Empty.view = Nothing /\ Empty.unique = Nothing
  <2>1. Unmigrated \in States
    BY NoColumnsWellFormed DEF Unmigrated, States, Reference, WellFormed
  <2> QED
    BY <2>1 DEF Empty, Schemas
<1>2. history \in Seq(Migrations) /\ Len(history) = 0
  BY DEF Init
<1>3. SchemaTyped(Empty)
  BY <1>1, <1>2 DEF SchemaTyped, StateAt
<1>4. HistoryTyped
  BY <1>2 DEF HistoryTyped
<1>5. db \in [Tenant -> Schemas] /\ \A t \in Tenant : db[t] = Empty
  BY <1>1 DEF Init
<1>6. edits \in 0..MaxEdits
  BY DeploymentAssumption DEF Init
<1> QED
  BY <1>3, <1>4, <1>5, <1>6, DeploymentAssumption DEF Init, TypeInv

\* TypeInv says what TypeOK does.
LEMMA TypeInvTypes ==
  ASSUME TypeInv
  PROVE  TypeOK
<1>1. ASSUME NEW t \in Tenant
      PROVE  /\ db[t].applied <= Len(history) /\ db[t].state = StateAt(db[t].applied)
             /\ ~db[t].state.exists => db[t].view = Nothing /\ db[t].unique = Nothing
             /\ Ordered(db[t].state.columns)
             /\ db[t].view # Nothing => Ordered(db[t].view.columns)
  <2>1. SchemaTyped(db[t])
    BY DEF TypeInv
  <2>2. HistoryTyped /\ db[t].applied \in 0..Len(history)
    BY <2>1 DEF TypeInv, HistoryTyped, SchemaTyped, Schemas
  <2> QED
    BY <2>1, <2>2, StateAtType DEF SchemaTyped, WellFormed
<1> QED
  BY <1>1 DEF TypeInv, TypeOK, HistoryTyped

\* The declaration, the migrations and every tenant's schema stay well formed,
\* whatever is renamed: the columns of a view and of a table are in one order, a
\* schema is at the migration it says, and a model that is not there has no view
\* and no trigger.
THEOREM DeploymentTypeCorrect == Spec => []TypeOK
<1>1. TypeInv /\ [Next]_vars => TypeInv'
  BY TypeInductive
<1>2. Init => TypeInv
  BY TypeInit
<1>3. TypeInv => TypeOK
  BY TypeInvTypes
<1> QED
  BY <1>1, <1>2, <1>3, PTL DEF Spec

-----------------------------------------------------------------------------
(* What a migration's operations follow from, whatever the code said about *)
(* everything else when it was written                                     *)

Toggled(from, to) ==
  from.exists /\ to.exists /\ ~(SoftDeletes(from) <=> SoftDeletes(to))
Relinked(from, to) == to.reference # from.reference \/ (sameApp /\ Toggled(from, to))
Switched(from, to) == to.unique # from.unique

\* A model that is not there has nothing, and a unique constraint is partial
\* exactly while its model has the shadow column.
StateInv(s) ==
  /\ ~s.exists => s.columns = NoColumns /\ s.unique = "none" /\ s.reference = "none"
  /\ s.unique # "none" => (s.unique = "partial" <=> SoftDeletes(s))

MigrationInv(from, m) ==
  LET to == m.to IN
  /\ StateInv(to)
  /\ m.dropsView <=> DropsView(from, to, m.renamed)
  /\ "SyncOverlayView" \in m.operations <=> Reshaped(from, to)
  /\ "RemoveOverlayUniqueConstraint" \in m.operations
       <=> to.exists /\ Switched(from, to) /\ from.unique # "none"
  /\ "AddOverlayUniqueConstraint" \in m.operations
       <=> Switched(from, to) /\ to.unique # "none"
  /\ "RemoveOverlayConstraint" \in m.operations
       <=> to.reference # from.reference /\ to.reference = "none"
  /\ "AddOverlayConstraint" \in m.operations
       <=> Relinked(from, to) /\ to.reference # "none"
  /\ live.exists /\ from.exists => to.exists

HistoryInv == \A i \in 1..Len(history) : MigrationInv(StateAt(i - 1), history[i])

\* Without renames a migration that leaves the view in place only adds columns.
Appends(from, m) ==
  /\ m.renamed = {}
  /\ from.exists /\ ~m.dropsView => m.to.exists /\ Extends(m.to.columns, from.columns)
HistoryAppends == \A i \in 1..Len(history) : Appends(StateAt(i - 1), history[i])

\* Every state the migrations lead to is as StateInv says.
LEMMA StateAtInv ==
  ASSUME HistoryTyped, HistoryInv, NEW n \in 0..Len(history)
  PROVE  StateInv(StateAt(n))
<1>1. CASE n = 0
  BY <1>1 DEF StateAt, StateInv, Unmigrated
<1>2. CASE n # 0
  <2>1. n \in 1..Len(history)
    BY <1>2 DEF HistoryTyped
  <2> QED
    BY <1>2, <2>1 DEF StateAt, HistoryInv, MigrationInv
<1> QED
  BY <1>1, <1>2

\* makemigrations appends such a migration.
LEMMA MadeInv ==
  ASSUME live \in Declaration, sameApp \in BOOLEAN, NEW from \in States,
         WellFormed(from.columns), StateInv(from),
         NEW apps \in IF sameApp THEN {{"model", "link"}} ELSE {{"model"}, {"link"}},
         NEW renamed \in {{}} \cup Renamable(from),
         NEW to, to = NextState(from, live, renamed, apps), to.reference # "none" => to.exists
  PROVE  /\ MigrationInv(from, Made(from, apps, renamed))
         /\ renamed = {} => Appends(from, Made(from, apps, renamed))
<1> DEFINE m == Made(from, apps, renamed)
<1>1. /\ m.to = to /\ m.renamed = renamed /\ m.dropsView = DropsView(from, to, renamed)
      /\ m.operations = ExtraOps(from, to)
  BY DEF Made
<1>2. /\ to.exists = (IF "model" \in apps THEN live.exists ELSE from.exists)
      /\ to.unique = (IF "model" \in apps
                      THEN IF live.exists THEN Constraint(live) ELSE "none"
                      ELSE from.unique)
      /\ to.reference = (IF "link" \in apps THEN live.reference ELSE from.reference)
      /\ to.columns = (IF "model" \in apps
                       THEN IF ~live.exists THEN NoColumns
                            ELSE IF from.exists THEN Altered(from, live, renamed)
                            ELSE Created(live)
                       ELSE from.columns)
  BY DEF NextState
<1>3. to.exists \in BOOLEAN /\ from.exists \in BOOLEAN /\ live.exists \in BOOLEAN
  BY <1>2 DEF States, Declaration
<1>4. "model" \in apps /\ live.exists => to.columns.names = Fields(live)
  BY <1>2, CreatedWellFormed, AlteredWellFormed, RenamableType
<1>5. renamed = {} /\ from.exists /\ to.exists /\ from.columns.names \subseteq to.columns.names =>
        Extends(to.columns, from.columns)
  <2>1. CASE "model" \in apps
    BY <1>2, <1>4, <2>1, AlteredWellFormed, RenamableType
  <2>2. CASE "model" \notin apps
    BY <1>2, <2>2 DEF Extends, WellFormed, Trimmed
  <2> QED
    BY <2>1, <2>2
<1>6. StateInv(to)
  <2>1. CASE "model" \in apps
    <3>1. Shadow \in Fields(live) <=> live.soft
      BY DeploymentAssumption DEF Fields, Declaration
    <3> QED
      BY <1>2, <1>4, <2>1, <3>1 DEF StateInv, SoftDeletes, Constraint
  <2>2. CASE "model" \notin apps
    BY <1>2, <2>2 DEF StateInv, SoftDeletes
  <2> QED
    BY <2>1, <2>2
<1>7. "model" \notin apps =>
        /\ ~Reshaped(from, to) /\ ~Switched(from, to) /\ ~sameApp
  BY <1>2 DEF Reshaped, Switched
<1>8. sameApp => to.reference = live.reference
  BY <1>2
<1>9. /\ "SyncOverlayView" \in m.operations <=> Reshaped(from, to)
      /\ "RemoveOverlayUniqueConstraint" \in m.operations
           <=> to.exists /\ Switched(from, to) /\ from.unique # "none"
      /\ "AddOverlayUniqueConstraint" \in m.operations
           <=> Switched(from, to) /\ to.unique # "none"
  <2>1. Reshaped(from, to) => to.exists /\ live.exists
    BY <1>2, <1>7 DEF Reshaped
  <2>2. Switched(from, to) /\ to.exists => live.exists
    BY <1>2, <1>7
  <2>3. to.unique # "none" => to.exists
    BY <1>6 DEF StateInv
  <2> HIDE DEF m
  <2> QED
    BY <1>1, <2>1, <2>2, <2>3 DEF ExtraOps, Emit, Switched
<1>10. /\ "RemoveOverlayConstraint" \in m.operations
            <=> to.reference # from.reference /\ to.reference = "none"
       /\ "AddOverlayConstraint" \in m.operations
            <=> Relinked(from, to) /\ to.reference # "none"
  <2>1. SoftDeletes(from) # SoftDeletes(to) <=> ~(SoftDeletes(from) <=> SoftDeletes(to))
    BY DEF SoftDeletes
  <2>2. /\ "RemoveOverlayConstraint" \in ExtraOps(from, to)
             <=> to.reference # from.reference /\ to.reference = "none"
        /\ "AddOverlayConstraint" \in ExtraOps(from, to)
             <=> \/ to.reference # from.reference /\ to.reference # "none"
                 \/ /\ from.exists /\ to.exists /\ SoftDeletes(from) # SoftDeletes(to)
                    /\ sameApp /\ live.reference # "none"
    BY DEF ExtraOps, Emit
  <2> HIDE DEF m
  <2> QED
    BY <1>1, <1>8, <2>1, <2>2 DEF Relinked, Toggled
<1>11. renamed = {} /\ from.exists /\ ~DropsView(from, to, renamed) =>
         to.exists /\ from.columns.names \subseteq to.columns.names
  BY DEF DropsView
<1>12. live.exists /\ from.exists => to.exists
  BY <1>2
<1> HIDE DEF m
<1> QED
  BY <1>1, <1>5, <1>6, <1>9, <1>10, <1>11, <1>12 DEF MigrationInv, Appends, m

\* A migration after the first n that rebuilds the view, or the triggers.
ViewAhead(n)   == \E j \in (n + 1)..Len(history) : Reshaped(StateAt(j - 1), StateAt(j))
UniqueAhead(n) == \E j \in (n + 1)..Len(history) : Switched(StateAt(j - 1), StateAt(j))
LinkAhead(n)   == \E j \in (n + 1)..Len(history) : Relinked(StateAt(j - 1), StateAt(j))

\* What is installed has the shape of the migrations applied, and what is not
\* although they declare it is what a rollback dropped: a later one rebuilds it.
ViewInv(d) ==
  /\ live.exists /\ d.view # Nothing =>
       d.view.columns = Declared(d.state.columns) /\ (d.view.soft <=> SoftDeletes(d.state))
  /\ live.exists /\ d.state.exists /\ d.view = Nothing => ViewAhead(d.applied)
UniqueInv(d) ==
  /\ d.unique # Nothing => /\ d.state.unique # "none"
                           /\ (d.unique.soft <=> SoftDeletes(d.state)) \/ d.unique.early
  /\ d.unique = Nothing /\ d.state.unique # "none" => UniqueAhead(d.applied)
LinkInv(d) ==
  /\ d.reference # Nothing =>
       /\ d.state.reference # "none"
       /\ d.reference.keyed <=> d.state.reference = "keyed"
       /\ sameApp => (d.reference.soft <=> SoftDeletes(d.state))
  /\ d.reference = Nothing /\ d.state.reference # "none" => LinkAhead(d.applied)

ShapeInv(d) == ViewInv(d) /\ UniqueInv(d) /\ LinkInv(d)

SteadyInv == \A t \in Steady : ShapeInv(db[t])

\* Without renames, and however it was resynced, no view reads what is not there.
ReadsInv ==
  \A t \in Tenant : db[t].view # Nothing => Reads(db[t].view) \subseteq db[t].state.columns.names

\* What is ahead of a schema stays ahead when it moves by a migration that does
\* not rebuild it, and a rollback puts one more migration ahead.
LEMMA AheadMoves ==
  ASSUME HistoryTyped, NEW n \in 0..Len(history), n < Len(history)
  PROVE  LET from == StateAt(n)
             to   == StateAt(n + 1)
         IN  /\ ViewAhead(n)   <=> Reshaped(from, to) \/ ViewAhead(n + 1)
             /\ UniqueAhead(n) <=> Switched(from, to) \/ UniqueAhead(n + 1)
             /\ LinkAhead(n)   <=> Relinked(from, to) \/ LinkAhead(n + 1)
<1>1. /\ n \in Nat /\ Len(history) \in Nat /\ n + 1 \in (n + 1)..Len(history)
      /\ (n + 1)..Len(history) = {n + 1} \cup (n + 1 + 1)..Len(history)
      /\ (n + 1) - 1 = n
  BY DEF HistoryTyped
<1>2. ViewAhead(n) <=> Reshaped(StateAt(n), StateAt(n + 1)) \/ ViewAhead(n + 1)
  BY <1>1 DEF ViewAhead
<1>3. UniqueAhead(n) <=> Switched(StateAt(n), StateAt(n + 1)) \/ UniqueAhead(n + 1)
  BY <1>1 DEF UniqueAhead
<1>4. LinkAhead(n) <=> Relinked(StateAt(n), StateAt(n + 1)) \/ LinkAhead(n + 1)
  BY <1>1 DEF LinkAhead
<1> QED
  BY <1>2, <1>3, <1>4

\* The columns a view is built with, and that Postgres lets it be replaced by.
LEMMA ExtendsReplaces ==
  ASSUME NEW from, NEW to, WellFormed(from), WellFormed(to), Extends(to, from),
         NEW view, view # Nothing => view.columns = Declared(from)
  PROVE  Replaces(view, Declared(to))
<1> SUFFICES ASSUME view # Nothing
             PROVE  /\ Declared(from) = Only(Declared(to), Declared(from).names)
                    /\ Declared(from).names \X (Declared(to).names \ Declared(from).names)
                         \subseteq Declared(to).before
  BY DEF Replaces
<1>1. /\ Declared(from).names = from.names \cap Column
      /\ Declared(from).before = from.before \cap (Column \X Column)
      /\ Declared(to).names = to.names \cap Column
      /\ Declared(to).before = to.before \cap (Column \X Column)
      /\ Declared(from) = [names |-> Declared(from).names, before |-> Declared(from).before]
  BY DEF Declared, Only
<1>2. /\ from.names \subseteq to.names
      /\ to.before \cap (from.names \X from.names) = from.before
      /\ from.names \X (to.names \ from.names) \subseteq to.before
  BY DEF Extends
<1>3. Declared(from).names = Declared(to).names \cap Declared(from).names
  BY <1>1, <1>2
<1>4. Declared(from).before =
        Declared(to).before \cap (Declared(from).names \X Declared(from).names)
  BY <1>1, <1>2
<1>5. Only(Declared(to), Declared(from).names) =
        [names  |-> Declared(to).names \cap Declared(from).names,
         before |-> Declared(to).before \cap (Declared(from).names \X Declared(from).names)]
  BY DEF Only
<1>6. Declared(from) = Only(Declared(to), Declared(from).names)
  BY <1>1, <1>3, <1>4, <1>5
<1>7. Declared(from).names \X (Declared(to).names \ Declared(from).names)
        \subseteq Declared(to).before
  BY <1>1, <1>2
<1> QED
  BY <1>6, <1>7

\* What is known of the migration between two states.
LEMMA Between ==
  ASSUME TypeInv, HistoryInv, NEW n \in 0..Len(history), n < Len(history),
         NEW m, m = history[n + 1]
  PROVE  LET from == StateAt(n)
             to   == StateAt(n + 1)
         IN  /\ from \in States /\ WellFormed(from.columns) /\ StateInv(from)
             /\ to \in States /\ WellFormed(to.columns) /\ StateInv(to)
             /\ m \in Migrations /\ m.to = to /\ MigrationInv(from, m)
<1>1. /\ HistoryTyped /\ n \in Nat /\ Len(history) \in Nat
      /\ n + 1 \in 0..Len(history) /\ n + 1 \in 1..Len(history)
      /\ (n + 1) - 1 = n
  BY DEF TypeInv, HistoryTyped
<1>2. StateAt(n + 1) = m.to
  BY <1>1 DEF StateAt
<1>3. m \in Migrations
  BY <1>1 DEF HistoryTyped, MigrationTyped
<1>4. MigrationInv(StateAt((n + 1) - 1), m)
  BY <1>1 DEF HistoryInv
<1> QED
  BY <1>1, <1>2, <1>3, <1>4, StateAtType, StateAtInv

\* A migration leaves a view, or its absence, as the migrations say.
LEMMA MovedView ==
  ASSUME TypeInv, HistoryInv, NEW d, SchemaTyped(d), ViewInv(d), d.applied < Len(history),
         NEW m, m = history[d.applied + 1], Admits(d, m)
  PROVE  ViewInv(Moved(d, m))
<1> DEFINE from == d.state
           to   == m.to
           n    == Moved(d, m)
           k    == d.applied
           built == View(Declared(to.columns), SoftDeletes(to))
<1>1. /\ k \in 0..Len(history) /\ from = StateAt(k) /\ to = StateAt(k + 1)
      /\ from \in States /\ to \in States /\ WellFormed(to.columns) /\ MigrationInv(from, m)
      /\ HistoryTyped /\ live \in Declaration
  BY Between DEF SchemaTyped, Schemas, TypeInv, HistoryTyped
<1>2. n.applied = k + 1 /\ n.state = to /\ n.view = ViewAfter(d, m)
  BY SchemaParts DEF Moved
<1>3. ViewAhead(k) <=> Reshaped(from, to) \/ ViewAhead(k + 1)
  BY <1>1, AheadMoves
<1>4. "SyncOverlayView" \in m.operations <=> Reshaped(from, to)
  BY <1>1 DEF MigrationInv
<1>5. m.dropsView <=> DropsView(from, to, m.renamed)
  BY <1>1 DEF MigrationInv
<1> SUFFICES ViewInv(n)
  OBVIOUS
<1> HIDE DEF n, to, from
<1>6. CASE "SyncOverlayView" \in m.operations /\ live.exists
  <2>1. n.view = built
    BY <1>2, <1>6 DEF ViewAfter, to
  <2>2. built # Nothing
    <3>1. WellFormed(Declared(to.columns)) /\ SoftDeletes(to) \in BOOLEAN
      BY <1>1, OnlyWellFormed DEF Declared, SoftDeletes
    <3> QED
      BY <1>1, <3>1, ViewTyped, NothingAssumption
  <2>3. built.columns = Declared(to.columns) /\ built.soft = SoftDeletes(to)
    BY DEF View
  <2> HIDE DEF built
  <2> QED
    BY <1>2, <2>1, <2>2, <2>3 DEF ViewInv
<1>7. CASE ~("SyncOverlayView" \in m.operations /\ live.exists) /\ m.dropsView
  <2>1. n.view = Nothing
    BY <1>2, <1>7 DEF ViewAfter
  <2>2. ~(live.exists /\ to.exists)
    BY <1>4, <1>5, <1>7 DEF Reshaped, DropsView
  <2> QED
    BY <1>2, <2>1, <2>2 DEF ViewInv
<1>8. CASE ~("SyncOverlayView" \in m.operations /\ live.exists) /\ ~m.dropsView
  <2>1. n.view = d.view
    BY <1>2, <1>8 DEF ViewAfter
  <2>2. d.view # Nothing => to.exists
    BY <1>8 DEF Admits, to
  <2>3. live.exists /\ to.exists => ~Reshaped(from, to) /\ from.exists /\ to.columns = from.columns
    BY <1>4, <1>8 DEF Reshaped
  <2>4. live.exists /\ to.exists => (SoftDeletes(to) <=> SoftDeletes(from))
    BY <2>3 DEF SoftDeletes
  <2> QED
    BY <1>2, <1>3, <2>1, <2>2, <2>3, <2>4 DEF ViewInv, from
<1> QED
  BY <1>6, <1>7, <1>8

\* The same of the uniqueness trigger.
LEMMA MovedUnique ==
  ASSUME TypeInv, HistoryInv, NEW d, SchemaTyped(d), UniqueInv(d), d.applied < Len(history),
         NEW m, m = history[d.applied + 1], Admits(d, m)
  PROVE  UniqueInv(Moved(d, m))
<1> DEFINE from == d.state
           to   == m.to
           n    == Moved(d, m)
           k    == d.applied
           built == [soft |-> live.soft, source |-> live.source,
                     early |-> live.soft # SoftDeletes(to)]
<1>1. /\ k \in 0..Len(history) /\ from = StateAt(k) /\ to = StateAt(k + 1)
      /\ StateInv(from) /\ StateInv(to) /\ MigrationInv(from, m)
      /\ HistoryTyped /\ live \in Declaration
  BY Between DEF SchemaTyped, Schemas, TypeInv, HistoryTyped
<1>2. n.applied = k + 1 /\ n.state = to /\ n.unique = UniqueAfter(d, m)
  BY SchemaParts DEF Moved
<1>3. UniqueAhead(k) <=> Switched(from, to) \/ UniqueAhead(k + 1)
  BY <1>1, AheadMoves
<1>4. /\ "RemoveOverlayUniqueConstraint" \in m.operations
           <=> to.exists /\ Switched(from, to) /\ from.unique # "none"
      /\ "AddOverlayUniqueConstraint" \in m.operations
           <=> Switched(from, to) /\ to.unique # "none"
  BY <1>1 DEF MigrationInv
<1> SUFFICES UniqueInv(n)
  OBVIOUS
<1> HIDE DEF n, to, from
<1>5. CASE "AddOverlayUniqueConstraint" \in m.operations
  <2>1. n.unique = built
    BY <1>2, <1>5 DEF UniqueAfter, to
  <2>2. SoftDeletes(to) \in BOOLEAN /\ live.soft \in BOOLEAN /\ live.source \in Source
    BY <1>1 DEF SoftDeletes, Declaration
  <2>3. built \in Uniques
    BY <2>2 DEF Uniques
  <2>4. (built.soft <=> SoftDeletes(to)) \/ built.early
    BY <2>2
  <2> HIDE DEF built
  <2> QED
    BY <1>2, <1>4, <1>5, <2>1, <2>3, <2>4, NothingAssumption DEF UniqueInv
<1>6. CASE /\ "AddOverlayUniqueConstraint" \notin m.operations
           /\ "RemoveOverlayUniqueConstraint" \in m.operations \/ ~to.exists
  <2>1. n.unique = Nothing
    BY <1>2, <1>6 DEF UniqueAfter, to
  <2>2. to.unique = "none"
    BY <1>1, <1>4, <1>6 DEF StateInv
  <2> QED
    BY <1>2, <2>1, <2>2 DEF UniqueInv
<1>7. CASE /\ "AddOverlayUniqueConstraint" \notin m.operations
           /\ "RemoveOverlayUniqueConstraint" \notin m.operations /\ to.exists
  <2>1. n.unique = d.unique
    BY <1>2, <1>7 DEF UniqueAfter, to
  <2>2. to.unique = from.unique /\ ~Switched(from, to)
    BY <1>4, <1>7 DEF Switched
  <2>3. to.unique # "none" => (SoftDeletes(to) <=> SoftDeletes(from))
    BY <1>1, <2>2 DEF StateInv
  <2> QED
    BY <1>2, <1>3, <2>1, <2>2, <2>3 DEF UniqueInv, from
<1> QED
  BY <1>5, <1>6, <1>7

\* The same of the link's triggers.
LEMMA MovedLink ==
  ASSUME TypeInv, HistoryInv, NEW d, SchemaTyped(d), LinkInv(d), d.applied < Len(history),
         NEW m, m = history[d.applied + 1], Admits(d, m)
  PROVE  LinkInv(Moved(d, m))
<1> DEFINE from == d.state
           to   == m.to
           n    == Moved(d, m)
           k    == d.applied
           built == [soft |-> SoftDeletes(to), source |-> live.source,
                     keyed |-> to.reference = "keyed"]
<1>1. /\ k \in 0..Len(history) /\ from = StateAt(k) /\ to = StateAt(k + 1)
      /\ StateInv(from) /\ StateInv(to) /\ MigrationInv(from, m)
      /\ HistoryTyped /\ live \in Declaration
  BY Between DEF SchemaTyped, Schemas, TypeInv, HistoryTyped
<1>2. n.applied = k + 1 /\ n.state = to /\ n.reference = LinkAfter(d, m)
  BY SchemaParts DEF Moved
<1>3. LinkAhead(k) <=> Relinked(from, to) \/ LinkAhead(k + 1)
  BY <1>1, AheadMoves
<1>4. /\ "RemoveOverlayConstraint" \in m.operations
           <=> to.reference # from.reference /\ to.reference = "none"
      /\ "AddOverlayConstraint" \in m.operations
           <=> Relinked(from, to) /\ to.reference # "none"
  BY <1>1 DEF MigrationInv
<1> SUFFICES LinkInv(n)
  OBVIOUS
<1> HIDE DEF n, to, from
<1>5. CASE "AddOverlayConstraint" \in m.operations
  <2>1. n.reference = built
    BY <1>2, <1>5 DEF LinkAfter, to
  <2>2. SoftDeletes(to) \in BOOLEAN /\ live.source \in Source
    BY <1>1 DEF SoftDeletes, Declaration
  <2>3. built \in References
    BY <2>2 DEF References
  <2>4. (built.soft <=> SoftDeletes(to)) /\ (built.keyed <=> to.reference = "keyed")
    BY <2>2
  <2> HIDE DEF built
  <2> QED
    BY <1>2, <1>4, <1>5, <2>1, <2>3, <2>4, NothingAssumption DEF LinkInv
<1>6. CASE /\ "AddOverlayConstraint" \notin m.operations
           /\ "RemoveOverlayConstraint" \in m.operations
  <2>1. n.reference = Nothing
    BY <1>2, <1>6 DEF LinkAfter
  <2> QED
    BY <1>2, <1>4, <1>6, <2>1 DEF LinkInv
<1>7. CASE /\ "AddOverlayConstraint" \notin m.operations
           /\ "RemoveOverlayConstraint" \notin m.operations
  <2>1. n.reference = d.reference
    BY <1>2, <1>7 DEF LinkAfter
  <2>2. CASE to.reference = "none"
    BY <1>2, <1>4, <1>7, <2>1, <2>2 DEF LinkInv, from
  <2>3. CASE to.reference # "none"
    <3>1. to.reference = from.reference /\ ~Relinked(from, to)
      BY <1>4, <1>7, <2>3 DEF Relinked
    <3>2. to.exists /\ from.exists
      BY <1>1, <2>3, <3>1 DEF StateInv
    <3>3. sameApp => (SoftDeletes(to) <=> SoftDeletes(from))
      BY <3>1, <3>2 DEF Relinked, Toggled
    <3> QED
      BY <1>2, <1>3, <2>1, <3>1, <3>3 DEF LinkInv, from
  <2> QED
    BY <2>2, <2>3
<1> QED
  BY <1>5, <1>6, <1>7

\* What is known of a schema that rolls one migration back.
LEMMA Behind ==
  ASSUME TypeInv, HistoryInv, NEW d, SchemaTyped(d), d.applied > 0,
         NEW m, m = history[d.applied]
  PROVE  LET from == StateAt(d.applied - 1)
             to   == d.state
             n    == MovedBack(d, m)
         IN  /\ StateInv(from) /\ StateInv(to) /\ MigrationInv(from, m) /\ m.to = to
             /\ n.applied = d.applied - 1 /\ n.state = from
             /\ ViewAhead(d.applied - 1)   <=> Reshaped(from, to) \/ ViewAhead(d.applied)
             /\ UniqueAhead(d.applied - 1) <=> Switched(from, to) \/ UniqueAhead(d.applied)
             /\ LinkAhead(d.applied - 1)   <=> Relinked(from, to) \/ LinkAhead(d.applied)
<1> DEFINE k == d.applied - 1
<1>1. /\ k \in 0..Len(history) /\ k < Len(history) /\ k + 1 = d.applied
      /\ HistoryTyped /\ d.state = StateAt(d.applied)
  BY DEF SchemaTyped, Schemas, TypeInv, HistoryTyped
<1> HIDE DEF k
<1>2. /\ StateInv(StateAt(k)) /\ StateInv(StateAt(k + 1)) /\ MigrationInv(StateAt(k), m)
      /\ m.to = StateAt(k + 1)
  BY <1>1, Between
<1>3. /\ ViewAhead(k)   <=> Reshaped(StateAt(k), StateAt(k + 1)) \/ ViewAhead(k + 1)
      /\ UniqueAhead(k) <=> Switched(StateAt(k), StateAt(k + 1)) \/ UniqueAhead(k + 1)
      /\ LinkAhead(k)   <=> Relinked(StateAt(k), StateAt(k + 1)) \/ LinkAhead(k + 1)
  BY <1>1, AheadMoves
<1>4. MovedBack(d, m).applied = k /\ MovedBack(d, m).state = StateAt(k)
  BY SchemaParts DEF MovedBack, k
<1> QED
  BY <1>1, <1>2, <1>3, <1>4 DEF k

\* A rollback drops what its migration built, and leaves the rest in the shape
\* it has below.
LEMMA MovedBackShape ==
  ASSUME TypeInv, HistoryInv, NEW d, SchemaTyped(d), ShapeInv(d), d.applied > 0,
         NEW m, m = history[d.applied], AdmitsBack(d, m)
  PROVE  ShapeInv(MovedBack(d, m))
<1> DEFINE from == StateAt(d.applied - 1)
           to   == d.state
           n    == MovedBack(d, m)
           k    == d.applied - 1
<1>1. /\ StateInv(from) /\ StateInv(to) /\ MigrationInv(from, m) /\ m.to = to
      /\ n.applied = k /\ n.state = from
      /\ ViewAhead(k)   <=> Reshaped(from, to) \/ ViewAhead(d.applied)
      /\ UniqueAhead(k) <=> Switched(from, to) \/ UniqueAhead(d.applied)
      /\ LinkAhead(k)   <=> Relinked(from, to) \/ LinkAhead(d.applied)
  BY Behind
<1>2. /\ n.view = (IF "SyncOverlayView" \in m.operations /\ live.exists
                   THEN Nothing ELSE d.view)
      /\ n.unique = (IF "AddOverlayUniqueConstraint" \in m.operations \/ ~from.exists
                     THEN Nothing ELSE d.unique)
      /\ n.reference = (IF "AddOverlayConstraint" \in m.operations
                        THEN Nothing ELSE d.reference)
  BY SchemaParts DEF MovedBack
<1>3. n.view # Nothing => from.exists /\ Reads(n.view) \subseteq from.columns.names
  BY DEF AdmitsBack
<1>4. d.view # Nothing => to.exists
  BY DEF SchemaTyped
<1>5. live.exists /\ from.exists => to.exists
  BY <1>1 DEF MigrationInv
<1>6. /\ "SyncOverlayView" \in m.operations <=> Reshaped(from, to)
      /\ "AddOverlayUniqueConstraint" \in m.operations
           <=> Switched(from, to) /\ to.unique # "none"
      /\ "AddOverlayConstraint" \in m.operations
           <=> Relinked(from, to) /\ to.reference # "none"
  BY <1>1 DEF MigrationInv
<1> HIDE DEF n, from, k
<1>7. ViewInv(n)
  <2>1. CASE "SyncOverlayView" \in m.operations /\ live.exists
    BY <1>1, <1>2, <1>6, <2>1 DEF ViewInv
  <2>2. CASE ~("SyncOverlayView" \in m.operations /\ live.exists)
    <3>1. n.view = d.view
      BY <1>2, <2>2
    <3>2. live.exists /\ from.exists => to.columns = from.columns
      BY <1>5, <1>6, <2>2 DEF Reshaped
    <3>3. live.exists /\ from.exists => (SoftDeletes(to) <=> SoftDeletes(from))
      BY <3>2 DEF SoftDeletes
    <3> QED
      BY <1>1, <1>3, <1>5, <3>1, <3>2, <3>3 DEF ShapeInv, ViewInv
  <2> QED
    BY <2>1, <2>2
<1>8. UniqueInv(n)
  <2>1. CASE "AddOverlayUniqueConstraint" \in m.operations \/ ~from.exists
    <3>1. n.unique = Nothing
      BY <1>2, <2>1
    <3>2. from.unique # "none" => UniqueAhead(k)
      BY <1>1, <1>6, <2>1 DEF StateInv
    <3> QED
      BY <1>1, <3>1, <3>2 DEF UniqueInv
  <2>2. CASE "AddOverlayUniqueConstraint" \notin m.operations /\ from.exists
    <3>1. n.unique = d.unique
      BY <1>2, <2>2
    <3>2. to.unique # "none" => ~Switched(from, to) /\ to.unique = from.unique
      BY <1>6, <2>2 DEF Switched
    <3>3. to.unique # "none" => (SoftDeletes(to) <=> SoftDeletes(from))
      BY <1>1, <3>2 DEF StateInv
    <3>4. from.unique # "none" => Switched(from, to) \/ to.unique # "none"
      BY DEF Switched
    <3> QED
      BY <1>1, <3>1, <3>2, <3>3, <3>4 DEF ShapeInv, UniqueInv
  <2> QED
    BY <2>1, <2>2
<1>9. LinkInv(n)
  <2>1. CASE "AddOverlayConstraint" \in m.operations
    BY <1>1, <1>2, <1>6, <2>1 DEF LinkInv
  <2>2. CASE "AddOverlayConstraint" \notin m.operations
    <3>1. n.reference = d.reference
      BY <1>2, <2>2
    <3>2. to.reference # "none" => ~Relinked(from, to) /\ to.reference = from.reference
      BY <1>6, <2>2 DEF Relinked
    <3>3. to.reference # "none" /\ sameApp => (SoftDeletes(to) <=> SoftDeletes(from))
      BY <1>1, <3>2 DEF StateInv, Relinked, Toggled
    <3>4. from.reference # "none" => Relinked(from, to) \/ to.reference # "none"
      BY DEF Relinked
    <3> QED
      BY <1>1, <3>1, <3>2, <3>3, <3>4 DEF ShapeInv, LinkInv
  <2> QED
    BY <2>1, <2>2
<1> QED
  BY <1>7, <1>8, <1>9 DEF ShapeInv, n

\* A resync in step with the migrations leaves what they say and, of what the
\* code declares, everything, with today's source.
LEMMA ResyncedShape ==
  ASSUME TypeInv, NEW d, SchemaTyped(d), ShapeInv(d), InStep(d), live.exists, d.state.exists
  PROVE  LET n == Resynced(d) IN
         /\ UniqueInv(n) /\ LinkInv(n) /\ Guards(n)
         /\ d.view # Nothing => ViewInv(n)
         /\ n.view.source = live.source /\ n.view.overridable = live.overridable
         /\ live.unique => n.unique.source = live.source /\ n.unique.soft = live.soft
         /\ live.reference # "none" =>
              n.reference.source = live.source /\ n.reference.soft = live.soft
<1> DEFINE n == Resynced(d)
           view  == View(ColumnsInViewOrder(d), live.soft)
           check == [soft |-> live.soft, source |-> live.source, early |-> FALSE]
           link  == [soft |-> live.soft, source |-> live.source,
                     keyed |-> live.reference = "keyed"]
<1>1. /\ n.applied = d.applied /\ n.state = d.state /\ n.view = view
      /\ n.unique = (IF ~live.unique THEN d.unique ELSE check)
      /\ n.reference = (IF live.reference = "none" THEN d.reference ELSE link)
  BY SchemaParts DEF Resynced
<1>2. /\ live \in Declaration /\ live.soft \in BOOLEAN /\ live.unique \in BOOLEAN
      /\ live.source \in Source /\ live.columns \subseteq Column
  BY DEF TypeInv, Declaration
<1>3. /\ d.state.columns.names = Fields(live) /\ d.state.unique = Constraint(live)
      /\ d.state.reference = live.reference
  BY DEF InStep
<1>4. SoftDeletes(d.state) <=> live.soft
  BY <1>2, <1>3, DeploymentAssumption DEF SoftDeletes, Fields
<1>5. d.state.unique # "none" <=> live.unique
  BY <1>2, <1>3 DEF Constraint
<1>6. /\ view \in Views /\ view # Nothing
      /\ view.columns = ColumnsInViewOrder(d) /\ view.soft = live.soft
      /\ view.columns.names = live.columns
      /\ view.source = live.source /\ view.overridable = live.overridable
  <2>1. WellFormed(ColumnsInViewOrder(d)) /\ ColumnsInViewOrder(d).names = live.columns
    BY <1>2, InViewOrder DEF SchemaTyped
  <2>2. view \in Views
    BY <1>2, <2>1, ViewTyped
  <2> QED
    BY <2>1, <2>2, NothingAssumption DEF View
<1>7. /\ check \in Uniques /\ check # Nothing
      /\ check.soft = live.soft /\ check.source = live.source
  <2>1. check \in Uniques
    BY <1>2 DEF Uniques
  <2> QED
    BY <2>1, NothingAssumption
<1>8. /\ link \in References /\ link # Nothing
      /\ link.soft = live.soft /\ link.source = live.source
      /\ link.keyed = (live.reference = "keyed")
  <2>1. link \in References
    BY <1>2 DEF References
  <2> QED
    BY <2>1, NothingAssumption
<1>9. d.view # Nothing => ColumnsInViewOrder(d) = Declared(d.state.columns)
  <2> SUFFICES ASSUME d.view # Nothing
               PROVE  ColumnsInViewOrder(d) = Declared(d.state.columns)
    OBVIOUS
  <2> DEFINE old == Declared(d.state.columns)
  <2>1. /\ d.view.columns = old /\ old.names = live.columns
        /\ old.before \subseteq live.columns \X live.columns
    <3>1. d.view.columns = old
      BY DEF ShapeInv, ViewInv
    <3>2. WellFormed(d.state.columns)
      BY StateAtType DEF SchemaTyped, Schemas, TypeInv, HistoryTyped
    <3>3. old.names = live.columns
      BY <1>2, <1>3, DeploymentAssumption DEF Declared, Only, Fields
    <3>4. Trimmed(old)
      BY <3>2, OnlyWellFormed DEF Declared, WellFormed
    <3> QED
      BY <3>1, <3>3, <3>4 DEF Trimmed
  <2>2. old = [names |-> old.names, before |-> old.before]
    BY DEF Declared, Only
  <2> HIDE DEF old
  <2>3. Only(old, live.columns) = old
    BY <2>1, <2>2 DEF Only
  <2>4. With(old, live.columns \ old.names) = old
    BY <2>1, <2>2 DEF With
  <2> QED
    BY <2>1, <2>3, <2>4 DEF ColumnsInViewOrder, old
<1> HIDE DEF n, view, check, link
<1>10. UniqueInv(n)
  BY <1>1, <1>4, <1>5, <1>7 DEF ShapeInv, UniqueInv
<1>11. LinkInv(n)
  BY <1>1, <1>3, <1>4, <1>8 DEF ShapeInv, LinkInv
<1>12. d.view # Nothing => ViewInv(n)
  BY <1>1, <1>4, <1>6, <1>9 DEF ViewInv
<1>13. Guards(n)
  <2>1. n.unique # Nothing <=> live.unique
    BY <1>1, <1>5, <1>7 DEF ShapeInv, UniqueInv
  <2>2. n.reference # Nothing <=> live.reference # "none"
    BY <1>1, <1>3, <1>8 DEF ShapeInv, LinkInv
  <2> QED
    BY <1>1, <1>6, <1>7, <1>8, <2>1, <2>2 DEF Guards
<1> QED
  BY <1>1, <1>6, <1>7, <1>8, <1>10, <1>11, <1>12, <1>13 DEF n

\* One tenant's step keeps the invariant where it keeps that tenant's part.
LEMMA SteadyElsewhere ==
  ASSUME TypeInv, HistoryInv, SteadyInv, NEW t \in Tenant, NEW d,
         db' = [db EXCEPT ![t] = d], UNCHANGED <<live, sameApp, history>>,
         astray \subseteq astray', t \notin astray' => ShapeInv(d)
  PROVE  HistoryInv' /\ SteadyInv'
<1>1. \A u \in Tenant : db'[u] = IF u = t THEN d ELSE db[u]
  BY DEF TypeInv
<1>2. \A u : ShapeInv(u)' <=> ShapeInv(u)
  BY DEF ShapeInv, ViewInv, UniqueInv, LinkInv, ViewAhead, UniqueAhead, LinkAhead,
         Relinked, StateAt
<1>3. HistoryInv'
  BY DEF HistoryInv, MigrationInv, Relinked, StateAt
<1>4. \A u \in Steady' : ShapeInv(db'[u])
  BY <1>1 DEF SteadyInv, Steady
<1> QED
  BY <1>2, <1>3, <1>4 DEF SteadyInv

\* More migrations leave the ones there are, and what is ahead of a schema.
LEMMA ShapeOnAppend ==
  ASSUME HistoryTyped, NEW m \in Migrations, history' = Append(history, m),
         UNCHANGED <<live, sameApp>>, NEW d, SchemaTyped(d), ShapeInv(d)
  PROVE  ShapeInv(d)'
<1>1. /\ d.applied \in Nat /\ Len(history) \in Nat /\ Len(history') = Len(history) + 1
      /\ \A n \in 0..Len(history) : StateAt(n)' = StateAt(n)
  BY AppendKeeps DEF SchemaTyped, Schemas, HistoryTyped
<1>2. \A j \in (d.applied + 1)..Len(history) :
        /\ j \in (d.applied + 1)..Len(history')
        /\ StateAt(j - 1)' = StateAt(j - 1) /\ StateAt(j)' = StateAt(j)
  BY <1>1
<1>3. /\ ViewAhead(d.applied) => ViewAhead(d.applied)'
      /\ UniqueAhead(d.applied) => UniqueAhead(d.applied)'
      /\ LinkAhead(d.applied) => LinkAhead(d.applied)'
  <2>1. ViewAhead(d.applied) => ViewAhead(d.applied)'
    BY <1>2 DEF ViewAhead, Reshaped
  <2>2. UniqueAhead(d.applied) => UniqueAhead(d.applied)'
    BY <1>2 DEF UniqueAhead, Switched
  <2>3. LinkAhead(d.applied) => LinkAhead(d.applied)'
    BY <1>2 DEF LinkAhead, Relinked
  <2> QED
    BY <2>1, <2>2, <2>3
<1> QED
  BY <1>3 DEF ShapeInv, ViewInv, UniqueInv, LinkInv

\* Each step keeps migrations and schemas as they say.
LEMMA SteadyInductive ==
  ASSUME TypeInv, HistoryInv, SteadyInv, [Next]_vars
  PROVE  HistoryInv' /\ SteadyInv'
<1>1. ASSUME Edit
      PROVE  HistoryInv' /\ SteadyInv'
  <2>1. live.exists
    BY <1>1, EditsType DEF Edit, TypeInv
  <2>2. UNCHANGED <<sameApp, history, db, astray>>
    BY <1>1 DEF Edit
  <2>3. HistoryInv'
    BY <2>1, <2>2 DEF HistoryInv, MigrationInv, Relinked, StateAt
  <2>4. \A u : ShapeInv(u) => ShapeInv(u)'
    BY <2>1, <2>2 DEF ShapeInv, ViewInv, UniqueInv, LinkInv, ViewAhead, UniqueAhead,
                      LinkAhead, Relinked, StateAt
  <2> QED
    BY <2>2, <2>3, <2>4 DEF SteadyInv, Steady
<1>2. ASSUME NEW apps \in IF sameApp THEN {{"model", "link"}} ELSE {{"model"}, {"link"}},
             NEW renamed \in {{}} \cup Renamable(StateAt(Len(history))),
             MakeMigrations(apps, renamed)
      PROVE  HistoryInv' /\ SteadyInv'
  <2> DEFINE from == StateAt(Len(history))
             to   == NextState(from, live, renamed, apps)
             m    == Made(from, apps, renamed)
  <2>1. /\ HistoryTyped /\ live \in Declaration /\ sameApp \in BOOLEAN
        /\ Len(history) \in Nat /\ Len(history) \in 0..Len(history)
    BY DEF TypeInv, HistoryTyped
  <2>2. from \in States /\ WellFormed(from.columns) /\ StateInv(from)
    BY <2>1, StateAtType, StateAtInv
  <2>3. /\ to.reference # "none" => to.exists
        /\ history' = Append(history, m) /\ UNCHANGED <<live, sameApp, db, edits, astray>>
    BY <1>2 DEF MakeMigrations, Made
  <2>4. m \in Migrations
    BY <2>1, <2>2, MadeTyped
  <2>5. MigrationInv(from, m)
    BY <2>1, <2>2, <2>3, MadeInv
  <2> HIDE DEF m, to
  <2>6. /\ Len(history') = Len(history) + 1 /\ history'[Len(history) + 1] = m
        /\ \A i \in 1..Len(history) : history'[i] = history[i]
        /\ \A n \in 0..Len(history) : StateAt(n)' = StateAt(n)
    BY <2>1, <2>3, <2>4, AppendKeeps
  <2>7. \A s, x : MigrationInv(s, x)' <=> MigrationInv(s, x)
    BY <2>3 DEF MigrationInv, Relinked
  <2>8. ASSUME NEW i \in 1..Len(history')
        PROVE  MigrationInv(StateAt(i - 1)', history'[i])
    <3>1. CASE i \in 1..Len(history)
      <4>1. i - 1 \in 0..Len(history)
        BY <2>1, <3>1
      <4>2. StateAt(i - 1)' = StateAt(i - 1) /\ history'[i] = history[i]
        BY <2>6, <3>1, <4>1
      <4> QED
        BY <3>1, <4>2 DEF HistoryInv
    <3>2. CASE i = Len(history) + 1
      <4>1. \A n : n = i - 1 => StateAt(n)' = from
        BY <2>1, <2>6, <3>2
      <4> QED
        BY <2>5, <2>6, <3>2, <4>1
    <3> QED
      BY <2>1, <2>6, <3>1, <3>2
  <2>9. HistoryInv'
    BY <2>7, <2>8 DEF HistoryInv
  <2>10. ASSUME NEW u \in Steady, NEW d, d = db[u]
         PROVE  ShapeInv(d)'
    <3>1. SchemaTyped(d) /\ ShapeInv(d)
      BY <2>10 DEF TypeInv, SteadyInv, Steady
    <3> QED
      BY <2>1, <2>3, <2>4, <3>1, ShapeOnAppend
  <2>11. SteadyInv'
    BY <2>3, <2>10 DEF SteadyInv, Steady
  <2> QED
    BY <2>9, <2>11
<1>3. ASSUME NEW t \in Tenant, Migrate(t)
      PROVE  HistoryInv' /\ SteadyInv'
  <2> DEFINE d == db[t]
             m == history[d.applied + 1]
  <2>1. SchemaTyped(d) /\ d \in Schemas /\ d.applied < Len(history)
    BY <1>3 DEF TypeInv, Migrate
  <2>2. m \in Migrations
    BY <2>1 DEF TypeInv, HistoryTyped, MigrationTyped, Schemas
  <2>3. Admits(d, m) /\ db' = [db EXCEPT ![t] = Moved(d, m)]
    BY <1>3, <2>1, <2>2, ForwardIs DEF Migrate
  <2>4. t \notin astray' => ShapeInv(Moved(d, m))
    <3>1. t \notin astray' => ShapeInv(d)
      BY <1>3 DEF SteadyInv, Steady, Migrate
    <3> QED
      BY <2>1, <2>3, <3>1, MovedView, MovedUnique, MovedLink DEF ShapeInv
  <2> QED
    BY <1>3, <2>3, <2>4, SteadyElsewhere DEF Migrate
<1>4. ASSUME NEW t \in Tenant, MigrateBack(t)
      PROVE  HistoryInv' /\ SteadyInv'
  <2> DEFINE d == db[t]
             m == history[d.applied]
  <2>1. SchemaTyped(d) /\ d \in Schemas /\ d.applied > 0
    BY <1>4 DEF TypeInv, MigrateBack
  <2>2. m \in Migrations
    BY <2>1 DEF TypeInv, HistoryTyped, MigrationTyped, SchemaTyped, Schemas
  <2>3. StateAt(d.applied - 1) \in States
    BY <2>1, StateAtType DEF TypeInv, HistoryTyped, SchemaTyped, Schemas
  <2>4. AdmitsBack(d, m) /\ db' = [db EXCEPT ![t] = MovedBack(d, m)]
    BY <1>4, <2>1, <2>2, <2>3, BackwardIs DEF MigrateBack
  <2>5. t \notin astray' => ShapeInv(MovedBack(d, m))
    <3>1. t \notin astray' => ShapeInv(d)
      BY <1>4 DEF SteadyInv, Steady, MigrateBack
    <3> QED
      BY <2>1, <2>4, <3>1, MovedBackShape
  <2> QED
    BY <1>4, <2>4, <2>5, SteadyElsewhere DEF MigrateBack
<1>5. ASSUME NEW t \in Tenant, Resync(t)
      PROVE  HistoryInv' /\ SteadyInv'
  <2> DEFINE d == db[t]
  <2>1. SchemaTyped(d) /\ d \in Schemas /\ d.state.exists /\ live.exists
    BY <1>5 DEF TypeInv, Resync
  <2>2. db' = [db EXCEPT ![t] = Resynced(d)]
    BY <1>5, <2>1, ResyncIs DEF Resync
  <2>3. astray \subseteq astray'
    BY <1>5 DEF Resync
  <2>4. t \notin astray' => ShapeInv(Resynced(d))
    <3> SUFFICES ASSUME t \notin astray'
                 PROVE  ShapeInv(Resynced(d))
      OBVIOUS
    <3>1. InStep(d) /\ d.view # Nothing
      BY <1>5 DEF Resync
    <3>2. ShapeInv(d)
      BY <2>3 DEF SteadyInv, Steady
    <3> QED
      BY <2>1, <3>1, <3>2, ResyncedShape DEF ShapeInv
  <2> QED
    BY <1>5, <2>2, <2>3, <2>4, SteadyElsewhere DEF Resync
<1>6. CASE UNCHANGED vars
  <2>1. HistoryInv'
    BY <1>6 DEF vars, HistoryInv, MigrationInv, Relinked, StateAt
  <2>2. \A u : ShapeInv(u) => ShapeInv(u)'
    BY <1>6 DEF vars, ShapeInv, ViewInv, UniqueInv, LinkInv, ViewAhead, UniqueAhead,
                LinkAhead, Relinked, StateAt
  <2> QED
    BY <1>6, <2>1, <2>2 DEF vars, SteadyInv, Steady
<1> QED
  BY <1>1, <1>2, <1>3, <1>4, <1>5, <1>6 DEF Next

\* Without renames each step keeps the order of the columns, and every view within
\* the tables.
LEMMA ReadsInductive ==
  ASSUME ~CanRename, TypeInv, HistoryInv, HistoryAppends, ReadsInv, [Next]_vars
  PROVE  HistoryAppends' /\ ReadsInv'
<1>1. CASE UNCHANGED <<history, db>>
  BY <1>1 DEF HistoryAppends, Appends, StateAt, ReadsInv
<1>2. ASSUME NEW apps \in IF sameApp THEN {{"model", "link"}} ELSE {{"model"}, {"link"}},
             NEW renamed \in {{}} \cup Renamable(StateAt(Len(history))),
             MakeMigrations(apps, renamed)
      PROVE  HistoryAppends' /\ ReadsInv'
  <2> DEFINE from == StateAt(Len(history))
             to   == NextState(from, live, renamed, apps)
             m    == Made(from, apps, renamed)
  <2>1. /\ HistoryTyped /\ live \in Declaration /\ sameApp \in BOOLEAN
        /\ Len(history) \in Nat /\ Len(history) \in 0..Len(history)
    BY DEF TypeInv, HistoryTyped
  <2>2. from \in States /\ WellFormed(from.columns) /\ StateInv(from)
    BY <2>1, StateAtType, StateAtInv
  <2>3. renamed = {}
    BY DEF Renamable
  <2>4. /\ to.reference # "none" => to.exists
        /\ history' = Append(history, m) /\ db' = db
    BY <1>2 DEF MakeMigrations, Made
  <2>5. m \in Migrations
    BY <2>1, <2>2, MadeTyped
  <2>6. Appends(from, m)
    BY <2>1, <2>2, <2>3, <2>4, MadeInv
  <2> HIDE DEF m, to
  <2>7. /\ Len(history') = Len(history) + 1 /\ history'[Len(history) + 1] = m
        /\ \A i \in 1..Len(history) : history'[i] = history[i]
        /\ \A n \in 0..Len(history) : StateAt(n)' = StateAt(n)
    BY <2>1, <2>4, <2>5, AppendKeeps
  <2>8. ASSUME NEW i \in 1..Len(history')
        PROVE  Appends(StateAt(i - 1)', history'[i])
    <3>1. CASE i \in 1..Len(history)
      <4>1. i - 1 \in 0..Len(history)
        BY <2>1, <3>1
      <4>2. StateAt(i - 1)' = StateAt(i - 1) /\ history'[i] = history[i]
        BY <2>7, <3>1, <4>1
      <4> QED
        BY <3>1, <4>2 DEF HistoryAppends
    <3>2. CASE i = Len(history) + 1
      <4>1. \A n : n = i - 1 => StateAt(n)' = from
        BY <2>1, <2>7, <3>2
      <4> QED
        BY <2>6, <2>7, <3>2, <4>1
    <3> QED
      BY <2>1, <2>7, <3>1, <3>2
  <2>9. HistoryAppends'
    BY <2>8 DEF HistoryAppends, Appends
  <2> QED
    BY <2>4, <2>9 DEF ReadsInv
<1>3. ASSUME NEW t \in Tenant, NEW d, history' = history, db' = [db EXCEPT ![t] = d],
             d.view # Nothing => Reads(d.view) \subseteq d.state.columns.names
      PROVE  HistoryAppends' /\ ReadsInv'
  BY <1>3 DEF HistoryAppends, Appends, StateAt, ReadsInv, TypeInv
<1>4. ASSUME NEW t \in Tenant, Migrate(t)
      PROVE  HistoryAppends' /\ ReadsInv'
  <2> DEFINE d == db[t]
             m == history[d.applied + 1]
             n == Moved(d, m)
  <2>1. /\ SchemaTyped(d) /\ d \in Schemas /\ d.applied < Len(history)
        /\ d.applied + 1 \in 1..Len(history)
    BY <1>4 DEF TypeInv, HistoryTyped, Migrate, Schemas
  <2>2. m \in Migrations
    BY <2>1 DEF TypeInv, HistoryTyped, MigrationTyped
  <2>3. Admits(d, m) /\ db' = [db EXCEPT ![t] = n]
    BY <1>4, <2>1, <2>2, ForwardIs DEF Migrate
  <2>4. n.state = m.to /\ n.view = ViewAfter(d, m)
    BY SchemaParts DEF Moved
  <2>5. m.renamed = {}
    BY <2>1 DEF HistoryAppends, Appends
  <2>6. Reads(View(Declared(m.to.columns), SoftDeletes(m.to))) \subseteq m.to.columns.names
    BY DEF Reads, View, Declared, Only, SoftDeletes
  <2> HIDE DEF n, m
  <2>7. n.view # Nothing => Reads(n.view) \subseteq n.state.columns.names
    BY <2>3, <2>4, <2>5, <2>6 DEF ViewAfter, Admits
  <2> QED
    BY <1>3, <1>4, <2>3, <2>7 DEF Migrate
<1>5. ASSUME NEW t \in Tenant, MigrateBack(t)
      PROVE  HistoryAppends' /\ ReadsInv'
  <2> DEFINE d == db[t]
             m == history[d.applied]
             n == MovedBack(d, m)
  <2>1. SchemaTyped(d) /\ d \in Schemas /\ d.applied > 0
    BY <1>5 DEF TypeInv, MigrateBack
  <2>2. m \in Migrations
    BY <2>1 DEF TypeInv, HistoryTyped, MigrationTyped, SchemaTyped, Schemas
  <2>3. StateAt(d.applied - 1) \in States
    BY <2>1, StateAtType DEF TypeInv, HistoryTyped, SchemaTyped, Schemas
  <2>4. AdmitsBack(d, m) /\ db' = [db EXCEPT ![t] = n]
    BY <1>5, <2>1, <2>2, <2>3, BackwardIs DEF MigrateBack
  <2>5. n.state = StateAt(d.applied - 1)
    BY SchemaParts DEF MovedBack
  <2>6. n.view # Nothing => Reads(n.view) \subseteq n.state.columns.names
    BY <2>4, <2>5 DEF AdmitsBack
  <2> QED
    BY <1>3, <1>5, <2>4, <2>6 DEF MigrateBack
<1>6. ASSUME NEW t \in Tenant, Resync(t)
      PROVE  HistoryAppends' /\ ReadsInv'
  <2> DEFINE d == db[t]
             n == Resynced(d)
  <2>1. SchemaTyped(d) /\ d \in Schemas /\ live \in Declaration
    BY DEF TypeInv
  <2>2. db' = [db EXCEPT ![t] = n]
    BY <1>6, <2>1, ResyncIs DEF Resync
  <2>3. n.state = d.state /\ n.view = View(ColumnsInViewOrder(d), live.soft)
    BY SchemaParts DEF Resynced
  <2>4. ColumnsInViewOrder(d).names = live.columns
    BY <2>1, InViewOrder DEF SchemaTyped
  <2>5. Fields(live) \subseteq d.state.columns.names
    BY <1>6 DEF Resync
  <2>6. Reads(n.view) \subseteq n.state.columns.names
    BY <2>3, <2>4, <2>5 DEF Reads, View, Fields
  <2> QED
    BY <1>3, <1>6, <2>2, <2>6 DEF Resync
<1> QED
  BY <1>1, <1>2, <1>4, <1>5, <1>6 DEF Next, vars, Edit

-----------------------------------------------------------------------------
(* What a tenant can rely on                                               *)

DeploymentInv == TypeInv /\ HistoryInv /\ SteadyInv
AppendInv     == HistoryAppends /\ ReadsInv

\* Nothing is written and nothing installed at first.
LEMMA DeploymentInit ==
  ASSUME Init
  PROVE  DeploymentInv /\ AppendInv
<1>1. TypeInv
  BY TypeInit
<1>2. HistoryInv /\ HistoryAppends
  BY DEF Init, HistoryInv, HistoryAppends
<1>3. ASSUME NEW t \in Tenant
      PROVE  ShapeInv(db[t]) /\ db[t].view = Nothing
  <2>1. db[t] = Empty
    BY DEF Init
  <2>2. /\ Empty.view = Nothing /\ Empty.unique = Nothing /\ Empty.reference = Nothing
        /\ ~Empty.state.exists /\ Empty.state.unique = "none" /\ Empty.state.reference = "none"
    BY DEF Empty, Unmigrated
  <2> QED
    BY <2>1, <2>2 DEF ShapeInv, ViewInv, UniqueInv, LinkInv
<1> QED
  BY <1>1, <1>2, <1>3 DEF DeploymentInv, AppendInv, SteadyInv, Steady, ReadsInv

\* What the migrations say is what is installed, renames or not.
THEOREM DeploymentInvariant == Spec => []DeploymentInv
<1>1. Init => DeploymentInv
  BY DeploymentInit
<1>2. DeploymentInv /\ [Next]_vars => DeploymentInv'
  BY TypeInductive, SteadyInductive DEF DeploymentInv
<1> QED
  BY <1>1, <1>2, PTL DEF Spec

\* Without renames a migration that keeps the view only adds columns to it.
THEOREM AppendInvariant ==
  ASSUME ~CanRename
  PROVE  Spec => []AppendInv
<1>1. Init => AppendInv
  BY DeploymentInit
<1>2. DeploymentInv /\ AppendInv /\ [Next]_vars => AppendInv'
  BY ReadsInductive DEF DeploymentInv, AppendInv
<1> QED
  BY <1>1, <1>2, DeploymentInvariant, PTL DEF Spec

\* At no point of a replay or of a rollback, whatever the code says by then, does
\* a view or a link's trigger name a column that the tables do not have.
THEOREM NothingIsAhead ==
  ASSUME ~CanRename
  PROVE  Spec => []NothingAheadOfItsMigration
<1>1. DeploymentInv /\ AppendInv => NothingAheadOfItsMigration
  BY DEF DeploymentInv, AppendInv, ReadsInv, SteadyInv, Steady, ShapeInv, ViewInv, UniqueInv,
         LinkInv, NothingAheadOfItsMigration
<1> QED
  BY <1>1, DeploymentInvariant, AppendInvariant, PTL

\* Every migration written applies to every schema that has come to it, for any
\* number of edits between the writing and the replay.
THEOREM MigrationsReplay ==
  ASSUME ~CanRename
  PROVE  Spec => []MigrationsApply
<1>1. ASSUME DeploymentInv, AppendInv, NEW t \in Steady, db[t].applied < Len(history),
             NEW m, m = history[db[t].applied + 1],
             live.exists \/ m.operations \subseteq {"SyncOverlayView", "RemoveOverlayConstraint"}
      PROVE  Forward(db[t], m) # {}
  <2> DEFINE d    == db[t]
             from == d.state
             to   == m.to
             view == IF m.dropsView THEN Nothing ELSE d.view
  <2>1. TypeInv /\ HistoryInv /\ SchemaTyped(d) /\ d \in Schemas /\ ShapeInv(d)
    BY <1>1 DEF DeploymentInv, TypeInv, SteadyInv, Steady
  <2>2. /\ from \in States /\ WellFormed(from.columns) /\ WellFormed(to.columns)
        /\ m \in Migrations /\ Appends(from, m)
    <3>1. /\ d.applied \in 0..Len(history) /\ d.applied + 1 \in 1..Len(history)
          /\ (d.applied + 1) - 1 = d.applied /\ from = StateAt(d.applied)
      BY <1>1, <2>1 DEF SchemaTyped, Schemas, TypeInv, HistoryTyped
    <3>2. Appends(StateAt((d.applied + 1) - 1), m)
      BY <1>1, <3>1 DEF AppendInv, HistoryAppends
    <3> QED
      BY <1>1, <2>1, <3>1, <3>2, Between
  <2>3. view # Nothing => to.exists /\ Extends(to.columns, from.columns)
    BY <2>1, <2>2 DEF Appends, SchemaTyped
  <2>4. view # Nothing => Reads(view) \ to.columns.names = m.renamed
    <3>1. view # Nothing => Reads(view) \subseteq from.columns.names
      BY <1>1 DEF AppendInv, ReadsInv, Steady
    <3> QED
      BY <2>2, <2>3, <3>1 DEF Appends, Extends
  <2>5. m.operations \cap {"RemoveOverlayUniqueConstraint", "AddOverlayConstraint",
                           "AddOverlayUniqueConstraint"} # {} => live.exists
    BY <1>1
  <2>6. live.exists => Replaces(view, Declared(to.columns))
    <3>1. CASE view = Nothing
      BY <3>1 DEF Replaces
    <3>2. CASE view # Nothing
      BY <2>1, <2>2, <2>3, <3>2, ExtendsReplaces DEF ShapeInv, ViewInv
    <3> QED
      BY <3>1, <3>2
  <2>7. Admits(d, m)
    BY <2>3, <2>4, <2>5, <2>6 DEF Admits
  <2> QED
    BY <2>1, <2>2, <2>7, ForwardIs
<1>2. DeploymentInv /\ AppendInv => MigrationsApply
  BY <1>1 DEF MigrationsApply
<1> QED
  BY <1>2, DeploymentInvariant, AppendInvariant, PTL

\* A schema that has applied everything, however it came there, has the view and
\* each trigger the code declares, in the code's shape, and no other.
THEOREM ReplayEndsDeclared == Spec => []MigratedIsDeclared
<1>1. ASSUME DeploymentInv, NEW t \in Steady, db[t].applied = Len(history), InStep(db[t])
      PROVE  IF live.exists
             THEN /\ Guards(db[t])
                  /\ sameApp /\ live.reference # "none" => db[t].reference.soft = live.soft
             ELSE {db[t].view, db[t].unique, db[t].reference} = {Nothing}
  <2> DEFINE d == db[t]
  <2>1. /\ TypeInv /\ HistoryInv /\ SchemaTyped(d) /\ d \in Schemas /\ ShapeInv(d)
        /\ live \in Declaration /\ HistoryTyped /\ Len(history) \in Nat
        /\ d.applied \in 0..Len(history)
    BY <1>1 DEF DeploymentInv, TypeInv, HistoryTyped, SteadyInv, Steady, SchemaTyped, Schemas
  <2>2. StateInv(d.state)
    BY <2>1, StateAtInv DEF SchemaTyped
  <2>3. ~ViewAhead(d.applied) /\ ~UniqueAhead(d.applied) /\ ~LinkAhead(d.applied)
    BY <1>1, <2>1 DEF ViewAhead, UniqueAhead, LinkAhead
  <2>4. CASE live.exists
    <3>1. /\ d.state.exists /\ d.state.columns.names = Fields(live)
          /\ d.state.unique = Constraint(live) /\ d.state.reference = live.reference
      BY <1>1, <2>4 DEF InStep
    <3>2. /\ live.soft \in BOOLEAN /\ live.unique \in BOOLEAN /\ live.columns \subseteq Column
      BY <2>1 DEF Declaration
    <3>3. SoftDeletes(d.state) <=> live.soft
      BY <3>1, <3>2, DeploymentAssumption DEF SoftDeletes, Fields
    <3>4. /\ d.view # Nothing /\ d.view.columns = Declared(d.state.columns)
          /\ d.view.soft <=> live.soft
      BY <2>1, <2>3, <2>4, <3>1, <3>3 DEF ShapeInv, ViewInv
    <3>5. d.view.soft \in BOOLEAN
      BY <2>1, <3>4 DEF Schemas, Views
    <3>6. d.view.columns.names = live.columns
      BY <3>1, <3>2, <3>4, DeploymentAssumption DEF Declared, Only, Fields
    <3>7. /\ d.unique # Nothing <=> live.unique
          /\ live.unique => (d.unique.soft <=> live.soft) \/ d.unique.early
      BY <2>1, <2>3, <3>1, <3>2, <3>3 DEF ShapeInv, UniqueInv, Constraint
    <3>8. d.unique # Nothing => d.unique.soft \in BOOLEAN
      BY <2>1 DEF Schemas, Uniques
    <3>9. /\ d.reference # Nothing <=> live.reference # "none"
          /\ live.reference # "none" =>
               /\ d.reference.keyed <=> live.reference = "keyed"
               /\ sameApp => (d.reference.soft <=> live.soft)
      BY <2>1, <2>3, <3>1, <3>3 DEF ShapeInv, LinkInv
    <3>10. d.reference # Nothing =>
             d.reference.soft \in BOOLEAN /\ d.reference.keyed \in BOOLEAN
      BY <2>1 DEF Schemas, References
    <3> QED
      BY <2>4, <3>2, <3>4, <3>5, <3>6, <3>7, <3>8, <3>9, <3>10 DEF Guards
  <2>5. CASE ~live.exists
    <3>1. ~d.state.exists
      BY <1>1, <2>5 DEF InStep
    <3>2. d.view = Nothing /\ d.unique = Nothing
      BY <2>1, <3>1 DEF SchemaTyped
    <3>3. d.reference = Nothing
      BY <2>1, <2>2, <3>1 DEF StateInv, ShapeInv, LinkInv
    <3> QED
      BY <2>5, <3>2, <3>3
  <2> QED
    BY <2>4, <2>5
<1>2. DeploymentInv => MigratedIsDeclared
  BY <1>1 DEF MigratedIsDeclared
<1> QED
  BY <1>2, DeploymentInvariant, PTL

\* A resync in step with the migrations leaves what the code declares, its source
\* included, and nothing else.
THEOREM ResyncsRepair == Spec => ResyncRepairs
<1> DEFINE Repaired(t) ==
      Resync(t) /\ InStep(db[t]) /\ t \notin astray =>
        LET d == db'[t] IN
        /\ Guards(d)
        /\ d.view.source = live.source /\ d.view.overridable = live.overridable
        /\ live.unique => d.unique.source = live.source /\ d.unique.soft = live.soft
        /\ live.reference # "none" =>
             d.reference.source = live.source /\ d.reference.soft = live.soft
<1>1. ASSUME DeploymentInv, NEW t \in Tenant
      PROVE  Repaired(t)
  <2> SUFFICES ASSUME Resync(t), InStep(db[t]), t \notin astray
               PROVE  LET d == db'[t] IN
                      /\ Guards(d)
                      /\ d.view.source = live.source /\ d.view.overridable = live.overridable
                      /\ live.unique => d.unique.source = live.source /\ d.unique.soft = live.soft
                      /\ live.reference # "none" =>
                           d.reference.source = live.source /\ d.reference.soft = live.soft
    OBVIOUS
  <2> DEFINE d == db[t]
  <2>1. /\ TypeInv /\ SchemaTyped(d) /\ d \in Schemas /\ ShapeInv(d)
        /\ d.state.exists /\ live.exists
    BY <1>1 DEF DeploymentInv, TypeInv, SteadyInv, Steady, Resync
  <2>2. db'[t] = Resynced(d)
    BY <2>1, ResyncIs DEF Resync, TypeInv
  <2> QED
    BY <2>1, <2>2, ResyncedShape
<1>2. DeploymentInv /\ [Next]_vars => [\A t \in Tenant : Repaired(t)]_vars
  BY <1>1
<1> QED
  BY <1>2, DeploymentInvariant, PTL DEF Spec, ResyncRepairs
=============================================================================
