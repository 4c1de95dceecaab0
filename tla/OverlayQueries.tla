--------------------------- MODULE OverlayQueries ---------------------------
(***************************************************************************)
(* A session that reads overlay models: each statement is compiled with    *)
(* the rewrites of OverlayFilters, decides from its shape whether nested   *)
(* loops are to be banned, and brackets its execution with SHOW and SET of *)
(* enable_nestloop.  The caller sets the same setting itself, opens        *)
(* nested atomic blocks, and statements fail; PostgreSQL takes a SET back  *)
(* with the transaction or savepoint that issued it.                       *)
(***************************************************************************)
EXTENDS OverlayFilters

CONSTANTS
  Workload,  \* what a run exercises, by name: worlds, the queries issued, the
             \* depth of atomic blocks (a bound), whether statements may fail
  NoQuery

ASSUME WorkloadAssumption ==
  \A k \in DOMAIN Workload :
    Workload[k].worlds \subseteq World /\ Workload[k].queries \subseteq Query

VARIABLES
  work,      \* the workload's name, fixed
  world,     \* what the views show, fixed
  setting,   \* enable_nestloop, as SHOW answers in this session
  asked,     \* what it would be had only the caller set it
  blocks,    \* the open atomic blocks, with both values at their start
  broken,    \* the transaction is aborted: every statement fails
  query,     \* the statement being run, or NoQuery
  previous,  \* the values read by the bans entered and not left yet
  planned,   \* enable_nestloop when the statement was planned; "" before
  answer     \* what the statement returned

session == <<setting, asked, blocks, broken>>
fixed   == <<work, world>>
vars    == <<fixed, session, query, previous, planned, answer>>

Init ==
  /\ work \in DOMAIN Workload /\ world \in Workload[work].worlds
  /\ setting = "on" /\ asked = "on" /\ blocks = <<>> /\ broken = FALSE
  /\ query = NoQuery /\ previous = <<>> /\ planned = "" /\ answer = Error

-----------------------------------------------------------------------------
(* The decision, by shape alone                                            *)

NearView == {<<"near", "target">>}

Views(path) ==
  CASE path = "self"       -> {}
    [] path = ForeignKey   -> {<<path, "target">>}
    [] path \in ManyToMany -> {<<path, "through">>, <<path, "target">>}

\* The alias map keeps a join that Django has trimmed: customer__isnull tests the
\* local column and counts the view all the same.
JoinedViews(q) ==
  UNION {Views(q.where[i].path) :
           i \in {j \in DOMAIN q.where : JoinsInOverlay(q.where[j])}}

\* The semi-joins, the fences and what exclude() nests.
NestedViews(q) ==
  UNION {Views(q.where[i].path) :
           i \in {j \in DOMAIN q.where :
                    \/ TraversalRewrite(q.where[j])
                    \/ M2mFence(q.where[j], FALSE)
                    \/ IsSplit(q.where[j])}}

\* Distinct views, the near model's own included.
OverlayViewsRead(q) == Cardinality(NearView \cup JoinedViews(q) \cup NestedViews(q))

\* A page has no LIMIT of its own: it moved into the subquery of its keys.
Paged(q)   == WantsLateRowLookup(q)
Limited(q) == q.limit > 0 /\ ~Paged(q)

MutantWantsHashJoins(q) ==   \* a page counts as unlimited
  /\ "FORCE_HASH_JOINS" \in Enabled
  /\ ~q.selective
  /\ OverlayViewsRead(q) >= IF Limited(q) THEN 2 ELSE 5

WantsHashJoins(q) ==
  /\ "FORCE_HASH_JOINS" \in Enabled
  /\ ~q.selective
  /\ OverlayViewsRead(q) >= IF Limited(q) \/ Paged(q) THEN 2 ELSE 5

\* get_aggregation() and get_compiler() each enter a ban, unless Django wraps
\* the query in a plain one, which only the first of them sees.
Bans(q) ==
  IF ~WantsHashJoins(q) THEN 0
  ELSE IF q.result = "count" /\ ~q.distinct /\ ~Limited(q) THEN 2 ELSE 1

-----------------------------------------------------------------------------
(* One statement                                                           *)

Idle == query = NoQuery

Issue(q) ==
  /\ Idle /\ ~broken
  /\ query' = q
  /\ UNCHANGED <<fixed, session, previous, planned, answer>>

\* SHOW, then SET ... = off.
ForceHashJoins ==
  /\ ~Idle /\ planned = "" /\ Len(previous) < Bans(query)
  /\ previous' = Append(previous, setting)
  /\ setting' = "off"
  /\ UNCHANGED <<fixed, asked, blocks, broken, query, planned, answer>>

Execute ==
  /\ ~Idle /\ planned = "" /\ Len(previous) = Bans(query)
  /\ planned' = setting
  /\ \/ /\ answer' \in Answers(world, query)
        /\ broken' = (answer' = Error /\ blocks # <<>>)
     \/ /\ Workload[work].fails
        /\ answer' = Error /\ broken' = (blocks # <<>>)
  /\ UNCHANGED <<fixed, setting, asked, blocks, query, previous>>

MutantRestore ==   \* assumes the setting was on
  /\ planned # "" /\ previous # <<>>
  /\ setting' = IF broken THEN setting ELSE "on"
  /\ previous' = SubSeq(previous, 1, Len(previous) - 1)
  /\ UNCHANGED <<fixed, asked, blocks, broken, query, planned, answer>>

\* The finally clause; in an aborted transaction the SET is refused as well.
Restore ==
  /\ planned # "" /\ previous # <<>>
  /\ setting' = IF broken THEN setting ELSE previous[Len(previous)]
  /\ previous' = SubSeq(previous, 1, Len(previous) - 1)
  /\ UNCHANGED <<fixed, asked, blocks, broken, query, planned, answer>>

Return ==
  /\ planned # "" /\ previous = <<>>
  /\ query' = NoQuery /\ planned' = "" /\ answer' = Error
  /\ UNCHANGED <<fixed, session, previous>>

-----------------------------------------------------------------------------
(* The caller                                                              *)

CallerSets(v) ==
  /\ Idle /\ ~broken /\ Workload[work].depth > 0
  /\ setting' = v /\ asked' = v
  /\ UNCHANGED <<fixed, blocks, broken, query, previous, planned, answer>>

\* BEGIN, or SAVEPOINT inside a transaction.
EnterAtomic ==
  /\ Idle /\ ~broken /\ Len(blocks) < Workload[work].depth
  /\ blocks' = Append(blocks, [setting |-> setting, asked |-> asked])
  /\ UNCHANGED <<fixed, setting, asked, broken, query, previous, planned, answer>>

LeaveAtomic ==
  /\ Idle /\ blocks # <<>>
  /\ blocks' = SubSeq(blocks, 1, Len(blocks) - 1)
  /\ UNCHANGED <<fixed, query, previous, planned, answer>>

Commit == LeaveAtomic /\ ~broken /\ UNCHANGED <<setting, asked, broken>>

\* Every SET since the block was entered is undone.
Rollback ==
  /\ LeaveAtomic
  /\ setting' = blocks[Len(blocks)].setting /\ asked' = blocks[Len(blocks)].asked
  /\ broken' = FALSE

Next ==
  \/ \E q \in Workload[work].queries : Issue(q)
  \/ ForceHashJoins \/ Execute \/ Restore \/ Return
  \/ \E v \in {"on", "off"} : CallerSets(v)
  \/ EnterAtomic \/ Commit \/ Rollback

Spec == Init /\ [][Next]_vars

-----------------------------------------------------------------------------
(* Properties                                                              *)

\* A rewritten read returns what the unrewritten one could have, row for row
\* and repeat for repeat (query.py:92-96, 245-259; queryset.py:387-388).
SameRows ==
  planned # "" /\ ~Workload[work].fails => IsAnswer(world, query, answer)

\* The ban depends on the statement the caller wrote and not on how it was
\* rewritten: every view of a relation its arguments name counts, joined, trimmed
\* or in a subquery, and so does a LIMIT moved into one (planning.py:113-122,
\* 167-172, query.py:121-127); and a ban in force is never lost to the statement's
\* own bracket.
BanFollowsTheQuery ==
  LET views == NearView \cup UNION {Views(query.where[i].path) : i \in DOMAIN query.where}
      due == /\ "FORCE_HASH_JOINS" \in Enabled /\ ~query.selective
             /\ Cardinality(views) >= IF query.limit > 0 THEN 2 ELSE 5
  IN  planned # "" => (planned = "off") = (asked = "off" \/ due)

\* "The previous value is read back rather than assumed, so a caller who has
\* deliberately set it keeps their setting afterwards" (planning.py:231-232),
\* failed statements, nested brackets and rollbacks included.
SettingReturned == Idle /\ ~broken => setting = asked
=============================================================================
