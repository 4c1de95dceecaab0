------------------------- MODULE OverlayQueriesProofs -------------------------
(***************************************************************************)
(* Theorems about OverlayQueries, for every workload: any worlds, queries, *)
(* depth of atomic blocks and combination of the settings.                 *)
(***************************************************************************)
EXTENDS OverlayQueries, TLAPS, SequenceTheorems, FiniteSetTheorems, FunctionTheorems

-----------------------------------------------------------------------------
(* The session's setting                                                   *)

Setting == {"on", "off"}
Block   == {[setting |-> v, asked |-> v] : v \in Setting}

\* A block is entered between statements only, so both of its values agree; a
\* statement that has not run yet is not in an aborted transaction; the value
\* the outermost ban read is what the caller asked for.
SessionInv ==
  /\ setting \in Setting /\ asked \in Setting /\ broken \in BOOLEAN
  /\ blocks \in Seq(Block) /\ previous \in Seq(Setting)
  /\ Idle => previous = <<>> /\ planned = ""
  /\ ~Idle /\ planned = "" => ~broken
  /\ ~broken => IF previous = <<>> THEN setting = asked ELSE previous[1] = asked

\* What is on top of a stack, and what pushing and popping leave at its bottom.
LEMMA Stack ==
  ASSUME NEW S, NEW seq \in Seq(S)
  PROVE  /\ seq # <<>> =>
              /\ seq[Len(seq)] \in S
              /\ SubSeq(seq, 1, Len(seq) - 1) \in Seq(S)
              /\ SubSeq(seq, 1, Len(seq) - 1) # <<>> =>
                   SubSeq(seq, 1, Len(seq) - 1)[1] = seq[1]
              /\ SubSeq(seq, 1, Len(seq) - 1) = <<>> => seq[Len(seq)] = seq[1]
         /\ \A e \in S : /\ Append(seq, e) \in Seq(S) /\ Append(seq, e) # <<>>
                         /\ Append(seq, e)[1] = IF seq = <<>> THEN e ELSE seq[1]
<1> DEFINE n == Len(seq)  shorter == SubSeq(seq, 1, n - 1)
<1>1. n \in Nat /\ (seq = <<>> => n = 0) /\ (seq # <<>> => n >= 1)
  BY EmptySeq, LenProperties
<1>2. \A i \in 1..n : seq[i] \in S
  BY ElementOfSeq
<1>3. ASSUME seq # <<>>
      PROVE  /\ shorter \in Seq(S) /\ Len(shorter) = n - 1
             /\ n > 1 => shorter[1] = seq[1]
  <2> HIDE DEF n
  <2>1. 1 \in Int /\ n - 1 \in Int /\ \A i \in 1..(n - 1) : seq[i] \in S
    BY <1>1, <1>2
  <2>2. /\ shorter \in Seq(S)
        /\ Len(shorter) = IF 1 <= n - 1 THEN n - 1 - 1 + 1 ELSE 0
        /\ \A i \in 1..(n - 1 - 1 + 1) : shorter[i] = seq[1 + i - 1]
    BY <2>1, SubSeqProperties
  <2>3. n > 1 => 1 \in 1..(n - 1 - 1 + 1)
    BY <1>1
  <2> HIDE DEF shorter
  <2>4. n > 1 => shorter[1] = seq[1 + 1 - 1]
    BY <2>2, <2>3
  <2>5. 1 + 1 - 1 = 1
    OBVIOUS
  <2> QED
    BY <1>1, <1>3, <2>2, <2>4, <2>5
<1>4. ASSUME NEW e \in S
      PROVE  /\ Append(seq, e) \in Seq(S) /\ Append(seq, e) # <<>>
             /\ Append(seq, e)[1] = IF seq = <<>> THEN e ELSE seq[1]
  <2>1. /\ Append(seq, e) \in Seq(S) /\ Append(seq, e) # <<>>
        /\ \A i \in 1..n : Append(seq, e)[i] = seq[i]
        /\ Append(seq, e)[n + 1] = e
    BY AppendProperties
  <2> DEFINE longer == Append(seq, e)
  <2> HIDE DEF n, longer
  <2>2. seq # <<>> => longer[1] = seq[1]
    <3>1. seq # <<>> => 1 \in 1..n
      BY <1>1
    <3> QED
      BY <2>1, <3>1 DEF longer
  <2>3. seq = <<>> => longer[1] = e
    <3>1. seq = <<>> => n + 1 = 1
      BY <1>1
    <3> QED
      BY <2>1, <3>1 DEF longer
  <2> QED
    BY <2>1, <2>2, <2>3 DEF longer
<1>5. ASSUME seq # <<>>
      PROVE  /\ seq[n] \in S
             /\ shorter # <<>> => shorter[1] = seq[1]
             /\ shorter = <<>> => seq[n] = seq[1]
  <2> HIDE DEF n, shorter
  <2>1. Len(shorter) = n - 1 /\ (shorter = <<>> => Len(shorter) = 0)
        /\ (shorter # <<>> => Len(shorter) >= 1)
    <3>1. shorter # <<>> => Len(shorter) \in Nat \ {0}
      BY <1>3, <1>5, EmptySeq
    <3>2. shorter = <<>> => Len(shorter) = 0
      BY EmptySeq
    <3> QED
      BY <1>3, <1>5, <3>1, <3>2
  <2>2. (shorter = <<>> => n = 1) /\ (shorter # <<>> => n > 1)
    BY <1>1, <1>5, <2>1
  <2>3. n \in 1..n
    BY <1>1, <1>5
  <2> QED
    BY <1>2, <1>3, <1>5, <2>2, <2>3
<1> QED
  BY <1>3, <1>4, <1>5

\* Every statement, failure, block and change of the caller's keeps it.
LEMMA SessionInductive ==
  /\ Init => SessionInv
  /\ SessionInv /\ [Next]_vars => SessionInv'
<1>1. ASSUME Init PROVE SessionInv
  <2>1. \A S : <<>> \in Seq(S)
    BY EmptySeq
  <2> QED
    BY <1>1, <2>1 DEF Init, SessionInv, Idle, Setting
<1>2. SessionInv /\ [Next]_vars => SessionInv'
  <2> SUFFICES ASSUME SessionInv, [Next]_vars PROVE SessionInv'
    OBVIOUS
  <2>0. /\ "on" \in Setting /\ "off" \in Setting /\ "" \notin Setting
        /\ setting \in Setting /\ asked \in Setting /\ broken \in BOOLEAN
        /\ blocks \in Seq(Block) /\ previous \in Seq(Setting)
    BY DEF SessionInv, Setting
  <2> USE DEF session, fixed
  <2>1. ASSUME NEW q, Issue(q) PROVE SessionInv'
    BY <2>1 DEF Issue, Idle, SessionInv
  <2>2. CASE ForceHashJoins
    <3>1. /\ previous' \in Seq(Setting) /\ previous' # <<>>
          /\ previous'[1] = IF previous = <<>> THEN setting ELSE previous[1]
      BY <2>0, <2>2, Stack DEF ForceHashJoins
    <3>2. ~Idle /\ ~Idle' /\ ~broken /\ broken' = broken /\ asked' = asked /\ setting' = "off"
          /\ blocks' = blocks /\ planned' = planned
      BY <2>2 DEF ForceHashJoins, SessionInv, Idle
    <3>3. (IF previous = <<>> THEN setting ELSE previous[1]) = asked
      BY <3>2 DEF SessionInv
    <3>4. previous'[1] = asked' /\ setting' \in Setting /\ blocks' \in Seq(Block)
      BY <2>0, <3>1, <3>2, <3>3
    <3>5. ~broken' => IF previous' = <<>> THEN setting' = asked' ELSE previous'[1] = asked'
      BY <3>1, <3>4
    <3>6. asked' \in Setting /\ broken' \in BOOLEAN /\ ~Idle' /\ ~broken'
      BY <2>0, <3>2
    <3> QED
      BY <3>1, <3>4, <3>5, <3>6 DEF SessionInv
  <2>3. CASE Execute
    BY <2>0, <2>3 DEF Execute, Idle, SessionInv
  <2>4. CASE Restore
    <3>1. /\ previous[Len(previous)] \in Setting /\ previous' \in Seq(Setting)
          /\ previous' # <<>> => previous'[1] = previous[1]
          /\ previous' = <<>> => previous[Len(previous)] = previous[1]
      BY <2>0, <2>4, Stack DEF Restore
    <3>2. /\ ~broken => previous[1] = asked /\ setting' = previous[Len(previous)]
          /\ setting' \in Setting
          /\ asked' = asked /\ broken' = broken /\ blocks' = blocks /\ planned' = planned
          /\ planned' # "" /\ ~Idle'
      BY <2>0, <2>4, <3>1 DEF Restore, SessionInv, Idle
    <3> QED
      BY <2>0, <3>1, <3>2 DEF SessionInv
  <2>5. CASE Return
    BY <2>5 DEF Return, Idle, SessionInv
  <2>6. ASSUME NEW v \in {"on", "off"}, CallerSets(v) PROVE SessionInv'
    BY <2>6 DEF CallerSets, Idle, SessionInv, Setting
  <2>7. CASE EnterAtomic
    <3>1. [setting |-> setting, asked |-> asked] \in Block
      BY <2>7 DEF EnterAtomic, Block, SessionInv
    <3>2. blocks' \in Seq(Block)
      BY <2>0, <2>7, <3>1, Stack DEF EnterAtomic
    <3> QED
      BY <2>7, <3>2 DEF EnterAtomic, Idle, SessionInv
  <2>8. ASSUME LeaveAtomic
        PROVE  blocks' \in Seq(Block) /\ blocks[Len(blocks)] \in Block
    BY <2>0, <2>8, Stack DEF LeaveAtomic
  <2>9. CASE Commit
    BY <2>8, <2>9 DEF Commit, LeaveAtomic, Idle, SessionInv
  <2>10. CASE Rollback
    <3>1. setting' \in Setting /\ asked' = setting' /\ broken' = FALSE
      BY <2>8, <2>10 DEF Rollback, Block
    <3>2. previous' = <<>> /\ planned' = "" /\ Idle'
      BY <2>10 DEF Rollback, LeaveAtomic, SessionInv, Idle
    <3>3. previous' \in Seq(Setting)
      BY <3>2, EmptySeq
    <3> QED
      BY <2>8, <2>10, <3>1, <3>2, <3>3 DEF SessionInv, Rollback
  <2>11. CASE UNCHANGED vars
    BY <2>11 DEF vars, Idle, SessionInv
  <2> QED
    BY <2>1, <2>2, <2>3, <2>4, <2>5, <2>6, <2>7, <2>9, <2>10, <2>11 DEF Next
<1> QED
  BY <1>1, <1>2

\* The caller gets its own enable_nestloop back: through nested bans, failed
\* statements, and transactions and savepoints that roll back at any point.
THEOREM SettingComesBack == Spec => []SettingReturned
<1>1. SessionInv => SettingReturned
  BY DEF SessionInv, SettingReturned
<1> QED
  BY <1>1, SessionInductive, PTL DEF Spec

-----------------------------------------------------------------------------
(* The decision to ban nested loops                                        *)

\* The views of all the relations the query was written with.
WrittenViews(q) == UNION {Views(q.where[i].path) : i \in DOMAIN q.where}

\* Every relation of the query is in its alias map, or in that of a subquery.
LEMMA RewritingKeepsViews ==
  ASSUME NEW q
  PROVE  JoinedViews(q) \cup NestedViews(q) = WrittenViews(q)
<1> DEFINE Kept(c)   == JoinsInOverlay(c)
           Nested(c) == TraversalRewrite(c) \/ M2mFence(c, FALSE) \/ IsSplit(c)
<1>1. ASSUME NEW c, ~Kept(c), ~Nested(c)
      PROVE  Views(c.path) = {}
  <2>1. c.path = "self"
    BY <1>1 DEF JoinsInOverlay, JoinsInDjango
  <2> QED
    BY <2>1, FiltersAssumption DEF Views, Relation
<1>2. JoinedViews(q) = UNION {Views(q.where[i].path) :
                                i \in {j \in DOMAIN q.where : Kept(q.where[j])}}
  BY DEF JoinedViews
<1>3. NestedViews(q) = UNION {Views(q.where[i].path) :
                                i \in {j \in DOMAIN q.where : Nested(q.where[j])}}
  BY DEF NestedViews
<1> HIDE DEF Kept, Nested
<1>4. ASSUME NEW x PROVE x \in JoinedViews(q) \cup NestedViews(q) <=> x \in WrittenViews(q)
  BY <1>1, <1>2, <1>3 DEF WrittenViews
<1> QED
  BY <1>4

\* What is due by the query as the caller wrote it.
Due(q) ==
  /\ "FORCE_HASH_JOINS" \in Enabled /\ ~q.selective
  /\ Cardinality(NearView \cup WrittenViews(q)) >= IF q.limit > 0 THEN 2 ELSE 5

\* The shape that is decided on is the shape that was written.
LEMMA DecidesAsWritten == ASSUME NEW q PROVE WantsHashJoins(q) <=> Due(q)
<1>1. OverlayViewsRead(q) = Cardinality(NearView \cup WrittenViews(q))
  <2>1. NearView \cup JoinedViews(q) \cup NestedViews(q) = NearView \cup WrittenViews(q)
    BY RewritingKeepsViews
  <2> QED
    BY <2>1 DEF OverlayViewsRead
<1>2. Limited(q) \/ Paged(q) <=> q.limit > 0
  BY DEF Limited, Paged, WantsLateRowLookup
<1> QED
  BY <1>1, <1>2 DEF WantsHashJoins, Due

\* The queries that want bans are those that get any.
LEMMA BansAreWanted ==
  ASSUME NEW q
  PROVE  /\ Bans(q) = 0 <=> ~WantsHashJoins(q)
         /\ \A n \in Nat : n < Bans(q) => WantsHashJoins(q)
<1>1. CASE WantsHashJoins(q)
  BY <1>1 DEF Bans
<1>2. CASE ~WantsHashJoins(q)
  BY <1>2 DEF Bans
<1> QED
  BY <1>1, <1>2

\* Bans are entered for a query that wants them, all before it is planned.
BanInv ==
  /\ planned = "" /\ previous # <<>> => setting = "off" /\ WantsHashJoins(query)
  /\ planned # "" => (planned = "off" <=> asked = "off" \/ WantsHashJoins(query))

\* Planning happens under the bans, and nothing the caller asks for changes
\* while a statement runs.
LEMMA BanInductive ==
  /\ Init => BanInv
  /\ SessionInv /\ BanInv /\ [Next]_vars => BanInv'
<1>1. Init => BanInv
  BY DEF Init, BanInv
<1>2. SessionInv /\ BanInv /\ [Next]_vars => BanInv'
  <2> SUFFICES ASSUME SessionInv, BanInv, [Next]_vars PROVE BanInv'
    OBVIOUS
  <2> USE DEF BanInv, session, fixed
  <2>0. /\ previous = <<>> => Len(previous) = 0
        /\ previous # <<>> => Len(previous) \in Nat \ {0}
        /\ Len(previous) \in Nat
    BY EmptySeq, LenProperties DEF SessionInv
  <2>1. CASE Idle
    <3>1. previous = <<>> /\ planned = ""
      BY <2>1 DEF SessionInv
    <3>2. previous' = <<>> /\ planned' = ""
      BY <2>1, <3>1 DEF Next, Issue, ForceHashJoins, Execute, Restore, Return, CallerSets,
                        EnterAtomic, Commit, Rollback, LeaveAtomic, vars
    <3> QED
      BY <3>2
  <2>2. CASE ForceHashJoins
    <3>1. Len(previous) < Bans(query)
      BY <2>2 DEF ForceHashJoins
    <3>2. WantsHashJoins(query)
      BY <2>0, <3>1, BansAreWanted
    <3>3. query' = query /\ setting' = "off" /\ planned' = "" /\ asked' = asked
      BY <2>2 DEF ForceHashJoins
    <3> QED
      BY <3>2, <3>3
  <2>3. CASE Execute
    <3>1. /\ planned = "" /\ Len(previous) = Bans(query) /\ planned' = setting
          /\ query' = query /\ asked' = asked /\ ~Idle
      BY <2>3 DEF Execute
    <3>2. setting = "off" <=> asked = "off" \/ WantsHashJoins(query)
      <4>1. CASE previous = <<>>
        <5>1. ~WantsHashJoins(query)
          BY <2>0, <3>1, <4>1, BansAreWanted
        <5>2. setting = asked
          BY <3>1, <4>1 DEF SessionInv
        <5> QED
          BY <5>1, <5>2
      <4>2. CASE previous # <<>>
        BY <3>1, <4>2
      <4> QED
        BY <4>1, <4>2
    <3>3. planned' # ""
      BY <3>1 DEF SessionInv, Setting
    <3> QED
      BY <3>1, <3>2, <3>3
  <2>4. CASE Restore
    BY <2>4 DEF Restore
  <2>5. CASE Return
    BY <2>5 DEF Return
  <2>6. CASE UNCHANGED vars
    BY <2>6 DEF vars
  <2> QED
    BY <2>1, <2>2, <2>3, <2>4, <2>5, <2>6
    DEF Next, Issue, CallerSets, EnterAtomic, Commit, Rollback, LeaveAtomic
<1> QED
  BY <1>1, <1>2

\* Whatever the query, its rewriting and the nesting of its bans, it is planned
\* without nested loops exactly if the caller banned them or the relations that the
\* query was written with have as many views as the rule says.
THEOREM BanIsOfTheQuery == Spec => []BanFollowsTheQuery
<1>1. BanInv => BanFollowsTheQuery
  <2> SUFFICES ASSUME BanInv, planned # ""
               PROVE  (planned = "off") = (asked = "off" \/ Due(query))
    BY DEF BanFollowsTheQuery, Due, WrittenViews
  <2> QED
    BY DecidesAsWritten DEF BanInv
<1> QED
  BY <1>1, SessionInductive, BanInductive, PTL DEF Spec

-----------------------------------------------------------------------------
(* What a rewritten query matches                                          *)

\* The queries whose rewrites are right: no traversal that asks for NULL becomes
\* a subquery or gets a fence, no literal key is too large for its column, and a
\* page that is looked up late is one of rows.
Agreed(q) ==
  /\ \A i \in DOMAIN q.where :
       q.where[i].test = "is null" =>
         ~TraversalRewrite(q.where[i]) /\ ~M2mFence(q.where[i], FALSE)
  /\ LiteralArrayIn(q) => ~\E k \in q.among : k.key > MaxKey
  /\ WantsLateRowLookup(q) => q.result \in {"rows", "count"}

\* There are finitely many functions between finite sets.
LEMMA FinitelyManyFunctions ==
  ASSUME NEW S, NEW T, IsFiniteSet(S), IsFiniteSet(T)
  PROVE  IsFiniteSet([S -> T])
<1> DEFINE Graph(f) == {<<x, f[x]>> : x \in S}
           G == [f \in [S -> T] |-> Graph(f)]
<1>1. G \in [[S -> T] -> SUBSET (S \X T)]
  OBVIOUS
<1>2. ASSUME NEW f \in [S -> T], NEW g \in [S -> T], G[f] = G[g] PROVE f = g
  <2>1. \A x \in S : <<x, f[x]>> \in Graph(g)
    BY <1>2
  <2>2. \A x \in S : f[x] = g[x]
    BY <2>1
  <2> QED
    BY <2>2
<1> HIDE DEF G
<1>3. G \in Injection([S -> T], SUBSET (S \X T))
  BY <1>1, <1>2, Fun_IsInj
<1>4. IsFiniteSet(SUBSET (S \X T))
  BY FS_Product, FS_SUBSET
<1> QED
  BY <1>3, <1>4, FS_Injection

\* Sets that can be paired have as many members.
LEMMA Paired ==
  ASSUME NEW S, NEW T, IsFiniteSet(S), NEW f \in [S -> T],
         \A a, b \in S : f[a] = f[b] => a = b, \A t \in T : \E a \in S : f[a] = t
  PROVE  IsFiniteSet(T) /\ Cardinality(T) = Cardinality(S)
<1>1. f \in Bijection(S, T)
  BY Fun_IsBij
<1> QED
  BY <1>1, FS_Bijection DEF ExistsBijection

\* The pieces of Matches, for Django's joins and for the overlay's.
DjangoAliases(q)  == {Alias(q, i) : i \in {j \in DOMAIN q.where : JoinsInDjango(q.where[j])}}
OverlayAliases(q) == {Alias(q, i) : i \in {j \in DOMAIN q.where : JoinsInOverlay(q.where[j])}}

Tuples(w, n, A) ==
  {t \in [A -> Target \cup {NoRow}] : \A a \in A : t[a] \in Joined(w, n, a[1])}

At(q, A, t, i) == IF Alias(q, i) \in A THEN t[Alias(q, i)] ELSE NoRow

DjangoKeeps(w, q, n, t) ==
  IF q.connector = "AND"
  THEN \A i \in DOMAIN q.where : HoldsOn(w, n, q.where[i], At(q, DjangoAliases(q), t, i))
  ELSE \E i \in DOMAIN q.where : HoldsOn(w, n, q.where[i], At(q, DjangoAliases(q), t, i))

OverlayKeeps(w, q, n, t) ==
  IF q.connector = "AND"
  THEN \A i \in DOMAIN q.where : BuildFilter(w, n, q.where[i], At(q, OverlayAliases(q), t, i))
  ELSE \E i \in DOMAIN q.where : BuildFilter(w, n, q.where[i], At(q, OverlayAliases(q), t, i))

\* Both bags are the numbers of tuples that are kept.
LEMMA Unfolded ==
  ASSUME NEW w, NEW q
  PROVE  /\ DjangoMatches(w, q) =
              Among(q, [n \in Near |-> Cardinality({t \in Tuples(w, n, DjangoAliases(q)) :
                                                      DjangoKeeps(w, q, n, t)})])
         /\ OverlayMatches(w, q) =
              Among(q, [n \in Near |-> Cardinality({t \in Tuples(w, n, OverlayAliases(q)) :
                                                      OverlayKeeps(w, q, n, t)})])
BY DEF DjangoMatches, OverlayMatches, Matches, DjangoAliases, OverlayAliases, Tuples,
       At, DjangoKeeps, OverlayKeeps

\* A reference has one target or none, which is what its join finds.
LEMMA OneTarget ==
  ASSUME NEW w, NEW n
  PROVE  /\ Joined(w, n, ForeignKey) = {w.near[n].to}
         /\ Linked(w, n, ForeignKey) = {w.near[n].to} \ {NoRow}
BY DEF Joined, Linked

\* A column=value test on one joined row, as Django and the subquery make it.
LEMMA ExactTest ==
  ASSUME NEW w, NEW n, NEW c, c.path # "self", c.test = "exact", NEW t
  PROVE  /\ Passes(w, n, c, t) = (ColumnOf(w, c.path, t) = 0)
         /\ ~Passes(w, n, c, NoRow)
BY FiltersAssumption DEF Passes, ColumnOf

\* A traversal that is rewritten or fenced tests a column for a value.
LEMMA RewrittenIsExact ==
  ASSUME NEW q \in Query, Agreed(q), NEW i \in DOMAIN q.where,
         TraversalRewrite(q.where[i]) \/ M2mFence(q.where[i], FALSE)
  PROVE  /\ q.where[i].test = "exact" /\ q.where[i].negated = FALSE
         /\ q.where[i].path # "self" /\ JoinsInDjango(q.where[i])
<1>1. q.where[i] \in Clause
  BY DEF Query
<1> QED
  BY <1>1, FiltersAssumption
  DEF Agreed, TraversalRewrite, M2mFence, Clause, JoinsInDjango, IsSplit, Multivalued, Relation

\* The overlay drops at most one of Django's joins, that of the reference.
LEMMA DroppedJoin ==
  ASSUME NEW q
  PROVE  /\ OverlayAliases(q) \subseteq DjangoAliases(q)
         /\ \A a \in DjangoAliases(q) \ OverlayAliases(q) : a = <<ForeignKey, 0>>
         /\ \A i \in DOMAIN q.where :
              ~TraversalRewrite(q.where[i]) =>
                (Alias(q, i) \in DjangoAliases(q) <=> Alias(q, i) \in OverlayAliases(q))
<1>1. \A c : JoinsInOverlay(c) <=> JoinsInDjango(c) /\ ~TraversalRewrite(c)
  BY DEF JoinsInOverlay
<1>2. \A i : TraversalRewrite(q.where[i]) => Alias(q, i) = <<ForeignKey, 0>>
  BY FiltersAssumption DEF TraversalRewrite, Alias, Multivalued
<1>3. OverlayAliases(q) \subseteq DjangoAliases(q)
  BY <1>1 DEF OverlayAliases, DjangoAliases
<1>4. \A a \in DjangoAliases(q) \ OverlayAliases(q) : a = <<ForeignKey, 0>>
  BY <1>1, <1>2 DEF OverlayAliases, DjangoAliases
<1>5. ASSUME NEW i \in DOMAIN q.where, ~TraversalRewrite(q.where[i]),
             Alias(q, i) \in DjangoAliases(q), Alias(q, i) \notin OverlayAliases(q)
      PROVE  FALSE
  <2>1. Alias(q, i) = <<ForeignKey, 0>>
    BY <1>4, <1>5
  <2>2. q.where[i].path = ForeignKey
    BY <2>1 DEF Alias
  <2>3. JoinsInDjango(q.where[i])
    BY <2>2, FiltersAssumption DEF JoinsInDjango, IsSplit, Multivalued, Relation
  <2> QED
    BY <1>1, <1>5, <2>3 DEF OverlayAliases
<1> QED
  BY <1>3, <1>4, <1>5

\* One argument says of a tuple with the joins that are left what Django's says
\* of the tuple with all of them.
LEMMA SameVerdict ==
  ASSUME NEW q \in Query, Agreed(q), NEW w, NEW n,
         NEW t \in Tuples(w, n, DjangoAliases(q)), NEW u,
         u = [a \in OverlayAliases(q) |-> t[a]],
         NEW i \in DOMAIN q.where
  PROVE  HoldsOn(w, n, q.where[i], At(q, DjangoAliases(q), t, i))
           <=> BuildFilter(w, n, q.where[i], At(q, OverlayAliases(q), u, i))
<1> DEFINE c == q.where[i]
           x == At(q, DjangoAliases(q), t, i)
<1>1. JoinsInDjango(c) => /\ Alias(q, i) \in DjangoAliases(q)
                          /\ x = t[Alias(q, i)] /\ x \in Joined(w, n, c.path)
  BY DEF DjangoAliases, At, Tuples, Alias
<1>2. CASE TraversalRewrite(c)
  <2>1. c.path = ForeignKey /\ c.path # "self" /\ c.test = "exact" /\ c.negated = FALSE
        /\ JoinsInDjango(c) /\ ~IsSplit(c)
    BY <1>2, RewrittenIsExact DEF TraversalRewrite, IsSplit
  <2>2. x = w.near[n].to
    BY <1>1, <2>1, OneTarget
  <2>3. HoldsOn(w, n, c, x) <=> Passes(w, n, c, x)
    BY <2>1, ExactTest DEF HoldsOn
  <2>4. InSubquery(w, n, c) <=> Passes(w, n, c, x)
    <3>1. Linked(w, n, c.path) = {x} \ {NoRow}
      BY <2>1, <2>2, OneTarget
    <3>2. ~Passes(w, n, c, NoRow)
      BY <2>1, ExactTest
    <3> QED
      BY <3>1, <3>2 DEF InSubquery
  <2> QED
    BY <1>2, <2>3, <2>4 DEF BuildFilter
<1>3. CASE ~TraversalRewrite(c)
  <2>1. At(q, OverlayAliases(q), u, i) = x
    BY <1>3, DroppedJoin DEF At
  <2>2. ASSUME M2mFence(c, FALSE), HoldsOn(w, n, c, x) PROVE InSubquery(w, n, c)
    <3>1. c.test = "exact" /\ c.negated = FALSE /\ c.path # "self" /\ JoinsInDjango(c)
      BY <2>2, RewrittenIsExact
    <3>2. Passes(w, n, c, x)
      BY <2>2, <3>1, ExactTest DEF HoldsOn, IsSplit
    <3>3. x # NoRow /\ x \in Joined(w, n, c.path)
      BY <1>1, <3>1, <3>2, ExactTest
    <3>4. x \in Linked(w, n, c.path)
      BY <3>3 DEF Joined
    <3> QED
      BY <3>2, <3>4 DEF InSubquery
  <2> QED
    BY <1>3, <2>1, <2>2 DEF BuildFilter
<1> QED
  BY <1>2, <1>3

\* So it keeps a tuple where Django keeps the longer one.
LEMMA SameKept ==
  ASSUME NEW q \in Query, Agreed(q), NEW w, NEW n,
         NEW t \in Tuples(w, n, DjangoAliases(q)), NEW u,
         u = [a \in OverlayAliases(q) |-> t[a]]
  PROVE  DjangoKeeps(w, q, n, t) <=> OverlayKeeps(w, q, n, u)
<1>1. \A i \in DOMAIN q.where :
        HoldsOn(w, n, q.where[i], At(q, DjangoAliases(q), t, i))
          <=> BuildFilter(w, n, q.where[i], At(q, OverlayAliases(q), u, i))
  BY SameVerdict
<1> QED
  BY <1>1 DEF DjangoKeeps, OverlayKeeps

\* Each tuple of the joins that are left extends to one of Django's and one only.
LEMMA TuplesExtend ==
  ASSUME NEW q \in Query, NEW w \in World, NEW n \in Near
  PROVE  /\ \A t \in Tuples(w, n, DjangoAliases(q)) :
              [a \in OverlayAliases(q) |-> t[a]] \in Tuples(w, n, OverlayAliases(q))
         /\ \A s, t \in Tuples(w, n, DjangoAliases(q)) :
              (\A a \in OverlayAliases(q) : s[a] = t[a]) => s = t
         /\ \A u \in Tuples(w, n, OverlayAliases(q)) :
              \E t \in Tuples(w, n, DjangoAliases(q)) : u = [a \in OverlayAliases(q) |-> t[a]]
<1> DEFINE D == DjangoAliases(q)  O == OverlayAliases(q)  to == w.near[n].to
<1>1. O \subseteq D /\ \A a \in D \ O : a[1] = ForeignKey
  BY DroppedJoin
<1>2. Joined(w, n, ForeignKey) = {to} /\ to \in Target \cup {NoRow}
  BY OneTarget DEF World
<1> HIDE DEF D, O, to
<1>3. ASSUME NEW t \in Tuples(w, n, D)
      PROVE  [a \in O |-> t[a]] \in Tuples(w, n, O)
  BY <1>1, <1>3 DEF Tuples
<1>4. ASSUME NEW s \in Tuples(w, n, D), NEW t \in Tuples(w, n, D),
             \A a \in O : s[a] = t[a]
      PROVE  s = t
  <2>1. \A a \in D \ O : s[a] = to /\ t[a] = to
    BY <1>1, <1>2 DEF Tuples
  <2>2. \A a \in D : s[a] = t[a]
    BY <1>4, <2>1
  <2> QED
    BY <2>2 DEF Tuples
<1>5. ASSUME NEW u \in Tuples(w, n, O)
      PROVE  \E t \in Tuples(w, n, D) : u = [a \in O |-> t[a]]
  <2> DEFINE t == [a \in D |-> IF a \in O THEN u[a] ELSE to]
  <2>1. \A a \in D : t[a] \in Joined(w, n, a[1]) /\ t[a] \in Target \cup {NoRow}
    BY <1>1, <1>2 DEF Tuples
  <2>2. t \in Tuples(w, n, D)
    BY <2>1 DEF Tuples
  <2>3. u = [a \in O |-> t[a]]
    BY <1>1 DEF Tuples
  <2> QED
    BY <2>2, <2>3
<1> QED
  BY <1>3, <1>4, <1>5 DEF D, O

\* A query has finitely many arguments, so finitely many joins and tuples.
LEMMA FinitelyManyTuples ==
  ASSUME NEW q \in Query, NEW w, NEW n
  PROVE  /\ IsFiniteSet(Tuples(w, n, DjangoAliases(q)))
         /\ IsFiniteSet(Tuples(w, n, OverlayAliases(q)))
<1> DEFINE I == {j \in DOMAIN q.where : JoinsInDjango(q.where[j])}
           f == [i \in I |-> Alias(q, i)]
<1>1. IsFiniteSet(DOMAIN q.where)
  <2>1. q.where \in Seq(Clause)
    BY DEF Query
  <2>2. DOMAIN q.where = 1..Len(q.where) /\ Len(q.where) \in Nat
    BY <2>1, LenProperties
  <2> QED
    BY <2>2, FS_Interval
<1>2. IsFiniteSet(I)
  BY <1>1, FS_Subset
<1>3. f \in [I -> DjangoAliases(q)] /\ \A a \in DjangoAliases(q) : \E i \in I : f[i] = a
  BY DEF DjangoAliases
<1> HIDE DEF f, I
<1>4. IsFiniteSet(DjangoAliases(q))
  BY <1>2, <1>3, Fun_IsSurj, FS_Surjection
<1>5. IsFiniteSet(OverlayAliases(q))
  BY <1>4, FS_Subset, DroppedJoin
<1>6. IsFiniteSet(Target \cup {NoRow})
  BY FS_AddElement, FiltersAssumption
<1>7. \A A : IsFiniteSet(A) => IsFiniteSet(Tuples(w, n, A))
  <2> TAKE A
  <2> HAVE IsFiniteSet(A)
  <2>1. IsFiniteSet([A -> Target \cup {NoRow}])
    BY <1>6, FinitelyManyFunctions
  <2>2. Tuples(w, n, A) \in SUBSET [A -> Target \cup {NoRow}]
    BY DEF Tuples
  <2> QED
    BY <2>1, <2>2, FS_Subset
<1> QED
  BY <1>4, <1>5, <1>7

\* A rewritten query matches each row exactly as often as the one that was
\* written, for any tree of arguments, chained or not, over any data.
LEMMA SameMatches ==
  ASSUME NEW q \in Query, Agreed(q), NEW w \in World
  PROVE  OverlayMatches(w, q) = DjangoMatches(w, q)
<1>1. ASSUME NEW n \in Near
      PROVE  Cardinality({t \in Tuples(w, n, OverlayAliases(q)) : OverlayKeeps(w, q, n, t)})
               = Cardinality({t \in Tuples(w, n, DjangoAliases(q)) : DjangoKeeps(w, q, n, t)})
  <2> DEFINE Cut(t) == [a \in OverlayAliases(q) |-> t[a]]
             S == {t \in Tuples(w, n, DjangoAliases(q)) : DjangoKeeps(w, q, n, t)}
             T == {t \in Tuples(w, n, OverlayAliases(q)) : OverlayKeeps(w, q, n, t)}
             f == [t \in S |-> Cut(t)]
  <2>1. IsFiniteSet(S)
    BY FinitelyManyTuples, FS_Subset
  <2>2. \A t \in Tuples(w, n, DjangoAliases(q)) :
          /\ Cut(t) \in Tuples(w, n, OverlayAliases(q))
          /\ DjangoKeeps(w, q, n, t) <=> OverlayKeeps(w, q, n, Cut(t))
    BY TuplesExtend, SameKept
  <2>3. f \in [S -> T]
    BY <2>2
  <2>4. \A s, t \in S : Cut(s) = Cut(t) => s = t
    <3>1. \A s, t : Cut(s) = Cut(t) => \A a \in OverlayAliases(q) : s[a] = t[a]
      <4> TAKE s, t
      <4>1. \A a \in OverlayAliases(q) : Cut(s)[a] = s[a] /\ Cut(t)[a] = t[a]
        OBVIOUS
      <4> QED
        BY <4>1
    <3> QED
      BY <3>1, TuplesExtend
  <2>5. \A u \in T : \E t \in S : Cut(t) = u
    BY <2>2, TuplesExtend
  <2>6. (\A s, t \in S : f[s] = f[t] => s = t) /\ \A u \in T : \E t \in S : f[t] = u
    BY <2>4, <2>5
  <2> HIDE DEF f, S, T
  <2>7. Cardinality(T) = Cardinality(S)
    BY <2>1, <2>3, <2>6, Paired
  <2> QED
    BY <2>7 DEF S, T
<1> QED
  BY <1>1, Unfolded

\* Where no join can repeat a row, none is repeated.
LEMMA NoRepeats ==
  ASSUME NEW q \in Query, NEW w, ~MultipliesRows(q)
  PROVE  \A n \in Near : OverlayMatches(w, q)[n] \in {0, 1}
<1> DEFINE kept(n) == {t \in Tuples(w, n, OverlayAliases(q)) : OverlayKeeps(w, q, n, t)}
<1>1. ASSUME NEW a \in OverlayAliases(q) PROVE a[1] = ForeignKey
  <2>1. PICK i \in DOMAIN q.where : JoinsInOverlay(q.where[i]) /\ a = Alias(q, i)
    BY DEF OverlayAliases
  <2>2. q.where[i] \in Clause
    BY DEF Query
  <2>3. q.where[i].path = ForeignKey
    BY <2>1, <2>2 DEF MultipliesRows, Multivalued, JoinsInOverlay, JoinsInDjango, Clause,
                      Relation
  <2> QED
    BY <2>1, <2>3 DEF Alias
<1>2. ASSUME NEW n, NEW s \in Tuples(w, n, OverlayAliases(q)),
             NEW t \in Tuples(w, n, OverlayAliases(q))
      PROVE  s = t
  <2>1. \A a \in OverlayAliases(q) : s[a] = t[a]
    BY <1>1, OneTarget DEF Tuples
  <2> QED
    BY <2>1 DEF Tuples
<1>3. ASSUME NEW n PROVE Cardinality(kept(n)) \in {0, 1}
  <2>1. CASE kept(n) = {}
    BY <2>1, FS_EmptySet
  <2>2. CASE kept(n) # {}
    <3>1. PICK t : kept(n) = {t}
      BY <1>2, <2>2
    <3> QED
      BY <3>1, FS_Singleton
  <2> QED
    BY <2>1, <2>2
<1>4. OverlayMatches(w, q) = Among(q, [n \in Near |-> Cardinality(kept(n))])
  BY Unfolded
<1> HIDE DEF kept
<1> QED
  BY <1>3, <1>4 DEF Among

-----------------------------------------------------------------------------
(* What a rewritten query answers                                          *)

\* A page of rows that none of the rewritten joins repeats, or of distinct ones,
\* is the same query on the page's keys alone: no row is left out or repeated
\* by the second step.
LEMMA PageOfItsKeys ==
  ASSUME NEW w, NEW bag \in [Near -> Int], NEW distinct,
         ~distinct => \A n \in Near : bag[n] \in {0, 1},
         NEW result \in {"rows", "count"}, NEW k,
         NEW page \in Pages(w, "keys", Project(w, bag, "keys", distinct), k),
         NEW rows, rows = [n \in Near |-> IF n \in DOMAIN page THEN bag[n] ELSE 0]
  PROVE  /\ IsPage(w, result, page, Project(w, bag, result, distinct), k)
         /\ Project(w, rows, result, distinct) = page
<1> DEFINE all == [n \in {m \in Near : bag[m] > 0} |-> IF distinct THEN 1 ELSE bag[n]]
<1>1. /\ Project(w, bag, "keys", distinct) = all
      /\ Project(w, bag, result, distinct) = all
      /\ Project(w, rows, result, distinct)
           = [n \in {m \in Near : rows[m] > 0} |-> IF distinct THEN 1 ELSE rows[n]]
  BY DEF Project
<1>2. \A x : SortKey(w, "keys", x) = SortKey(w, result, x)
  BY DEF SortKey
<1>3. IsPage(w, "keys", page, all, k)
  BY <1>1 DEF Pages
<1>4. IsPage(w, result, page, all, k)
  BY <1>2, <1>3 DEF IsPage
<1>5. /\ page = [n \in DOMAIN page |-> page[n]]
      /\ DOMAIN page \subseteq DOMAIN all
      /\ \A n \in DOMAIN page : page[n] \in 1..all[n]
  BY <1>3 DEF IsPage, Pages
<1>6. \A n \in DOMAIN all : n \in Near /\ bag[n] > 0 /\ all[n] = 1
  OBVIOUS
<1> HIDE DEF all
<1>7. \A n \in DOMAIN page : n \in Near /\ bag[n] > 0 /\ page[n] = 1
  <2> TAKE n \in DOMAIN page
  <2>1. all[n] = 1 /\ page[n] \in 1..all[n]
    BY <1>5, <1>6
  <2>2. page[n] \in 1..1
    BY <2>1
  <2> QED
    BY <1>5, <1>6, <2>2
<1>8. {m \in Near : rows[m] > 0} = DOMAIN page
  BY <1>7
<1>9. \A n \in DOMAIN page : page[n] = IF distinct THEN 1 ELSE rows[n]
  <2>1. \A n \in DOMAIN page : ~distinct => bag[n] = 1
    BY <1>7
  <2>2. \A n \in DOMAIN page : rows[n] = bag[n]
    BY <1>7
  <2> QED
    BY <1>7, <2>1, <2>2
<1>10. Project(w, rows, result, distinct) = page
  BY <1>1, <1>5, <1>8, <1>9
<1> QED
  BY <1>1, <1>4, <1>10

\* The numbers of matches are numbers.
LEMMA MatchesType ==
  ASSUME NEW q \in Query, NEW w
  PROVE  OverlayMatches(w, q) \in [Near -> Int]
<1> DEFINE kept(n) == {t \in Tuples(w, n, OverlayAliases(q)) : OverlayKeeps(w, q, n, t)}
<1>1. ASSUME NEW n PROVE Cardinality(kept(n)) \in Int
  <2>1. IsFiniteSet(kept(n))
    BY FinitelyManyTuples, FS_Subset
  <2> HIDE DEF kept
  <2> QED
    BY <2>1, FS_CardinalityType
<1>2. OverlayMatches(w, q) = Among(q, [n \in Near |-> Cardinality(kept(n))])
  BY Unfolded
<1> HIDE DEF kept
<1> QED
  BY <1>1, <1>2 DEF Among

\* What the caller receives is a bag, and so no error.
LEMMA AnswersAreBags ==
  ASSUME Error # [x \in DOMAIN Error |-> Error[x]],
         NEW q \in Query, NEW w, NEW bag, NEW result, NEW all, NEW k
  PROVE  /\ Project(w, bag, q.result, q.distinct) # Error
         /\ Error \notin Pages(w, result, all, k)
<1>1. q.result \in {"rows", "keys", "values", "groups", "count"}
  BY DEF Query
<1>2. Project(w, bag, q.result, q.distinct) # Error
  BY <1>1 DEF Project
<1>3. Error \notin Pages(w, result, all, k)
  BY DEF Pages
<1> QED
  BY <1>2, <1>3

\* No statement with such a query fails for being rewritten: exclude() keeps the
\* fence out of what it nests.
LEMMA NothingFails == ASSUME NEW q, Agreed(q) PROVE ~Fails(q)
BY DEF Agreed, Fails, ArrayFails, LiteralArrayIn, SplitExcludeFails, M2mFence

\* Every answer of the rewritten query is one the written query could have had.
LEMMA AnswersAgree ==
  ASSUME Error # [x \in DOMAIN Error |-> Error[x]],
         NEW q \in Query, Agreed(q), NEW w \in World, NEW a \in Answers(w, q)
  PROVE  IsAnswer(w, q, a)
<1> DEFINE bag == OverlayMatches(w, q)
           all == Project(w, bag, q.result, q.distinct)
<1>1. bag = DjangoMatches(w, q)
  BY SameMatches
<1>2. q.limit \in Nat /\ q.distinct \in BOOLEAN
  BY DEF Query
<1>3. CASE WantsLateRowLookup(q)
  <2>1. q.result \in {"rows", "count"} /\ q.limit > 0
    BY <1>3 DEF Agreed, WantsLateRowLookup
  <2> DEFINE Rows(page) == [n \in Near |-> IF n \in DOMAIN page THEN bag[n] ELSE 0]
  <2>2. PICK page \in Pages(w, "keys", Project(w, bag, "keys", q.distinct), q.limit) :
          a = Project(w, Rows(page), q.result, q.distinct)
    <3>1. (q.distinct \/ q.result = "groups") = q.distinct
      BY <1>2, <2>1
    <3> QED
      BY <1>3, <3>1, NothingFails DEF Answers, LateRowLookup
  <2>3. ~q.distinct => \A n \in Near : bag[n] \in {0, 1}
    BY <1>3, NoRepeats DEF WantsLateRowLookup
  <2>4. bag \in [Near -> Int]
    BY MatchesType
  <2> HIDE DEF bag
  <2>5. PICK rows : rows = Rows(page)
    OBVIOUS
  <2>6. /\ IsPage(w, q.result, page, all, q.limit)
        /\ Project(w, rows, q.result, q.distinct) = page
    BY <2>1, <2>2, <2>3, <2>4, <2>5, PageOfItsKeys
  <2>7. a = page
    BY <2>2, <2>5, <2>6
  <2>8. page # Error
    BY <2>2, AnswersAreBags
  <2> QED
    BY <1>1, <2>1, <2>6, <2>7, <2>8 DEF IsAnswer
<1>4. CASE ~WantsLateRowLookup(q) /\ q.limit = 0
  <2>1. a = all
    BY <1>4, NothingFails DEF Answers
  <2>2. all # Error
    BY AnswersAreBags
  <2> QED
    BY <1>1, <1>4, <2>1, <2>2 DEF IsAnswer
<1>5. CASE ~WantsLateRowLookup(q) /\ q.limit # 0
  <2>1. a \in Pages(w, q.result, all, q.limit)
    BY <1>5, NothingFails DEF Answers
  <2>2. a # Error
    BY <2>1, AnswersAreBags
  <2>3. IsPage(w, q.result, a, all, q.limit)
    BY <2>1 DEF Pages
  <2> QED
    BY <1>1, <1>5, <2>2, <2>3 DEF IsAnswer
<1> QED
  BY <1>3, <1>4, <1>5

\* What is answered is an answer of the query that was issued.
AnswerInv ==
  /\ work \in DOMAIN Workload /\ world \in Workload[work].worlds
  /\ ~Idle => query \in Workload[work].queries
  /\ planned # "" /\ ~Workload[work].fails => answer \in Answers(world, query)

\* Only Execute answers, and the query stays until the answer is returned.
LEMMA AnswerInductive ==
  /\ Init => AnswerInv
  /\ SessionInv /\ AnswerInv /\ [Next]_vars => AnswerInv'
<1>1. Init => AnswerInv
  BY DEF Init, AnswerInv, Idle
<1>2. SessionInv /\ AnswerInv /\ [Next]_vars => AnswerInv'
  <2> SUFFICES ASSUME SessionInv, AnswerInv, [Next]_vars PROVE AnswerInv'
    OBVIOUS
  <2> USE DEF AnswerInv, Idle, fixed, session
  <2>1. ASSUME NEW q \in Workload[work].queries, Issue(q) PROVE AnswerInv'
    BY <2>1 DEF Issue, SessionInv
  <2>2. CASE Execute
    BY <2>2 DEF Execute
  <2>3. CASE ForceHashJoins \/ Restore
    BY <2>3 DEF ForceHashJoins, Restore
  <2>4. CASE Return
    BY <2>4 DEF Return
  <2>5. ASSUME NEW v, CallerSets(v) PROVE AnswerInv'
    BY <2>5 DEF CallerSets
  <2>6. CASE EnterAtomic
    BY <2>6 DEF EnterAtomic
  <2>7. CASE LeaveAtomic
    BY <2>7 DEF LeaveAtomic
  <2>8. CASE UNCHANGED vars
    BY <2>8 DEF vars
  <2> QED
    BY <2>1, <2>2, <2>3, <2>4, <2>5, <2>6, <2>7, <2>8 DEF Next, Commit, Rollback
<1> QED
  BY <1>1, <1>2

\* Whatever the views hold, a query whose rewrites are right is answered with
\* rows, values or groups that Django's own query could have returned, each as
\* often: arguments in one filter() or chained, joined by AND or OR, negated,
\* across references and many-to-many paths, sliced or not.  What Agreed leaves
\* out are the two shapes for which the rewrites do return other rows and the
\* late pages of values.
THEOREM RewritesKeepRows ==
  ASSUME Error # [x \in DOMAIN Error |-> Error[x]]   \* an error is no bag
  PROVE  Spec => [](Agreed(query) => SameRows)
<1>1. SessionInv /\ AnswerInv => (Agreed(query) => SameRows)
  <2> SUFFICES ASSUME SessionInv, AnswerInv, Agreed(query), planned # "",
                      ~Workload[work].fails
               PROVE  IsAnswer(world, query, answer)
    BY DEF SameRows
  <2>1. query \in Workload[work].queries /\ answer \in Answers(world, query)
    BY DEF SessionInv, AnswerInv
  <2>2. query \in Query /\ world \in World
    BY <2>1, WorkloadAssumption DEF AnswerInv
  <2> QED
    BY <2>1, <2>2, AnswersAgree
<1> QED
  BY <1>1, SessionInductive, AnswerInductive, PTL DEF Spec
=============================================================================
