--------------------------- MODULE SourceSwapProofs ---------------------------
(***************************************************************************)
(* Theorems about SourceSwap, for every set of tables, rows, tenants'      *)
(* sessions and ways to call the command.  What the recheck found holds    *)
(* until the view is replaced because nobody holds, or can take, a write   *)
(* on the base table meanwhile: the second check is only worth something   *)
(* behind the lock.                                                        *)
(***************************************************************************)
EXTENDS SourceSwap, TLAPS, FiniteSetTheorems

-----------------------------------------------------------------------------
(* Type correctness                                                        *)

\* The tables a model can be pointed at, and their rows.
LEMMA TableType ==
  ASSUME TypeOK, NEW src \in Source
  PROVE  tables[src] \in Table /\ tables[src].rows \in Rows
BY SwapAssumption DEF TypeOK, Table

\* A row that is found is a row of the model.
LEMMA FoundRow ==
  ASSUME NEW rows \in Rows, NEW p, SourceRow(rows, p) # NoRow
  PROVE  SourceRow(rows, p) \in Row
BY DEF SourceRow, Rows

\* What a session has written is a row or a reference.
LEMMA PendingType ==
  ASSUME TypeOK, NEW s \in Session
  PROVE  /\ s \in Writing({"row"}) =>
              pending[s].pk \in PK /\ pending[s].row \in BaseRow \cup {NoRow}
         /\ s \in Writing({"reference"}) =>
              pending[s] \in RefWrites /\ pending[s].child \in Child /\ pending[s].to \in Ref
BY DEF TypeOK, Writing, RowWrites, RefWrites

\* A statement that is sent, a row only to a table that is not locked.
LEMMA SendType ==
  ASSUME TypeOK, NEW s \in Session, NEW w \in RowWrites \cup RefWrites, Send(s, w),
         w \in RowWrites => ~Locked
  PROVE  TypeOK'
<1>1. writes' \in 0..MaxWrites
  <2>1. MaxWrites \in Nat
    BY SwapAssumption
  <2>2. \A n \in 0..MaxWrites : n < MaxWrites => n + 1 \in 0..MaxWrites
    BY <2>1
  <2> QED
    BY <2>2 DEF TypeOK, Send
<1>2. pending' \in [Session -> RowWrites \cup RefWrites \cup {NoWrite}]
  BY DEF TypeOK, Send
<1>3. Locked' => Writing({"row"})' = {}
  <2>1. CASE w \in RowWrites
    BY <2>1 DEF Send, Locked
  <2>2. CASE w \in RefWrites
    <3>1. \A t \in Session : t \in Writing({"row"})' => t \in Writing({"row"})
      BY <2>2 DEF Writing, Send, TypeOK, RefWrites
    <3> QED
      BY <3>1 DEF TypeOK, Send, Locked, Writing
  <2> QED
    BY <2>1, <2>2
<1>4. /\ base' = base /\ refs' = refs /\ tables' = tables /\ configured' = configured
      /\ deployed' = deployed /\ orderedAlike' = orderedAlike /\ op' = op
  BY DEF Send
<1> QED
  BY <1>1, <1>2, <1>3, <1>4 DEF TypeOK

\* Fewer sessions write.
LEMMA FewerWrite ==
  ASSUME TypeOK, op' = op, NEW s \in Session, pending' = [pending EXCEPT ![s] = NoWrite]
  PROVE  /\ \A K : Writing(K)' \subseteq Writing(K)
         /\ Locked' => Writing({"row"})' = {}
         /\ pending' \in [Session -> RowWrites \cup RefWrites \cup {NoWrite}]
<1>1. \A K : Writing(K)' \subseteq Writing(K)
  BY DEF Writing, TypeOK
<1>2. pending' \in [Session -> RowWrites \cup RefWrites \cup {NoWrite}]
  BY DEF TypeOK
<1> QED
  BY <1>1, <1>2 DEF TypeOK, Locked

\* A tenant's statement, deferred check, COMMIT or ROLLBACK keeps the types.
LEMMA TenantType ==
  ASSUME TypeOK, NEW s \in Session, Tenant(s)
  PROVE  TypeOK'
<1>1. ASSUME NEW p \in PK, NEW r \in Edit, Save(s, p, r) PROVE TypeOK'
  <2>1. Live(r) \in BaseRow
    BY SwapAssumption DEF Live, BaseRow
  <2>2. [kind |-> "row", pk |-> p, row |-> Live(r)] \in RowWrites
    BY <2>1 DEF RowWrites
  <2> QED
    BY <1>1, <2>2, SendType DEF Save, WriteRow
<1>2. ASSUME NEW p \in PK, Tombstone(s, p) PROVE TypeOK'
  <2> DEFINE row == IF base[p] = NoRow THEN SourceRow(tables[deployed].rows, p)
                    ELSE base[p].row
             tomb == [row |-> row, deleted |-> TRUE]
  <2>1. deployed \in Source
    BY <1>2 DEF Tombstone, TypeOK
  <2>2. row \in Row
    <3>1. SourceRow(tables[deployed].rows, p) \in Row
      BY <1>2, <2>1, TableType, FoundRow DEF Tombstone
    <3>2. base[p] # NoRow => base[p].row \in Row
      BY DEF TypeOK, BaseRow
    <3> QED
      BY <3>1, <3>2
  <2>3. WriteRow(s, p, tomb)
    BY <1>2 DEF Tombstone
  <2> HIDE DEF row
  <2>4. tomb \in BaseRow
    BY <2>2 DEF BaseRow
  <2> HIDE DEF tomb
  <2>5. [kind |-> "row", pk |-> p, row |-> tomb] \in RowWrites
    BY <2>4 DEF RowWrites
  <2> QED
    BY <2>3, <2>5, SendType DEF WriteRow
<1>3. ASSUME NEW p \in PK, ResetToSource(s, p) PROVE TypeOK'
  <2>1. [kind |-> "row", pk |-> p, row |-> NoRow] \in RowWrites
    BY DEF RowWrites
  <2> QED
    BY <1>3, <2>1, SendType DEF ResetToSource, WriteRow
<1>4. ASSUME NEW c \in Child, NEW p \in Ref, Refer(s, c, p) PROVE TypeOK'
  <2>1. [kind |-> "reference", child |-> c, to |-> p, checked |-> FALSE] \in RefWrites
    BY DEF RefWrites
  <2>2. [kind |-> "reference", child |-> c, to |-> p, checked |-> FALSE] \notin RowWrites
    BY DEF RowWrites
  <2> QED
    BY <1>4, <2>1, <2>2, SendType DEF Refer
<1>5. CASE CheckReference(s)
  <2>1. [pending[s] EXCEPT !.checked = TRUE] \in RefWrites
    BY <1>5, PendingType DEF CheckReference, RefWrites
  <2>2. pending' = [pending EXCEPT ![s] = [pending[s] EXCEPT !.checked = TRUE]]
    BY <1>5 DEF CheckReference
  <2>3. pending' \in [Session -> RowWrites \cup RefWrites \cup {NoWrite}]
    BY <2>1, <2>2 DEF TypeOK
  <2>4. \A t \in Session : t \in Writing({"row"})' => t \in Writing({"row"})
    BY <2>1, <2>2 DEF Writing, TypeOK, RefWrites
  <2>5. Locked' => Writing({"row"})' = {}
    BY <1>5, <2>4 DEF CheckReference, Locked, TypeOK, Writing
  <2> QED
    BY <1>5, <2>3, <2>5 DEF CheckReference, TypeOK
<1>6. CASE Commit(s)
  <2>1. op' = op /\ pending' = [pending EXCEPT ![s] = NoWrite]
    BY <1>6 DEF Commit
  <2>2. base' \in [PK -> BaseRow \cup {NoRow}] /\ refs' \in [Child -> Ref]
    BY <1>6, PendingType DEF Commit, TypeOK
  <2> QED
    BY <1>6, <2>1, <2>2, FewerWrite DEF Commit, TypeOK
<1>7. CASE Rollback(s)
  BY <1>7, FewerWrite DEF Rollback, TypeOK
<1> QED
  BY <1>1, <1>2, <1>3, <1>4, <1>5, <1>6, <1>7 DEF Tenant

\* The command a step goes on with, or leaves ended, is a record of the same kind.
LEMMA OpType ==
  ASSUME TypeOK
  PROVE  /\ \A step \in {"preflight", "lock", "recheck", "replace"} :
              Goes(step) /\ op.at # "ended" =>
                /\ op' \in Operation
                /\ op'.at = step /\ op'.current = op.current
                /\ op'.candidate = op.candidate /\ op'.allow = op.allow
                /\ op'.identity = op.identity
         /\ \A outcome \in {"S017", "S018", "dry run", "refused", "swapped", "failed"} :
              Ends(outcome) =>
                /\ op' \in Operation
                /\ op'.at = "ended" /\ op'.outcome = outcome
BY DEF TypeOK, Goes, Ends, Idle, Operation

\* So does every step of the operator's, and the lock is taken when nobody has
\* written to the base table.
LEMMA OperatorType ==
  ASSUME TypeOK, Operator
  PROVE  TypeOK'
<1>1. ASSUME NEW src \in Source, Configure(src) PROVE TypeOK'
  BY <1>1 DEF Configure, tenant, TypeOK, Locked, Writing
<1>2. CASE Resync
  BY <1>2 DEF Resync, tenant, TypeOK, Locked, Writing
<1>3. ASSUME NEW command \in Command, Start(command) PROVE TypeOK'
  <2>1. command.current \in Source \cup {NoSource}
    BY SwapAssumption
  <2> DEFINE current == IF command.current # NoSource THEN command.current ELSE deployed
  <2>2. UNCHANGED <<tenant, tables, configured, orderedAlike, deployed>>
    BY <1>3 DEF Start, Elsewhere
  <2> DEFINE opened == [at |-> "preflight", outcome |-> "none", current |-> current,
                        candidate |-> configured, allow |-> command.allow,
                        identity |-> command.identity, dry |-> command.dry]
  <2>3. \/ Ends("S017") \/ Ends("S018")
        \/ op' = opened /\ current # NoSource
    BY <1>3 DEF Start
  <2>4. current # NoSource => current \in Source
    BY <2>1 DEF TypeOK
  <2>5. /\ command.allow \in SUBSET STRING /\ command.identity \in SUBSET STRING
        /\ command.dry \in BOOLEAN /\ configured \in Source
    BY SwapAssumption DEF TypeOK
  <2> HIDE DEF current
  <2>6. /\ op' \in Operation
        /\ op'.at \in {"ended", "preflight"}
        /\ op'.at # "ended" => op'.current \in Source /\ op'.candidate \in Source
    <3>1. CASE op' = opened /\ current # NoSource
      <4>1. op'.current = current /\ op'.candidate = configured /\ op'.at = "preflight"
        BY <3>1
      <4>2. op' \in Operation
        BY <3>1, <2>4, <2>5 DEF Operation
      <4> QED
        BY <4>1, <4>2, <3>1, <2>4, <2>5
    <3>2. CASE Ends("S017") \/ Ends("S018")
      BY <3>2, OpType
    <3> QED
      BY <2>3, <3>1, <3>2
  <2> QED
    BY <2>2, <2>6 DEF tenant, TypeOK, Locked, Writing
<1>4. CASE Swap
  <2>1. UNCHANGED <<tenant, tables, configured, orderedAlike>>
    BY <1>4 DEF Swap, Check, Lock, CheckAgain, Replace, TimeOut, Elsewhere
  <2>2. deployed' \in Source \cup {NoSource}
    BY <1>4 DEF Swap, Check, Lock, CheckAgain, Replace, TimeOut, TypeOK
  <2>3. \/ Ends("dry run") \/ Ends("refused") \/ Ends("swapped") \/ Ends("failed")
        \/ op.at = "preflight" /\ Goes("lock")
        \/ op.at = "lock" /\ Goes("recheck") /\ Writing({"row"}) = {}
        \/ op.at = "recheck" /\ Goes("replace")
    <3>1. CASE Check
      BY <3>1 DEF Check
    <3>2. CASE Lock
      BY <3>2 DEF Lock, Writing
    <3>3. CASE CheckAgain
      BY <3>3 DEF CheckAgain
    <3>4. CASE Replace \/ TimeOut
      BY <3>4 DEF Replace, TimeOut
    <3> QED
      BY <1>4, <3>1, <3>2, <3>3, <3>4 DEF Swap
  <2>4. /\ op' \in Operation
        /\ op'.at # "ended" => op'.current \in Source /\ op'.candidate \in Source
        /\ op'.at \in {"recheck", "replace"} => Writing({"row"}) = {}
    <3>1. Locked => Writing({"row"}) = {}
      BY DEF TypeOK
    <3>2. op.at # "ended" => op.current \in Source /\ op.candidate \in Source
      BY DEF TypeOK
    <3>3. ASSUME Ends("dry run") \/ Ends("refused") \/ Ends("swapped") \/ Ends("failed")
          PROVE  op' \in Operation /\ op'.at = "ended"
      BY <3>3, OpType
    <3>4. ASSUME op.at = "preflight" /\ Goes("lock")
          PROVE  /\ op' \in Operation /\ op'.at = "lock" /\ op'.current = op.current
                 /\ op'.candidate = op.candidate
      BY <3>4, OpType
    <3>5. ASSUME op.at = "lock" /\ Goes("recheck")
          PROVE  /\ op' \in Operation /\ op'.at = "recheck" /\ op'.current = op.current
                 /\ op'.candidate = op.candidate
      BY <3>5, OpType
    <3>6. ASSUME op.at = "recheck" /\ Goes("replace")
          PROVE  /\ op' \in Operation /\ op'.at = "replace" /\ op'.current = op.current
                 /\ op'.candidate = op.candidate
      BY <3>6, OpType
    <3> QED
      BY <2>3, <3>1, <3>2, <3>3, <3>4, <3>5, <3>6 DEF Locked
  <2>5. Locked' => Writing({"row"})' = {}
    BY <2>1, <2>4 DEF Locked, Writing, tenant
  <2> QED
    BY <2>1, <2>2, <2>4, <2>5 DEF TypeOK, tenant
<1> QED
  BY <1>1, <1>2, <1>3, <1>4 DEF Operator

\* The types hold at first and every step keeps them.
LEMMA TypeInductive ==
  /\ Init => TypeOK
  /\ TypeOK /\ [Next]_vars => TypeOK'
<1>1. ASSUME Init PROVE TypeOK
  <2>1. 0 \in 0..MaxWrites
    <3>1. MaxWrites \in Nat
      BY SwapAssumption
    <3> QED
      BY <3>1
  <2>2. op.at = "ended" /\ ~Locked
    BY <1>1 DEF Init, Idle, Locked
  <2>3. op \in Operation
    BY <1>1 DEF Init, Idle, Operation
  <2> QED
    BY <1>1, <2>1, <2>2, <2>3 DEF Init, TypeOK, Ref
<1>2. TypeOK /\ UNCHANGED vars => TypeOK'
  BY DEF vars, tenant, TypeOK, Locked, Writing
<1> QED
  BY <1>1, <1>2, TenantType, OperatorType DEF Next

\* The tables, the writes under way and the command have their types, and
\* nobody has a row half written while the swap holds the base table.
THEOREM SwapTypeCorrect == Spec => []TypeOK
BY TypeInductive, PTL DEF Spec

-----------------------------------------------------------------------------
(* What the recheck found still holds when the view is replaced            *)

\* What the second check has to have found, for a swap that goes on.
Found ==
  LET rows == tables[op.current].rows
      cand == tables[op.candidate].rows IN
  /\ SelfReference /\ "S007" \notin op.allow =>
       Cardinality(Dangling(base, refs, cand)) <= Cardinality(Dangling(base, refs, rows))
  /\ "S009" \notin op.allow => Collisions(base, cand) = {}
  /\ op.identity # {} /\ op.allow \cap {"S003", "S004", "S016"} = {} =>
       ~Reassigned(op.identity, rows, cand) /\ ~Renumbered(op.identity, rows, cand)

\* It found it, and nobody is writing what would change it.
Guarded ==
  /\ op.at # "ended" => "S001" \notin op.allow
  /\ SelfReference /\ Locked => Writing({"reference"}) = {}
  /\ op.at = "replace" => Found

\* A report that lets the swap go on has no error the caller did not allow.
LEMMA Unallowed ==
  ASSUME NEW report, NEW allowed, Ok(Allow(report, allowed)), NEW c, Err(c) \in report
  PROVE  c \in allowed
<1>1. SUFFICES ASSUME c \notin allowed PROVE FALSE
  OBVIOUS
<1>2. Err(c) \in Allow(report, allowed)
  BY <1>1 DEF Allow, Err
<1> QED
  BY <1>2 DEF Ok, Errors, Err

\* A referencing table's rows are finitely many, so that counts compare.
LEMMA DanglingCounts ==
  ASSUME IsFiniteSet(Child), NEW b, NEW r, NEW rows
  PROVE  Cardinality(Dangling(b, r, rows)) \in Nat
BY FS_Subset, FS_CardinalityType DEF Dangling

\* The recheck's report, read back into what it asked of the rows.
LEMMA RecheckSays ==
  ASSUME IsFiniteSet(Child), NEW identity, NEW current, NEW candidate, NEW allowed,
         "S001" \notin allowed,
         Ok(Allow(Recheck(base, refs, identity, current, candidate), allowed))
  PROVE  /\ "S007" \notin allowed =>
              Cardinality(Dangling(base, refs, candidate.rows))
                <= Cardinality(Dangling(base, refs, current.rows))
         /\ "S009" \notin allowed => Collisions(base, candidate.rows) = {}
         /\ identity # {} /\ allowed \cap {"S003", "S004", "S016"} = {} =>
              /\ ~Reassigned(identity, current.rows, candidate.rows)
              /\ ~Renumbered(identity, current.rows, candidate.rows)
<1> DEFINE report == Recheck(base, refs, identity, current, candidate)
           rows   == RowFindings(base, refs, Resolved(identity), current.rows, candidate.rows)
<1>1. \A c : Err(c) \in report => c \in allowed
  BY Unallowed
<1>2. rows \subseteq report
  <2>1. Err("S001") \notin report
    BY <1>1
  <2> QED
    BY <2>1 DEF Recheck
<1>3. \A c : Err(c) \in rows => c \in allowed
  BY <1>1, <1>2
<1>4. Err("S016") \in report \/ Resolved(identity) = identity
  BY DEF Recheck, CheckNames, If, Resolved
<1> HIDE DEF report, rows
<1>5. ASSUME "S007" \notin allowed
      PROVE  Cardinality(Dangling(base, refs, candidate.rows))
               <= Cardinality(Dangling(base, refs, current.rows))
  <2> DEFINE after  == Cardinality(Dangling(base, refs, candidate.rows))
             before == Cardinality(Dangling(base, refs, current.rows))
  <2>1. after \in Nat /\ before \in Nat
    BY DanglingCounts
  <2>2. CheckDangling(base, refs, current.rows, candidate.rows) \subseteq rows
    BY DEF RowFindings, rows
  <2>3. CheckDangling(base, refs, current.rows, candidate.rows)
          = If(after > 0, IF after > before THEN Err("S007") ELSE Warn("S007"))
    BY DEF CheckDangling
  <2> HIDE DEF after, before
  <2>4. after > before => Err("S007") \in rows
    BY <2>1, <2>2, <2>3 DEF If
  <2>5. after <= before
    BY <1>3, <1>5, <2>1, <2>4
  <2> QED
    BY <2>5 DEF after, before
<1>6. ASSUME "S009" \notin allowed PROVE Collisions(base, candidate.rows) = {}
  <2>1. CheckUniqueness(base, current.rows, candidate.rows) \subseteq rows
    BY DEF RowFindings, rows
  <2>2. Collisions(base, candidate.rows) # {} => Err("S009") \in rows
    BY <2>1 DEF CheckUniqueness, If
  <2> QED
    BY <1>3, <1>6, <2>2
<1>7. ASSUME identity # {}, allowed \cap {"S003", "S004", "S016"} = {}
      PROVE  /\ ~Reassigned(identity, current.rows, candidate.rows)
             /\ ~Renumbered(identity, current.rows, candidate.rows)
  <2>1. Resolved(identity) = identity
    BY <1>1, <1>4, <1>7
  <2>2. CheckIdentity(identity, current.rows, candidate.rows) \subseteq rows
    BY <2>1 DEF RowFindings, rows
  <2>3. Err("S003") \notin rows /\ Err("S004") \notin rows
    BY <1>3, <1>7
  <2> QED
    BY <1>7, <2>2, <2>3 DEF CheckIdentity, If
<1> QED
  BY <1>5, <1>6, <1>7

\* A tenant can not move, behind the lock, what the check looked at.
LEMMA TenantLeavesChecked ==
  ASSUME TypeOK, Guarded, NEW s \in Session, Tenant(s)
  PROVE  Guarded'
<1>1. op' = op /\ tables' = tables
  BY DEF Tenant, Save, Tombstone, ResetToSource, WriteRow, Send, Refer, CheckReference,
         Commit, Rollback
<1>2. Locked => base' = base
  BY DEF Tenant, Save, Tombstone, ResetToSource, WriteRow, Send, Refer, CheckReference,
         Commit, Rollback, TypeOK
<1>3. ASSUME SelfReference, Locked
      PROVE  refs' = refs /\ Writing({"reference"})' = {}
  <2>1. Writing({"reference"}) = {} /\ Writing({"row"}) = {}
    BY <1>3 DEF Guarded, TypeOK
  <2>2. pending' = [pending EXCEPT ![s] = NoWrite] /\ refs' = refs
    BY <1>3, <2>1 DEF Tenant, Save, Tombstone, ResetToSource, WriteRow, Refer,
       CheckReference, Commit, Rollback
  <2> QED
    BY <2>1, <2>2 DEF Writing, TypeOK
<1>4. op.at = "replace" => Found'
  BY <1>1, <1>2, <1>3 DEF Guarded, Found, Locked
<1> QED
  BY <1>1, <1>3, <1>4 DEF Guarded, Locked

\* The operator's steps, the recheck the one that matters.
LEMMA OperatorLeavesChecked ==
  ASSUME IsFiniteSet(Child), \A command \in Command : "S001" \notin command.allow,
         TypeOK, Guarded, Operator
  PROVE  Guarded'
<1>1. UNCHANGED <<base, refs, pending, tables>>
  BY DEF Operator, Configure, Resync, Start, Swap, Check, Lock, CheckAgain, Replace,
         TimeOut, Elsewhere, tenant
<1>2. ASSUME op' = op PROVE Guarded'
  BY <1>1, <1>2 DEF Guarded, Found, Locked, Writing
<1>3. ASSUME op'.at = "ended" PROVE Guarded'
  BY <1>3 DEF Guarded, Locked
<1>4. ASSUME NEW command \in Command, Start(command) PROVE Guarded'
  <2>1. op'.at = "ended" \/ (op'.at = "preflight" /\ op'.allow = command.allow)
    <3> DEFINE current == IF command.current # NoSource THEN command.current ELSE deployed
               opened  == [at |-> "preflight", outcome |-> "none", current |-> current,
                           candidate |-> configured, allow |-> command.allow,
                           identity |-> command.identity, dry |-> command.dry]
    <3>1. Ends("S017") \/ Ends("S018") \/ op' = opened
      BY <1>4 DEF Start
    <3> HIDE DEF current
    <3>2. op' = opened => op'.at = "preflight" /\ op'.allow = command.allow
      OBVIOUS
    <3>3. Ends("S017") => op'.at = "ended"
      BY OpType
    <3>4. Ends("S018") => op'.at = "ended"
      BY OpType
    <3> QED
      BY <3>1, <3>2, <3>3, <3>4
  <2>2. "S001" \notin command.allow
    OBVIOUS
  <2>3. CASE op'.at = "preflight" /\ op'.allow = command.allow
    BY <2>2, <2>3 DEF Guarded, Locked
  <2> QED
    BY <1>3, <2>1, <2>3
<1>5. CASE Check
  <2>1. op.at = "preflight" /\ (Goes("lock") \/ Ends("dry run") \/ Ends("refused"))
    BY <1>5 DEF Check
  <2>2. op'.at = "ended" \/ (op'.at = "lock" /\ op'.allow = op.allow)
    <3>1. CASE Goes("lock")
      BY <2>1, <3>1, OpType
    <3>2. Ends("dry run") => op'.at = "ended"
      BY OpType
    <3>3. Ends("refused") => op'.at = "ended"
      BY OpType
    <3> QED
      BY <2>1, <3>1, <3>2, <3>3
  <2>3. CASE op'.at = "lock" /\ op'.allow = op.allow
    BY <2>1, <2>3 DEF Guarded, Locked
  <2> QED
    BY <1>3, <2>2, <2>3
<1>6. CASE Lock
  <2>1. /\ op.at = "lock" /\ Goes("recheck")
        /\ SelfReference => Writing({"reference"}) = {}
    BY <1>6 DEF Lock, Writing
  <2>2. op'.at = "recheck" /\ op'.allow = op.allow
    BY <2>1, OpType
  <2> QED
    BY <1>1, <2>1, <2>2 DEF Guarded, Locked, Writing
<1>7. CASE CheckAgain
  <2> DEFINE report == Recheck(base, refs, op.identity, tables[op.current],
                               tables[op.candidate])
  <2>1. op.at = "recheck" /\ (Ends("refused") \/ (Goes("replace") /\ Ok(Allow(report, op.allow))))
    BY <1>7 DEF CheckAgain
  <2>2. CASE Ends("refused")
    <3>1. op'.at = "ended"
      BY <2>2, OpType
    <3> QED
      BY <1>3, <3>1
  <2>3. CASE Goes("replace") /\ Ok(Allow(report, op.allow))
    <3>1. "S001" \notin op.allow
      BY <2>1 DEF Guarded
    <3>2. Found
      BY <2>3, <3>1, RecheckSays DEF Found
    <3>3. /\ op'.at = "replace" /\ op'.allow = op.allow /\ op'.identity = op.identity
          /\ op'.current = op.current /\ op'.candidate = op.candidate
      BY <2>1, <2>3, OpType
    <3>4. Found'
      BY <1>1, <3>2, <3>3 DEF Found
    <3>5. SelfReference => Writing({"reference"})' = {}
      BY <1>1, <2>1 DEF Guarded, Locked, Writing
    <3> QED
      BY <3>1, <3>3, <3>4, <3>5 DEF Guarded
  <2> QED
    BY <2>1, <2>2, <2>3
<1>8. CASE Replace \/ TimeOut
  BY <1>3, <1>8, OpType DEF Replace, TimeOut
<1> QED
  BY <1>2, <1>4, <1>5, <1>6, <1>7, <1>8 DEF Operator, Configure, Resync, Swap

\* So, whatever tenants do, the check is as good at the end as when it was made.
LEMMA GuardedInductive ==
  ASSUME IsFiniteSet(Child), \A command \in Command : "S001" \notin command.allow
  PROVE  /\ Init => Guarded
         /\ TypeOK /\ Guarded /\ [Next]_vars => Guarded'
<1>1. Init => Guarded
  BY DEF Init, Idle, Guarded, Locked
<1>2. TypeOK /\ Guarded /\ UNCHANGED vars => Guarded'
  BY DEF vars, tenant, Guarded, Found, Locked, Writing
<1> QED
  BY <1>1, <1>2, TenantLeavesChecked, OperatorLeavesChecked DEF Next

\* The one step that replaces the view.
LEMMA SwappedStep ==
  ASSUME TypeOK, Guarded, [Next]_vars, Swapped
  PROVE  /\ Found /\ deployed' = op.candidate
         /\ base' = base /\ refs' = refs /\ tables' = tables
<1>1. op.at = "replace" /\ op' # op /\ op'.outcome = "swapped"
  BY DEF Swapped
<1>2. Replace
  <2>1. ~(UNCHANGED vars) /\ \A s \in Session : ~Tenant(s)
    BY <1>1 DEF vars, Tenant, Save, Tombstone, ResetToSource, WriteRow, Send, Refer,
       CheckReference, Commit, Rollback
  <2>2. Swap
    BY <1>1, <2>1 DEF Next, Operator, Configure, Resync, Start
  <2>3. ~TimeOut
    BY <1>1, OpType DEF TimeOut
  <2> QED
    BY <1>1, <2>2, <2>3 DEF Swap, Check, Lock, CheckAgain
<1>3. ~Ends("failed")
  BY <1>1, OpType
<1>4. Found
  BY <1>1 DEF Guarded
<1> QED
  BY <1>2, <1>3, <1>4 DEF Replace, Elsewhere, tenant

\* When the referencing rows are the base table's own, and so behind the lock,
\* a swap never leaves more references dangling than there were: no command
\* allowing a missing table, no swap replaces the view on a count that is stale.
THEOREM NoneMoreDangle ==
  ASSUME SelfReference, IsFiniteSet(Child),
         \A command \in Command : "S001" \notin command.allow
  PROVE  Spec => NoReferenceBroken
<1>1. TypeOK /\ Guarded /\ [Next]_vars =>
        [Swapped /\ ~Allowed({"S007"}) =>
           Cardinality(Dangling(base', refs', tables[deployed'].rows))
             <= Cardinality(Dangling(base, refs, tables[op.current].rows))]_vars
  <2> SUFFICES ASSUME TypeOK, Guarded, [Next]_vars, Swapped, ~Allowed({"S007"})
               PROVE  Cardinality(Dangling(base', refs', tables[deployed'].rows))
                        <= Cardinality(Dangling(base, refs, tables[op.current].rows))
    OBVIOUS
  <2>1. "S007" \notin op.allow
    BY DEF Allowed
  <2> QED
    BY <2>1, SwappedStep DEF Found
<1> QED
  BY <1>1, TypeInductive, GuardedInductive, PTL DEF Spec, NoReferenceBroken

\* A vendor row the deployed view shows is one a tombstone does not mask.
LEMMA ShownReserves ==
  ASSUME ExtraWhereOr = {}, NEW b, NEW rows, NEW p \in PK, NEW q \in PK, p # q,
         BaseShows(b, p), SourceShows(b, rows, q), Same(b[p].row, SourceRow(rows, q))
  PROVE  p \in Collisions(b, rows)
<1> DEFINE v == SourcePk(q)
<1>1. SourceRow(rows, q) \in ExtraWhere /\ ~Shadowed(b, q)
  BY DEF SourceShows
<1>2. v \in VendorId /\ rows[v] = SourceRow(rows, q)
  BY <1>1, RowsAssumption DEF SourceRow
<1>3. v # SourcePk(p) /\ ViewPk(v) = q
  <2>1. p \in Int /\ q \in Int
    BY RowsAssumption
  <2> QED
    BY <2>1 DEF SourcePk, ViewPk
<1>4. ~(SoftDelete /\ IsTombstone(b, q))
  BY <1>1 DEF Shadowed, AntiJoin, IsTombstone
<1>5. Reserves(b, rows, v, b[p].row)
  BY <1>1, <1>2, <1>3, <1>4 DEF Reserves
<1> QED
  BY <1>2, <1>3, <1>5 DEF Collisions, BaseShows

\* A swap never shows a vendor row that shares a unique value with a row of the
\* tenant's, written however late.
THEOREM LateCollisionsAreSeen ==
  ASSUME ExtraWhereOr = {}, IsFiniteSet(Child),
         \A command \in Command : "S001" \notin command.allow
  PROVE  Spec => NoLateCollision
<1>1. TypeOK /\ Guarded /\ [Next]_vars =>
        [Swapped /\ ~Allowed({"S009"}) =>
           \A x, y \in View(base', tables[deployed'].rows) :
             x.origin = "base" /\ y.origin = "source" /\ Same(x.row, y.row)
               => x.pk = y.pk]_vars
  <2> SUFFICES ASSUME TypeOK, Guarded, [Next]_vars, Swapped, ~Allowed({"S009"}),
                      NEW x \in View(base', tables[deployed'].rows),
                      NEW y \in View(base', tables[deployed'].rows),
                      x.origin = "base", y.origin = "source", Same(x.row, y.row)
               PROVE  x.pk = y.pk
    OBVIOUS
  <2> DEFINE cand == tables[op.candidate].rows
  <2>1. base' = base /\ tables[deployed'].rows = cand /\ Collisions(base, cand) = {}
    BY SwappedStep DEF Found, Allowed
  <2>2. x \in View(base, cand) /\ y \in View(base, cand)
    BY <2>1
  <2> HIDE DEF cand
  <2>3. x.pk \in PK /\ BaseShows(base, x.pk) /\ x.row = base[x.pk].row
    BY <2>2 DEF View
  <2>4. y.pk \in PK /\ SourceShows(base, cand, y.pk) /\ y.row = SourceRow(cand, y.pk)
    BY <2>2 DEF View
  <2> QED
    BY <2>1, <2>3, <2>4, ShownReserves
<1> QED
  BY <1>1, TypeInductive, GuardedInductive, PTL DEF Spec, NoLateCollision

\* A swap checked by a natural key leaves every id the entity it was, and every
\* entity the id it had.
THEOREM EntitiesKeepTheirIds ==
  ASSUME IsFiniteSet(Child), \A command \in Command : "S001" \notin command.allow
  PROVE  Spec => IdentityKept
<1>1. TypeOK /\ Guarded /\ [Next]_vars =>
        [Swapped /\ op.identity # {} /\ ~Allowed({"S003", "S004", "S016"}) =>
           \A v, w \in VendorId :
             LET old == tables[op.current].rows
                 new == tables[deployed'].rows IN
             There(old, v) /\ There(new, w) =>
               /\ v = w => \A c \in op.identity : old[v][c] = new[w][c]
               /\ SameEntity(op.identity, old[v], new[w]) => v = w]_vars
  <2> SUFFICES ASSUME TypeOK, Guarded, [Next]_vars, Swapped, op.identity # {},
                      ~Allowed({"S003", "S004", "S016"}),
                      NEW v \in VendorId, NEW w \in VendorId,
                      There(tables[op.current].rows, v), There(tables[deployed'].rows, w)
               PROVE  /\ v = w => \A c \in op.identity :
                           tables[op.current].rows[v][c] = tables[deployed'].rows[w][c]
                      /\ SameEntity(op.identity, tables[op.current].rows[v],
                                    tables[deployed'].rows[w]) => v = w
    OBVIOUS
  <2> DEFINE old == tables[op.current].rows
             new == tables[op.candidate].rows
  <2>1. /\ tables[deployed'].rows = new
        /\ ~Reassigned(op.identity, old, new) /\ ~Renumbered(op.identity, old, new)
    BY SwappedStep DEF Found, Allowed
  <2>2. There(old, v) /\ There(new, w)
    BY <2>1
  <2> HIDE DEF old, new
  <2>3. v = w => \A c \in op.identity : old[v][c] = new[w][c]
    BY <2>1, <2>2 DEF Reassigned
  <2>4. SameEntity(op.identity, old[v], new[w]) => v = w
    BY <2>1, <2>2 DEF Renumbered
  <2> QED
    BY <2>1, <2>3, <2>4 DEF old, new
<1> QED
  BY <1>1, TypeInductive, GuardedInductive, PTL DEF Spec, IdentityKept
=============================================================================
