----------------------------- MODULE TenantTable -----------------------------
(***************************************************************************)
(* What an overridable overlay model promises its tenant: one ordinary     *)
(* table.  There are no branches, no anti-join and no tombstones here,     *)
(* only the rows the tenant sees, and the ids the tenant has taken over,   *)
(* whose rows the vendor can no longer change.  With soft delete a removed *)
(* row stays gone: Remove keeps, or takes, the id over whenever the vendor *)
(* has a row for it.  Without it removing a row only gives the id back.    *)
(***************************************************************************)
CONSTANTS PK, Row, NoRow, Expression, SoftDelete

VARIABLES
  rows,     \* rows[p]: the row the tenant sees under id p, or NoRow
  vendor,   \* vendor[p]: the row the vendor offers under id p, or NoRow
  owned     \* the ids the tenant has taken over

tenantVars == <<rows, vendor, owned>>

Init ==
  /\ vendor \in [PK -> Row \cup {NoRow}]
  /\ rows = vendor
  /\ owned = {}

\* An id the tenant does not own, whether or not the vendor shows a row there.
Create(p, r) ==
  /\ p \notin owned
  /\ rows'  = [rows EXCEPT ![p] = r]
  /\ owned' = owned \cup {p}
  /\ UNCHANGED vendor

Edit(p, r) ==
  /\ rows[p] # NoRow
  /\ rows'  = [rows EXCEPT ![p] = r]
  /\ owned' = owned \cup {p}
  /\ UNCHANGED vendor

Reset(p) ==
  /\ rows'  = [rows EXCEPT ![p] = vendor[p]]
  /\ owned' = owned \ {p}
  /\ UNCHANGED vendor

Remove(p) ==
  /\ SoftDelete
  /\ rows[p] # NoRow
  /\ rows' = [rows EXCEPT ![p] = NoRow]
  /\ \/ owned' = owned \cup {p}
     \/ vendor[p] = NoRow /\ owned' = owned \ {p}
  /\ UNCHANGED vendor

\* What deleting means without soft delete.
Revert(p) == ~SoftDelete /\ rows[p] # NoRow /\ Reset(p)

\* One expression applied to every visible row of a selection.
Compute(S, f) ==
  LET hit == {p \in S : rows[p] # NoRow}
  IN  /\ rows'  = [p \in PK |-> IF p \in hit THEN f[rows[p]] ELSE rows[p]]
      /\ owned' = owned \cup hit
      /\ UNCHANGED vendor

\* Taking ids over without changing what they show.
Adopt(S) ==
  /\ owned' = owned \cup {p \in S : rows[p] # NoRow}
  /\ UNCHANGED <<rows, vendor>>

\* The vendor's rows show through exactly where the tenant owns nothing.
Publish(p, r) ==
  /\ vendor' = [vendor EXCEPT ![p] = r]
  /\ rows'   = IF p \in owned THEN rows ELSE [rows EXCEPT ![p] = r]
  /\ UNCHANGED owned

Next ==
  \/ \E p \in PK :
       \/ \E r \in Row : Create(p, r) \/ Edit(p, r)
       \/ Remove(p) \/ Revert(p) \/ Reset(p)
       \/ \E r \in Row \cup {NoRow} : Publish(p, r)
  \/ \E S \in SUBSET PK :
       \/ Adopt(S)
       \/ \E f \in Expression : Compute(S, f)

Spec == Init /\ [][Next]_tenantVars
=============================================================================
