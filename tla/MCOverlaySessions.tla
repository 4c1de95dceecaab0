--------------------------- MODULE MCOverlaySessions ---------------------------
(* Small instances of OverlaySessions: id -1 can be a vendor's, id 1 is the   *)
(* tenant's own.  Each workload keeps to one of them.                         *)
EXTENDS OverlaySessions

MCIds      == {-1, 1}
MCEveryRow == Row
MCFlip     == {[r \in Row |-> [r EXCEPT !["a"] = 1 - @]]}

Sends(own, vendors) == [p \in PK |-> IF p < 0 THEN vendors ELSE own]

\* Statements that go well together, and a mixture that does not.
MCWorkloads ==
  {Sends({}, {"update", "expression", "materialize", "delete"}),
   Sends({"insert", "update", "expression", "materialize"}, {}),
   Sends({}, {"insert", "delete", "reset"}),
   Sends({"insert", "delete"}, {})}
MCOwnDeletes == {Sends({"insert", "update", "delete"}, {})}
=============================================================================
