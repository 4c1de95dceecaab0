----------------------------- MODULE MCSourceSwap -----------------------------
(* Two sources of two vendor rows with a natural key "k" and a unique column *)
(* "a"; the second one is some of the ways a new load can differ.            *)
EXTENDS SourceSwap

MCIds  == {-2, -1, 1}
R(a, k) == [c \in Column |-> IF c = "a" THEN a ELSE k]

Rows2(r, q) == [v \in VendorId |-> IF v = 1 THEN r ELSE q]
Good(rows) ==
  [exists |-> TRUE, type |-> [c \in Column |-> "text"], leads |-> Column,
   partitions |-> "none", estimate |-> 2, resolves |-> TRUE, rows |-> rows]

Blue == Good(Rows2(R(1, 1), NoRow))
Both == Good(Rows2(R(1, 1), R(2, 2)))

Green ==
  {Both,                                       \* a new row
   Good(Rows2(R(2, 1), NoRow)),                \* a changed value
   Good(Rows2(NoRow, R(1, 1))),                \* renumbered
   Good(Rows2(R(1, 2), NoRow)),                \* reassigned
   [Good(Rows2(NoRow, NoRow)) EXCEPT !.estimate = -1],      \* not loaded
   [Both EXCEPT !.type["a"] = "varchar", !.leads = {"k"}, !.estimate = 1],
   [Both EXCEPT !.type["a"] = "missing", !.partitions = "parent"],
   [Both EXCEPT !.exists = FALSE, !.estimate = 0]}

MCLandscape == {[s \in Source |-> IF s = "blue" THEN Blue ELSE g] : g \in Green}
               \cup {[s \in Source |-> IF s = "blue" THEN Both ELSE Blue]}

MCEdit == {R(2, 1)}

Called(allow, identity, dry, current) ==
  [allow |-> allow, identity |-> identity, dry |-> dry, current |-> current]
MCCommand ==
  {Called({}, {"k"}, FALSE, NoSource), Called({"S002"}, {}, FALSE, NoSource),
   Called({}, {"k", "other"}, TRUE, "blue")}
=============================================================================
