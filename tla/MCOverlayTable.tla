---------------------------- MODULE MCOverlayTable ----------------------------
(* Small instances of OverlayTable: columns over {0, 1}, an extra_where that  *)
(* hides the all-ones rows, and an F() expression that flips column "a".      *)
EXTENDS OverlayTable

MCExtraWhere == {r \in Row : \E c \in Column : r[c] = 0}
MCEveryRow   == Row
MCFlip       == {[r \in Row |-> [r EXCEPT !["a"] = 1 - @]]}

\* The id spaces: one or two vendor ids, two or three ids of the tenant's side.
MCNegatedIds    == {-1, 1, 2}
MCTwoVendorIds  == {-2, -1, 1, 2}
MCNegatedVendor == {-2, -1}
=============================================================================
