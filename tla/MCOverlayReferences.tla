-------------------------- MODULE MCOverlayReferences --------------------------
(* Small instances of OverlayReferences: id -1 can be the vendor's, id 1 is   *)
(* the tenant's own; extra_where, where there is one, hides the rows at 1.    *)
EXTENDS OverlayReferences

MCIds        == {-1, 1}
MCExtraWhere == {r \in Row : r["a"] = 0}
MCEveryRow   == Row
=============================================================================
