-------------------------- MODULE MCOverlayUniqueness --------------------------
(* Two rows that can be the vendor's and one of the tenant's own; the rows    *)
(* with a = 2 are left out of the view.                                       *)
EXTENDS OverlayUniqueness

MCIds        == {-2, -1, 1}
MCExtraWhere == {r \in Row : r["a"] # 2}
=============================================================================
