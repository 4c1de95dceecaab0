------------------------- MODULE MCOverlayDeployment -------------------------
(* Two columns, the first in the class a foreign key's.                      *)
EXTENDS OverlayDeployment

MCStart ==
  {d \in Declaration :
     /\ d.exists /\ d.columns \in {{2}, {1, 2}} /\ d.overridable
     /\ d.source = "blue" /\ d.reference \in {"none", "plain"}}
=============================================================================
