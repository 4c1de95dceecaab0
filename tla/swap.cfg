\* A swap among tenants' writes; the references are a self-reference's.
SPECIFICATION Spec
CONSTANTS
  PK <- MCIds
  VendorId = {1, 2}
  Column = {"a", "k"}
  Value = {0, 1, 2}
  NoRow = NoRow
  Strategy = "negative_id"
  SoftDelete = TRUE
  Overridable = TRUE
  PartitionKey = {}
  ExtraWhere <- Row
  ExtraWhereOr = {}
  Unique = {"a"}
  Null = 0
  Type = {"text", "varchar"}
  Missing = "missing"
  NeedsIndex = {"a"}
  MinRowPercent = 90
  Child = {c1, c2}
  NoPk = NoPk
  Source = {"blue", "green"}
  NoSource = "none"
  Landscape <- MCLandscape
  Edit <- MCEdit
  Command <- MCCommand
  Session = {s1}
  NoWrite = NoWrite
  SelfReference = TRUE
  MaxWrites = 3
INVARIANTS TypeOK
PROPERTIES NoReferenceBroken NoLateCollision IdentityKept SwapEnds
