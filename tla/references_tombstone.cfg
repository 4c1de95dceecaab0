\* A raw delete of a vendor's row nobody has edited.
SPECIFICATION Spec
CONSTANTS
  PK <- MCIds
  VendorId = {1}
  Column = {"a"}
  Value = {0}
  NoRow = NoRow
  Strategy = "negative_id"
  SoftDelete = TRUE
  Overridable = TRUE
  PartitionKey = {}
  ExtraWhere <- MCEveryRow
  ExtraWhereOr = {}
  Child = {c1}
  ChildSoftDelete = FALSE
  VendorChildren = {}
  NoPk = NoPk
  Session = {s1}
  Nobody = Nobody
  RawDelete = "any"
  MaxStatements = 2
INVARIANT Integrity
