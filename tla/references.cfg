\* A soft-deleting target with a partition key and an extra_where.
SPECIFICATION Spec
CONSTANTS
  PK <- MCIds
  VendorId = {1}
  Column = {"a"}
  Value = {0, 1}
  NoRow = NoRow
  Strategy = "negative_id"
  SoftDelete = TRUE
  Overridable = TRUE
  PartitionKey = {"a"}
  ExtraWhere <- MCExtraWhere
  ExtraWhereOr = {}
  Child = {c1, c2}
  ChildSoftDelete = FALSE
  VendorChildren = {}
  NoPk = NoPk
  Session = {s1}
  Nobody = Nobody
  RawDelete = "base rows"
  MaxStatements = 3
INVARIANTS TypeOK Integrity RefusesOnlyDangling
