\* Two sessions writing one constrained column of a soft-deleting model.
SPECIFICATION Spec
CONSTANTS
  PK <- MCIds
  VendorId = {1, 2}
  Column = {"a"}
  Value = {0, 1, 2}
  NoRow = NoRow
  Strategy = "negative_id"
  SoftDelete = TRUE
  Overridable = TRUE
  PartitionKey = {}
  ExtraWhere <- MCExtraWhere
  ExtraWhereOr = {}
  Unique = {"a"}
  Null = 0
  Session = {s1, s2}
  NoWrite = NoWrite
INVARIANTS TypeOK UniqueInView RefusesOnlyReserved RowsStayEditable
