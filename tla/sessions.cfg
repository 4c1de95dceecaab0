\* Two sessions on one row, under each of four workloads.
SPECIFICATION Spec
CONSTANTS
  PK <- MCIds
  VendorId = {1}
  Column = {"a", "b"}
  Value = {0, 1}
  NoRow = NoRow
  Strategy = "negative_id"
  SoftDelete = TRUE
  Overridable = TRUE
  PartitionKey = {}
  ExtraWhere <- MCEveryRow
  ExtraWhereOr = {}
  Session = {s1, s2}
  Nobody = Nobody
  Expression <- MCFlip
  Workload <- MCWorkloads
INVARIANT TypeOK
PROPERTIES EditsMerge IncrementsLand MaterializeIsInvisible DeletesLand StaysDeleted
