\* A non-overridable, soft-deleting model: the anti-join sees tombstones only.
SPECIFICATION TriggerSpec
CONSTANTS
  PK <- MCTwoVendorIds
  VendorId <- MCNegatedVendor
  Column = {"a"}
  Value = {0, 1}
  NoRow = NoRow
  Strategy = "negative_source_positive_base_id"
  SoftDelete = TRUE
  Overridable = FALSE
  PartitionKey = {}
  ExtraWhere <- MCExtraWhere
  ExtraWhereOr = {}
  Expression <- MCFlip
INVARIANTS NoIdTwice NothingMaterialised
