\* Two columns, so that the merge of the update trigger matters.
SPECIFICATION Spec
CONSTANTS
  PK <- MCNegatedIds
  VendorId = {1}
  Column = {"a", "b"}
  Value = {0, 1}
  NoRow = NoRow
  Strategy = "negative_id"
  SoftDelete = TRUE
  Overridable = TRUE
  PartitionKey = {}
  ExtraWhere <- MCExtraWhere
  ExtraWhereOr = {}
  Expression <- MCFlip
INVARIANTS TypeOK NoIdTwice CountIsExact UpdateLands DeletedIsGone
PROPERTIES ImplementsTenantTable GeneratedIdIsOrganic TombstonesMask
