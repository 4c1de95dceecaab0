\* Traversals that ask for NULL, pages of distinct or grouped values.
SPECIFICATION Spec
CONSTANTS
  Near = {1, 2, 3}
  MaxKey = 3
  t1 = t1
  t2 = t2
  Target = {t1, t2}
  ForeignKey = "customer"
  ManyToMany = {"phones", "addresses"}
  NoRow = NoRow
  Null = Null
  Error = Error
  NoQuery = NoQuery
  Enabled = {"REWRITE_TRAVERSALS", "M2M_FENCE", "LATE_ROW_LOOKUP", "ARRAY_LITERAL_IN", "FORCE_HASH_JOINS"}
  Workload <- MCWorkload
  WithNulls = TRUE
  WithProjections = TRUE
INVARIANT SameRows
