\* A field of the model is renamed.
SPECIFICATION Spec
CONSTANTS
  Column = {1, 2}
  Link = {1}
  Shadow = 0
  Source = {"blue", "green"}
  Tenant = {t1}
  Nothing = Nothing
  Start <- MCStart
  CanRename = TRUE
  MaxEdits = 1
INVARIANT MigrationsApply
CHECK_DEADLOCK FALSE
