\* Declarations that change, one tenant that applies the migrations at any time.
SPECIFICATION Spec
CONSTANTS
  Column = {1, 2}
  Link = {1}
  Shadow = 0
  Source = {"blue", "green"}
  Tenant = {t1}
  Nothing = Nothing
  Start <- MCStart
  CanRename = FALSE
  MaxEdits = 3
INVARIANTS TypeOK MigrationsApply NothingAheadOfItsMigration MigratedIsDeclared
PROPERTIES ResyncRepairs
CHECK_DEADLOCK FALSE
