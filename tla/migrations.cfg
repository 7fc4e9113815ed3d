SPECIFICATION FairSpec
CONSTANTS
  Process = {app, daemon, cli}
  Entry = {e1, e2}
  Versions = {0, 1, 2, 3, 4}
  Absent = Absent
  MaxCrashes = 2
INVARIANTS MigrationsTypeOK LogSurvives OpenMeansMigrated
PROPERTIES OpensUnlessTorn
