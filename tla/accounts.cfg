SPECIFICATION MCSpec
CONSTANTS
  profiles = profiles  jobs = jobs
  Accounts = {a1}
  Keys = {config}
  Cleanups <- MCCleanups
  JobService = jobs
  Jobs = 1
  Admins = {admin}
  Holders = {holder}
  MaxUpdates = 2
  Prefetch = 2
  AttemptLimit = 0
  MaxFaults = 2
INVARIANTS CreationAnswered DeletedForGood
PROPERTIES TokenSinceLastPause UpdatesSettle
CHECK_DEADLOCK FALSE
