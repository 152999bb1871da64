SPECIFICATION Spec
CONSTANTS
  Named = TRUE
  Workers <- MCWorkers
  Profiles <- MCProfiles
  FullBatches = 2
  Threshold = 3
  LongestRun = 2
  MaxTrainings = 2
  MaxFaults = 1
INVARIANTS CompletedIsServed RefHasItsJob
 
CHECK_DEADLOCK FALSE
