SPECIFICATION Spec
CONSTANTS
  Named = TRUE
  a1 = a1  a2 = a2  once = once  twice = twice  loop = loop  segment = segment  other = other  item = item
  p1 = p1  p2 = p2
  Accounts = {a1, a2}
  Kinds = {once}
  MatchedAccounts = {a1, a2}
  WorkersReadIds = TRUE
  Ticks = {1}
  Handlers = {1}
  PageSize = 1
  HungAfter = 2
  ClaimTTL = 1
  MaxAge = 2
  MaxRows = 2
  MaxCount = 2
  MaxLive = 2
  Unlimited = 1000
  Faults = {}
  MaxFaults = 0
  PassTime = 1
  SlowRuns = FALSE
  Desired <- MCDesired
  Threshold <- MCThreshold
  Interval <- MCInterval
  Alt <- MCAlt
  Requires <- MCRequires
  Holds <- MCHolds
  Pod <- OnePod
INVARIANTS TypeOK AtMostOneLive DesiredRunsRespected SingleInv ChargeJustified
PROPERTIES LedgerSpec OnlyExhaustedDeleted
