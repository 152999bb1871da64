SPECIFICATION MCSpec
CONSTANTS
  p1 = p1  p2 = p2  p3 = p3  p4 = p4  int = int  str = str  nobody = nobody  ann = ann  bob = bob
  e1 = e1  e2 = e2  e3 = e3  s1 = s1  c1 = c1  c2 = c2
  Pids = {p1, p2, p3, p4}
  Types = {int, str}
  Segments = {s1}
  Callers = {c1, c2}
  ProfileLimit = 3
  MaxAsks = 2
  MaxProfileFaults = 1
  Eids = {e1, e2, e3}
  Posters = {x1}
  EventLimit = 3
  AuthId <- MCAuthId
  NoAuth = nobody
  AgeScores <- MCAgeScores
  MaxRuns = 2
  i1 = i1  i2 = i2  i3 = i3  acme = acme  zen = zen  k1 = k1  k2 = k2
  ItemIds = {i1, i2, i3}
  Owner = acme
  ItemLimit = 2
  ItemBytes = 2
  Clients = {k1, k2}
  MaxCalls = 3
  MaxItemFaults = 2
  Prefetch = 10
  Payers = {acme, zen}
  Plan <- MCPlan
  Currency <- MCCurrency
  NoPlan = none
  Costs <- MCCosts
  Megabyte = 4
  Sizes = {1, 2, 6}
  PageLimit = 2
  Meters = {w1}
  MaxMeterings = 1
  MaxBillFaults = 1
  Named = TRUE
INVARIANTS LimitAndTypesUnlessRaced DeletionCascades MergeKeepsOne ChargedAsCaptured CatalogueAsAnswered
PROPERTIES CommandsSettle
CHECK_DEADLOCK FALSE
