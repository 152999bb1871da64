SPECIFICATION CatalogueSpec
CONSTANTS
  i1 = i1  i2 = i2  i3 = i3  acme = acme  zen = zen  k1 = k1  k2 = k2
  ItemIds = {i1, i2, i3}
  Owner = acme
  ItemLimit = 2
  ItemBytes = 2
  Clients = {k1, k2}
  MaxCalls = 3
  MaxItemFaults = 1
  Prefetch = 10
  Payers = {acme, zen}
  Plan <- MCPlan
  Currency <- MCCurrency
  NoPlan = none
  Costs <- MCCosts
  Megabyte = 4
  Sizes = {1, 2, 6}
  PageLimit = 2
  Meters = {w1}
  MaxMeterings = 1
  MaxBillFaults = 0
  Named = FALSE
PROPERTIES CapturesAreStored
CHECK_DEADLOCK FALSE
