SPECIFICATION FairSpec
CONSTANTS
  m1 = m1  m2 = m2  m3 = m3  m4 = m4   none = none
  Messages = {m1, m2, m3, m4}
  Garbage = {m3}
  Refused = {m2}
  Poison = {m1}
  NoMessage = none
  Prefetch = 2
  Faults = {"link", "restart", "answer", "error", "publish"}
  MaxFaults = 2
INVARIANTS Conserved AnswersItsOwn RepeatedForFaultsOnly DeliveryInv
PROPERTIES OvertakesRequeuedOnly SettlesInTheEnd BoxSpec
CHECK_DEADLOCK FALSE
