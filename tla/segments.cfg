SPECIFICATION MCSpec
CONSTANTS
  p1 = p1  p2 = p2  s1 = s1  s2 = s2
  Segs = {s1, s2}
  Pids = {p1, p2}
  SystemTypes <- MCSystemTypes
  CustomTypes <- MCCustomTypes
  ProfileData <- MCProfileData
  Pool <- MCPool
  MaxSequence = 3
  PastInterval = 2
  SegmentLimit = 2
  PageLimit = 2
  MaxDelete = 2
  MaxSegmentFaults = 1
  FailThreshold = 1
  MaxPastRuns = 2
  Named = TRUE
INVARIANTS TagsFollowSegments PendingHasJob RulesAreMeant
PROPERTIES PendingResolved
CHECK_DEADLOCK FALSE
