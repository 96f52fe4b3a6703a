SPECIFICATION FairSpec
CONSTANTS
  Jobs = {j1, j2}
  MaxActive = 1
  MaxPerUser = 2
  MaxRegions = 1
  MaxFaults = 1
  Users <- MCUsers
  Dungeons <- MCDungeons
  Owner <- MCOwner
  u1 = u1
  d1 = d1
  j1 = j1
  j2 = j2
INVARIANT SlotsAddUp
INVARIANT MarksHaveJobs
INVARIANT RecordedWereFilled
PROPERTY JobsEnd
