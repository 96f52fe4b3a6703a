SPECIFICATION FairSpec
CONSTANTS
  Images = {i1, i2}
  Workers = {w1, w2}
  Devices = {d1}
  MaxFaults = 1
  MaxRare = 1
  NoImage = NoImage
  NoWorker = NoWorker
  i1 = i1
  i2 = i2
  i3 = i3
  w1 = w1
  w2 = w2
  d1 = d1
  d2 = d2
CHECK_DEADLOCK FALSE
INVARIANT LiveAvatarSurvives
INVARIANT OneAtATime
PROPERTY JobsAreKept
PROPERTY JobsAreDone
