SPECIFICATION Spec
CONSTANTS
  Devices = {d1, d2}
  Sessions <- MCSessions
  Chests = {1}
  Dungeons = {1}
  MovesPerEvent = 1
  PotionSteps = 1
  StartGold = 1
  Price = 1
  ChestGold = 1
  ChestPotions = 1
  MaxUnlocked = 2
  SlotsPerDay = 1
  MaxRevision = 2
  MaxNow = 2
  MaxExplored = 1
  MaxResets = 1
  MaxReviews = 1
  Overnight = FALSE
  NoDevice = NoDevice
  d1 = d1
  d2 = d2
CHECK_DEADLOCK FALSE
INVARIANT BooksBalance
INVARIANT RevisionNamesContent
INVARIANT OnceOnly
SYMMETRY Symmetry
