SPECIFICATION Spec
CONSTANTS
  Devices = {d1, d2}
  d1 = d1
  d2 = d2
  None = None
  Nothing = Nothing
  Title = "T"
  Ratio <- MCRatio
  Texts <- MCTexts
  Duplicables <- MCDuplicables
  Requests <- MCRequests
  Syncs <- MCSyncs
  Legacy <- MCLegacy
  MaxImports = 2
  MaxOthers = 3
  MaxConcurrent = 2
  MaxPerUser = 2
CHECK_DEADLOCK FALSE
INVARIANT SentencesHeld
INVARIANT GraphOfText
INVARIANT SlotsAddUp
SYMMETRY MCSymmetry
