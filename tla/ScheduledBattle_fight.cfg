SPECIFICATION Spec
CONSTANTS
  None = None
  Interval <- MCInterval
  Lot <- MCLot
  Enemies <- MCEnemies
  Skill <- MCSkill
  Base <- MCBase
  Speed <- MCSpeed
  Affinity <- MCAffinity
  MaxEffects = 4
  Gambits <- MCGambits
  Attack = "attack"
  OnHit = "sting"
  Rolls <- MCRolls
  Draws <- MCDraws
  SkillCost = 1
  CallTurns = {2}
  Ahead = 3
  MaxTurn = 6
  e1 = e1
  e2 = e2
CHECK_DEADLOCK FALSE
INVARIANT NothingStale
INVARIANT NobodyStarves
PROPERTY LivesAndDeaths
PROPERTY ForecastKept
