SPECIFICATION Spec
CONSTANTS
  Devices <- MCDevices
  Enemies <- MCEnemies
  None = None
  EnemyHp = 1
  MovesPerEvent = 1
  EnemiesToClear = 2
  MaxBattles = 1
  MaxTurns = 1
  Watched <- MCFacts
  d1 = d1
  d2 = d2
  e1 = e1
  e2 = e2
CHECK_DEADLOCK FALSE
INVARIANT CanGoOn
INVARIANT OnceOnly
INVARIANT DefeatAtEntrance
PROPERTY TurnsInOrder
