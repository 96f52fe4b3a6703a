SPECIFICATION MCSpec
CONSTANTS
 Two = {a, b}
 a = a
 b = b
 r1 = r1
 w1 = w1
 None = None
 Requests = {r1}
 Workers = {w1}
 Children = {"handler", "helper"}
 Parent <- MCParent
 Quota <- MCQuota
 MaxDepth = 2
CHECK_DEADLOCK FALSE
INVARIANT SavedAsWhole
INVARIANT LevelsTold
INVARIANT PlansHold
INVARIANT ExhaustedMeansNone
INVARIANT BoardHolds
SYMMETRY MCSym
PROPERTY ReviewSetKept
PROPERTY NewestKept
