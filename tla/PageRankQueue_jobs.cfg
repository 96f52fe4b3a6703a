SPECIFICATION Spec
CONSTANTS
  Jobs = {j1}
  Owners = {o1, o2, o3}
  Processes = {p1, p2}
  Admins = {a1}
  Resources = {r1, r2}
  Limits = {1}
  Pendings = {1}
  MaxLength = 2
  MaxRequests = 1
  MaxImports = 1
  MaxRepairs = 1
  MaxDeletes = 1
  MaxChanges = 0
  MaxDeaths = 1
  MaxStalls = 1
  NoJob = NoJob
  NoOwner = NoOwner
  NoProcess = NoProcess
  NoCache = NoCache
  j1 = j1
  j2 = j2
  o1 = o1
  o2 = o2
  o3 = o3
  o4 = o4
  p1 = p1
  p2 = p2
  a1 = a1
  a2 = a2
  r1 = r1
  r2 = r2
SYMMETRY Symmetry
CHECK_DEADLOCK FALSE
INVARIANT SuccessWasPublished
INVARIANT FinishedIsComplete
INVARIANT ReadyRanksAreCurrent
PROPERTY LedgerSpec
