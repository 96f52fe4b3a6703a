SPECIFICATION Spec
CONSTANTS
  Jobs = {j1, j2}
  Owners = {o1, o2, o3}
  Processes = {p1, p2}
  Admins = {a1, a2}
  Resources = {r1}
  Limits = {1, 2}
  Pendings = {1, 2}
  MaxLength = 1
  MaxRequests = 2
  MaxImports = 0
  MaxRepairs = 0
  MaxDeletes = 0
  MaxChanges = 1
  MaxDeaths = 0
  MaxStalls = 1
  NoJob = NoJob
  NoOwner = NoOwner
  NoProcess = NoProcess
  NoCache = NoCache
  j1 = j1
  j2 = j2
  o1 = o1
  o2 = o2
  o3 = o3
  o4 = o4
  p1 = p1
  p2 = p2
  a1 = a1
  a2 = a2
  r1 = r1
  r2 = r2
CHECK_DEADLOCK FALSE
INVARIANT LimitKept
PROPERTY ClaimsRespectLimit
SYMMETRY Symmetry
