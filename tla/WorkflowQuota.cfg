SPECIFICATION Spec
CONSTANTS
  Missions = {m1}
  Buoys = {b1}
  j1 = j1
  Jobs = {j1, j2, j3}
  Windows = {}
  Clients = {c1, c2}
  Quota = 2
  MissionOf <- MCMissionOf
  RequiredSuccesses <- MCRequired
  StartsAt <- MCStartsAt
  EndsAt <- MCEndsAt
  JobBuoy <- MCJobBuoy
  ExpiresAt <- MCExpiresAt
  Capacity <- MCCapacity
  ReconcileLimit = 1
  MaxTime = 1
  MaxVersion = 3
  MaxLead = 0
  Disciplined = FALSE
SYMMETRY MCSymmetry
CONSTRAINT NoIncidents
INVARIANTS InstallsExact
PROPERTIES CheckedMovesLegal
CHECK_DEADLOCK FALSE
