SPECIFICATION Spec
CONSTANTS
  Missions = {m1}
  Buoys = {b1}
  j1 = j1
  Jobs = {j1}
  Windows = {w1, w2}
  Clients = {c1, c2}
  Quota = 1
  MissionOf <- MCMissionOf
  RequiredSuccesses <- MCRequired
  StartsAt <- MCStartsAt
  EndsAt <- MCEndsAt
  JobBuoy <- MCJobBuoy
  ExpiresAt <- MCExpiresAt
  Capacity <- MCCapacity
  ReconcileLimit = 1
  MaxTime = 1
  MaxVersion = 4
  MaxLead = 0
  Disciplined = TRUE
SYMMETRY MCSymmetry
INVARIANTS TypeOK WorkflowInv
CHECK_DEADLOCK FALSE
