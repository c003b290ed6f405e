SPECIFICATION Spec
CONSTANTS
  Missions = {m1}
  Buoys = {b1}
  j1 = j1
  Jobs = {j1}
  Windows = {}
  Clients = {c1}
  Quota = 1
  MissionOf <- MCMissionOf
  RequiredSuccesses <- MCRequired
  StartsAt <- MCStartsAt
  EndsAt <- MCEndsAt
  JobBuoy <- MCJobBuoy
  ExpiresAt <- MCExpiresAt
  Capacity <- MCCapacity
  ReconcileLimit = 1
  MaxTime = 1
  MaxVersion = 4
  MaxLead = 0
  Disciplined = FALSE

PROPERTIES JobTransitionsLegal
CHECK_DEADLOCK FALSE
