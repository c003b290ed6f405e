SPECIFICATION FairSpecFromAccepted
CONSTANTS
  Missions = {m1}
  Buoys = {b1}
  j1 = j1
  Jobs = {j1, j2}
  Windows = {w1}
  Clients = {c1}
  Quota = 2
  MissionOf <- MCMissionOf
  RequiredSuccesses <- MCRequired
  StartsAt <- MCStartsAt
  EndsAt <- MCEndsAt
  JobBuoy <- MCJobBuoy
  ExpiresAt <- MCExpiresAt
  Capacity <- MCCapacity
  ReconcileLimit = 1
  MaxTime = 1
  MaxVersion = 5
  MaxLead = 0
  Disciplined = FALSE
INVARIANTS CompletedWindowSettled AuditTrail
PROPERTIES ExpiredSettled
CHECK_DEADLOCK FALSE
