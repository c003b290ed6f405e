\* two requests, two users with a session each, up to four orders (three where
\* they are moved)
CONSTANTS
  Requests = {r1, r2}
  Users = {"admin", "reviewer"}
  RoleOf <- MCRoleOf
  Tokens = {"t1", "t2"}
  UserOf <- MCUserOf
  Kinds = {"buoy", "operator", "treatment"}
  SizeAsked = {0, 2}
  DefaultSize = 1
  MaxSize = 2
  MaxOrders = 4
  Nobody = "nobody"
SPECIFICATION MCSpec
INVARIANTS InFlightOnly RacesSettled PagesAgree
SYMMETRY Symmetry
\* requests end
CHECK_DEADLOCK FALSE
