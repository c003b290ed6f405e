\* is create() called once for a key?
CONSTANTS
  Retries = {r1, r2, r3, r4}
  Reuse = reuse
  Bare = bare
  Requests <- MCRequests
  KeyOf <- MCKeyOf
  BodyOf <- MCBodyOf
  NoKey = NoKey
  None = None
  Conflict = Conflict
  Failed = Failed
  Callers = {c1, c2}
  Operators = {p1, p2}
  Nobody = Nobody
  MaxTime = 2
  MaxLead = 1
  MaxHandOffs = 0
SPECIFICATION MCSpec
SYMMETRY MCSymmetry
INVARIANTS CreatedOnce
\* every call returns
CHECK_DEADLOCK FALSE
