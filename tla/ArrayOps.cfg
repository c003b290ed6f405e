\* leases: two goroutines of one owner and one of another, three tokens over
\* five ticks; the store: three concurrent calls, one mission, one session;
\* the workers: three jobs
CONSTANTS
  Workers = {w1, w2, w3}
  Alone = w3
  OwnerOf <- MCOwnerOf
  NoOwner = NoOwner
  TTLs = {1, 3}
  MaxTime = 5
  MaxToken = 3
  Callers = {c1, c2, c3}
  Tokens = {t1}
  Roles = {r1, r2}
  Missions = {m1}
  Digests = {d1, d2}
  Bundles = {u1, u2}
  Buoys = {y1, y2}
  Keys = {k1, k2}
  Bodies = {v1, v2}
  None = None
  MaxApprovals = 3
  Jobs <- MCJobs
  KeyOf <- MCKeyOf
  LimitOf <- MCLimitOf
  Attempts = 2
SPECIFICATION MCSpec
INVARIANTS LeaseInv LogoutFinal EndedOnce StoreKeeps ResultsTrue LaneShares
PROPERTIES CommitsInOrder OnceAnswered CollectReturns
\* calls return and the jobs end
CHECK_DEADLOCK FALSE
