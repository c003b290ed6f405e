\* assignments: two clients, two assignments of one buoy over three times, the
\* worker takes one at a time; the server: two workers, two requests, two
\* connections; the loops: up to four attempts, delays up to five;
\* the limiter: three batches, one with a decoder of its own, two at a time;
\* migrations: three servers that are restarted, the repository's three scripts,
\* two failures
CONSTANTS
  Clients = {c1, c2}
  Ids = {i1, i2}
  Buoys = {b1}
  MaxTime = 2
  Limit = 1
  MaxRollbacks = 1
  None = None
  Loops = {w1, w2}
  Handlers = {h1, h2}
  MaxConns = 2
  MaxAttempts = 4
  MaxUnit = 5
  Calls = {q1, q2, q3}
  Slots = 2
  Inputs = 2
  Guarded = {q1, q2}
  Servers = {s1, s2, s3}
  Versions = 3
  MaxFailures = 2
  NoOne = NoOne
  Orphan = Orphan
SPECIFICATION MCSpec
INVARIANTS AssignmentsSound ExitTold WorkersStop RepeatsSafely DelaysGrow OpenExact MigrationInv
PROPERTIES LegalMoves DueLeaves Returns RunsReturn AllServe
\* the process returns, the loops return, the clock ends
CHECK_DEADLOCK FALSE
