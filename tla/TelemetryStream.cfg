\* two sealers and two waiters race with appends; two digests compete for
\* each segment
CONSTANTS
  Keys = {k1}
  d1 = d1
  Digests = {d1, d2}
  PayloadOf <- MCPayloadOf
  Waiters = {w1, w2}
  Sealers = {s1, s2}
  MaxSegments = 3
SPECIFICATION FairSpec
INVARIANTS SealedIntact NoLostWakeup
PROPERTIES ImplementsCapture WaitersReturn
