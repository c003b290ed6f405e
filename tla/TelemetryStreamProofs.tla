----------------------- MODULE TelemetryStreamProofs -----------------------
(***************************************************************************)
(* Proofs about telemetry.Manager, for any number of streams, segments,    *)
(* waiters and sealers.                                                    *)
(***************************************************************************)
EXTENDS TelemetryStream, FiniteSetTheorems, TLAPS

\* The records of waiters and sealers.
LEMMA Records ==
  ASSUME TypeOK
  PROVE  /\ \A w \in Waiters : /\ waiter[w].pc = "waiting" =>
                                    waiter[w].key \in Keys /\ waiter[w].seen \in Nat
                               /\ waiter[w].pc = "returned" => waiter[w].key \in Keys
         /\ \A s \in Sealers : snap[s] # None =>
                                 /\ snap[s].key \in Keys /\ snap[s].version \in Nat
                                 /\ snap[s].segments \in Partial(Indexes, Digests)
  <1>1. \A w \in Waiters : waiter[w] \in WaiterState
    BY DEF TypeOK
  <1>2. \A s \in Sealers : snap[s] \in SnapState
    BY DEF TypeOK
  <1>3. QED
    BY <1>1, <1>2 DEF WaiterState, SnapState, None

\* A segment that is added keeps a map of segments a map of segments.
LEMMA AddedSegment ==
  ASSUME NEW segs \in Partial(Indexes, Digests), NEW i \in Indexes, NEW d \in Digests
  PROVE  [x \in DOMAIN segs \cup {i} |-> IF x = i THEN d ELSE segs[x]]
           \in Partial(Indexes, Digests)
  <1>1. PICK D \in SUBSET Indexes : segs \in [D -> Digests]
    BY DEF Partial
  <1>2. [x \in D \cup {i} |-> IF x = i THEN d ELSE segs[x]] \in [D \cup {i} -> Digests]
    BY <1>1
  <1>3. DOMAIN segs = D /\ D \cup {i} \in SUBSET Indexes
    BY <1>1
  <1>4. QED
    BY <1>2, <1>3 DEF Partial

LEMMA TypeStep ==
  ASSUME TypeOK, [Next]_vars
  PROVE  TypeOK'
  <1> USE DEF streamVars
  <1>1. ASSUME NEW k \in Keys, NEW n \in 1 .. MaxSegments, Open(k, n) PROVE TypeOK'
    BY <1>1, StreamAssumption DEF Open, signalLocked, TypeOK
  <1>2. ASSUME NEW k \in Keys, NEW i \in Indexes, NEW d \in Digests, AppendSegment(k, i, d)
        PROVE TypeOK'
    <2>1. segments' \in [Keys -> Partial(Indexes, Digests)]
      <3>1. segments[k] \in Partial(Indexes, Digests)
        BY DEF TypeOK
      <3>2. QED
        BY <1>2, <3>1, AddedSegment DEF AppendSegment, TypeOK
    <2>2. QED
      BY <1>2, <2>1 DEF AppendSegment, signalLocked, NextVersion, TypeOK
  <1>3. ASSUME NEW k \in Keys, NEW i \in Indexes, NEW d \in Digests, AppendAgain(k, i, d)
        PROVE TypeOK'
    BY <1>3 DEF AppendAgain, TypeOK
  <1>4. ASSUME NEW k \in Keys, NEW s \in Sealers, Snapshot(s, k) PROVE TypeOK'
    <2>1. [pc |-> "read", key |-> k, version |-> version[k], segments |-> segments[k]]
            \in SnapState
      BY DEF SnapState, TypeOK
    <2>2. QED
      BY <1>4, <2>1 DEF Snapshot, TypeOK
  <1>5. ASSUME NEW s \in Sealers, SealerNext(s) PROVE TypeOK'
    <2>1. snap[s] # None /\ snap[s].key \in Keys
      BY <1>5, Records DEF SealerNext, Finalize, FinalizeAuditFails, FinalizeRefused
    <2>2. snap' \in [Sealers -> SnapState]
      BY <1>5 DEF SealerNext, Finalize, FinalizeAuditFails, FinalizeRefused, TypeOK, SnapState
    <2>3. CASE Finalize(s)
      <3>1. \A a \in audits' : a[1] \in Keys /\ a = <<a[1], a[2]>>
        BY <2>1, <2>3 DEF Finalize, Audited, TypeOK
      <3>2. record' = [k \in Keys |-> record'[k]]
        BY <2>1, <2>3 DEF Finalize, TypeOK
      <3>3. version' \in [Keys -> Nat] /\ changed' \in Nat
        BY <2>1, <2>3 DEF Finalize, signalLocked, NextVersion, TypeOK
      <3>4. QED
        BY <2>1, <2>2, <2>3, <3>1, <3>2, <3>3 DEF Finalize, TypeOK
    <2>4. CASE FinalizeAuditFails(s)
      BY <2>1, <2>2, <2>4 DEF FinalizeAuditFails, Audited, TypeOK
    <2>5. CASE FinalizeRefused(s)
      BY <2>2, <2>5 DEF FinalizeRefused, TypeOK
    <2>6. QED
      BY <1>5, <2>3, <2>4, <2>5 DEF SealerNext
  <1>6. ASSUME NEW w \in Waiters, NEW k \in Keys, AwaitRound(w, k) PROVE TypeOK'
    <2>1. /\ [pc |-> "returned", key |-> k] \in WaiterState
          /\ [pc |-> "waiting", key |-> k, seen |-> changed] \in WaiterState
      BY DEF WaiterState, TypeOK
    <2>2. QED
      BY <1>6, <2>1 DEF AwaitRound, TypeOK
  <1>7. ASSUME NEW w \in Waiters, AwaitWakes(w) PROVE TypeOK'
    BY <1>6, <1>7, Records DEF AwaitWakes
  <1>8. ASSUME NEW w \in Waiters, AwaitCancelled(w) PROVE TypeOK'
    BY <1>8 DEF AwaitCancelled, TypeOK, WaiterState
  <1>9. CASE UNCHANGED vars
    BY <1>9 DEF vars, TypeOK
  <1>10. QED
    BY <1>1, <1>2, <1>3, <1>4, <1>5, <1>6, <1>7, <1>8, <1>9
    DEF Next, StreamNext, AwaitComplete

LEMMA TypeInit == Init => TypeOK
  <1>1. NoSegments \in Partial(Indexes, Digests)
    <2>1. NoSegments \in [{} -> Digests]
      BY DEF NoSegments
    <2>2. QED
      BY <2>1 DEF Partial
  <1>2. QED
    BY <1>1, StreamAssumption DEF Init, TypeOK, WaiterState, SnapState

\* Type correctness of the manager, its waiters and its sealers.
THEOREM StreamTypes == Spec => []TypeOK
  BY TypeInit, TypeStep, PTL DEF Spec

(***************************************************************************)
(* What a step may do to one stream                                        *)
(***************************************************************************)
StreamSame(k) ==
  /\ state'[k] = state[k] /\ expected'[k] = expected[k] /\ segments'[k] = segments[k]
  /\ version'[k] = version[k] /\ record'[k] = record[k]

StreamOpened(k) ==
  /\ state[k] = "absent" /\ state'[k] = "collecting" /\ expected'[k] \in 1 .. MaxSegments
  /\ segments'[k] = segments[k] /\ record'[k] = record[k]
  /\ version'[k] = 1 /\ changed' = changed + 1

StreamFilled(k) ==
  /\ state[k] = "collecting" /\ state'[k] = state[k]
  /\ expected'[k] = expected[k] /\ record'[k] = record[k]
  /\ \E i \in Indexes, d \in Digests :
       /\ i < expected[k] /\ i \notin DOMAIN segments[k]
       /\ segments'[k] = [x \in DOMAIN segments[k] \cup {i} |->
                            IF x = i THEN d ELSE segments[k][x]]
  /\ version'[k] = version[k] + 1 /\ changed' = changed + 1

StreamSealed(k) ==
  /\ state[k] = "collecting" /\ state'[k] = "sealed" /\ Complete(k)
  /\ expected'[k] = expected[k] /\ segments'[k] = segments[k]
  /\ record'[k] = assemble(segments[k])
  /\ k \in unaudited' \/ <<k, record'[k]>> \in audits'
  /\ version'[k] = version[k] + 1

StreamStep(k) == StreamSame(k) \/ StreamOpened(k) \/ StreamFilled(k) \/ StreamSealed(k)

LEMMA StreamSteps ==
  ASSUME TypeOK, [Next]_vars, NEW k \in Keys
  PROVE  StreamStep(k)
  <1> USE DEF StreamStep, TypeOK, streamVars
  <1>1. ASSUME NEW j \in Keys, NEW n \in 1 .. MaxSegments, Open(j, n) PROVE StreamStep(k)
    BY <1>1 DEF Open, signalLocked, StreamSame, StreamOpened
  <1>2. ASSUME NEW j \in Keys, NEW i \in Indexes, NEW d \in Digests, AppendSegment(j, i, d)
        PROVE StreamStep(k)
    <2>1. CASE j = k
      BY <1>2, <2>1 DEF AppendSegment, NewSegment, signalLocked, NextVersion, StreamFilled
    <2>2. CASE j # k
      BY <1>2, <2>2 DEF AppendSegment, StreamSame
    <2>3. QED
      BY <2>1, <2>2
  <1>3. ASSUME NEW s \in Sealers, Finalize(s) PROVE StreamStep(k)
    <2>1. snap[s] # None /\ snap[s].key \in Keys
      BY <1>3, Records DEF Finalize
    <2>2. CASE snap[s].key = k
      <3>1. state[k] = "collecting" /\ Complete(k)
        BY <1>3, <2>2 DEF Finalize, Finalizable
      <3>2. /\ record'[k] = assemble(segments[k])
            /\ k \in unaudited' \/ <<k, assemble(segments[k])>> \in audits'
        BY <1>3, <2>2 DEF Finalize, Audited
      <3>3. QED
        BY <1>3, <2>2, <3>1, <3>2 DEF Finalize, NextVersion, StreamSealed
    <2>3. CASE snap[s].key # k
      BY <1>3, <2>1, <2>3 DEF Finalize, StreamSame
    <2>4. QED
      BY <2>2, <2>3
  <1>4. CASE UNCHANGED <<streamVars, record>>
    BY <1>4 DEF StreamSame
  <1>5. QED
    BY <1>1, <1>2, <1>3, <1>4
    DEF Next, StreamNext, SealerNext, AppendAgain, Snapshot, FinalizeAuditFails,
        FinalizeRefused, AwaitComplete, AwaitWakes, AwaitRound, AwaitCancelled, vars

\* What a step may do to a waiter.
WaiterStep(w) ==
  \/ waiter'[w] = waiter[w]
  \/ waiter'[w] = None
  \/ \E k \in Keys :
       /\ UNCHANGED <<streamVars, changed>>
       /\ \/ Complete(k) /\ waiter'[w] = [pc |-> "returned", key |-> k]
          \/ ~Complete(k) /\ waiter'[w] = [pc |-> "waiting", key |-> k, seen |-> changed]

LEMMA WaiterSteps ==
  ASSUME TypeOK, [Next]_vars, NEW w \in Waiters
  PROVE  WaiterStep(w)
  <1> USE DEF TypeOK, WaiterStep
  <1>1. ASSUME NEW v \in Waiters, NEW k \in Keys, AwaitRound(v, k) PROVE WaiterStep(w)
    BY <1>1 DEF AwaitRound
  <1>2. ASSUME NEW v \in Waiters, AwaitWakes(v) PROVE WaiterStep(w)
    <2>1. waiter[v].key \in Keys
      BY <1>2, Records DEF AwaitWakes
    <2>2. QED
      BY <1>1, <1>2, <2>1 DEF AwaitWakes
  <1>3. ASSUME NEW v \in Waiters, AwaitCancelled(v) PROVE WaiterStep(w)
    BY <1>3 DEF AwaitCancelled
  <1>4. CASE UNCHANGED waiter
    BY <1>4
  <1>5. QED
    BY <1>1, <1>2, <1>3, <1>4
    DEF Next, StreamNext, SealerNext, Open, AppendSegment, AppendAgain, Snapshot,
        Finalize, FinalizeAuditFails, FinalizeRefused, AwaitComplete, vars

LEMMA ChangedSteps ==
  ASSUME [Next]_vars
  PROVE  changed' \in {changed, changed + 1}
  BY DEF Next, StreamNext, SealerNext, Open, AppendSegment, AppendAgain, Snapshot,
         Finalize, FinalizeAuditFails, FinalizeRefused, AwaitComplete, AwaitWakes,
         AwaitRound, AwaitCancelled, signalLocked, vars

\* Segments lie below the expected count, so counting them is comparing sets.
LEMMA CompleteMeans ==
  ASSUME TypeOK, StreamShape, NEW k \in Keys
  PROVE  Complete(k) <=> /\ state[k] # "absent"
                         /\ DOMAIN segments[k] = 0 .. expected[k] - 1
  <1>1. expected[k] \in Nat /\ DOMAIN segments[k] \subseteq 0 .. expected[k] - 1
    BY StreamAssumption DEF TypeOK, StreamShape
  <1>2. /\ IsFiniteSet(0 .. expected[k] - 1)
        /\ Cardinality(0 .. expected[k] - 1) = expected[k]
    <2>1. 0 \in Int /\ expected[k] - 1 \in Int
      BY <1>1
    <2>2. Cardinality(0 .. expected[k] - 1)
            = IF 0 > expected[k] - 1 THEN 0 ELSE expected[k] - 1 - 0 + 1
      BY <2>1, FS_Interval
    <2>3. QED
      BY <1>1, <2>1, <2>2, FS_Interval
  <1>3. Cardinality(DOMAIN segments[k]) = expected[k] =>
          DOMAIN segments[k] = 0 .. expected[k] - 1
    BY <1>1, <1>2, FS_Subset
  <1>4. QED
    BY <1>2, <1>3 DEF Complete

LEMMA ShapeStep ==
  ASSUME TypeOK, StreamShape, [Next]_vars
  PROVE  StreamShape'
  <1>1. ASSUME NEW k \in Keys
        PROVE /\ DOMAIN segments'[k] \subseteq 0 .. expected'[k] - 1
              /\ state'[k] = "absent" => version'[k] = 0 /\ expected'[k] = 0
              /\ state'[k] # "absent" => expected'[k] > 0
              /\ state'[k] # "sealed" => record'[k] = << >>
    <2>1. /\ StreamStep(k) /\ expected[k] \in Nat
          /\ DOMAIN segments[k] \subseteq 0 .. expected[k] - 1
      BY StreamSteps, StreamAssumption DEF TypeOK, StreamShape
    <2>2. CASE StreamSame(k) \/ StreamSealed(k)
      BY <2>1, <2>2 DEF StreamSame, StreamSealed, StreamShape
    <2>3. CASE StreamOpened(k)
      <3>1. DOMAIN segments'[k] = {} /\ expected'[k] > 0 /\ record'[k] = << >>
        BY <2>1, <2>3 DEF StreamOpened, StreamShape
      <3>2. QED
        BY <2>3, <3>1 DEF StreamOpened
    <2>4. CASE StreamFilled(k)
      BY <2>1, <2>4 DEF StreamFilled, StreamShape, Indexes
    <2>5. QED
      BY <2>1, <2>2, <2>3, <2>4 DEF StreamStep
  <1>2. ASSUME NEW w \in Waiters, waiter'[w].pc = "waiting"
        PROVE waiter'[w].seen <= changed'
    <2>1. changed' \in {changed, changed + 1} /\ changed \in Nat
      BY ChangedSteps DEF TypeOK
    <2>2. waiter'[w] = waiter[w] \/ waiter'[w].seen = changed
      <3>1. waiter'[w] # None
        BY <1>2 DEF None
      <3>2. ASSUME NEW k \in Keys, waiter'[w] = [pc |-> "returned", key |-> k] PROVE FALSE
        BY <1>2, <3>2
      <3>3. ASSUME NEW k \in Keys, waiter'[w] = [pc |-> "waiting", key |-> k, seen |-> changed]
            PROVE waiter'[w].seen = changed
        BY <3>3
      <3>4. QED
        BY <3>1, <3>2, <3>3, WaiterSteps DEF WaiterStep
    <2>3. waiter'[w] = waiter[w] => waiter[w].seen \in Nat /\ waiter[w].seen <= changed
      BY <1>2, Records DEF StreamShape
    <2>4. QED
      BY <2>1, <2>2, <2>3
  <1>3. QED
    BY <1>1, <1>2 DEF StreamShape

\* Filling, sealing and opening never make a complete stream incomplete.
LEMMA CompleteStays ==
  ASSUME TypeOK, StreamShape, [Next]_vars, NEW k \in Keys, Complete(k)
  PROVE  Complete(k)'
  <1>1. StreamStep(k)
    BY StreamSteps
  <1>2. state[k] # "absent" /\ DOMAIN segments[k] = 0 .. expected[k] - 1
    BY CompleteMeans
  <1>3. expected[k] \in Nat
    BY StreamAssumption DEF TypeOK
  <1>4. ~StreamFilled(k) /\ ~StreamOpened(k)
    <2>1. \A i \in Indexes : i < expected[k] => i \in DOMAIN segments[k]
      BY <1>2, <1>3, StreamAssumption DEF Indexes
    <2>2. QED
      BY <1>2, <2>1 DEF StreamFilled, StreamOpened
  <1>5. QED
    BY <1>1, <1>4 DEF StreamStep, StreamSame, StreamSealed, Complete

LEMMA WakeupStep ==
  ASSUME TypeOK, StreamShape, NoLostWakeup, [Next]_vars
  PROVE  NoLostWakeup'
  <1>1. SUFFICES ASSUME NEW w \in Waiters
        PROVE /\ waiter'[w].pc = "waiting" /\ waiter'[w].seen = changed' =>
                   ~(/\ state'[waiter'[w].key] # "absent"
                     /\ Cardinality(DOMAIN segments'[waiter'[w].key]) = expected'[waiter'[w].key])
              /\ waiter'[w].pc = "returned" =>
                   /\ state'[waiter'[w].key] # "absent"
                   /\ Cardinality(DOMAIN segments'[waiter'[w].key]) = expected'[waiter'[w].key]
    BY DEF NoLostWakeup, Complete
  <1>2. CASE waiter'[w] = waiter[w]
    <2>1. ASSUME waiter[w].pc = "waiting", waiter[w].seen = changed'
          PROVE ~(/\ state'[waiter[w].key] # "absent"
                  /\ Cardinality(DOMAIN segments'[waiter[w].key]) = expected'[waiter[w].key])
      <3>1. PICK k \in Keys : k = waiter[w].key
        BY <2>1, Records
      <3>2. changed' = changed
        <4>1. waiter[w].seen \in Nat /\ changed \in Nat /\ waiter[w].seen <= changed
          BY <2>1, Records DEF TypeOK, StreamShape
        <4>2. QED
          BY <2>1, <4>1, ChangedSteps
      <3>3. ~Complete(k)
        BY <2>1, <3>1, <3>2 DEF NoLostWakeup
      <3>4. StreamSame(k) \/ StreamSealed(k)
        <4>1. changed # changed + 1
          BY DEF TypeOK
        <4>2. QED
          BY <3>2, <4>1, StreamSteps DEF StreamStep, StreamOpened, StreamFilled
      <3>5. QED
        BY <3>1, <3>3, <3>4 DEF StreamSame, StreamSealed, Complete
    <2>2. ASSUME waiter[w].pc = "returned"
          PROVE /\ state'[waiter[w].key] # "absent"
                /\ Cardinality(DOMAIN segments'[waiter[w].key]) = expected'[waiter[w].key]
      <3>1. PICK k \in Keys : k = waiter[w].key
        BY <2>2, Records
      <3>2. Complete(k)
        BY <2>2, <3>1 DEF NoLostWakeup
      <3>3. QED
        BY <3>1, <3>2, CompleteStays DEF Complete
    <2>3. QED
      BY <1>2, <2>1, <2>2
  <1>3. CASE waiter'[w] = None
    BY <1>3 DEF None
  <1>4. ASSUME NEW k \in Keys, UNCHANGED <<streamVars, changed>>,
               Complete(k), waiter'[w] = [pc |-> "returned", key |-> k]
        PROVE /\ waiter'[w].pc = "returned"
              /\ state'[waiter'[w].key] # "absent"
              /\ Cardinality(DOMAIN segments'[waiter'[w].key]) = expected'[waiter'[w].key]
    BY <1>4 DEF Complete, streamVars
  <1>5. ASSUME NEW k \in Keys, UNCHANGED <<streamVars, changed>>,
               ~Complete(k), waiter'[w] = [pc |-> "waiting", key |-> k, seen |-> changed]
        PROVE /\ waiter'[w].pc = "waiting"
              /\ ~(/\ state'[waiter'[w].key] # "absent"
                   /\ Cardinality(DOMAIN segments'[waiter'[w].key]) = expected'[waiter'[w].key])
    BY <1>5 DEF Complete, streamVars
  <1>6. QED
    BY <1>2, <1>3, <1>4, <1>5, WaiterSteps DEF WaiterStep

\* No AwaitComplete sleeps on a channel that stays open while its stream is
\* complete, and none returns before it is: the channel is read under the same
\* lock as the segments, and every change replaces it.
THEOREM WakeupsKept == Spec => []NoLostWakeup
  <1>1. Init => StreamShape /\ NoLostWakeup
    BY DEF Init, StreamShape, NoLostWakeup, None, NoSegments
  <1>2. TypeOK /\ StreamShape /\ NoLostWakeup /\ [Next]_vars
          => TypeOK' /\ StreamShape' /\ NoLostWakeup'
    BY TypeStep, ShapeStep, WakeupStep
  <1>3. QED
    BY <1>1, <1>2, TypeInit, PTL DEF Spec

(***************************************************************************)
(* Snapshots, acknowledgements, seals and audits                           *)
(***************************************************************************)

\* A sealer's snapshot is kept, dropped, or taken of the stream as it is.
LEMMA SnapSteps ==
  ASSUME TypeOK, [Next]_vars, NEW s \in Sealers
  PROVE  \/ snap'[s] = snap[s]
         \/ snap'[s] = None
         \/ \E k \in Keys :
              /\ UNCHANGED streamVars
              /\ snap'[s] = [pc |-> "read", key |-> k, version |-> version[k],
                             segments |-> segments[k]]
  BY DEF Next, StreamNext, SealerNext, Open, AppendSegment, AppendAgain, Snapshot,
         Finalize, FinalizeAuditFails, FinalizeRefused, AwaitComplete, AwaitWakes,
         AwaitRound, AwaitCancelled, vars, TypeOK

LEMMA FreshStep ==
  ASSUME TypeOK, StreamShape, SnapshotFresh, [Next]_vars
  PROVE  SnapshotFresh'
  <1>1. SUFFICES ASSUME NEW s \in Sealers, snap'[s] # None
        PROVE /\ snap'[s].version <= version'[snap'[s].key]
              /\ snap'[s].version = version'[snap'[s].key] =>
                   snap'[s].segments = segments'[snap'[s].key]
    BY DEF SnapshotFresh
  <1>2. CASE snap'[s] = snap[s]
    <2>1. PICK k \in Keys : k = snap[s].key
      BY <1>1, <1>2, Records
    <2>2. /\ snap[s].version \in Nat /\ version[k] \in Nat
          /\ snap[s].version <= version[k]
          /\ snap[s].version = version[k] => snap[s].segments = segments[k]
      BY <1>1, <1>2, <2>1, Records DEF SnapshotFresh, TypeOK
    <2>3. \/ version'[k] = version[k] /\ segments'[k] = segments[k]
          \/ version'[k] = version[k] + 1
      <3>1. StreamOpened(k) => version'[k] = version[k] + 1
        BY DEF StreamOpened, StreamShape
      <3>2. QED
        BY <3>1, StreamSteps DEF StreamStep, StreamSame, StreamFilled, StreamSealed
    <2>4. QED
      BY <1>2, <2>1, <2>2, <2>3
  <1>3. ASSUME NEW k \in Keys, UNCHANGED streamVars,
               snap'[s] = [pc |-> "read", key |-> k, version |-> version[k],
                           segments |-> segments[k]]
        PROVE /\ snap'[s].version <= version'[snap'[s].key]
              /\ snap'[s].segments = segments'[snap'[s].key]
    BY <1>3 DEF streamVars, TypeOK
  <1>4. QED
    BY <1>1, <1>2, <1>3, SnapSteps

LEMMA AckedStep ==
  ASSUME TypeOK, AckedStored, [Next]_vars
  PROVE  AckedStored'
  <1>1. \A k \in Keys : \A i \in DOMAIN segments[k] :
          i \in DOMAIN segments'[k] /\ segments'[k][i] = segments[k][i]
    BY StreamSteps DEF StreamStep, StreamSame, StreamOpened, StreamFilled, StreamSealed
  <1>2. \A a \in acked : a[1] \in Keys
    BY DEF TypeOK
  <1>3. ASSUME NEW k \in Keys, NEW i \in Indexes, NEW d \in Digests,
               AppendSegment(k, i, d) \/ AppendAgain(k, i, d)
        PROVE AckedStored'
    <2>1. acked' = acked \cup {<<k, i, d>>}
      BY <1>3 DEF AppendSegment, AppendAgain
    <2>2. i \in DOMAIN segments'[k] /\ segments'[k][i] = d
      BY <1>3 DEF AppendSegment, AppendAgain, streamVars, TypeOK
    <2>3. QED
      BY <1>1, <1>2, <2>1, <2>2 DEF AckedStored
  <1>4. CASE UNCHANGED acked
    BY <1>1, <1>2, <1>4 DEF AckedStored
  <1>5. QED
    BY <1>3, <1>4
    DEF Next, StreamNext, SealerNext, Open, Snapshot, Finalize, FinalizeAuditFails,
        FinalizeRefused, AwaitComplete, AwaitWakes, AwaitRound, AwaitCancelled, vars

\* An audit callback is only called for a complete stream, with what it holds.
LEMMA AuditSteps ==
  ASSUME TypeOK, [Next]_vars
  PROVE  /\ audits \subseteq audits' /\ unaudited \subseteq unaudited'
         /\ \A a \in audits' \ audits :
              /\ a[1] \in Keys /\ Complete(a[1])
              /\ a[2] = assemble(segments[a[1]])
  <1>1. ASSUME NEW s \in Sealers, Finalize(s) \/ FinalizeAuditFails(s), ~UNCHANGED audits
        PROVE \E k \in Keys : Complete(k) /\ audits' = audits \cup {<<k, assemble(segments[k])>>}
    <2>1. snap[s] # None /\ snap[s].key \in Keys
      BY <1>1, Records DEF Finalize, FinalizeAuditFails
    <2>2. Complete(snap[s].key)
      BY <1>1 DEF Finalize, FinalizeAuditFails, Finalizable
    <2>3. audits' = audits \cup {<<snap[s].key, assemble(segments[snap[s].key])>>}
      BY <1>1 DEF Finalize, FinalizeAuditFails, Audited
    <2>4. QED
      BY <2>1, <2>2, <2>3
  <1>2. \/ UNCHANGED audits
        \/ \E k \in Keys : Complete(k) /\ audits' = audits \cup {<<k, assemble(segments[k])>>}
    BY <1>1
    DEF Next, StreamNext, SealerNext, Open, AppendSegment, AppendAgain, Snapshot,
        FinalizeRefused, AwaitComplete, AwaitWakes, AwaitRound, AwaitCancelled, vars
  <1>3. unaudited \subseteq unaudited'
    BY DEF Next, StreamNext, SealerNext, Open, AppendSegment, AppendAgain, Snapshot,
           Finalize, FinalizeAuditFails, FinalizeRefused, AwaitComplete, AwaitWakes,
           AwaitRound, AwaitCancelled, vars
  <1>4. QED
    BY <1>2, <1>3

LEMMA SealedStep ==
  ASSUME TypeOK, StreamShape, SealedIntact, [Next]_vars
  PROVE  SealedIntact'
  <1>1. \* a complete stream is not filled any more
        \A k \in Keys : Complete(k) =>
          Complete(k)' /\ segments'[k] = segments[k] /\ expected'[k] = expected[k]
    <2>1. SUFFICES ASSUME NEW k \in Keys, Complete(k)
          PROVE Complete(k)' /\ segments'[k] = segments[k] /\ expected'[k] = expected[k]
      OBVIOUS
    <2>2. ~StreamFilled(k) /\ ~StreamOpened(k)
      <3>1. state[k] # "absent" /\ DOMAIN segments[k] = 0 .. expected[k] - 1
        BY <2>1, CompleteMeans
      <3>2. \A i \in Indexes : i < expected[k] => i \in DOMAIN segments[k]
        BY <3>1, StreamAssumption DEF Indexes, TypeOK
      <3>3. QED
        BY <3>1, <3>2 DEF StreamFilled, StreamOpened
    <2>3. QED
      BY <2>1, <2>2, CompleteStays, StreamSteps DEF StreamStep, StreamSame, StreamSealed
  <1>2. ASSUME NEW k \in Keys, state'[k] = "sealed"
        PROVE /\ DOMAIN segments'[k] = 0 .. expected'[k] - 1
              /\ record'[k] = assemble(segments'[k])
              /\ k \in unaudited' \/ <<k, record'[k]>> \in audits'
    <2>1. StreamSame(k) \/ StreamSealed(k)
      BY <1>2, StreamSteps DEF StreamStep, StreamOpened, StreamFilled
    <2>2. CASE StreamSame(k)
      BY <1>2, <2>2, AuditSteps DEF StreamSame, SealedIntact
    <2>3. CASE StreamSealed(k)
      BY <2>3, CompleteMeans DEF StreamSealed
    <2>4. QED
      BY <2>1, <2>2, <2>3
  <1>3. ASSUME NEW a \in audits'
        PROVE Complete(a[1])' /\ a[2] = assemble(segments'[a[1]])
    <2>1. a[1] \in Keys /\ Complete(a[1]) /\ a[2] = assemble(segments[a[1]])
      BY AuditSteps DEF SealedIntact, TypeOK
    <2>2. QED
      BY <1>1, <2>1
  <1>4. QED
    BY <1>2, <1>3 DEF SealedIntact

\* A sealer's snapshot with the stream's version is the stream; acknowledged
\* segments stay; a sealed stream is complete, what its record says, and audited
\* unless its seal had no audit callback; and an audit that was written although
\* its callback failed is not of anything the stream will not be.
THEOREM StreamSafe == Spec => [](SnapshotFresh /\ AckedStored /\ SealedIntact)
  <1> DEFINE I == TypeOK /\ StreamShape /\ SnapshotFresh /\ AckedStored /\ SealedIntact
  <1>1. Init => I
    BY TypeInit
    DEF Init, StreamShape, SnapshotFresh, AckedStored, SealedIntact, None, NoSegments
  <1>2. I /\ [Next]_vars => I'
    BY TypeStep, ShapeStep, FreshStep, AckedStep, SealedStep
  <1>3. I => SnapshotFresh /\ AckedStored /\ SealedIntact
    OBVIOUS
  <1> HIDE DEF I
  <1>4. QED
    BY <1>1, <1>2, <1>3, PTL DEF Spec

(***************************************************************************)
(* The manager implements CaptureSpec                                      *)
(***************************************************************************)

\* Adding a segment to the map adds its payload to the mapped content.
LEMMA PayloadsAdded ==
  ASSUME NEW segs \in Partial(Indexes, Digests), NEW i \in Indexes, NEW d \in Digests
  PROVE  PayloadsOf([x \in DOMAIN segs \cup {i} |-> IF x = i THEN d ELSE segs[x]])
           = [x \in DOMAIN PayloadsOf(segs) \cup {i} |->
                IF x = i THEN PayloadOf[d] ELSE PayloadsOf(segs)[x]]
  BY DEF PayloadsOf

\* Every step of the manager is a step of the capture or changes nothing of it.
LEMMA CaptureStep ==
  ASSUME TypeOK, StreamShape, [Next]_vars
  PROVE  [Capture!Next]_(Capture!vars)
  <1> USE DEF streamVars
  <1>1. ASSUME NEW k \in Keys, NEW n \in 1 .. MaxSegments, Open(k, n)
        PROVE Capture!Announce(k, n)
    BY <1>1 DEF Open, Capture!Announce, StreamShape
  <1>2. ASSUME NEW k \in Keys, NEW i \in Indexes, NEW d \in Digests, AppendSegment(k, i, d)
        PROVE Capture!Write(k, i, PayloadOf[d])
    <2>1. segments[k] \in Partial(Indexes, Digests)
      BY DEF TypeOK
    <2>2. /\ i < expected[k] /\ record[k] = << >>
          /\ i \notin DOMAIN PayloadsOf(segments[k])
      BY <1>2 DEF AppendSegment, NewSegment, StreamShape, PayloadsOf
    <2>3. PayloadsOf(segments'[k]) =
            [x \in DOMAIN PayloadsOf(segments[k]) \cup {i} |->
               IF x = i THEN PayloadOf[d] ELSE PayloadsOf(segments[k])[x]]
      BY <1>2, <2>1, PayloadsAdded DEF AppendSegment, TypeOK
    <2>4. \A j \in Keys \ {k} : segments'[j] = segments[j]
      BY <1>2 DEF AppendSegment, TypeOK
    <2>5. UNCHANGED <<expected, record>>
      BY <1>2 DEF AppendSegment
    <2>6. QED
      BY <2>2, <2>3, <2>4, <2>5 DEF Capture!Write
  <1>3. ASSUME NEW s \in Sealers, Finalize(s)
        PROVE \E k \in Keys : Capture!Seal(k)
    <2>1. PICK k \in Keys : k = snap[s].key
      BY <1>3, Records DEF Finalize
    <2>2. state[k] = "collecting" /\ Complete(k)
      BY <1>3, <2>1 DEF Finalize, Finalizable
    <2>3. DOMAIN PayloadsOf(segments[k]) = 0 .. expected[k] - 1
      BY <2>2, CompleteMeans DEF PayloadsOf
    <2>4. expected[k] > 0 /\ record[k] = << >>
      BY <2>2 DEF StreamShape
    <2>5. /\ record' = [record EXCEPT ![k] = Capture!Assemble(PayloadsOf(segments[k]))]
          /\ UNCHANGED <<expected, segments>>
      BY <1>3, <2>1 DEF Finalize, assemble
    <2>6. QED
      BY <2>3, <2>4, <2>5 DEF Capture!Seal
  <1>4. CASE UNCHANGED <<expected, segments, record>>
    BY <1>4 DEF Capture!vars
  <1>5. QED
    BY <1>1, <1>2, <1>3, <1>4
    DEF Next, StreamNext, SealerNext, AppendAgain, Snapshot, FinalizeAuditFails,
        FinalizeRefused, AwaitComplete, AwaitWakes, AwaitRound, AwaitCancelled, vars,
        Capture!Next, Indexes

\* telemetry.Manager implements the promise of CaptureSpec for any number of
\* concurrent callers.
THEOREM Implements == Spec => ImplementsCapture
  <1>1. Init => Capture!Init
    BY DEF Init, Capture!Init, PayloadsOf, NoSegments
  <1>2. Init => StreamShape
    BY DEF Init, StreamShape, None, NoSegments
  <1>3. TypeOK /\ StreamShape /\ [Next]_vars => TypeOK' /\ StreamShape'
    BY TypeStep, ShapeStep
  <1>4. TypeOK /\ StreamShape /\ [Next]_vars => [Capture!Next]_(Capture!vars)
    BY CaptureStep
  <1>5. QED
    BY <1>1, <1>2, <1>3, <1>4, TypeInit, PTL DEF Spec, ImplementsCapture, Capture!Spec
=============================================================================
