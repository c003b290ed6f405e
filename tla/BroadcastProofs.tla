-------------------------- MODULE BroadcastProofs --------------------------
(***************************************************************************)
(* Proofs about the broadcaster: for any publishers, subscribers, buffers   *)
(* and attempts, channels carry consecutive events, Publish sends on open   *)
(* channels, and workers persist what they take once and in order.          *)
(***************************************************************************)
EXTENDS Broadcast, TLAPS

Places == {"out", "loop", "select", "persist", "ack", "wait", "done"}

\* The sums of the counts that the steps below compare.
LEMMA Counts ==
  ASSUME NEW a \in Nat, NEW b \in Nat, NEW c \in Nat
  PROVE  /\ a + (b + 1) = a + b + 1
         /\ a + b + (c + 1) + 0 = a + b + c + 1
         /\ a + (b + 1) + c + 0 = a + b + c + 1
         /\ a + (b + 1) + (c - 1) = a + b + c
  OBVIOUS

\* What Append and Tail do to the consecutive events of a channel or of a sink.
LEMMA Appended ==
  ASSUME NEW q \in Seq(Nat), NEW e \in Nat
  PROVE  /\ Append(q, e) \in Seq(Nat)
         /\ Len(q) \in Nat /\ Len(Append(q, e)) = Len(q) + 1
  OBVIOUS

LEMMA ConsecutiveAppend ==
  ASSUME NEW q \in Seq(Nat), NEW n \in Nat, Consecutive(q, n)
  PROVE  Consecutive(Append(q, n + Len(q) + 1), n)
<1> DEFINE e == n + Len(q) + 1
<1>1. Len(q) \in Nat /\ e \in Nat
  OBVIOUS
<1>2. Len(Append(q, e)) = Len(q) + 1
  BY <1>1
<1>3. ASSUME NEW i \in 1 .. Len(q) + 1 PROVE Append(q, e)[i] = n + i
  <2>1. CASE i = Len(q) + 1
    BY <1>1, <2>1
  <2>2. CASE i # Len(q) + 1
    <3>1. i \in 1 .. Len(q)
      BY <1>1, <2>2
    <3>2. Append(q, e)[i] = q[i]
      BY <1>1, <3>1
    <3> QED BY <3>1, <3>2 DEF Consecutive
  <2> QED BY <2>1, <2>2
<1> QED BY <1>2, <1>3 DEF Consecutive

LEMMA ConsecutiveTail ==
  ASSUME NEW q \in Seq(Nat), q # << >>, NEW n \in Nat, Consecutive(q, n)
  PROVE  /\ Tail(q) \in Seq(Nat) /\ Head(q) = n + 1
         /\ Len(q) \in Nat \ {0} /\ Len(Tail(q)) = Len(q) - 1
         /\ Consecutive(Tail(q), n + 1)
<1>1. /\ Tail(q) \in Seq(Nat) /\ Head(q) = q[1]
      /\ Len(q) \in Nat \ {0} /\ Len(Tail(q)) = Len(q) - 1
  OBVIOUS
<1>2. Head(q) = n + 1
  BY <1>1 DEF Consecutive
<1>3. ASSUME NEW i \in 1 .. Len(q) - 1 PROVE Tail(q)[i] = n + 1 + i
  <2>1. Tail(q)[i] = q[i + 1] /\ i + 1 \in 1 .. Len(q)
    BY <1>1
  <2> QED BY <1>1, <2>1 DEF Consecutive
<1> QED BY <1>1, <1>2, <1>3 DEF Consecutive

LEMMA ConsecutiveEmpty == ASSUME NEW n PROVE Consecutive(<< >>, n)
  BY DEF Consecutive

\* The initial state satisfies the invariant.
LEMMA InvInit == Init => TypeOK /\ BroadcastInv
<1> SUFFICES ASSUME Init PROVE TypeOK /\ BroadcastInv
  OBVIOUS
<1>1. TypeOK
  BY DEF Init, TypeOK
<1>2. \A s \in Subscribers : taken[s] = << >> /\ queue[s] = << >> /\ persisted[s] = << >>
                             /\ late[s] = 0 /\ worker[s] = "out"
  BY DEF Init
<1>3. NoGaps /\ PersistedInOrder /\ OneLate /\ \A s \in Subscribers : WorkerShape(s)
  BY <1>2, ConsecutiveEmpty DEF Init, NoGaps, NoGapsFor, PersistedInOrder, OneLate, WorkerShape
<1>4. SendsOpen /\ closed \cap subscribers = {} /\ unsent = {}
  BY DEF Init, SendsOpen
<1> QED BY <1>1, <1>3, <1>4 DEF BroadcastInv

\* Subscribe, unsubscribe and Publish's first and last step move no event.
LEMMA BusStep ==
  ASSUME TypeOK, BroadcastInv,
         \/ \E s \in Subscribers : Subscribe(s) \/ Unsubscribe(s)
         \/ \E p \in Publishers : Publish(p) \/ PublishReturns(p)
  PROVE  TypeOK' /\ BroadcastInv'
<1>1. ASSUME NEW s \in Subscribers, Subscribe(s)
      PROVE  TypeOK' /\ BroadcastInv'
  <2>1. TypeOK'
    BY <1>1 DEF TypeOK, Subscribe, Goto
  <2>2. /\ worker[s] = "out" /\ worker'[s] = "loop" /\ joined'[s] = published
        /\ \A t \in Subscribers : t # s => worker'[t] = worker[t] /\ joined'[t] = joined[t]
    BY <1>1 DEF TypeOK, Subscribe, Goto
  <2>3. /\ taken[s] = << >> /\ queue[s] = << >> /\ persisted[s] = << >>
        /\ s \notin subscribers /\ s \notin closed /\ unsent = {} /\ unsent' = {}
    BY <1>1, <2>2 DEF BroadcastInv, WorkerShape, Subscribe
  <2>4. ASSUME NEW t \in Subscribers PROVE NoGapsFor(t)'
    <3>1. /\ taken' = taken /\ queue' = queue /\ published' = published
          /\ subscribers' = subscribers \cup {s} /\ published \in Nat
      BY <1>1 DEF Subscribe, TypeOK
    <3>2. CASE t = s
      BY <2>2, <2>3, <3>1, <3>2, ConsecutiveEmpty DEF NoGapsFor
    <3>3. CASE t # s
      BY <2>2, <2>3, <3>1, <3>2 DEF NoGapsFor, BroadcastInv, NoGaps
    <3> QED BY <3>2, <3>3
  <2>5. PersistedInOrder'
    BY <1>1, <2>2, <2>3, ConsecutiveEmpty DEF BroadcastInv, PersistedInOrder, Subscribe, TypeOK
  <2>6. \A t \in Subscribers : WorkerShape(t)'
    BY <1>1, <2>2, <2>3 DEF BroadcastInv, WorkerShape, Subscribe, TypeOK
  <2> QED BY <1>1, <2>1, <2>3, <2>4, <2>5, <2>6
          DEF BroadcastInv, NoGaps, SendsOpen, OneLate, Subscribe
<1>2. ASSUME NEW s \in Subscribers, Unsubscribe(s)
      PROVE  TypeOK' /\ BroadcastInv'
  BY <1>2 DEF TypeOK, BroadcastInv, NoGaps, NoGapsFor, SendsOpen, PersistedInOrder, OneLate,
     WorkerShape, Unsubscribe, CloseLocked
<1>3. ASSUME NEW p \in Publishers, Publish(p)
      PROVE  TypeOK' /\ BroadcastInv'
  <2>1. TypeOK' /\ unsent = {} /\ unsent' = subscribers /\ mutex' # NoOne
    BY <1>3, BroadcastAssumption DEF TypeOK, Publish, BroadcastInv
  <2>2. NoGaps'
    BY <1>3, <2>1 DEF TypeOK, BroadcastInv, NoGaps, NoGapsFor, Publish
  <2> QED BY <1>3, <2>1, <2>2
          DEF BroadcastInv, SendsOpen, PersistedInOrder, OneLate, WorkerShape, Publish
<1>4. ASSUME NEW p \in Publishers, PublishReturns(p)
      PROVE  TypeOK' /\ BroadcastInv'
  BY <1>4 DEF TypeOK, BroadcastInv, NoGaps, NoGapsFor, SendsOpen, PersistedInOrder, OneLate,
     WorkerShape, PublishReturns, Unlocked
<1> QED BY <1>1, <1>2, <1>3, <1>4

\* A channel or a worker that waits gets the event that comes next.
LEMMA DeliveryStep ==
  ASSUME TypeOK, BroadcastInv, NEW s \in Subscribers, Send(s) \/ HandOver(s)
  PROVE  TypeOK' /\ BroadcastInv'
<1>0. /\ s \in subscribers /\ s \notin closed /\ published \in Nat /\ joined[s] \in Nat
      /\ taken[s] \in Seq(Nat) /\ queue[s] \in Seq(Nat) /\ late[s] \in Nat
      /\ joined[s] + Len(taken[s]) + Len(queue[s]) + 1 = published
      /\ worker[s] # "out"
  BY DEF TypeOK, BroadcastInv, NoGaps, NoGapsFor, SendsOpen, WorkerShape, Send, HandOver
<1>1. CASE Send(s)
  <2>1. /\ queue' \in [Subscribers -> Seq(Nat)] /\ queue'[s] = Append(queue[s], published)
        /\ \A t \in Subscribers : t # s => queue'[t] = queue[t]
    BY <1>0, <1>1, Appended DEF TypeOK, Send, Buffered
  <2>2. /\ Len(queue'[s]) = Len(queue[s]) + 1 /\ Len(queue[s]) \in Nat /\ Len(taken[s]) \in Nat
    BY <1>0, <2>1, Appended
  <2>3. Consecutive(queue'[s], joined[s] + Len(taken[s]))
    <3>1. joined[s] + Len(taken[s]) \in Nat /\ Consecutive(queue[s], joined[s] + Len(taken[s]))
      BY <1>0, <2>2 DEF BroadcastInv, NoGaps, NoGapsFor
    <3>2. published = (joined[s] + Len(taken[s])) + Len(queue[s]) + 1
      BY <1>0, <2>2
    <3> QED BY <1>0, <2>1, <3>1, <3>2, ConsecutiveAppend
  <2>4. ASSUME NEW t \in Subscribers PROVE NoGapsFor(t)'
    <3>1. /\ taken' = taken /\ joined' = joined /\ published' = published
          /\ subscribers' = subscribers /\ unsent' = unsent \ {s}
      BY <1>1 DEF Send
    <3>2. NoGapsFor(t)
      BY DEF BroadcastInv, NoGaps
    <3>3. CASE t = s
      <4>1. /\ Consecutive(taken'[s], joined'[s])
            /\ Consecutive(queue'[s], joined'[s] + Len(taken'[s]))
        BY <2>3, <3>1, <3>2, <3>3 DEF NoGapsFor
      <4>2. s \notin unsent'
        BY <3>1
      <4>3. joined[s] \in Nat /\ Len(taken[s]) \in Nat /\ Len(queue[s]) \in Nat
        BY <1>0, <2>2
      <4>4. joined[s] + Len(taken[s]) + (Len(queue[s]) + 1) + 0 = published
        <5>1. joined[s] + Len(taken[s]) + (Len(queue[s]) + 1) + 0 = joined[s] + Len(taken[s]) + Len(queue[s]) + 1
          BY <4>3, Counts, Zenon
        <5>2. joined[s] + Len(taken[s]) + Len(queue[s]) + 1 = published
          BY <1>0
        <5> QED BY <5>1, <5>2, Zenon
      <4>5. joined'[s] + Len(taken'[s]) + Len(queue'[s]) + 0 = published'
        BY <2>2, <3>1, <4>4, Zenon
      <4> QED BY <3>3, <4>1, <4>2, <4>5 DEF NoGapsFor
    <3>4. CASE t # s
      BY <2>1, <3>1, <3>2, <3>4 DEF NoGapsFor
    <3> QED BY <3>3, <3>4
  <2>5. TypeOK'
    BY <1>1, <2>1 DEF TypeOK, Send
  <2>6. \A t \in Subscribers : WorkerShape(t)'
    BY <1>0, <1>1, <2>1 DEF BroadcastInv, WorkerShape, Send
  <2> QED BY <1>1, <2>4, <2>5, <2>6
          DEF BroadcastInv, NoGaps, SendsOpen, PersistedInOrder, OneLate, Send
<1>2. CASE HandOver(s)
  <2>1. /\ taken' \in [Subscribers -> Seq(Nat)] /\ taken'[s] = Append(taken[s], published)
        /\ late' \in [Subscribers -> Nat] /\ attempt' \in [Subscribers -> Nat]
        /\ late'[s] = IF s \in cancelled THEN late[s] + 1 ELSE late[s]
        /\ worker' \in [Subscribers -> Places] /\ worker'[s] = "persist"
        /\ \A t \in Subscribers : t # s => taken'[t] = taken[t] /\ worker'[t] = worker[t]
                                           /\ late'[t] = late[t]
    <3>1. Append(taken[s], published) \in Seq(Nat)
      BY <1>0, Appended
    <3>2. /\ taken' \in [Subscribers -> Seq(Nat)] /\ taken'[s] = Append(taken[s], published)
          /\ \A t \in Subscribers : t # s => taken'[t] = taken[t]
      BY <1>2, <3>1 DEF TypeOK, HandOver, Receive
    <3>3. /\ late' \in [Subscribers -> Nat] /\ attempt' \in [Subscribers -> Nat]
          /\ late'[s] = IF s \in cancelled THEN late[s] + 1 ELSE late[s]
          /\ \A t \in Subscribers : t # s => late'[t] = late[t]
      BY <1>0, <1>2 DEF TypeOK, HandOver, Receive
    <3>4. /\ worker' \in [Subscribers -> Places] /\ worker'[s] = "persist"
          /\ \A t \in Subscribers : t # s => worker'[t] = worker[t]
      BY <1>2 DEF TypeOK, HandOver, Receive, Goto, Places
    <3> QED BY <3>2, <3>3, <3>4
  <2>2. /\ Len(taken'[s]) = Len(taken[s]) + 1 /\ Len(queue[s]) = 0 /\ Len(taken[s]) \in Nat
    BY <1>0, <1>2, <2>1, Appended DEF HandOver
  <2>3. Consecutive(taken'[s], joined[s])
    <3>1. Consecutive(taken[s], joined[s]) /\ published = joined[s] + Len(taken[s]) + 1
      BY <1>0, <2>2 DEF BroadcastInv, NoGaps, NoGapsFor
    <3> QED BY <1>0, <2>1, <3>1, ConsecutiveAppend
  <2>4. ASSUME NEW t \in Subscribers PROVE NoGapsFor(t)'
    <3>1. /\ queue' = queue /\ joined' = joined /\ published' = published
          /\ subscribers' = subscribers /\ unsent' = unsent \ {s} /\ queue[s] = << >>
      BY <1>2 DEF HandOver
    <3>2. NoGapsFor(t)
      BY DEF BroadcastInv, NoGaps
    <3>3. CASE t = s
      <4>1. /\ Consecutive(taken'[s], joined'[s])
            /\ Consecutive(queue'[s], joined'[s] + Len(taken'[s]))
        BY <2>3, <3>1, ConsecutiveEmpty
      <4>2. s \notin unsent'
        BY <3>1
      <4>3. joined[s] \in Nat /\ Len(taken[s]) \in Nat /\ Len(queue[s]) \in Nat
        BY <1>0, <2>2
      <4>4. joined[s] + (Len(taken[s]) + 1) + Len(queue[s]) + 0 = published
        <5>1. joined[s] + (Len(taken[s]) + 1) + Len(queue[s]) + 0 = joined[s] + Len(taken[s]) + Len(queue[s]) + 1
          BY <4>3, Counts, Zenon
        <5>2. joined[s] + Len(taken[s]) + Len(queue[s]) + 1 = published
          BY <1>0
        <5> QED BY <5>1, <5>2, Zenon
      <4>5. joined'[s] + Len(taken'[s]) + Len(queue'[s]) + 0 = published'
        BY <2>2, <3>1, <4>4, Zenon
      <4> QED BY <3>3, <4>1, <4>2, <4>5 DEF NoGapsFor
    <3>4. CASE t # s
      BY <2>1, <3>1, <3>2, <3>4 DEF NoGapsFor
    <3> QED BY <3>3, <3>4
  <2>5. TypeOK'
    BY <1>2, <2>1 DEF TypeOK, HandOver, Places
  <2>6. late[s] = 0 /\ Len(taken[s]) = Len(persisted[s])
    BY <1>0, <1>2 DEF BroadcastInv, WorkerShape, HandOver
  <2>7. \A t \in Subscribers : WorkerShape(t)'
    BY <1>0, <1>2, <2>1, <2>2, <2>6 DEF BroadcastInv, WorkerShape, HandOver
  <2>8. OneLate'
    <3>1. late'[s] \in {0, 1} /\ \A t \in Subscribers : t # s => late'[t] = late[t]
      BY <2>1, <2>6
    <3> QED BY <3>1 DEF BroadcastInv, OneLate
  <2> QED BY <1>2, <2>4, <2>5, <2>7, <2>8
          DEF BroadcastInv, NoGaps, SendsOpen, PersistedInOrder, HandOver
<1> QED BY <1>1, <1>2

\* A worker takes the first event of its channel.
LEMMA SelectStep ==
  ASSUME TypeOK, BroadcastInv, NEW s \in Subscribers, SelectEvent(s)
  PROVE  TypeOK' /\ BroadcastInv'
<1>0. /\ joined[s] \in Nat /\ taken[s] \in Seq(Nat) /\ queue[s] \in Seq(Nat) /\ late[s] \in Nat
      /\ queue[s] # << >> /\ worker[s] = "select"
  BY DEF TypeOK, SelectEvent
<1>1. late[s] = 0 /\ Len(taken[s]) = Len(persisted[s])
  BY <1>0 DEF BroadcastInv, WorkerShape
<1>2. /\ Consecutive(taken[s], joined[s]) /\ Consecutive(queue[s], joined[s] + Len(taken[s]))
      /\ Len(taken[s]) \in Nat /\ joined[s] + Len(taken[s]) \in Nat
  BY <1>0 DEF BroadcastInv, NoGaps, NoGapsFor
<1>3. /\ Tail(queue[s]) \in Seq(Nat) /\ Head(queue[s]) = joined[s] + Len(taken[s]) + 1
      /\ Len(queue[s]) \in Nat /\ Len(Tail(queue[s])) = Len(queue[s]) - 1
      /\ Consecutive(Tail(queue[s]), joined[s] + Len(taken[s]) + 1)
  BY <1>0, <1>2, ConsecutiveTail
<1>4. /\ taken' \in [Subscribers -> Seq(Nat)] /\ taken'[s] = Append(taken[s], Head(queue[s]))
      /\ queue' \in [Subscribers -> Seq(Nat)] /\ queue'[s] = Tail(queue[s])
      /\ late' \in [Subscribers -> Nat] /\ attempt' \in [Subscribers -> Nat]
      /\ late'[s] = IF s \in cancelled THEN late[s] + 1 ELSE late[s]
      /\ worker' \in [Subscribers -> Places] /\ worker'[s] = "persist"
      /\ \A t \in Subscribers : t # s => /\ taken'[t] = taken[t] /\ worker'[t] = worker[t]
                                         /\ late'[t] = late[t] /\ queue'[t] = queue[t]
  <2>1. Append(taken[s], Head(queue[s])) \in Seq(Nat)
    <3>1. Head(queue[s]) \in Nat
      BY <1>2, <1>3
    <3> QED BY <1>0, <3>1, Appended
  <2>2. /\ taken' \in [Subscribers -> Seq(Nat)] /\ taken'[s] = Append(taken[s], Head(queue[s]))
        /\ \A t \in Subscribers : t # s => taken'[t] = taken[t]
    BY <2>1 DEF TypeOK, SelectEvent, Receive
  <2>3. /\ queue' \in [Subscribers -> Seq(Nat)] /\ queue'[s] = Tail(queue[s])
        /\ \A t \in Subscribers : t # s => queue'[t] = queue[t]
    BY <1>3 DEF TypeOK, SelectEvent
  <2>4. /\ late' \in [Subscribers -> Nat] /\ attempt' \in [Subscribers -> Nat]
        /\ late'[s] = IF s \in cancelled THEN late[s] + 1 ELSE late[s]
        /\ \A t \in Subscribers : t # s => late'[t] = late[t]
    BY <1>0 DEF TypeOK, SelectEvent, Receive
  <2>5. /\ worker' \in [Subscribers -> Places] /\ worker'[s] = "persist"
        /\ \A t \in Subscribers : t # s => worker'[t] = worker[t]
    BY DEF TypeOK, SelectEvent, Receive, Goto, Places
  <2> QED BY <2>2, <2>3, <2>4, <2>5
<1>5. Len(taken'[s]) = Len(taken[s]) + 1 /\ Len(queue'[s]) = Len(queue[s]) - 1
  BY <1>0, <1>2, <1>3, <1>4, Appended
<1>6. Consecutive(taken'[s], joined[s])
  BY <1>0, <1>2, <1>3, <1>4, ConsecutiveAppend
<1>7. Consecutive(queue'[s], joined[s] + Len(taken'[s]))
  <2>1. joined[s] + Len(taken'[s]) = joined[s] + Len(taken[s]) + 1
    BY <1>0, <1>2, <1>5
  <2> QED BY <1>3, <1>4, <2>1
<1>8. ASSUME NEW t \in Subscribers PROVE NoGapsFor(t)'
  <2>1. /\ joined' = joined /\ published' = published
        /\ subscribers' = subscribers /\ unsent' = unsent
    BY DEF SelectEvent, workerOnly, busVars
  <2>2. NoGapsFor(t)
    BY DEF BroadcastInv, NoGaps
  <2>3. CASE t = s
    <3>1. s \in subscribers =>
            joined[s] + Len(taken[s]) + Len(queue[s]) + (IF s \in unsent THEN 1 ELSE 0) = published
      BY <2>2, <2>3 DEF NoGapsFor
    <3>2. joined[s] + Len(taken'[s]) + Len(queue'[s]) = joined[s] + Len(taken[s]) + Len(queue[s])
      <4>1. joined[s] \in Nat /\ Len(taken[s]) \in Nat /\ Len(queue[s]) \in Nat
        BY <1>0, <1>2, <1>3
      <4>2. joined[s] + (Len(taken[s]) + 1) + (Len(queue[s]) - 1)
              = joined[s] + Len(taken[s]) + Len(queue[s])
        BY <4>1, Counts, Zenon
      <4> QED BY <1>5, <4>2, Zenon
    <3> QED BY <1>6, <1>7, <2>1, <2>3, <3>1, <3>2 DEF NoGapsFor
  <2>4. CASE t # s
    BY <1>4, <2>1, <2>2, <2>4 DEF NoGapsFor
  <2> QED BY <2>3, <2>4
<1>9. TypeOK'
  BY <1>4 DEF TypeOK, SelectEvent, workerOnly, busVars, Places
<1>10. \A t \in Subscribers : WorkerShape(t)'
  <2> TAKE t \in Subscribers
  <2>1. /\ WorkerShape(t) /\ cancelled' = cancelled /\ persisted' = persisted
        /\ subscribers' = subscribers /\ closed' = closed
    BY DEF BroadcastInv, SelectEvent, workerOnly, busVars
  <2>2. CASE t = s
    BY <1>0, <1>1, <1>2, <1>4, <1>5, <2>1, <2>2 DEF WorkerShape
  <2>3. CASE t # s
    BY <1>4, <2>1, <2>3 DEF WorkerShape
  <2> QED BY <2>2, <2>3
<1>11. OneLate'
  <2>1. late'[s] \in {0, 1} /\ \A t \in Subscribers : t # s => late'[t] = late[t]
    BY <1>1, <1>4
  <2> QED BY <2>1 DEF BroadcastInv, OneLate
<1> QED BY <1>8, <1>9, <1>10, <1>11
        DEF BroadcastInv, NoGaps, SendsOpen, PersistedInOrder, SelectEvent, workerOnly, busVars

\* A worker persists the event that it took last.
LEMMA PersistStep ==
  ASSUME TypeOK, BroadcastInv, NEW s \in Subscribers, Persist(s)
  PROVE  TypeOK' /\ BroadcastInv'
<1>0. /\ joined[s] \in Nat /\ taken[s] \in Seq(Nat) /\ persisted[s] \in Seq(Nat)
      /\ worker[s] = "persist"
  BY DEF TypeOK, Persist
<1>1. /\ Len(taken[s]) = Len(persisted[s]) + 1 /\ Len(persisted[s]) \in Nat
      /\ taken[s][Len(taken[s])] = joined[s] + Len(persisted[s]) + 1
  <2>1. Len(taken[s]) = Len(persisted[s]) + 1 /\ Consecutive(taken[s], joined[s])
    BY <1>0 DEF BroadcastInv, WorkerShape, NoGaps, NoGapsFor
  <2>2. Len(persisted[s]) \in Nat
    BY <1>0
  <2>3. taken[s][Len(taken[s])] = joined[s] + Len(taken[s])
    BY <2>1, <2>2 DEF Consecutive
  <2>4. joined[s] + (Len(persisted[s]) + 1) = joined[s] + Len(persisted[s]) + 1
    <3>1. joined[s] \in Nat
      BY <1>0
    <3> QED BY <2>2, <3>1, Counts, Zenon
  <2> QED BY <2>1, <2>2, <2>3, <2>4
<1>2. /\ persisted' \in [Subscribers -> Seq(Nat)]
      /\ persisted'[s] = Append(persisted[s], joined[s] + Len(persisted[s]) + 1)
      /\ worker' \in [Subscribers -> Places] /\ worker'[s] = "ack"
      /\ \A t \in Subscribers : t # s => persisted'[t] = persisted[t] /\ worker'[t] = worker[t]
  BY <1>0, <1>1, Appended DEF TypeOK, Persist, Goto, Places
<1>3. Len(persisted'[s]) = Len(persisted[s]) + 1
  BY <1>0, <1>1, <1>2, Appended
<1>4. Consecutive(persisted'[s], joined[s])
  BY <1>0, <1>2, ConsecutiveAppend DEF BroadcastInv, PersistedInOrder
<1>5. PersistedInOrder'
  BY <1>2, <1>4 DEF BroadcastInv, PersistedInOrder, Persist, workerOnly, busVars
<1>6. TypeOK'
  BY <1>2 DEF TypeOK, Persist, workerOnly, busVars, Places
<1>7. \A t \in Subscribers : WorkerShape(t)'
  BY <1>0, <1>1, <1>2, <1>3 DEF BroadcastInv, WorkerShape, Persist, workerOnly, busVars
<1> QED BY <1>5, <1>6, <1>7
        DEF BroadcastInv, NoGaps, NoGapsFor, SendsOpen, OneLate, Persist, workerOnly, busVars

\* The other steps of a worker move no event.
LEMMA WorkerStep ==
  ASSUME TypeOK, BroadcastInv, NEW s \in Subscribers,
         \/ Loop(s) \/ SelectClosed(s) \/ SelectCancelled(s) \/ PersistFails(s)
         \/ Acknowledge(s) \/ AcknowledgeFails(s) \/ WaitElapsed(s) \/ WaitCancelled(s)
         \/ Cancel(s)
  PROVE  TypeOK' /\ BroadcastInv'
<1>0. UNCHANGED <<busVars, queue, taken, persisted, late>>
  BY DEF Loop, SelectClosed, SelectCancelled, PersistFails, Acknowledge, AcknowledgeFails,
         WaitElapsed, WaitCancelled, Cancel, workerOnly, busVars
<1>1. NoGaps' /\ SendsOpen' /\ PersistedInOrder' /\ OneLate'
      /\ closed' \cap subscribers' = {} /\ (mutex' = NoOne => unsent' = {})
  BY <1>0 DEF busVars, BroadcastInv, NoGaps, NoGapsFor, SendsOpen, PersistedInOrder, OneLate
<1>2. TypeOK'
  <2>1. worker' \in [Subscribers -> Places]
    <3>1. worker' = worker \/ \E place \in Places : Goto(s, place)
      BY DEF Places, Loop, Checked, SelectClosed, SelectCancelled, PersistFails, Acknowledge,
         AcknowledgeFails, WaitElapsed, RetryAck, WaitCancelled, Cancel
    <3>2. worker \in [Subscribers -> Places]
      BY DEF TypeOK, Places
    <3> QED BY <3>1, <3>2 DEF Goto
  <2>2. attempt' \in [Subscribers -> Nat]
    <3>1. attempt' = attempt \/ attempt' = [attempt EXCEPT ![s] = @ + 1]
      BY DEF Loop, SelectClosed, SelectCancelled, PersistFails, Acknowledge,
         AcknowledgeFails, WaitElapsed, WaitCancelled, Cancel
    <3>2. attempt \in [Subscribers -> Nat]
      BY DEF TypeOK
    <3> QED BY <3>1, <3>2
  <2>3. cancelled' \in SUBSET Subscribers
    BY DEF TypeOK, Loop, SelectClosed, SelectCancelled, PersistFails, Acknowledge,
       AcknowledgeFails, WaitElapsed, WaitCancelled, Cancel, workerOnly
  <2> QED BY <1>0, <2>1, <2>2, <2>3 DEF TypeOK, busVars, Places
<1>3. /\ \A t \in Subscribers : t # s => worker'[t] = worker[t]
      /\ worker[s] # "out" /\ cancelled \subseteq cancelled'
  BY DEF TypeOK, Loop, SelectClosed, SelectCancelled, PersistFails, Acknowledge,
     AcknowledgeFails, WaitElapsed, WaitCancelled, Cancel, Goto, workerOnly
<1>4. /\ worker'[s] # "out"
      /\ worker'[s] = "persist" => worker[s] = "persist"
      /\ worker'[s] \in {"loop", "select", "ack", "wait"} =>
           worker[s] \in {"loop", "select", "ack", "wait"}
      /\ worker'[s] = "select" => worker[s] = "select" \/ s \notin cancelled
  BY <1>3 DEF TypeOK, Loop, Checked, SelectClosed, SelectCancelled, PersistFails, Acknowledge,
     AcknowledgeFails, WaitElapsed, RetryAck, WaitCancelled, Cancel, Goto, workerOnly
<1>5. \A t \in Subscribers : WorkerShape(t)'
  BY <1>0, <1>3, <1>4 DEF BroadcastInv, WorkerShape, busVars
<1> QED BY <1>1, <1>2, <1>5 DEF BroadcastInv

\* The invariant of the broadcaster and its workers holds in every state.
THEOREM BroadcastInvariant == Spec => [](TypeOK /\ BroadcastInv)
<1>1. TypeOK /\ BroadcastInv /\ [Next]_vars => (TypeOK /\ BroadcastInv)'
  <2> SUFFICES ASSUME TypeOK, BroadcastInv, [Next]_vars PROVE (TypeOK /\ BroadcastInv)'
    OBVIOUS
  <2>1. CASE UNCHANGED vars
    BY <2>1 DEF vars, busVars, TypeOK, BroadcastInv, NoGaps, NoGapsFor, SendsOpen,
       PersistedInOrder, OneLate, WorkerShape
  <2>2. CASE Next
    BY <2>2, BusStep, DeliveryStep, SelectStep, PersistStep, WorkerStep DEF Next, Deliveries, Work
  <2> QED BY <2>1, <2>2
<1> QED BY InvInit, <1>1, PTL DEF Spec

\* For any publishers, subscribers and buffers: a channel carries every event
\* since its subscription, once and in order; Publish sends on no closed channel;
\* workers persist what they take once and in order, and take at most one event
\* after they were cancelled.
THEOREM BroadcastSafe == Spec => [](NoGaps /\ SendsOpen /\ PersistedInOrder /\ OneLate)
<1>1. BroadcastInv => NoGaps /\ SendsOpen /\ PersistedInOrder /\ OneLate
  BY DEF BroadcastInv
<1> QED BY <1>1, BroadcastInvariant, PTL
=============================================================================
