----------------------------- MODULE Broadcast -----------------------------
(***************************************************************************)
(* telemetry.Broadcaster and its subscribers.  Publish sends an event on    *)
(* every subscriber's channel with the broadcaster's mutex in hand and      *)
(* blocks on a full one; Subscribe and unsubscribe need that mutex.  A      *)
(* subscriber runs RunWorker over its channel, with Deliver as the handler, *)
(* and unsubscribes when the worker has returned, or before.                *)
(***************************************************************************)
EXTENDS Naturals, Sequences

CONSTANTS
  Publishers,    \* goroutines that call Publish
  Subscribers,   \* goroutines that subscribe, one time each
  BufferOf,      \* the buffer each of them asks for
  Attempts,      \* Deliver's attempts to acknowledge
  MaxEvents,     \* bound on the events published
  NoOne          \* the mutex is free

ASSUME BroadcastAssumption ==
  /\ BufferOf \in [Subscribers -> Nat]
  /\ Attempts \in Nat \ {0} /\ MaxEvents \in Nat
  /\ NoOne \notin Publishers

VARIABLES
  mutex,         \* Broadcaster.mu: whose Publish has it
  subscribers,   \* Broadcaster.subscribers
  unsent,        \* those of them that Publish has not sent to yet
  published,     \* the number of events published; an event is its number
  queue,         \* what is buffered in each subscriber's channel
  closed,        \* the channels that are closed
  worker,        \* where each subscriber's RunWorker is
  attempt,       \* the attempts that its Deliver has made
  cancelled,     \* the workers whose context is cancelled
  joined,        \* the number of events published before Subscribe
  taken,         \* the events that a worker received
  persisted,     \* those that its sink persisted
  late           \* how many it received after its context was cancelled

busVars == <<mutex, subscribers, unsent, published, closed, joined>>
vars == <<busVars, queue, worker, attempt, cancelled, taken, persisted, late>>

TypeOK ==
  /\ mutex \in Publishers \cup {NoOne}
  /\ subscribers \in SUBSET Subscribers
  /\ unsent \in SUBSET Subscribers
  /\ published \in Nat
  /\ queue \in [Subscribers -> Seq(Nat)]
  /\ closed \in SUBSET Subscribers
  /\ worker \in [Subscribers -> {"out", "loop", "select", "persist", "ack", "wait", "done"}]
  /\ attempt \in [Subscribers -> Nat]
  /\ cancelled \in SUBSET Subscribers
  /\ joined \in [Subscribers -> Nat]
  /\ taken \in [Subscribers -> Seq(Nat)]
  /\ persisted \in [Subscribers -> Seq(Nat)]
  /\ late \in [Subscribers -> Nat]

Init ==
  /\ mutex = NoOne
  /\ subscribers = {} /\ unsent = {} /\ closed = {} /\ cancelled = {}
  /\ published = 0
  /\ queue = [s \in Subscribers |-> << >>]
  /\ worker = [s \in Subscribers |-> "out"]
  /\ attempt = [s \in Subscribers |-> 0]
  /\ joined = [s \in Subscribers |-> 0]
  /\ taken = [s \in Subscribers |-> << >>]
  /\ persisted = [s \in Subscribers |-> << >>]
  /\ late = [s \in Subscribers |-> 0]

Goto(s, pc) == worker' = [worker EXCEPT ![s] = pc]

(***************************************************************************)
(* Broadcaster                                                             *)
(***************************************************************************)
Subscribe(s) ==
  /\ mutex = NoOne
  /\ worker[s] = "out"
  /\ subscribers' = subscribers \cup {s}
  /\ joined' = [joined EXCEPT ![s] = published]
  /\ Goto(s, "loop")
  /\ UNCHANGED <<mutex, unsent, published, closed, queue, attempt, cancelled, taken,
                 persisted, late>>

\* mutant: the channel is closed before the mutex is taken
CloseAtOnce == TRUE

\* close(channel) with the mutex in hand
CloseLocked == mutex = NoOne

\* the function that Subscribe returned; sync.Once makes a second call do nothing
Unsubscribe(s) ==
  /\ CloseLocked
  /\ s \in subscribers
  /\ subscribers' = subscribers \ {s}
  /\ closed' = closed \cup {s}
  /\ UNCHANGED <<mutex, unsent, published, joined, queue, worker, attempt, cancelled,
                 taken, persisted, late>>

\* Publish gets the mutex
Publish(p) ==
  /\ mutex = NoOne
  /\ published < MaxEvents
  /\ mutex' = p
  /\ published' = published + 1
  /\ unsent' = subscribers
  /\ UNCHANGED <<subscribers, closed, joined, queue, worker, attempt, cancelled, taken,
                 persisted, late>>

\* mutant: a full channel is passed over
SentOrDropped(s) ==
  queue' = IF Len(queue[s]) < BufferOf[s]
           THEN [queue EXCEPT ![s] = Append(@, published)] ELSE queue

\* the channel has room for the event
Buffered(s) ==
  /\ Len(queue[s]) < BufferOf[s]
  /\ queue' = [queue EXCEPT ![s] = Append(@, published)]

\* one round of the loop, over the map in any order
Send(s) ==
  /\ s \in unsent
  /\ Buffered(s)
  /\ unsent' = unsent \ {s}
  /\ UNCHANGED <<mutex, subscribers, published, closed, joined, worker, attempt, cancelled,
                 taken, persisted, late>>

\* a worker receives an event
Receive(s, event) ==
  /\ taken' = [taken EXCEPT ![s] = Append(@, event)]
  /\ late' = [late EXCEPT ![s] = IF s \in cancelled THEN @ + 1 ELSE @]
  /\ attempt' = [attempt EXCEPT ![s] = 0]
  /\ Goto(s, "persist")

\* the same round when the worker waits for an event
HandOver(s) ==
  /\ s \in unsent
  /\ worker[s] = "select" /\ queue[s] = << >>
  /\ Receive(s, published)
  /\ unsent' = unsent \ {s}
  /\ UNCHANGED <<mutex, subscribers, published, closed, joined, queue, cancelled, persisted>>

\* mutant: the mutex is not unlocked
KeptLocked == UNCHANGED mutex

\* defer b.mu.Unlock()
Unlocked == mutex' = NoOne

PublishReturns(p) ==
  /\ mutex = p /\ unsent = {}
  /\ Unlocked
  /\ UNCHANGED <<subscribers, unsent, published, closed, joined, queue, worker, attempt,
                 cancelled, taken, persisted, late>>

(***************************************************************************)
(* RunWorker and Deliver                                                   *)
(***************************************************************************)
workerOnly == <<busVars, cancelled>>

\* mutant: ctx.Err() is not looked at
Unchecked(s) == "select"

\* if err := ctx.Err(); err != nil { return err }
Checked(s) == IF s \in cancelled THEN "done" ELSE "select"

Loop(s) ==
  /\ worker[s] = "loop"
  /\ Goto(s, Checked(s))
  /\ UNCHANGED <<workerOnly, queue, attempt, taken, persisted, late>>

SelectEvent(s) ==
  /\ worker[s] = "select" /\ queue[s] # << >>
  /\ queue' = [queue EXCEPT ![s] = Tail(@)]
  /\ Receive(s, Head(queue[s]))
  /\ UNCHANGED <<workerOnly, persisted>>

\* case payload, ok := <-source with ok = false
SelectClosed(s) ==
  /\ worker[s] = "select" /\ queue[s] = << >> /\ s \in closed
  /\ Goto(s, "done")
  /\ UNCHANGED <<workerOnly, queue, attempt, taken, persisted, late>>

\* mutant: the select has no case for ctx.Done()
NeverDone(s) == FALSE

\* ctx.Done() is closed
Done(s) == s \in cancelled

SelectCancelled(s) ==
  /\ worker[s] = "select" /\ Done(s)
  /\ Goto(s, "done")
  /\ UNCHANGED <<workerOnly, queue, attempt, taken, persisted, late>>

Persist(s) ==
  /\ worker[s] = "persist"
  /\ persisted' = [persisted EXCEPT ![s] = Append(@, taken[s][Len(taken[s])])]
  /\ Goto(s, "ack")
  /\ UNCHANGED <<workerOnly, queue, attempt, taken, late>>

\* the handler's error ends RunWorker
PersistFails(s) ==
  /\ worker[s] = "persist"
  /\ Goto(s, "done")
  /\ UNCHANGED <<workerOnly, queue, attempt, taken, persisted, late>>

Acknowledge(s) ==
  /\ worker[s] = "ack"
  /\ Goto(s, "loop")
  /\ UNCHANGED <<workerOnly, queue, attempt, taken, persisted, late>>

\* the attempt fails: wait for the next one, or give up after the last
AcknowledgeFails(s) ==
  /\ worker[s] = "ack"
  /\ attempt' = [attempt EXCEPT ![s] = @ + 1]
  /\ Goto(s, IF attempt[s] + 1 < Attempts THEN "wait" ELSE "done")
  /\ UNCHANGED <<workerOnly, queue, taken, persisted, late>>

\* mutant: the retry begins with Persist
RetryAll == "persist"

\* what a retry begins with
RetryAck == "ack"

\* WaitRetry: the timer fires, also when the context is cancelled by then
WaitElapsed(s) ==
  /\ worker[s] = "wait"
  /\ Goto(s, RetryAck)
  /\ UNCHANGED <<workerOnly, queue, attempt, taken, persisted, late>>

WaitCancelled(s) ==
  /\ worker[s] = "wait" /\ s \in cancelled
  /\ Goto(s, "done")
  /\ UNCHANGED <<workerOnly, queue, attempt, taken, persisted, late>>

Cancel(s) ==
  /\ worker[s] \notin {"out", "done"} /\ s \notin cancelled
  /\ cancelled' = cancelled \cup {s}
  /\ UNCHANGED <<busVars, queue, worker, attempt, taken, persisted, late>>

Work(s) ==
  \/ Loop(s) \/ SelectEvent(s) \/ SelectClosed(s) \/ SelectCancelled(s)
  \/ Persist(s) \/ PersistFails(s)
  \/ Acknowledge(s) \/ AcknowledgeFails(s)
  \/ WaitElapsed(s) \/ WaitCancelled(s)

Deliveries == \E s \in Subscribers : Send(s) \/ HandOver(s)

Next ==
  \/ \E s \in Subscribers : Subscribe(s) \/ Unsubscribe(s) \/ Work(s) \/ Cancel(s)
  \/ \E p \in Publishers : Publish(p) \/ PublishReturns(p)
  \/ Deliveries

Spec == Init /\ [][Next]_vars

\* Goroutines that can run do, and calls of the sink and timers end.  Nobody
\* has to publish, to cancel or to unsubscribe.
FairSpec ==
  /\ Spec
  /\ WF_vars(Deliveries)
  /\ \A p \in Publishers : WF_vars(PublishReturns(p))
  /\ \A s \in Subscribers : WF_vars(Work(s))

(***************************************************************************)
(* Properties                                                              *)
(***************************************************************************)

\* the events of q are those after the first n
Consecutive(q, n) == \A i \in 1 .. Len(q) : q[i] = n + i

\* A subscriber's channel carries every event that was published since it
\* subscribed, once and in the order of publication, whoever publishes and
\* however full it gets: what the worker took and what is buffered are
\* consecutive, and nothing is missing but what the Publish in progress has not
\* sent yet.
NoGapsFor(s) ==
  /\ Consecutive(taken[s], joined[s])
  /\ Consecutive(queue[s], joined[s] + Len(taken[s]))
  /\ s \in subscribers =>
       joined[s] + Len(taken[s]) + Len(queue[s]) + (IF s \in unsent THEN 1 ELSE 0) = published

NoGaps == \A s \in Subscribers : NoGapsFor(s)

\* Publish never sends on a channel that was closed, which would panic: the map
\* does not change between the two, although subscribers leave at any time.
SendsOpen == unsent \subseteq subscribers \ closed

\* What a worker persists are the events of its channel, each once and without
\* a gap: retries of the acknowledgement do not persist again, and a worker that
\* goes on after a failure would leave a gap.
PersistedInOrder == \A s \in Subscribers : Consecutive(persisted[s], joined[s])

\* A worker receives at most one event after its context was cancelled: the
\* select may prefer an event that is there, the next round does not.
OneLate == \A s \in Subscribers : late[s] <= 1

\* What makes them inductive: a worker has persisted what it took, up to the
\* event in its hands, the map changes only while nobody publishes, and a worker
\* that took an event late is not waiting for another.
WorkerShape(s) ==
  /\ worker[s] = "out" => /\ s \notin subscribers \cup closed
                         /\ taken[s] = << >> /\ queue[s] = << >> /\ persisted[s] = << >>
  /\ worker[s] = "persist" => Len(taken[s]) = Len(persisted[s]) + 1
  /\ worker[s] \in {"loop", "select", "ack", "wait"} => Len(taken[s]) = Len(persisted[s])
  /\ late[s] > 0 => s \in cancelled /\ worker[s] # "select"

\* The inductive invariant: channels carry consecutive events and are open when
\* Publish sends, sinks persist each event once, workers stop in time.
BroadcastInv ==
  /\ NoGaps /\ SendsOpen /\ PersistedInOrder /\ OneLate
  /\ closed \cap subscribers = {}
  /\ mutex = NoOne => unsent = {}
  /\ \A s \in Subscribers : WorkerShape(s)

\* Publish returns unless a worker has stopped reading without unsubscribing in
\* time: nothing else can block it, and with it everyone that wants the mutex.
PublishBlocksOnly ==
  (mutex # NoOne) ~> (mutex = NoOne \/ \E s \in subscribers : worker[s] = "done")

\* A worker whose context is cancelled returns, wherever it is.
CancelledReturns ==
  \A s \in Subscribers : (s \in cancelled) ~> (worker[s] = "done")
=============================================================================
