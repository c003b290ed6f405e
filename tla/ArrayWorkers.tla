---------------------------- MODULE ArrayWorkers ----------------------------
(***************************************************************************)
(* The workers of arrayops: CollectResults starts a goroutine for each job, *)
(* each runs a OnceStep under RunSteps, and the step reserves a place in a  *)
(* lane and makes a download with a timeout.  Jobs may share a key.  What a *)
(* download does is external: it succeeds or fails, and it returns.         *)
(***************************************************************************)
EXTENDS Naturals, Sequences, FiniteSets

CONSTANTS
  Jobs,
  KeyOf,          \* the key under which a job runs its step
  LimitOf,        \* the lane's limit as the job states it
  Attempts        \* the attempts of RunSteps

VARIABLES
  main,           \* CollectResults: "spawn", "range" or "returned"
  wg,             \* the WaitGroup's counter
  resultsClosed,         \* has the results channel been closed?
  chan,           \* the jobs whose results are in the channel's buffer
  collected,      \* the jobs whose results have been received
  pc,             \* where each job's goroutine is
  attempt,
  result,         \* what RunSteps returned: "none", "nil", "error", "cancelled"
  cancelled,      \* ctx.Done()
  late,           \* the steps a job began after the cancellation
  seen,           \* OnceStep.seen
  downloaded,     \* the keys of downloads that succeeded
  used,           \* Capacity.used of the lane
  grants          \* the reservations made, each by the limit stated

mainVars == <<main, wg, resultsClosed, chan, collected>>
laneVars == <<used, grants>>
vars == <<mainVars, pc, attempt, result, cancelled, late, seen, downloaded, laneVars>>

TypeOK ==
  /\ main \in {"spawn", "range", "returned"} /\ wg \in Nat /\ resultsClosed \in BOOLEAN
  /\ chan \in SUBSET Jobs /\ collected \in SUBSET Jobs
  /\ pc \in [Jobs -> {"new", "check", "look", "execute", "download", "mark", "wait", "send",
                      "sent", "done"}]
  /\ attempt \in [Jobs -> Nat] /\ result \in [Jobs -> {"none", "nil", "error", "cancelled"}]
  /\ cancelled \in BOOLEAN /\ late \in [Jobs -> Nat]
  /\ used \in Nat /\ grants \in Seq(Nat)

Init ==
  /\ main = "spawn" /\ wg = 0 /\ resultsClosed = FALSE /\ chan = {} /\ collected = {}
  /\ pc = [j \in Jobs |-> "new"] /\ attempt = [j \in Jobs |-> 1]
  /\ result = [j \in Jobs |-> "none"]
  /\ cancelled = FALSE /\ late = [j \in Jobs |-> 0]
  /\ seen = {} /\ downloaded = {}
  /\ used = 0 /\ grants = << >>

Goto(j, next) == pc' = [pc EXCEPT ![j] = next]

\* RunSteps returns r, and run with it
Returns(j, r) ==
  /\ result' = [result EXCEPT ![j] = r]
  /\ Goto(j, "send")

(***************************************************************************)
(* CollectResults                                                          *)
(***************************************************************************)
\* mutant: workers.Add(1) is left to the goroutine, after the Wait
NotAdded == wg

Added == wg + 1

Spawn(j) ==
  /\ main = "spawn" /\ pc[j] = "new"
  /\ wg' = Added
  /\ Goto(j, "check")
  /\ main' = IF \E i \in Jobs \ {j} : pc[i] = "new" THEN "spawn" ELSE "range"
  /\ UNCHANGED <<resultsClosed, chan, collected, attempt, result, cancelled, late, seen, downloaded,
                 laneVars>>

\* the buffer has room for every job, so the send never waits
Send(j) ==
  /\ pc[j] = "send"
  /\ chan' = chan \cup {j}
  /\ Goto(j, "sent")
  /\ UNCHANGED <<main, wg, resultsClosed, collected, attempt, result, cancelled, late, seen,
                 downloaded, laneVars>>

\* mutant: Done() is not deferred, and an error skips it
DoneOnSuccess(j) == IF result[j] = "nil" THEN wg - 1 ELSE wg

Done(j) == wg - 1

WorkerDone(j) ==
  /\ pc[j] = "sent"
  /\ wg' = Done(j)
  /\ Goto(j, "done")
  /\ UNCHANGED <<main, resultsClosed, chan, collected, attempt, result, cancelled, late, seen,
                 downloaded, laneVars>>

\* the goroutine that waits for the workers is started after all of them
Close ==
  /\ main # "spawn" /\ ~resultsClosed /\ wg = 0
  /\ resultsClosed' = TRUE
  /\ UNCHANGED <<main, wg, chan, collected, pc, attempt, result, cancelled, late, seen,
                 downloaded, laneVars>>

Receive(j) ==
  /\ main = "range" /\ j \in chan
  /\ chan' = chan \ {j} /\ collected' = collected \cup {j}
  /\ UNCHANGED <<main, wg, resultsClosed, pc, attempt, result, cancelled, late, seen, downloaded,
                 laneVars>>

\* mutant: the loop ends when the channel is empty
RangeDrained == chan = {}

RangeEnds == resultsClosed /\ chan = {}

Return ==
  /\ main = "range" /\ RangeEnds
  /\ main' = "returned"
  /\ UNCHANGED <<wg, resultsClosed, chan, collected, pc, attempt, result, cancelled, late, seen,
                 downloaded, laneVars>>

(***************************************************************************)
(* RunSteps, OnceStep.Run, ReserveLane and RunDownload                     *)
(***************************************************************************)
\* mutant: ctx.Err() is not asked before an attempt
NeverAsked == FALSE

CtxErr == cancelled

Check(j) ==
  /\ pc[j] = "check"
  /\ IF CtxErr THEN Returns(j, "cancelled") ELSE Goto(j, "look") /\ UNCHANGED result
  /\ UNCHANGED <<mainVars, attempt, cancelled, late, seen, downloaded, laneVars>>

\* mutant: the key is claimed when it is looked for
SeenAtOnce(j) == seen \cup {KeyOf[j]}

SeenBefore(j) == seen

\* mutant: what was done is not looked for
NeverAnswered(j) == FALSE

Answered(j) == KeyOf[j] \in seen

\* the first critical section of OnceStep.Run
Look(j) ==
  /\ pc[j] = "look"
  /\ late' = IF cancelled THEN [late EXCEPT ![j] = @ + 1] ELSE late
  /\ IF Answered(j) THEN Returns(j, "nil") ELSE Goto(j, "execute") /\ UNCHANGED result
  /\ seen' = SeenBefore(j)
  /\ UNCHANGED <<mainVars, attempt, cancelled, downloaded, laneVars>>

\* the step failed: another attempt after a pause, or the error
StepFails(j) ==
  \/ attempt[j] < Attempts /\ Goto(j, "wait") /\ UNCHANGED result
  \/ attempt[j] = Attempts /\ Returns(j, "error")

\* mutant: a lane takes one more than its limit
LaneNotPassed(j) == used <= LimitOf[j]

LaneFree(j) == used < LimitOf[j]

\* Capacity.Reserve.  Nothing gives a place back.
Reserve(j) ==
  /\ pc[j] = "execute"
  /\ \/ /\ LaneFree(j)
        /\ used' = used + 1
        /\ grants' = Append(grants, LimitOf[j])
        /\ Goto(j, "download") /\ UNCHANGED result
     \/ /\ ~LaneFree(j)
        /\ StepFails(j) /\ UNCHANGED laneVars
  /\ UNCHANGED <<mainVars, attempt, cancelled, late, seen, downloaded>>

Download(j) ==
  /\ pc[j] = "download"
  /\ \/ downloaded' = downloaded \cup {KeyOf[j]} /\ Goto(j, "mark") /\ UNCHANGED result
     \/ StepFails(j) /\ UNCHANGED downloaded
  /\ UNCHANGED <<mainVars, attempt, cancelled, late, seen, laneVars>>

\* the second critical section of OnceStep.Run
Mark(j) ==
  /\ pc[j] = "mark"
  /\ seen' = seen \cup {KeyOf[j]}
  /\ Returns(j, "nil")
  /\ UNCHANGED <<mainVars, attempt, cancelled, late, downloaded, laneVars>>

\* WaitBackoff: when both are ready, select takes either
WaitBackoff(j) ==
  /\ pc[j] = "wait"
  /\ \/ attempt' = [attempt EXCEPT ![j] = @ + 1] /\ Goto(j, "check") /\ UNCHANGED result
     \/ cancelled /\ Returns(j, "cancelled") /\ UNCHANGED attempt
  /\ UNCHANGED <<mainVars, cancelled, late, seen, downloaded, laneVars>>

Cancel ==
  /\ ~cancelled
  /\ cancelled' = TRUE
  /\ UNCHANGED <<mainVars, pc, attempt, result, late, seen, downloaded, laneVars>>

Work(j) ==
  Check(j) \/ Look(j) \/ Reserve(j) \/ Download(j) \/ Mark(j) \/ WaitBackoff(j)
  \/ Send(j) \/ WorkerDone(j)

Collect == (\E j \in Jobs : Spawn(j) \/ Receive(j)) \/ Return

Next == Collect \/ Close \/ (\E j \in Jobs : Work(j)) \/ Cancel

Fairness == WF_vars(Collect) /\ WF_vars(Close) /\ \A j \in Jobs : WF_vars(Work(j))

Spec == Init /\ [][Next]_vars /\ Fairness

(***************************************************************************)
(* Properties                                                              *)
(***************************************************************************)

\* CollectResults closes the channel only after every send: none panics.
SendsOpen == resultsClosed => \A j \in Jobs : pc[j] \in {"sent", "done"}

\* It returns with the result of every job.
CollectsAll == main = "returned" => collected = Jobs

\* It returns, whatever fails or is cancelled.
CollectReturns == <>(main = "returned")

\* A job is told nil only if a download under its key succeeded, by itself or
\* by another job, and whoever asks from then on is told so too.
NilBacked ==
  \A j \in Jobs : result[j] = "nil" => KeyOf[j] \in downloaded /\ KeyOf[j] \in seen

\* OnceStep: jobs with one key execute twice only if they overlap; after one
\* of them has returned nil, none of them starts to execute.
OnceAnswered ==
  [][ \A i, j \in Jobs :
        pc[j] # "execute" /\ pc'[j] = "execute" /\ KeyOf[i] = KeyOf[j] => result[i] # "nil" ]_vars

\* A cancelled job begins at most one more step.
OneLateStep == \A j \in Jobs : late[j] <= 1

\* The results that CollectResults returns are all there and true, whatever
\* fails, is cancelled or shares a key.
ResultsTrue == SendsOpen /\ CollectsAll /\ NilBacked /\ OneLateStep

\* Nobody gets more of a lane than the limit stated: however many jobs with
\* larger limits compete, those with limit l or less have l places at most.
LaneShares ==
  \A j \in Jobs :
    Cardinality({n \in 1 .. Len(grants) : grants[n] <= LimitOf[j]}) <= LimitOf[j]

(***************************************************************************)
(* What makes these properties inductive                                   *)
(***************************************************************************)
Running == {j \in Jobs : pc[j] \notin {"new", "done"}}

\* The counter is that of the goroutines that run, and what was sent is in the
\* channel or received.
Collecting ==
  /\ wg = Cardinality(Running)
  /\ main # "spawn" => \A j \in Jobs : pc[j] # "new"
  /\ resultsClosed => main # "spawn" /\ \A j \in Jobs : pc[j] = "done"
  /\ \A j \in Jobs : pc[j] \in {"sent", "done"} <=> j \in chan \cup collected
  /\ main = "returned" => resultsClosed /\ chan = {}

\* A key is marked after its download, and a step that was begun after the
\* cancellation is not followed by another one.
Answering ==
  /\ \A j \in Jobs : result[j] = "nil" => KeyOf[j] \in seen
  /\ \A j \in Jobs : pc[j] = "mark" => KeyOf[j] \in downloaded
  /\ seen \subseteq downloaded
  /\ \A j \in Jobs : late[j] = 0 \/ (late[j] = 1 /\ cancelled /\ pc[j] # "look")

\* The n-th reservation was made under a limit of n at least.
LanesFilled == used = Len(grants) /\ \A n \in 1 .. Len(grants) : grants[n] >= n

WorkersInv == TypeOK /\ Collecting /\ Answering /\ LanesFilled
=============================================================================
