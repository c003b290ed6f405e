------------------------------- MODULE Server -------------------------------
(***************************************************************************)
(* run() of cmd/server: the pool is opened and migrated, the workers and   *)
(* the listener are started, and run() waits for a signal, the listener's  *)
(* end or a worker's error; then it cancels the workers, shuts the server  *)
(* down, waits for the workers, each time for a limited time only, and     *)
(* closes the pool on its way out.                                         *)
(*                                                                         *)
(* A worker is one of the loops of package worker, which differ in what    *)
(* they call.  A call, like a handler, needs a connection of the pool for  *)
(* a while.  The three workers return other errors than the context's only *)
(* for a missing dependency; the model lets any of them fail, as the       *)
(* signature of `run` does and the channel workerErr is made for.          *)
(***************************************************************************)
EXTENDS Naturals, FiniteSets

CONSTANTS
  Loops,              \* the workers
  Handlers,           \* concurrent requests
  MaxConns            \* connections of the pool

VARIABLES
  main,               \* where run() is
  runErr,             \* what it is about to return
  cause,              \* the error that made it stop, if one did
  signalled,          \* ctx.Done()
  cancelled,          \* workerCtx.Done()
  loop, late,         \* where the workers are; calls begun after the cancellation
  workerErr,          \* errors in the channel
  workersDone,        \* has it been closed?
  serverErr,          \* the listener's result in the channel, or "none"
  handler,            \* where the requests are
  pool                \* "none", "open", "closing" or "closed"

vars == <<main, runErr, cause, signalled, cancelled, loop, late, workerErr, workersDone,
          serverErr, handler, pool>>

TypeOK ==
  /\ main \in {"open", "migrate", "select", "shutdown", "wait", "close", "returned"}
  /\ runErr \in {"none", "startup", "http", "worker", "shutdown", "timeout"}
  /\ cause \in {"none", "http", "worker"}
  /\ signalled \in BOOLEAN /\ cancelled \in BOOLEAN /\ workersDone \in BOOLEAN
  /\ loop \in [Loops -> {"none", "head", "call", "acquire", "query", "wait", "send", "done"}]
  /\ late \in [Loops -> Nat] /\ workerErr \in Nat
  /\ serverErr \in {"none", "http", "closed"}
  /\ handler \in [Handlers -> {"none", "acquire", "query"}]
  /\ pool \in {"none", "open", "closing", "closed"}

Init ==
  /\ main = "open" /\ runErr = "none" /\ cause = "none"
  /\ signalled = FALSE /\ cancelled = FALSE
  /\ loop = [w \in Loops |-> "none"] /\ late = [w \in Loops |-> 0]
  /\ workerErr = 0 /\ workersDone = FALSE
  /\ serverErr = "none"
  /\ handler = [h \in Handlers |-> "none"]
  /\ pool = "none"

Alive == main # "returned"
Serving == main = "select" /\ serverErr = "none"

Querying == {w \in Loops : loop[w] = "query"} \cup {h \in Handlers : handler[h] = "query"}

\* pgxpool.Acquire: a connection is free, or may be opened
Acquires == pool = "open" /\ Cardinality(Querying) < MaxConns

Signal ==
  /\ Alive /\ ~signalled
  /\ signalled' = TRUE /\ cancelled' = TRUE
  /\ UNCHANGED <<main, runErr, cause, loop, late, workerErr, workersDone, serverErr, handler, pool>>

(***************************************************************************)
(* The workers                                                             *)
(***************************************************************************)
LoopStep(w, from, to) ==
  /\ Alive /\ loop[w] = from
  /\ loop' = [loop EXCEPT ![w] = to]
  /\ UNCHANGED <<main, runErr, cause, signalled, cancelled, workersDone, serverErr, handler, pool>>

NoSend == UNCHANGED <<late, workerErr>>

\* mutant: the context is looked at only between two ticks
NeverErr == FALSE

\* ctx.Err() at the head of the loop
CtxErr == cancelled

LoopHead(w) == LoopStep(w, "head", IF CtxErr THEN "done" ELSE "call") /\ NoSend

\* the call begins; with a cancelled context it fails at once
LoopCall(w) ==
  /\ LoopStep(w, "call", IF cancelled THEN "wait" ELSE "acquire")
  /\ late' = IF cancelled THEN [late EXCEPT ![w] = @ + 1] ELSE late
  /\ UNCHANGED workerErr

LoopAcquire(w) == Acquires /\ LoopStep(w, "acquire", "query") /\ NoSend

\* an error is logged, a result counted; a cancelled context ends both the
\* wait for a connection and the query
LoopReturn(w) ==
  \/ LoopStep(w, "query", "wait") /\ NoSend
  \/ (cancelled \/ pool # "open") /\ LoopStep(w, "acquire", "wait") /\ NoSend

\* select: the ticker may win although the context is done
LoopTick(w) == LoopStep(w, "wait", "head") /\ NoSend
LoopDone(w) == cancelled /\ LoopStep(w, "wait", "done") /\ NoSend

LoopFails(w) == LoopStep(w, "call", "send") /\ NoSend

\* mutant: room for one error
OneSlot == 1

WorkerErrCap == Cardinality(Loops)

LoopSend(w) ==
  /\ workerErr < WorkerErrCap
  /\ LoopStep(w, "send", "done")
  /\ workerErr' = workerErr + 1
  /\ UNCHANGED late

\* mutant: workerWG.Done() is not deferred, and missed after an error
DoneWithoutError == (\A w \in Loops : loop[w] = "done") /\ workerErr = 0

\* workerWG.Wait() returns
AllDone == \A w \in Loops : loop[w] = "done"

\* close(workersDone)
CloseWorkersDone ==
  /\ Alive /\ ~workersDone
  /\ AllDone
  /\ workersDone' = TRUE
  /\ UNCHANGED <<main, runErr, cause, signalled, cancelled, loop, late, workerErr, serverErr,
                 handler, pool>>

(***************************************************************************)
(* The listener and the handlers                                           *)
(***************************************************************************)
ListenFails ==
  /\ Serving
  /\ serverErr' = "http"
  /\ UNCHANGED <<main, runErr, cause, signalled, cancelled, loop, late, workerErr, workersDone,
                 handler, pool>>

HandlerStep(h, from, to) ==
  /\ Alive /\ handler[h] = from
  /\ handler' = [handler EXCEPT ![h] = to]
  /\ UNCHANGED <<main, runErr, cause, signalled, cancelled, loop, late, workerErr, workersDone,
                 serverErr, pool>>

Request(h) == Serving /\ HandlerStep(h, "none", "acquire")
HandlerAcquire(h) == Acquires /\ HandlerStep(h, "acquire", "query")

\* a request's context is not derived from that of run()
HandlerReturn(h) ==
  \/ HandlerStep(h, "query", "none")
  \/ pool # "open" /\ HandlerStep(h, "acquire", "none")

(***************************************************************************)
(* run()                                                                   *)
(***************************************************************************)
MainStep(from, to) == main = from /\ main' = to

\* db.Open, with a ping
OpenPool(ok) ==
  /\ MainStep("open", IF ok THEN "migrate" ELSE "returned")
  /\ pool' = IF ok THEN "open" ELSE "none"
  /\ runErr' = IF ok THEN runErr ELSE "startup"
  /\ UNCHANGED <<cause, signalled, cancelled, loop, late, workerErr, workersDone, serverErr, handler>>

\* db.Migrate, and the goroutines are started
Migrate(ok) ==
  /\ MainStep("migrate", IF ok THEN "select" ELSE "close")
  /\ runErr' = IF ok THEN runErr ELSE "startup"
  /\ loop' = IF ok THEN [w \in Loops |-> "head"] ELSE loop
  /\ UNCHANGED <<cause, signalled, cancelled, late, workerErr, workersDone, serverErr, handler, pool>>

\* cancelWorkers, and Shutdown closes the listener
Stop(err) ==
  /\ MainStep("select", "shutdown")
  /\ runErr' = err /\ cause' = err
  /\ cancelled' = TRUE
  /\ serverErr' = IF err = "http" THEN "none" ELSE IF serverErr = "none" THEN "closed" ELSE serverErr
  /\ UNCHANGED <<signalled, loop, late, workersDone, handler, pool>>

SelectServerErr == serverErr # "none" /\ Stop("http") /\ UNCHANGED workerErr
SelectWorkerErr == workerErr > 0 /\ Stop("worker") /\ workerErr' = workerErr - 1
SelectSignal == signalled /\ Stop("none") /\ UNCHANGED workerErr

\* mutant: the shutdown's error is returned whatever came before
ShutdownErrLast == "shutdown"

\* && runErr == nil
ShutdownErr == IF runErr = "none" THEN "shutdown" ELSE runErr

\* mutant: Shutdown is not waited for
NotDrained == TRUE

\* server.Shutdown waits for the handlers
Drained == \A h \in Handlers : handler[h] = "none"

Shutdown(timeout) ==
  /\ MainStep("shutdown", "wait")
  /\ timeout \/ Drained
  /\ runErr' = IF timeout THEN ShutdownErr ELSE runErr
  /\ UNCHANGED <<cause, signalled, cancelled, loop, late, workerErr, workersDone, serverErr,
                 handler, pool>>

\* the second select
AwaitWorkers(timeout) ==
  /\ MainStep("wait", "close")
  /\ timeout \/ workersDone
  /\ runErr' = IF timeout THEN "timeout" ELSE runErr
  /\ UNCHANGED <<cause, signalled, cancelled, loop, late, workerErr, workersDone, serverErr,
                 handler, pool>>

\* the deferred p.Close(): no connection is given any more, ...
ClosePool ==
  /\ main = "close" /\ pool = "open"
  /\ pool' = "closing"
  /\ UNCHANGED <<main, runErr, cause, signalled, cancelled, loop, late, workerErr, workersDone,
                 serverErr, handler>>

\* ... and Close returns when all have been given back
Return ==
  /\ MainStep("close", "returned")
  /\ pool = "closing" /\ Querying = {}
  /\ pool' = "closed"
  /\ UNCHANGED <<runErr, cause, signalled, cancelled, loop, late, workerErr, workersDone,
                 serverErr, handler>>

LoopNext(w) ==
  LoopHead(w) \/ LoopCall(w) \/ LoopAcquire(w) \/ LoopReturn(w) \/ LoopTick(w) \/ LoopSend(w)
HandlerNext(h) == HandlerAcquire(h) \/ HandlerReturn(h)
MainNext ==
  \/ \E ok \in BOOLEAN : OpenPool(ok) \/ Migrate(ok)
  \/ SelectServerErr \/ SelectWorkerErr \/ SelectSignal
  \/ Shutdown(FALSE) \/ AwaitWorkers(FALSE)
  \/ ClosePool
  \/ Return

Next ==
  \/ Signal \/ ListenFails \/ CloseWorkersDone
  \/ \E w \in Loops : LoopNext(w) \/ LoopDone(w) \/ LoopFails(w)
  \/ \E h \in Handlers : Request(h) \/ HandlerNext(h)
  \/ MainNext
  \/ Shutdown(TRUE) \/ AwaitWorkers(TRUE)

\* The goroutines run, queries end, and the pool serves those who wait for a
\* connection in their order.  Nothing is asked of the timeouts.
Fairness ==
  /\ WF_vars(MainNext) /\ WF_vars(CloseWorkersDone)
  /\ \A w \in Loops : WF_vars(LoopNext(w))
  /\ \A h \in Handlers : SF_vars(HandlerAcquire(h)) /\ WF_vars(HandlerReturn(h))

Spec == Init /\ [][Next]_vars /\ Fairness

(***************************************************************************)
(* Properties                                                              *)
(***************************************************************************)

\* run() returns nil only after every worker has returned and every request
\* was answered, so nothing is cut off without an error in the log.
CleanExit ==
  main = "returned" /\ runErr = "none" =>
    /\ \A w \in Loops : loop[w] = "done"
    /\ \A h \in Handlers : handler[h] = "none"

\* The error that stopped the server is the one that is returned, also when
\* the shutdown fails after it, unless the workers do not stop in time.
CauseReturned ==
  main \in {"wait", "close", "returned"} /\ cause # "none" => runErr \in {cause, "timeout"}

\* A worker can always report its error, however many failed before and
\* although run() receives one error at most.
ReportsAtOnce == \A w \in Loops : loop[w] = "send" => workerErr < WorkerErrCap

\* After the cancellation a worker begins one more call at most.
OneLateCall == \A w \in Loops : late[w] <= 1

\* An exit tells how it came about.
ExitTold == CleanExit /\ CauseReturned

\* Nothing that the workers still do stands in the way of the shutdown.
WorkersStop == ReportsAtOnce /\ OneLateCall

(***************************************************************************)
(* What makes these properties inductive                                   *)
(***************************************************************************)
\* Each error in the channel is of a worker that has returned.
ErrorsReported == workerErr <= Cardinality({w \in Loops : loop[w] = "done"})

\* A worker that began its late call looks at the context before the next.
LateStops ==
  \A w \in Loops :
    late[w] = 0 \/ (late[w] = 1 /\ cancelled /\ loop[w] \in {"wait", "head", "done"})

\* What run() has waited for by the time it goes on without an error, and
\* that the error it is about to return is the cause until the workers are
\* waited for.
StagesPassed ==
  /\ main \in {"open", "migrate"} => \A w \in Loops : loop[w] = "none"
  /\ main \in {"open", "migrate", "select"} => cause = "none" /\ runErr = "none"
  /\ main = "shutdown" => runErr = cause
  /\ workersDone => AllDone
  /\ main \in {"wait", "close", "returned"} /\ runErr = "none" => Drained
  /\ main \in {"close", "returned"} /\ runErr = "none" => AllDone

ServerInv == TypeOK /\ ErrorsReported /\ LateStops /\ StagesPassed /\ CauseReturned

\* After a signal, run() returns, even if no timeout comes to its help: the
\* workers stop, requests are answered and all connections given back.
Returns == signalled ~> main = "returned"
=============================================================================
