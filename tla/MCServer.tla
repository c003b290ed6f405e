------------------------------ MODULE MCServer ------------------------------
(***************************************************************************)
(* The server process: migrations, its start and end, the loops that try   *)
(* again, calls under a limiter, and the assignments that clients and its  *)
(* worker change.  They share no state, so each behaviour is of one part,  *)
(* chosen at the start, and the fairness of a part says nothing about the  *)
(* others.                                                                 *)
(***************************************************************************)
EXTENDS Assignments

CONSTANTS Servers, Versions, MaxFailures, NoOne, Orphan,
          Loops, Handlers, MaxConns, MaxAttempts, MaxUnit,
          Calls, Slots, Inputs, Guarded

VARIABLES
  part,
  main, runErr, cause, signalled, cancelled, loop, late, workerErr, workersDone, serverErr,
  handler, pool,
  kind, asked, jobMax, base, max, pc, attempt, waited, answer, applied, last, ctx, after,
  stage, tokens, open, decoded, outcome, dead,
  scripts, recorded, lock, phase, at, found, failures

serverVars == <<main, runErr, cause, signalled, cancelled, loop, late, workerErr, workersDone,
                serverErr, handler, pool>>
retryVars == <<kind, asked, jobMax, base, max, pc, attempt, waited, answer, applied, last, ctx,
               after>>

S == INSTANCE Server
R == INSTANCE Retry
T == INSTANCE TelemetryRuntime
G == INSTANCE Migrations

\* main starts a fixed list of workers, the limiter serves finitely many calls
\* and has its number of tokens, and the bound on attempts allows one
ASSUME PartsAssumption ==
  IsFiniteSet(Loops) /\ IsFiniteSet(Calls) /\ Slots \in Nat /\ MaxAttempts \in Nat \ {0}

\* there is a script, and a free or orphaned lock is no server's
ASSUME MigrationAssumption ==
  /\ Versions \in Nat \ {0} /\ MaxFailures \in Nat
  /\ NoOne \notin Servers /\ Orphan \notin Servers /\ NoOne # Orphan

limitVars == <<stage, tokens, open, decoded, outcome, dead>>
schemaVars == <<scripts, recorded, lock, phase, at, found, failures>>

\* The loops start with all their arguments where they are the subject, and
\* with some otherwise.
MCInit ==
  /\ part \in {"assignments", "server", "retry", "limiter", "migrations"}
  /\ Init
  /\ S!Init
  /\ R!Init
  /\ T!Init
  /\ G!Init
  /\ part # "retry" => kind = "ping" /\ asked = 1

MCNext ==
  \/ part = "assignments" /\ Next /\ UNCHANGED <<part, serverVars, retryVars, limitVars, schemaVars>>
  \/ part = "server" /\ S!Next /\ UNCHANGED <<part, vars, retryVars, limitVars, schemaVars>>
  \/ part = "retry" /\ R!Next /\ UNCHANGED <<part, vars, serverVars, limitVars, schemaVars>>
  \/ part = "limiter" /\ T!Next /\ UNCHANGED <<part, vars, serverVars, retryVars, schemaVars>>
  \/ part = "migrations" /\ G!Next /\ UNCHANGED <<part, vars, serverVars, retryVars, limitVars>>

\* The fairness of the modules.  What could begin in the parts that were
\* not chosen is not asked to.
MCFairness ==
  /\ \A c \in Clients : WF_vars(CommitTx(c))
  /\ WF_vars(part = "assignments" /\ ReadClock) /\ WF_vars(ActivateDue)
  /\ WF_serverVars(part = "server" /\ S!MainNext) /\ WF_serverVars(S!CloseWorkersDone)
  /\ \A w \in Loops : WF_serverVars(S!LoopNext(w))
  /\ \A h \in Handlers : SF_serverVars(S!HandlerAcquire(h)) /\ WF_serverVars(S!HandlerReturn(h))
  /\ \A c \in Calls : /\ WF_limitVars(part = "limiter" /\ T!Run(c))
                      /\ SF_limitVars(part = "limiter" /\ T!TakeToken(c))
  /\ WF_schemaVars(G!RollbackOrphan)
  /\ \A s \in Servers : WF_schemaVars(part = "migrations" /\ G!Start(s)) /\ WF_schemaVars(G!Migrate(s))

MCSpec == MCInit /\ [][MCNext]_<<part, vars, serverVars, retryVars, limitVars, schemaVars>>
              /\ MCFairness

\* The properties of Server, about run() and the workers.
ExitTold == S!ExitTold
WorkersStop == S!WorkersStop
Returns == S!Returns

\* The properties of Retry, about RunWithRetry, RunWithPolicy and WaitForDatabase.
RepeatsSafely == R!RepeatsSafely
DelaysGrow == R!DelaysGrow

\* The properties of TelemetryRuntime, about Limiter.Run and DecodeBatch.
OpenExact == T!OpenExact
RunsReturn == part = "limiter" => T!RunsReturn

\* The properties of Migrations, about Migrate in servers that start together.
MigrationInv == G!MigrationInv
AllServe == part = "migrations" => G!AllServe
=============================================================================
