----------------------------- MODULE MCArrayOps -----------------------------
(***************************************************************************)
(* What the process keeps in memory: leases, the store of the array        *)
(* operations and its workers.  They share no state, and the maps of the   *)
(* store share nothing but its mutex, so each behaviour is of one part,    *)
(* chosen at the start.  Fairness is that of the workers, and only about   *)
(* their behaviours does the run say what eventually happens.              *)
(***************************************************************************)
EXTENDS Leases, FiniteSets

CONSTANTS
  Callers, Tokens, Roles, Missions, Digests, Bundles, Buoys, Keys, Bodies, None, MaxApprovals,
  Alone, Jobs, KeyOf, LimitOf, Attempts

\* two goroutines of one owner and one of another
MCOwnerOf == [w \in Workers |-> IF w = Alone THEN "b" ELSE "a"]

\* three jobs, two of them with one key, in a lane with different limits
MCJobs == {"a", "b", "c"}
MCKeyOf == [j \in Jobs |-> IF j = "c" THEN "other" ELSE "shared"]
MCLimitOf == [j \in Jobs |-> IF j = "a" THEN 1 ELSE 3]

VARIABLES
  part,
  call, sessions, expired, closed, granted, missions, ended, approvals, regressed,
  bundles, buoys, stored, accepted,
  main, wg, resultsClosed, chan, collected, pc, attempt, result, cancelled, late,
  seen, downloaded, used, grants

storeVars == <<call, sessions, expired, closed, granted, missions, ended, approvals, regressed,
               bundles, buoys, stored, accepted>>
workerVars == <<main, wg, resultsClosed, chan, collected, pc, attempt, result, cancelled,
                late, seen, downloaded, used, grants>>

A == INSTANCE AcousticControl
W == INSTANCE ArrayWorkers

\* what is not in a map is told from what is; CollectResults is given a slice
\* of jobs, and limits are not negative
ASSUME StoreAssumption == None \notin A!Session \cup A!Mission \cup Bundles \cup Bodies

ASSUME WorkersAssumption == IsFiniteSet(Jobs) /\ LimitOf \in [Jobs -> Nat]

MCInit ==
  /\ part \in {"leases", "sessions", "missions", "others", "workers"}
  /\ IF part = "leases" THEN Init ELSE Init /\ ~fenced
  /\ A!Init
  /\ W!Init

MCNext ==
  \/ part = "leases" /\ Next /\ UNCHANGED <<part, storeVars, workerVars>>
  \/ part = "sessions" /\ A!SessionNext /\ UNCHANGED <<part, vars, workerVars>>
  \/ part = "missions" /\ A!MissionNext /\ UNCHANGED <<part, vars, workerVars>>
  \/ part = "others" /\ A!OtherNext /\ UNCHANGED <<part, vars, workerVars>>
  \/ part = "workers" /\ W!Next /\ UNCHANGED <<part, vars, storeVars>>

MCSpec == MCInit /\ [][MCNext]_<<part, vars, storeVars, workerVars>> /\ W!Fairness

\* The properties of AcousticControl, about sessions, missions, enrolment,
\* callbacks and responses.
LogoutFinal == A!LogoutFinal
EndedOnce == A!EndedOnce
StoreKeeps == A!StoreKeeps

\* The properties of ArrayWorkers, about CollectResults, OnceStep and Reserve.
ResultsTrue == W!ResultsTrue
CollectReturns == part = "workers" => W!CollectReturns
OnceAnswered == W!OnceAnswered
LaneShares == W!LaneShares
=============================================================================
