------------------------ MODULE MCRecoveryWorkflow ------------------------
(***************************************************************************)
(* Small instances of RecoveryWorkflow: one mission with one buoy.         *)
(***************************************************************************)
EXTENDS RecoveryWorkflow, TLC

CONSTANTS
  j1,      \* the job that expires before the clock stops
  Quota    \* required_successes of the buoy

MCMissionOf == [b \in Buoys |-> CHOOSE m \in Missions : TRUE]
MCRequired == [b \in Buoys |-> Quota]
MCStartsAt == [m \in Missions |-> 0]
MCEndsAt == [m \in Missions |-> MaxTime]
MCJobBuoy == [j \in Jobs |-> CHOOSE b \in Buoys : TRUE]
MCExpiresAt == [j \in Jobs |-> IF j = j1 THEN 0 ELSE MaxTime]
MCCapacity == [w \in Windows |-> 2]

MCSymmetry ==
  Permutations(Windows) \cup Permutations(Clients) \cup Permutations(Jobs \ {j1})

\* A constraint for the run about quotas: an incident neither reads nor writes
\* a mission, a job or a buoy.
NoIncidents == incidents = [j \in Jobs |-> {}]

\* A later starting point: the mission is closed and all its jobs went through
\* completion, activation and acceptance in time.
AllAccepted ==
  /\ now = 0
  /\ missionStatus = [m \in Missions |-> "closed"]
  /\ missionVersion = [m \in Missions |-> 4]
  /\ installs = [b \in Buoys |-> Cardinality(Jobs)]
  /\ jobStatus = [j \in Jobs |-> "accepted"]
  /\ jobVersion = [j \in Jobs |-> 4]
  /\ winStatus = [w \in Windows |-> "absent"]
  /\ winVersion = [w \in Windows |-> 0]
  /\ items = [w \in Windows |-> {}]
  /\ repStatus = [r \in Jobs \X Windows |-> "absent"]
  /\ incidents = [j \in Jobs |-> {}]
  /\ audit = ({"mission"} \X Missions \X {"create", "schedule", "activate", "close"})
             \cup ({"job"} \X Jobs \X {"create", "complete", "activation", "accept"})
  /\ tx = [c \in Clients |-> Idle]

SpecFromAccepted == AllAccepted /\ [][Next]_vars
FairSpecFromAccepted == SpecFromAccepted /\ Fairness
=============================================================================
