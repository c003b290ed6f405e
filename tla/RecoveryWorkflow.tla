-------------------------- MODULE RecoveryWorkflow --------------------------
(***************************************************************************)
(* The core workflow: survey missions, the recovery jobs of their buoys,   *)
(* dive windows, signal recovery reports, integrity incidents and the      *)
(* expiration reconciler, as PostgreSQL transactions at READ COMMITTED.    *)
(*                                                                         *)
(* A transaction that first reads rows without locking them and writes     *)
(* later is two steps, Begin... (the reads and the checks made on them)    *)
(* and Commit... (the writes, whose WHERE clauses PostgreSQL re-evaluates  *)
(* on the latest committed row).  The rows a transaction writes stay       *)
(* locked until it commits, so its write statements are one step.  A       *)
(* request whose check fails writes nothing and is no step at all; one     *)
(* that fails after its reads is a Rollback.                               *)
(*                                                                         *)
(* A job's buoy and expiry, a mission's window and a dive window's capacity *)
(* never change after the insert, so they are constants of the row's name. *)
(***************************************************************************)
EXTENDS Naturals, FiniteSets, Lifecycle

CONSTANTS
  Missions, Buoys, Jobs, Windows,
  Clients,            \* concurrent requests, each with a pooled connection
  MissionOf,          \* acoustic_buoys.survey_mission_id
  RequiredSuccesses,  \* acoustic_buoys.required_successes
  StartsAt, EndsAt,   \* survey_missions.starts_at, ends_at
  JobBuoy,            \* recovery_jobs.acoustic_buoy_id
  ExpiresAt,          \* recovery_jobs.expires_at
  Capacity,           \* dive_windows.capacity
  ReconcileLimit,     \* the reconciler's LIMIT
  MaxTime,            \* bound on the clock
  MaxVersion,         \* bound on how often a job can be handed off
  MaxLead,            \* how far ahead of the row a client's version may be
  Disciplined         \* do clients only ask for hand-offs and reviews that
                      \* the status they were shown permits?

ASSUME ConstantsAssumption ==
  /\ MissionOf \in [Buoys -> Missions]
  /\ RequiredSuccesses \in [Buoys -> Nat \ {0}]
  /\ StartsAt \in [Missions -> Nat]
  /\ EndsAt \in [Missions -> Nat]
  /\ JobBuoy \in [Jobs -> Buoys]
  /\ ExpiresAt \in [Jobs -> Nat]
  /\ Capacity \in [Windows -> Nat \ {0}]
  /\ ReconcileLimit \in Nat \ {0}
  /\ MaxTime \in Nat
  /\ MaxVersion \in Nat
  /\ MaxLead \in Nat
  /\ Disciplined \in BOOLEAN

VARIABLES
  now,            \* the time, shared by the service and the database
  missionStatus, missionVersion,
  installs,       \* acoustic_buoys.completed_installs
  jobStatus, jobVersion,
  winStatus, winVersion,
  items,          \* dive_window_items: the jobs attached to a window
  repStatus,      \* reports, unique by job and window
  incidents,      \* the statuses that a job's "reassess" incidents hold:
                  \* UNIQUE (job, kind, status) makes it a set
  audit,          \* audit_events, as <<object type, object, action>>
  tx              \* what each client's open transaction has read

missionVars == <<missionStatus, missionVersion>>
jobVars == <<jobStatus, jobVersion>>
winVars == <<winStatus, winVersion, items>>
vars == <<now, missionVars, installs, jobVars, winVars, repStatus, incidents,
          audit, tx>>

(***************************************************************************)
(* Types                                                                   *)
(***************************************************************************)
Idle == [kind |-> "idle"]

AdvanceTx == [kind : {"advance"}, mission : Missions,
              next : {"scheduled", "active", "closed"}, version : Nat]
MoveTx == [kind : {"move"}, job : Jobs, next : {"completed", "archived"}, version : Nat]
AttachTx == [kind : {"attach"}, window : Windows, jobs : SUBSET Jobs, begun : Nat]
CancelTx == [kind : {"cancel"}, window : Windows, version : Nat, jobs : SUBSET Jobs]
SubmitTx == [kind : {"submit"}, window : Windows, job : Jobs]
TxState == {Idle} \cup AdvanceTx \cup MoveTx \cup AttachTx \cup CancelTx \cup SubmitTx

AuditEvent ==
  ({"mission"} \X Missions \X {"create", "schedule", "activate", "close"})
  \cup ({"job"} \X Jobs \X {"create", "complete", "activation", "accept",
                            "archive", "expire"})
  \cup ({"window"} \X Windows \X {"create", "start", "complete", "cancel"})
  \cup ({"report"} \X (Jobs \X Windows) \X {"record", "review"})
  \cup ({"incident"} \X Jobs \X {"open", "start", "close"})
  \cup ({"task_dive_window"} \X Missions \X {"create_bulk"})

TypeOK ==
  /\ now \in Nat
  /\ missionStatus \in [Missions -> MissionStatus]
  /\ missionVersion \in [Missions -> Nat]
  /\ installs \in [Buoys -> Nat]
  /\ jobStatus \in [Jobs -> JobStatus]
  /\ jobVersion \in [Jobs -> Nat]
  /\ winStatus \in [Windows -> WindowStatus]
  /\ winVersion \in [Windows -> Nat]
  /\ items \in [Windows -> SUBSET Jobs]
  /\ repStatus \in [Jobs \X Windows -> ReportStatus]
  /\ incidents \in [Jobs -> SUBSET IncidentStatus]
  /\ audit \in SUBSET AuditEvent
  /\ tx \in [Clients -> TxState]

Init ==
  /\ now = 0
  /\ missionStatus = [m \in Missions |-> "absent"]
  /\ missionVersion = [m \in Missions |-> 0]
  /\ installs = [b \in Buoys |-> 0]
  /\ jobStatus = [j \in Jobs |-> "absent"]
  /\ jobVersion = [j \in Jobs |-> 0]
  /\ winStatus = [w \in Windows |-> "absent"]
  /\ winVersion = [w \in Windows |-> 0]
  /\ items = [w \in Windows |-> {}]
  /\ repStatus = [r \in Jobs \X Windows |-> "absent"]
  /\ incidents = [j \in Jobs |-> {}]
  /\ audit = {}
  /\ tx = [c \in Clients |-> Idle]

(***************************************************************************)
(* Helpers                                                                 *)
(***************************************************************************)
MissionOfJob(j) == MissionOf[JobBuoy[j]]

\* The version a client sends is the one it was shown, or at most MaxLead
\* ahead of it.  A smaller one matches no row now or later (versions only
\* grow), so such a request can only fail.
ClientVersions(current) == current .. (current + MaxLead)

\* SurveyMission.CanExecuteAt
CanExecute(m) ==
  missionStatus[m] = "active" /\ StartsAt[m] <= now /\ now < EndsAt[m]

Expired(j) == now > ExpiresAt[j]

\* RecoveryJob.Move: the checks on the job as it was read
MoveAllowed(j, next) ==
  /\ JobCanMoveTo(jobStatus[j], next)
  /\ Expired(j) => next = "archived"

\* What a disciplined client looks at before a hand-off or a review: the
\* repository's UPDATE itself compares nothing but the version.
ClientPermits(j, next) == Disciplined => JobCanMoveTo(jobStatus[j], next)

LiveWindow(w) == winStatus[w] \in {"queued", "running"}

\* mutants: the reconciler's status list lacks a status, or has one too many
ExpirableNotAccepted == {"queued", "completed", "activation_pending", "in_progress"}
ExpirableVerified == {"queued", "completed", "activation_pending", "accepted",
                      "in_progress", "verified"}

Expirable == {"queued", "completed", "activation_pending", "accepted", "in_progress"}

WriteAudit(type, id, action) == audit' = audit \cup {<<type, id, action>>}

\* moveRecoveryJob for every status but "completed": status and version of one row
MoveJob(j, next) ==
  /\ jobStatus' = [jobStatus EXCEPT ![j] = next]
  /\ jobVersion' = [jobVersion EXCEPT ![j] = @ + 1]

\* mutant: a bulk update forgets version=version+1
MoveJobsSameVersion(js, next) ==
  /\ jobStatus' = [j \in Jobs |-> IF j \in js THEN next ELSE jobStatus[j]]
  /\ UNCHANGED jobVersion

\* the same update of every job of a set
MoveJobs(js, next) ==
  /\ jobStatus' = [j \in Jobs |-> IF j \in js THEN next ELSE jobStatus[j]]
  /\ jobVersion' = [j \in Jobs |-> IF j \in js THEN jobVersion[j] + 1 ELSE jobVersion[j]]

Begin(c, t) == tx[c] = Idle /\ tx' = [tx EXCEPT ![c] = t]
End(c) == tx' = [tx EXCEPT ![c] = Idle]

(***************************************************************************)
(* Missions                                                                *)
(***************************************************************************)
CreateSurveyMission(m) ==
  /\ missionStatus[m] = "absent"
  /\ StartsAt[m] < EndsAt[m] /\ now <= EndsAt[m]
  /\ missionStatus' = [missionStatus EXCEPT ![m] = "draft"]
  /\ missionVersion' = [missionVersion EXCEPT ![m] = 1]
  /\ WriteAudit("mission", m, "create")
  /\ UNCHANGED <<now, installs, jobVars, winVars, repStatus, incidents, tx>>

\* advanceSurveyMission: GetSurveyMission, without a lock, and CanMoveTo
BeginAdvance(c, m, next, v) ==
  /\ MissionCanMoveTo(missionStatus[m], next)
  /\ v \in ClientVersions(missionVersion[m])
  /\ Begin(c, [kind |-> "advance", mission |-> m, next |-> next, version |-> v])
  /\ UNCHANGED <<now, missionVars, installs, jobVars, winVars, repStatus, incidents, audit>>

\* mutant: the audit row names the status instead of the action
AdvanceActionStatus(next) == next

AdvanceAction(next) == CASE next = "scheduled" -> "schedule"
                         [] next = "active" -> "activate"
                         [] next = "closed" -> "close"

\* the UPDATE that matches the version
AdvanceMission(m, next, v) ==
  /\ missionVersion[m] = v
  /\ missionStatus' = [missionStatus EXCEPT ![m] = next]
  /\ missionVersion' = [missionVersion EXCEPT ![m] = @ + 1]

\* advanceSurveyMission: the UPDATE and the audit row
CommitAdvance(c) ==
  LET t == tx[c] IN
  /\ t.kind = "advance"
  /\ AdvanceMission(t.mission, t.next, t.version)
  /\ WriteAudit("mission", t.mission, AdvanceAction(t.next))
  /\ End(c)
  /\ UNCHANGED <<now, installs, jobVars, winVars, repStatus, incidents>>

(***************************************************************************)
(* Recovery jobs                                                           *)
(***************************************************************************)
\* a mission and a buoy of it, and a code that no other job has
Creatable(j) ==
  jobStatus[j] = "absent" /\ missionStatus[MissionOfJob(j)] # "absent" /\ ~Expired(j)

InsertJobs(js) ==
  /\ jobStatus' = [j \in Jobs |-> IF j \in js THEN "queued" ELSE jobStatus[j]]
  /\ jobVersion' = [j \in Jobs |-> IF j \in js THEN 1 ELSE jobVersion[j]]

CreateRecoveryJob(j) ==
  /\ Creatable(j)
  /\ InsertJobs({j})
  /\ WriteAudit("job", j, "create")
  /\ UNCHANGED <<now, missionVars, installs, winVars, repStatus, incidents, tx>>

\* all the jobs or none of them, and one audit row for the first one's mission
CreateRecoveryJobsBulk(js) ==
  /\ js # {}
  /\ \A j \in js : Creatable(j)
  /\ InsertJobs(js)
  /\ \E first \in js : WriteAudit("task_dive_window", MissionOfJob(first), "create_bulk")
  /\ UNCHANGED <<now, missionVars, installs, winVars, repStatus, incidents, tx>>

\* CompleteRecoveryJob and ArchiveRecoveryJob: the job and, to complete it,
\* its mission are read without locks and checked
BeginMove(c, j, next, v) ==
  /\ jobStatus[j] # "absent"
  /\ next = "completed" => CanExecute(MissionOfJob(j))
  /\ MoveAllowed(j, next)
  /\ v \in ClientVersions(jobVersion[j])
  /\ Begin(c, [kind |-> "move", job |-> j, next |-> next, version |-> v])
  /\ UNCHANGED <<now, missionVars, installs, jobVars, winVars, repStatus, incidents, audit>>

\* mutant: AND version=$4 is missing from the UPDATE
VersionIgnored(t) == jobStatus[t.job] # "absent"

\* WHERE id=$3 AND version=$4
VersionMatches(t) == jobVersion[t.job] = t.version

\* mutant: the comparison admits one install too many
QuotaNotPassed(b) == installs[b] <= RequiredSuccesses[b]

\* completed_installs < required_successes, read with the buoy's row locked
QuotaLeft(b) == installs[b] < RequiredSuccesses[b]

\* the "completed" branch of moveRecoveryJob: the buoy row is locked and its
\* quota compared again, the job's version matched, both rows updated
CommitComplete(c) ==
  LET t == tx[c]
      b == JobBuoy[t.job] IN
  /\ t.kind = "move" /\ t.next = "completed"
  /\ VersionMatches(t)
  /\ QuotaLeft(b)
  /\ MoveJob(t.job, "completed")
  /\ installs' = [installs EXCEPT ![b] = @ + 1]
  /\ WriteAudit("job", t.job, "complete")
  /\ End(c)
  /\ UNCHANGED <<now, missionVars, winVars, repStatus, incidents>>

CommitArchive(c) ==
  LET t == tx[c] IN
  /\ t.kind = "move" /\ t.next = "archived"
  /\ VersionMatches(t)
  /\ MoveJob(t.job, "archived")
  /\ WriteAudit("job", t.job, "archive")
  /\ End(c)
  /\ UNCHANGED <<now, missionVars, installs, winVars, repStatus, incidents>>

\* ActivationRecoveryJob and AcceptRecoveryJob: no read, an UPDATE that
\* compares the version only, and a mooring event.  The mooring event is
\* inserted exactly when the audit row is, which stands for both.
HandOff(j, next, action) ==
  /\ jobStatus[j] # "absent"
  /\ jobVersion[j] < MaxVersion
  /\ ClientPermits(j, next)
  /\ MoveJob(j, next)
  /\ WriteAudit("job", j, action)
  /\ UNCHANGED <<now, missionVars, installs, winVars, repStatus, incidents, tx>>

ActivationRecoveryJob(j) == HandOff(j, "activation_pending", "activation")
AcceptRecoveryJob(j) == HandOff(j, "accepted", "accept")

(***************************************************************************)
(* Dive windows                                                            *)
(***************************************************************************)
\* CreateDiveWindow: the request's own checks; now() is the time at which the
\* transaction began, whenever its statements run
BeginDiveWindow(c, w, js) ==
  /\ js # {} /\ Cardinality(js) <= Capacity[w]
  /\ winStatus[w] = "absent"
  /\ Begin(c, [kind |-> "attach", window |-> w, jobs |-> js, begun |-> now])
  /\ UNCHANGED <<now, missionVars, installs, jobVars, winVars, repStatus, incidents, audit>>

\* mutant: the UPDATE of attachRecoveryJobs does not compare the status
AttachableAnyStatus(j, begun) == jobStatus[j] # "absent" /\ ExpiresAt[j] >= begun

Attachable(j, begun) == jobStatus[j] = "accepted" /\ ExpiresAt[j] >= begun

\* createDiveWindow and attachRecoveryJobs: all the jobs or none of them
CommitDiveWindow(c) ==
  LET t == tx[c] IN
  /\ t.kind = "attach"
  /\ winStatus[t.window] = "absent"
  /\ \A j \in t.jobs : Attachable(j, t.begun)
  /\ winStatus' = [winStatus EXCEPT ![t.window] = "queued"]
  /\ winVersion' = [winVersion EXCEPT ![t.window] = 1]
  /\ items' = [items EXCEPT ![t.window] = t.jobs]
  /\ MoveJobs(t.jobs, "in_progress")
  /\ WriteAudit("window", t.window, "create")
  /\ End(c)
  /\ UNCHANGED <<now, missionVars, installs, repStatus, incidents>>

\* changeDiveWindow to running, and to completed: one UPDATE each.  The
\* version a client sends is the row's or the statement matches nothing.
ChangeDiveWindow(w, from, next, action) ==
  /\ winStatus[w] = from
  /\ winStatus' = [winStatus EXCEPT ![w] = next]
  /\ winVersion' = [winVersion EXCEPT ![w] = @ + 1]
  /\ WriteAudit("window", w, action)
  /\ UNCHANGED <<now, missionVars, installs, jobVars, items, repStatus, incidents, tx>>

StartDiveWindow(w) == ChangeDiveWindow(w, "queued", "running", "start")

\* mutant: r.id IS NULL without OR r.status='pending'
ReportedAtAll(j, w) == repStatus[<<j, w>>] # "absent"

Reviewed(j, w) == repStatus[<<j, w>>] \in {"verified", "rejected"}

CompleteDiveWindow(w) ==
  /\ \A j \in items[w] : Reviewed(j, w)
  /\ ChangeDiveWindow(w, "running", "completed", "complete")

\* mutant: the restored CTE is missing
RestoredNone(js) == {}

\* the rows of the restored CTE: those of the snapshot still in progress
Restored(js) == {j \in js : jobStatus[j] = "in_progress"}

\* CancelDiveWindow is one statement, whose NOT EXISTS and whose list of jobs
\* to restore are those of the snapshot it started with; only the rows it
\* has to wait for are looked at again
BeginCancel(c, w, v) ==
  /\ LiveWindow(w)
  /\ v \in ClientVersions(winVersion[w])
  /\ \A j \in Jobs : repStatus[<<j, w>>] = "absent"
  /\ Begin(c, [kind |-> "cancel", window |-> w, version |-> v,
               jobs |-> Restored(items[w])])
  /\ UNCHANGED <<now, missionVars, installs, jobVars, winVars, repStatus, incidents, audit>>

CommitCancel(c) ==
  LET t == tx[c] IN
  /\ t.kind = "cancel"
  /\ LiveWindow(t.window) /\ winVersion[t.window] = t.version
  /\ winStatus' = [winStatus EXCEPT ![t.window] = "cancelled"]
  /\ winVersion' = [winVersion EXCEPT ![t.window] = @ + 1]
  /\ MoveJobs(Restored(t.jobs), "accepted")
  /\ WriteAudit("window", t.window, "cancel")
  /\ End(c)
  /\ UNCHANGED <<now, missionVars, installs, items, repStatus, incidents>>

(***************************************************************************)
(* Reports and incidents                                                   *)
(***************************************************************************)
\* validateSignalRecoveryReportTarget reads the job and the window unlocked
BeginSubmit(c, j, w) ==
  /\ j \in items[w]
  /\ jobStatus[j] = "in_progress" /\ winStatus[w] = "running"
  /\ Begin(c, [kind |-> "submit", window |-> w, job |-> j])
  /\ UNCHANGED <<now, missionVars, installs, jobVars, winVars, repStatus, incidents, audit>>

\* createSignalRecoveryReport: UNIQUE (recovery_job_id, dive_window_id) is all
\* that the INSERT checks
CommitSubmit(c) ==
  LET t == tx[c] IN
  /\ t.kind = "submit"
  /\ repStatus[<<t.job, t.window>>] = "absent"
  /\ repStatus' = [repStatus EXCEPT ![<<t.job, t.window>>] = "pending"]
  /\ WriteAudit("report", <<t.job, t.window>>, "record")
  /\ End(c)
  /\ UNCHANGED <<now, missionVars, installs, jobVars, winVars, incidents>>

\* WHERE id=$3 AND version=$4 AND status='pending'
ReviewRecord(j, w, verdict) ==
  /\ repStatus[<<j, w>>] = "pending"
  /\ repStatus' = [repStatus EXCEPT ![<<j, w>>] = verdict]

\* INSERT of a "reassess" incident: UNIQUE (recovery_job_id, kind, status)
InsertIncident(j) ==
  /\ "open" \notin incidents[j]
  /\ incidents' = [incidents EXCEPT ![j] = @ \cup {"open"}]

\* ReviewSignalRecoveryReport: the report leaves "pending", the job follows it
\* whatever its status, and a rejection opens a "reassess" incident, whose
\* unique key fails the whole transaction when one is open already
ReviewSignalRecoveryReport(j, w, verdict) ==
  /\ ClientPermits(j, verdict)
  /\ ReviewRecord(j, w, verdict)
  /\ MoveJob(j, verdict)
  /\ \/ /\ verdict = "verified"
        /\ UNCHANGED incidents
        /\ WriteAudit("report", <<j, w>>, "review")
     \/ /\ verdict = "rejected"
        /\ InsertIncident(j)
        /\ audit' = audit \cup {<<"incident", j, "open">>, <<"report", <<j, w>>, "review">>}
  /\ UNCHANGED <<now, missionVars, installs, winVars, tx>>

OpenIntegrityIncident(j) ==
  /\ jobStatus[j] # "absent"
  /\ InsertIncident(j)
  /\ WriteAudit("incident", j, "open")
  /\ UNCHANGED <<now, missionVars, installs, jobVars, winVars, repStatus, tx>>

\* MarkIntegrityIncidentInProgress and CloseIntegrityIncident: a row changes
\* its status unless another one of the same job and kind holds it already
MoveIncident(j, from, next, action) ==
  /\ from \in incidents[j] /\ next \notin incidents[j]
  /\ incidents' = [incidents EXCEPT ![j] = (@ \ {from}) \cup {next}]
  /\ WriteAudit("incident", j, action)
  /\ UNCHANGED <<now, missionVars, installs, jobVars, winVars, repStatus, tx>>

MarkIntegrityIncidentInProgress(j) == MoveIncident(j, "open", "in_progress", "start")
CloseIntegrityIncident(j) ==
  \E from \in {"open", "in_progress"} : MoveIncident(j, from, "closed", "close")

(***************************************************************************)
(* The expiration reconciler, failures and time                            *)
(***************************************************************************)
\* mutant: the batch is updated without its audit rows
MarkExpiredRecoveryJobsWithoutAudit(js) ==
  /\ js # {} /\ Cardinality(js) <= ReconcileLimit
  /\ \A j \in js : Expired(j) /\ jobStatus[j] \in Expirable
  /\ MoveJobs(js, "rejected")
  /\ UNCHANGED <<now, missionVars, installs, winVars, repStatus, incidents, audit, tx>>

\* MarkExpiredRecoveryJobs: any batch of expired jobs within the limit, since
\* SKIP LOCKED passes over the rows that other transactions hold
MarkExpiredRecoveryJobs(js) ==
  /\ js # {} /\ Cardinality(js) <= ReconcileLimit
  /\ \A j \in js : Expired(j) /\ jobStatus[j] \in Expirable
  /\ MoveJobs(js, "rejected")
  /\ audit' = audit \cup {<<"job", j, "expire">> : j \in js}
  /\ UNCHANGED <<now, missionVars, installs, winVars, repStatus, incidents, tx>>

\* InTx rolls back on an error of the callback: a version that no longer
\* matches, a unique key, a deadlock, a cancelled request or a lost connection
Rollback(c) ==
  /\ tx[c] # Idle
  /\ End(c)
  /\ UNCHANGED <<now, missionVars, installs, jobVars, winVars, repStatus, incidents, audit>>

Tick ==
  /\ now < MaxTime
  /\ now' = now + 1
  /\ UNCHANGED <<missionVars, installs, jobVars, winVars, repStatus, incidents, audit, tx>>

MissionNext(c) ==
  \/ \E m \in Missions, next \in {"scheduled", "active", "closed"} :
       \E v \in ClientVersions(missionVersion[m]) : BeginAdvance(c, m, next, v)
  \/ CommitAdvance(c)

JobNext(c) ==
  \/ \E j \in Jobs, next \in {"completed", "archived"} :
       \E v \in ClientVersions(jobVersion[j]) : BeginMove(c, j, next, v)
  \/ CommitComplete(c)
  \/ CommitArchive(c)

WindowNext(c) ==
  \/ \E w \in Windows, js \in SUBSET Jobs : BeginDiveWindow(c, w, js)
  \/ CommitDiveWindow(c)
  \/ \E w \in Windows : \E v \in ClientVersions(winVersion[w]) : BeginCancel(c, w, v)
  \/ CommitCancel(c)

ReportNext(c) ==
  \/ \E j \in Jobs, w \in Windows : BeginSubmit(c, j, w)
  \/ CommitSubmit(c)

HandOffNext == \E j \in Jobs : ActivationRecoveryJob(j) \/ AcceptRecoveryJob(j)

WindowChangeNext == \E w \in Windows : StartDiveWindow(w) \/ CompleteDiveWindow(w)

ReviewNext ==
  \E j \in Jobs, w \in Windows, verdict \in {"verified", "rejected"} :
    ReviewSignalRecoveryReport(j, w, verdict)

IncidentNext ==
  \E j \in Jobs : OpenIntegrityIncident(j) \/ MarkIntegrityIncidentInProgress(j)
                  \/ CloseIntegrityIncident(j)

Next ==
  \/ \E m \in Missions : CreateSurveyMission(m)
  \/ \E j \in Jobs : CreateRecoveryJob(j)
  \/ \E js \in SUBSET Jobs : CreateRecoveryJobsBulk(js)
  \/ HandOffNext
  \/ \E c \in Clients : MissionNext(c)
  \/ \E c \in Clients : JobNext(c)
  \/ \E c \in Clients : WindowNext(c)
  \/ \E c \in Clients : ReportNext(c)
  \/ WindowChangeNext
  \/ ReviewNext
  \/ IncidentNext
  \/ \E js \in SUBSET Jobs : MarkExpiredRecoveryJobs(js)
  \/ \E c \in Clients : Rollback(c)
  \/ Tick

Spec == Init /\ [][Next]_vars

\* The reconciler runs periodically as long as the process does, and a row
\* that it skips because it is locked is free again on a later round: every
\* expired job is in some batch.  Clients owe nothing.
Fairness ==
  \A j \in Jobs :
    WF_vars(\E js \in SUBSET Jobs : j \in js /\ MarkExpiredRecoveryJobs(js))

FairSpec == Spec /\ Fairness

(***************************************************************************)
(* Properties that hold whatever clients ask for, as long as they do not   *)
(* invent versions (MaxLead = 0)                                           *)
(***************************************************************************)

\* The statuses that a check made on an unlocked read protects: when the
\* UPDATE of advanceSurveyMission or of moveRecoveryJob is applied, the row
\* still is in a status from which the move is legal, although another client
\* may have changed it since it was read.
CheckedMove ==
  /\ \A m \in Missions :
       missionVersion'[m] # missionVersion[m] =>
         MissionCanMoveTo(missionStatus[m], missionStatus'[m])
         \/ missionStatus[m] = "absent"
  /\ \A j \in Jobs :
       /\ jobVersion'[j] # jobVersion[j]
       /\ jobStatus'[j] \in {"completed", "archived"}
       => JobCanMoveTo(jobStatus[j], jobStatus'[j])

CheckedMovesLegal == [][CheckedMove]_vars

Completions(b) == {j \in Jobs : JobBuoy[j] = b /\ <<"job", j, "complete">> \in audit}

\* completed_installs counts every completed job of the buoy once, no matter
\* how many clients complete concurrently, and never exceeds the quota.
InstallsExact ==
  \A b \in Buoys :
    installs[b] = Cardinality(Completions(b)) /\ installs[b] <= RequiredSuccesses[b]

\* A completed dive window has a reviewed report for each of its jobs, then
\* and ever after: no submission that was validated before the completion
\* adds a pending one.
CompletedWindowSettled ==
  \A w \in Windows :
    winStatus[w] = "completed" =>
      \A j \in Jobs : IF j \in items[w]
                      THEN repStatus[<<j, w>>] \in {"verified", "rejected"}
                      ELSE repStatus[<<j, w>>] = "absent"

\* Optimistic locking is sound only if no write leaves a version unchanged:
\* every change of a job, mission or window row, the bulk updates of the
\* reconciler and of a cancelled window included, raises its version by one.
VersionStep(status, status1, version, version1) ==
  version1 = version + 1 \/ (version1 = version /\ status1 = status)

RowStep ==
  /\ \A m \in Missions : VersionStep(missionStatus[m], missionStatus'[m],
                                     missionVersion[m], missionVersion'[m])
  /\ \A j \in Jobs : VersionStep(jobStatus[j], jobStatus'[j],
                                 jobVersion[j], jobVersion'[j])
  /\ \A w \in Windows : VersionStep(winStatus[w], winStatus'[w],
                                    winVersion[w], winVersion'[w])

VersionedWrites == [][RowStep]_vars

\* The audit trail explains the state: no job is rejected without an audited
\* review of a rejected report or an audited expiry, none is verified without
\* a verified report, and the end of every window is on record.
AuditTrail ==
  /\ \A j \in Jobs :
       /\ jobStatus[j] = "rejected" =>
            \/ <<"job", j, "expire">> \in audit
            \/ \E w \in Windows : repStatus[<<j, w>>] = "rejected"
                                  /\ <<"report", <<j, w>>, "review">> \in audit
       /\ jobStatus[j] = "verified" =>
            \E w \in Windows : repStatus[<<j, w>>] = "verified"
                               /\ <<"report", <<j, w>>, "review">> \in audit
  /\ \A w \in Windows :
       /\ winStatus[w] = "cancelled" => <<"window", w, "cancel">> \in audit
       /\ winStatus[w] = "completed" => <<"window", w, "complete">> \in audit

\* An expired job that is not settled is settled by the reconciler sooner or
\* later, whatever clients do with it in the meantime.
ExpiredSettled ==
  \A j \in Jobs :
    (Expired(j) /\ jobStatus[j] \notin {"absent", "verified", "rejected", "archived"})
      ~> jobStatus[j] \in {"verified", "rejected", "archived"}

(***************************************************************************)
(* Properties that need disciplined clients as well                        *)
(***************************************************************************)

\* At most one dive window that is still queued or running holds a job, also
\* when windows are created and cancelled concurrently.
OneLiveWindow ==
  \A w1, w2 \in Windows :
    LiveWindow(w1) /\ LiveWindow(w2) /\ items[w1] \cap items[w2] # {} => w1 = w2

\* A job in progress belongs to a live window: completing or cancelling a
\* window never strands one of its jobs in progress.
InProgressHasWindow ==
  \A j \in Jobs :
    jobStatus[j] = "in_progress" => \E w \in Windows : LiveWindow(w) /\ j \in items[w]

\* A reviewed report and its job agree for good: no second review, expiry,
\* new window or late completion takes a job away from its verdict.
VerdictMatchesJob ==
  \A j \in Jobs, w \in Windows :
    repStatus[<<j, w>>] \in {"verified", "rejected"} =>
      jobStatus[j] \in {repStatus[<<j, w>>], "archived"}

(***************************************************************************)
(* What makes these properties inductive                                   *)
(***************************************************************************)
AbsentRows ==
  /\ \A m \in Missions : missionStatus[m] = "absent" => missionVersion[m] = 0
  /\ \A j \in Jobs : jobStatus[j] = "absent" => jobVersion[j] = 0
  /\ \A w \in Windows : winStatus[w] = "absent" => winVersion[w] = 0 /\ items[w] = {}

\* A report, and a submission on its way, is for a job of its window.
ReportsBelong ==
  /\ \A j \in Jobs, w \in Windows : repStatus[<<j, w>>] # "absent" => j \in items[w]
  /\ \A c \in Clients : tx[c].kind = "submit" => tx[c].job \in items[tx[c].window]

\* An open transaction whose version still matches the row decided on the
\* row's present status: the unlocked read is not stale.
FreshReads ==
  \A c \in Clients :
    /\ tx[c].kind = "advance" =>
         LET m == tx[c].mission IN
         /\ tx[c].version <= missionVersion[m]
         /\ tx[c].version = missionVersion[m] =>
              MissionCanMoveTo(missionStatus[m], tx[c].next)
    /\ tx[c].kind = "move" =>
         LET j == tx[c].job IN
         /\ tx[c].version <= jobVersion[j]
         /\ tx[c].version = jobVersion[j] => JobCanMoveTo(jobStatus[j], tx[c].next)

\* A job that was completed is not queued again, so it is not completed again.
CompletedPast ==
  /\ \A j \in Jobs : <<"job", j, "complete">> \in audit => jobStatus[j] \notin {"absent", "queued"}
  /\ \A b \in Buoys : IsFiniteSet(Completions(b))

\* A live window has taken its jobs past "accepted", so that no other window
\* can take them, and a cancellation on its way knows all those in progress.
LiveItems ==
  \A w \in Windows :
    LiveWindow(w) =>
      \A j \in items[w] : jobStatus[j] \in {"in_progress", "verified", "rejected", "archived"}

SnapshotCovers ==
  \A c \in Clients :
    tx[c].kind = "cancel" =>
      LET w == tx[c].window IN
      /\ winStatus[w] # "absent"
      /\ tx[c].jobs \subseteq items[w]
      /\ LiveWindow(w) =>
           \A j \in items[w] : jobStatus[j] = "in_progress" => j \in tx[c].jobs

\* The inductive invariant: live windows share no job and strand none, verdicts
\* and jobs agree, and what open transactions have read fits the rows.
WorkflowInv ==
  /\ AbsentRows /\ ReportsBelong /\ FreshReads /\ LiveItems /\ SnapshotCovers
  /\ OneLiveWindow /\ InProgressHasWindow /\ VerdictMatchesJob

(***************************************************************************)
(* Claims of the repository that the code does not keep                    *)
(***************************************************************************)

\* Every change of a job's status is one that the recovery job's machine
\* allows, the two the code adds on purpose (a cancelled window gives its
\* jobs back, an expired job is rejected) included.
JobTransitionsLegal ==
  [][ \A j \in Jobs :
        jobStatus'[j] # jobStatus[j] =>
          \/ JobCanMoveTo(jobStatus[j], jobStatus'[j])
          \/ jobStatus[j] = "absent"
          \/ jobStatus[j] = "in_progress" /\ jobStatus'[j] = "accepted"
          \/ Expired(j) /\ jobStatus[j] \in Expirable /\ jobStatus'[j] = "rejected" ]_vars
=============================================================================
