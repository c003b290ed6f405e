----------------------- MODULE RecoveryWorkflowProofs -----------------------
(***************************************************************************)
(* Proofs about the core workflow, for any sets of missions, buoys, jobs,  *)
(* windows and clients.                                                    *)
(***************************************************************************)
EXTENDS RecoveryWorkflow, FiniteSetTheorems, TLAPS

\* A transaction's kind tells which fields its record has.
LEMMA TxKinds ==
  ASSUME TypeOK, NEW c \in Clients
  PROVE  /\ tx[c].kind = "advance" => tx[c] \in AdvanceTx
         /\ tx[c].kind = "move" => tx[c] \in MoveTx
         /\ tx[c].kind = "attach" => tx[c] \in AttachTx
         /\ tx[c].kind = "cancel" => tx[c] \in CancelTx
         /\ tx[c].kind = "submit" => tx[c] \in SubmitTx
         /\ tx[c] = Idle => tx[c].kind = "idle"
  <1>1. tx[c] \in TxState
    BY DEF TypeOK
  <1>2. QED
    BY <1>1 DEF TxState, Idle, AdvanceTx, MoveTx, AttachTx, CancelTx, SubmitTx

\* The helpers that write audit rows, job rows and transaction records keep
\* the types.
LEMMA MoveJobType ==
  ASSUME TypeOK, NEW j \in Jobs, NEW next \in JobStatus, MoveJob(j, next)
  PROVE  jobStatus' \in [Jobs -> JobStatus] /\ jobVersion' \in [Jobs -> Nat]
  BY DEF TypeOK, MoveJob

LEMMA MoveJobsType ==
  ASSUME TypeOK, NEW js \in SUBSET Jobs, NEW next \in JobStatus, MoveJobs(js, next)
  PROVE  jobStatus' \in [Jobs -> JobStatus] /\ jobVersion' \in [Jobs -> Nat]
  BY DEF TypeOK, MoveJobs

LEMMA BeginType ==
  ASSUME TypeOK, NEW c \in Clients, NEW t \in TxState, Begin(c, t)
  PROVE  tx' \in [Clients -> TxState]
  BY DEF TypeOK, Begin

LEMMA EndType ==
  ASSUME TypeOK, NEW c \in Clients, End(c)
  PROVE  tx' \in [Clients -> TxState]
  BY DEF TypeOK, End, TxState

LEMMA AuditType ==
  ASSUME TypeOK, NEW type, NEW id, NEW action, <<type, id, action>> \in AuditEvent,
         WriteAudit(type, id, action)
  PROVE  audit' \in SUBSET AuditEvent
  BY DEF TypeOK, WriteAudit

\* Every step of the workflow keeps every row and every open transaction
\* within its type.
LEMMA TypeStep ==
  ASSUME TypeOK, [Next]_vars
  PROVE  TypeOK'
  <1> USE DEF missionVars, jobVars, winVars
  <1>1. ASSUME NEW m \in Missions, CreateSurveyMission(m) PROVE TypeOK'
    <2>1. audit' \in SUBSET AuditEvent
      BY <1>1, AuditType DEF CreateSurveyMission, AuditEvent
    <2>2. QED
      BY <1>1, <2>1 DEF CreateSurveyMission, TypeOK, MissionStatus
  <1>2. ASSUME NEW j \in Jobs, CreateRecoveryJob(j) PROVE TypeOK'
    <2>1. audit' \in SUBSET AuditEvent
      BY <1>2, AuditType DEF CreateRecoveryJob, Creatable, InsertJobs, AuditEvent
    <2>2. QED
      BY <1>2, <2>1 DEF CreateRecoveryJob, Creatable, InsertJobs, TypeOK, JobStatus
  <1>2b. ASSUME NEW js \in SUBSET Jobs, CreateRecoveryJobsBulk(js) PROVE TypeOK'
    <2>1. PICK first \in js :
            WriteAudit("task_dive_window", MissionOfJob(first), "create_bulk")
      BY <1>2b DEF CreateRecoveryJobsBulk
    <2>2. MissionOfJob(first) \in Missions
      BY ConstantsAssumption DEF MissionOfJob
    <2>3. audit' \in SUBSET AuditEvent
      BY <2>1, <2>2, AuditType DEF AuditEvent
    <2>4. QED
      BY <1>2b, <2>3 DEF CreateRecoveryJobsBulk, InsertJobs, TypeOK, JobStatus
  <1>3. ASSUME NEW j \in Jobs, ActivationRecoveryJob(j) \/ AcceptRecoveryJob(j)
        PROVE TypeOK'
    <2>1. audit' \in SUBSET AuditEvent
      BY <1>3, AuditType DEF ActivationRecoveryJob, AcceptRecoveryJob, HandOff,
                             AuditEvent
    <2>2. jobStatus' \in [Jobs -> JobStatus] /\ jobVersion' \in [Jobs -> Nat]
      BY <1>3, MoveJobType DEF ActivationRecoveryJob, AcceptRecoveryJob, HandOff,
                               JobStatus
    <2>3. QED
      BY <1>3, <2>1, <2>2
      DEF ActivationRecoveryJob, AcceptRecoveryJob, HandOff, TypeOK
  <1>4. ASSUME NEW c \in Clients, MissionNext(c) PROVE TypeOK'
    <2>1. ASSUME NEW m \in Missions, NEW next \in {"scheduled", "active", "closed"},
                 NEW v \in ClientVersions(missionVersion[m]), BeginAdvance(c, m, next, v)
          PROVE TypeOK'
      <3>1. v \in Nat
        BY ConstantsAssumption DEF ClientVersions, TypeOK
      <3>2. [kind |-> "advance", mission |-> m, next |-> next, version |-> v] \in TxState
        BY <3>1 DEF TxState, AdvanceTx
      <3>3. tx' \in [Clients -> TxState]
        BY <2>1, <3>2, BeginType DEF BeginAdvance
      <3>4. QED
        BY <2>1, <3>3 DEF BeginAdvance, TypeOK
    <2>2. CASE CommitAdvance(c)
      <3>1. tx[c] \in AdvanceTx
        BY <2>2, TxKinds DEF CommitAdvance, AdvanceMission
      <3>2. AdvanceAction(tx[c].next) \in {"schedule", "activate", "close"}
        BY <3>1 DEF AdvanceTx, AdvanceAction
      <3>3. audit' \in SUBSET AuditEvent
        BY <2>2, <3>1, <3>2, AuditType
        DEF CommitAdvance, AdvanceMission, AuditEvent, AdvanceTx
      <3>4. tx' \in [Clients -> TxState]
        BY <2>2, EndType DEF CommitAdvance, AdvanceMission
      <3>5. QED
        BY <2>2, <3>1, <3>3, <3>4
        DEF CommitAdvance, AdvanceMission, TypeOK, AdvanceTx, MissionStatus
    <2>3. QED
      BY <1>4, <2>1, <2>2 DEF MissionNext
  <1>5. ASSUME NEW c \in Clients, JobNext(c) PROVE TypeOK'
    <2>1. ASSUME NEW j \in Jobs, NEW next \in {"completed", "archived"},
                 NEW v \in ClientVersions(jobVersion[j]), BeginMove(c, j, next, v)
          PROVE TypeOK'
      <3>1. v \in Nat
        BY ConstantsAssumption DEF ClientVersions, TypeOK
      <3>2. [kind |-> "move", job |-> j, next |-> next, version |-> v] \in TxState
        BY <3>1 DEF TxState, MoveTx
      <3>3. tx' \in [Clients -> TxState]
        BY <2>1, <3>2, BeginType DEF BeginMove
      <3>4. QED
        BY <2>1, <3>3 DEF BeginMove, TypeOK
    <2>2. CASE CommitComplete(c)
      <3>1. tx[c] \in MoveTx
        BY <2>2, TxKinds DEF CommitComplete
      <3>2. audit' \in SUBSET AuditEvent
        BY <2>2, <3>1, AuditType DEF CommitComplete, AuditEvent, MoveTx
      <3>3. tx' \in [Clients -> TxState]
        BY <2>2, EndType DEF CommitComplete
      <3>4. jobStatus' \in [Jobs -> JobStatus] /\ jobVersion' \in [Jobs -> Nat]
        BY <2>2, <3>1, MoveJobType DEF CommitComplete, JobStatus, MoveTx
      <3>5. installs' \in [Buoys -> Nat]
        BY <2>2, <3>1, ConstantsAssumption DEF CommitComplete, TypeOK, MoveTx
      <3>6. QED
        BY <2>2, <3>2, <3>3, <3>4, <3>5 DEF CommitComplete, TypeOK
    <2>3. CASE CommitArchive(c)
      <3>1. tx[c] \in MoveTx
        BY <2>3, TxKinds DEF CommitArchive
      <3>2. audit' \in SUBSET AuditEvent
        BY <2>3, <3>1, AuditType DEF CommitArchive, AuditEvent, MoveTx
      <3>3. tx' \in [Clients -> TxState]
        BY <2>3, EndType DEF CommitArchive
      <3>4. jobStatus' \in [Jobs -> JobStatus] /\ jobVersion' \in [Jobs -> Nat]
        BY <2>3, <3>1, MoveJobType DEF CommitArchive, JobStatus, MoveTx
      <3>5. QED
        BY <2>3, <3>2, <3>3, <3>4 DEF CommitArchive, TypeOK
    <2>4. QED
      BY <1>5, <2>1, <2>2, <2>3 DEF JobNext
  <1>6. ASSUME NEW c \in Clients, WindowNext(c) PROVE TypeOK'
    <2>1. ASSUME NEW w \in Windows, NEW js \in SUBSET Jobs, BeginDiveWindow(c, w, js)
          PROVE TypeOK'
      <3>1. [kind |-> "attach", window |-> w, jobs |-> js, begun |-> now] \in TxState
        BY DEF TxState, AttachTx, TypeOK
      <3>2. tx' \in [Clients -> TxState]
        BY <2>1, <3>1, BeginType DEF BeginDiveWindow
      <3>3. QED
        BY <2>1, <3>2 DEF BeginDiveWindow, TypeOK
    <2>2. CASE CommitDiveWindow(c)
      <3>1. tx[c] \in AttachTx
        BY <2>2, TxKinds DEF CommitDiveWindow
      <3>2. audit' \in SUBSET AuditEvent
        BY <2>2, <3>1, AuditType DEF CommitDiveWindow, AuditEvent, AttachTx
      <3>3. tx' \in [Clients -> TxState]
        BY <2>2, EndType DEF CommitDiveWindow
      <3>4. jobStatus' \in [Jobs -> JobStatus] /\ jobVersion' \in [Jobs -> Nat]
        BY <2>2, <3>1, MoveJobsType DEF CommitDiveWindow, JobStatus, AttachTx
      <3>5. QED
        BY <2>2, <3>1, <3>2, <3>3, <3>4
        DEF CommitDiveWindow, TypeOK, AttachTx, WindowStatus
    <2>3. ASSUME NEW w \in Windows, NEW v \in ClientVersions(winVersion[w]),
                 BeginCancel(c, w, v)
          PROVE TypeOK'
      <3>1. v \in Nat
        BY ConstantsAssumption DEF ClientVersions, TypeOK
      <3>2. Restored(items[w]) \in SUBSET Jobs
        BY DEF Restored, TypeOK
      <3>3. [kind |-> "cancel", window |-> w, version |-> v,
             jobs |-> Restored(items[w])] \in TxState
        BY <3>1, <3>2 DEF TxState, CancelTx
      <3>4. tx' \in [Clients -> TxState]
        BY <2>3, <3>3, BeginType DEF BeginCancel
      <3>5. QED
        BY <2>3, <3>4 DEF BeginCancel, TypeOK
    <2>4. CASE CommitCancel(c)
      <3>1. tx[c] \in CancelTx
        BY <2>4, TxKinds DEF CommitCancel
      <3>2. audit' \in SUBSET AuditEvent
        BY <2>4, <3>1, AuditType DEF CommitCancel, AuditEvent, CancelTx
      <3>3. tx' \in [Clients -> TxState]
        BY <2>4, EndType DEF CommitCancel
      <3>4. Restored(tx[c].jobs) \in SUBSET Jobs
        BY <3>1 DEF Restored, CancelTx
      <3>5. jobStatus' \in [Jobs -> JobStatus] /\ jobVersion' \in [Jobs -> Nat]
        BY <2>4, <3>4, MoveJobsType DEF CommitCancel, JobStatus
      <3>6. QED
        BY <2>4, <3>1, <3>2, <3>3, <3>5 DEF CommitCancel, TypeOK, CancelTx, WindowStatus
    <2>5. QED
      BY <1>6, <2>1, <2>2, <2>3, <2>4 DEF WindowNext
  <1>7. ASSUME NEW c \in Clients, ReportNext(c) PROVE TypeOK'
    <2>1. ASSUME NEW j \in Jobs, NEW w \in Windows, BeginSubmit(c, j, w) PROVE TypeOK'
      <3>1. [kind |-> "submit", window |-> w, job |-> j] \in TxState
        BY DEF TxState, SubmitTx
      <3>2. tx' \in [Clients -> TxState]
        BY <2>1, <3>1, BeginType DEF BeginSubmit
      <3>3. QED
        BY <2>1, <3>2 DEF BeginSubmit, TypeOK
    <2>2. CASE CommitSubmit(c)
      <3>1. tx[c] \in SubmitTx
        BY <2>2, TxKinds DEF CommitSubmit
      <3>2. audit' \in SUBSET AuditEvent
        BY <2>2, <3>1, AuditType DEF CommitSubmit, AuditEvent, SubmitTx
      <3>3. tx' \in [Clients -> TxState]
        BY <2>2, EndType DEF CommitSubmit
      <3>4. QED
        BY <2>2, <3>1, <3>2, <3>3 DEF CommitSubmit, TypeOK, SubmitTx, ReportStatus
    <2>3. QED
      BY <1>7, <2>1, <2>2 DEF ReportNext
  <1>8. ASSUME NEW w \in Windows, StartDiveWindow(w) \/ CompleteDiveWindow(w)
        PROVE TypeOK'
    <2>1. PICK next \in {"running", "completed"}, from \in {"queued", "running"},
               action \in {"start", "complete"} :
            ChangeDiveWindow(w, from, next, action)
      BY <1>8 DEF StartDiveWindow, CompleteDiveWindow
    <2>2. audit' \in SUBSET AuditEvent
      BY <2>1, AuditType DEF ChangeDiveWindow, AuditEvent
    <2>3. QED
      BY <2>1, <2>2 DEF ChangeDiveWindow, TypeOK, WindowStatus
  <1>9. ASSUME NEW j \in Jobs, NEW w \in Windows, NEW verdict \in {"verified", "rejected"},
               ReviewSignalRecoveryReport(j, w, verdict)
        PROVE TypeOK'
    <2>1. audit' \in SUBSET AuditEvent
      <3>1. /\ <<"report", <<j, w>>, "review">> \in AuditEvent
            /\ <<"incident", j, "open">> \in AuditEvent
        BY DEF AuditEvent
      <3>2. QED
        BY <1>9, <3>1
        DEF ReviewSignalRecoveryReport, ReviewRecord, InsertIncident, WriteAudit, TypeOK
    <2>2. jobStatus' \in [Jobs -> JobStatus] /\ jobVersion' \in [Jobs -> Nat]
      BY <1>9, MoveJobType
      DEF ReviewSignalRecoveryReport, ReviewRecord, InsertIncident, JobStatus
    <2>3. incidents' \in [Jobs -> SUBSET IncidentStatus]
      BY <1>9
      DEF ReviewSignalRecoveryReport, ReviewRecord, InsertIncident, TypeOK,
          IncidentStatus
    <2>4. repStatus' \in [Jobs \X Windows -> ReportStatus]
      BY <1>9
      DEF ReviewSignalRecoveryReport, ReviewRecord, InsertIncident, TypeOK, ReportStatus
    <2>5. QED
      BY <1>9, <2>1, <2>2, <2>3, <2>4
      DEF ReviewSignalRecoveryReport, ReviewRecord, InsertIncident, TypeOK
  <1>10. ASSUME NEW j \in Jobs,
                \/ OpenIntegrityIncident(j)
                \/ MarkIntegrityIncidentInProgress(j)
                \/ CloseIntegrityIncident(j)
         PROVE TypeOK'
    <2>1. audit' \in SUBSET AuditEvent
      BY <1>10, AuditType
      DEF OpenIntegrityIncident, InsertIncident, MarkIntegrityIncidentInProgress,
          CloseIntegrityIncident, MoveIncident, AuditEvent
    <2>2. QED
      BY <1>10, <2>1
      DEF OpenIntegrityIncident, InsertIncident, MarkIntegrityIncidentInProgress,
          CloseIntegrityIncident, MoveIncident, TypeOK, IncidentStatus
  <1>11. ASSUME NEW js \in SUBSET Jobs, MarkExpiredRecoveryJobs(js) PROVE TypeOK'
    <2>1. jobStatus' \in [Jobs -> JobStatus] /\ jobVersion' \in [Jobs -> Nat]
      BY <1>11, MoveJobsType DEF MarkExpiredRecoveryJobs, JobStatus
    <2>2. audit' \in SUBSET AuditEvent
      BY <1>11 DEF MarkExpiredRecoveryJobs, AuditEvent, TypeOK
    <2>3. QED
      BY <1>11, <2>1, <2>2 DEF MarkExpiredRecoveryJobs, TypeOK
  <1>12. ASSUME NEW c \in Clients, Rollback(c) PROVE TypeOK'
    BY <1>12, EndType DEF Rollback, TypeOK
  <1>13. CASE Tick
    BY <1>13 DEF Tick, TypeOK
  <1>14. CASE UNCHANGED vars
    BY <1>14 DEF vars, TypeOK
  <1>15. QED
    BY <1>1, <1>2, <1>2b, <1>3, <1>4, <1>5, <1>6, <1>7, <1>8, <1>9, <1>10, <1>11, <1>12,
       <1>13, <1>14 DEF Next, HandOffNext, WindowChangeNext, ReviewNext, IncidentNext

\* Type correctness: every reachable state of the workflow is well typed.
THEOREM TypeCorrect == Spec => []TypeOK
  <1>1. Init => TypeOK
    BY DEF Init, TypeOK, MissionStatus, JobStatus, WindowStatus, ReportStatus, TxState
  <1>2. TypeOK /\ [Next]_vars => TypeOK'
    BY TypeStep
  <1>3. QED
    BY <1>1, <1>2, PTL DEF Spec

(***************************************************************************)
(* Versions                                                                *)
(***************************************************************************)

\* Every step keeps absent rows at version 0 and changes no row without
\* raising its version by exactly one.
LEMMA RowsStep ==
  ASSUME TypeOK, AbsentRows, [Next]_vars
  PROVE  AbsentRows' /\ RowStep
  <1> USE DEF missionVars, jobVars, winVars, RowStep, VersionStep, AbsentRows, TypeOK
  <1>1. ASSUME NEW m \in Missions, CreateSurveyMission(m) PROVE AbsentRows' /\ RowStep
    BY <1>1 DEF CreateSurveyMission
  <1>2. ASSUME NEW j \in Jobs, CreateRecoveryJob(j) PROVE AbsentRows' /\ RowStep
    BY <1>2 DEF CreateRecoveryJob, Creatable, InsertJobs
  <1>2b. ASSUME NEW js \in SUBSET Jobs, CreateRecoveryJobsBulk(js)
         PROVE AbsentRows' /\ RowStep
    BY <1>2b DEF CreateRecoveryJobsBulk, Creatable, InsertJobs
  <1>3. ASSUME NEW j \in Jobs, ActivationRecoveryJob(j) \/ AcceptRecoveryJob(j)
        PROVE AbsentRows' /\ RowStep
    BY <1>3 DEF ActivationRecoveryJob, AcceptRecoveryJob, HandOff, MoveJob
  <1>4. ASSUME NEW c \in Clients, CommitAdvance(c) PROVE AbsentRows' /\ RowStep
    <2>1. tx[c] \in AdvanceTx
      BY <1>4, TxKinds DEF CommitAdvance, AdvanceMission
    <2>2. QED
      BY <1>4, <2>1 DEF CommitAdvance, AdvanceMission, AdvanceTx
  <1>5. ASSUME NEW c \in Clients, CommitComplete(c) \/ CommitArchive(c)
        PROVE AbsentRows' /\ RowStep
    <2>1. tx[c] \in MoveTx
      BY <1>5, TxKinds DEF CommitComplete, CommitArchive
    <2>2. QED
      BY <1>5, <2>1 DEF CommitComplete, CommitArchive, MoveJob, MoveTx
  <1>6. ASSUME NEW c \in Clients, CommitDiveWindow(c) PROVE AbsentRows' /\ RowStep
    <2>1. tx[c] \in AttachTx
      BY <1>6, TxKinds DEF CommitDiveWindow
    <2>2. QED
      BY <1>6, <2>1 DEF CommitDiveWindow, MoveJobs, AttachTx
  <1>7. ASSUME NEW c \in Clients, CommitCancel(c) PROVE AbsentRows' /\ RowStep
    <2>1. tx[c] \in CancelTx
      BY <1>7, TxKinds DEF CommitCancel
    <2>2. QED
      BY <1>7, <2>1 DEF CommitCancel, MoveJobs, CancelTx
  <1>8. ASSUME NEW w \in Windows, StartDiveWindow(w) \/ CompleteDiveWindow(w)
        PROVE AbsentRows' /\ RowStep
    <2>1. PICK next \in {"running", "completed"}, from \in {"queued", "running"},
               action \in {"start", "complete"} :
            ChangeDiveWindow(w, from, next, action)
      BY <1>8 DEF StartDiveWindow, CompleteDiveWindow
    <2>2. QED
      BY <2>1 DEF ChangeDiveWindow
  <1>9. ASSUME NEW j \in Jobs, NEW w \in Windows, NEW verdict \in {"verified", "rejected"},
               ReviewSignalRecoveryReport(j, w, verdict)
        PROVE AbsentRows' /\ RowStep
    BY <1>9 DEF ReviewSignalRecoveryReport, ReviewRecord, MoveJob
  <1>10. ASSUME NEW js \in SUBSET Jobs, MarkExpiredRecoveryJobs(js)
         PROVE AbsentRows' /\ RowStep
    BY <1>10 DEF MarkExpiredRecoveryJobs, MoveJobs
  <1>11. CASE UNCHANGED <<missionVars, jobVars, winVars>>
    BY <1>11
  <1>12. QED
    BY <1>1, <1>2, <1>2b, <1>3, <1>4, <1>5, <1>6, <1>7, <1>8, <1>9, <1>10, <1>11
    DEF Next, HandOffNext, WindowChangeNext, ReviewNext, IncidentNext, MissionNext,
        JobNext, WindowNext, ReportNext, BeginAdvance, BeginMove, BeginDiveWindow,
        BeginCancel, BeginSubmit, CommitSubmit, OpenIntegrityIncident,
        MarkIntegrityIncidentInProgress, CloseIntegrityIncident, MoveIncident, Rollback,
        Tick, vars

\* Optimistic locking is sound: no committed transaction, bulk updates
\* included, changes the status of a row without raising its version by one.
THEOREM VersionsGrow == Spec => VersionedWrites
  <1>1. Init => TypeOK /\ AbsentRows
    BY
    DEF Init, TypeOK, AbsentRows, MissionStatus, JobStatus, WindowStatus, ReportStatus,
        TxState
  <1>2. TypeOK /\ AbsentRows /\ [Next]_vars => TypeOK' /\ AbsentRows' /\ RowStep
    BY TypeStep, RowsStep
  <1>3. QED
    BY <1>1, <1>2, PTL DEF Spec, VersionedWrites

(***************************************************************************)
(* Checks made on unlocked reads                                           *)
(***************************************************************************)

\* What a step does to the record of a client's transaction: nothing, its
\* end, or a new transaction that has just read the rows it names.
BegunAdvance(c) ==
  \E m \in Missions, next \in {"scheduled", "active", "closed"} :
    \E v \in ClientVersions(missionVersion[m]) :
      /\ MissionCanMoveTo(missionStatus[m], next)
      /\ tx'[c] = [kind |-> "advance", mission |-> m, next |-> next, version |-> v]

BegunMove(c) ==
  \E j \in Jobs, next \in {"completed", "archived"} :
    \E v \in ClientVersions(jobVersion[j]) :
      /\ JobCanMoveTo(jobStatus[j], next)
      /\ tx'[c] = [kind |-> "move", job |-> j, next |-> next, version |-> v]

BegunAttach(c) ==
  \E w \in Windows, js \in SUBSET Jobs :
    tx'[c] = [kind |-> "attach", window |-> w, jobs |-> js, begun |-> now]

BegunCancel(c) ==
  \E w \in Windows : \E v \in ClientVersions(winVersion[w]) :
    /\ LiveWindow(w)
    /\ tx'[c] = [kind |-> "cancel", window |-> w, version |-> v,
                 jobs |-> Restored(items[w])]

BegunSubmit(c) ==
  \E j \in Jobs, w \in Windows :
    /\ j \in items[w]
    /\ tx'[c] = [kind |-> "submit", window |-> w, job |-> j]

TxBegun(c) ==
  /\ UNCHANGED <<missionVars, installs, jobVars, winVars, repStatus>>
  /\ BegunAdvance(c) \/ BegunMove(c) \/ BegunAttach(c) \/ BegunCancel(c) \/ BegunSubmit(c)

TxStep(c) == tx'[c] = tx[c] \/ tx'[c] = Idle \/ TxBegun(c)

\* Every step does one of these three to every client's transaction.
LEMMA TxSteps ==
  ASSUME TypeOK, [Next]_vars, NEW c \in Clients
  PROVE  TxStep(c)
  <1> USE DEF TxStep, TypeOK
  <1>1. ASSUME NEW d \in Clients, End(d) PROVE TxStep(c)
    BY <1>1 DEF End
  <1>2. ASSUME NEW d \in Clients, NEW m \in Missions,
               NEW next \in {"scheduled", "active", "closed"},
               NEW v \in ClientVersions(missionVersion[m]), BeginAdvance(d, m, next, v)
        PROVE TxStep(c)
    BY <1>2 DEF BeginAdvance, Begin, TxBegun, BegunAdvance
  <1>3. ASSUME NEW d \in Clients, NEW j \in Jobs, NEW next \in {"completed", "archived"},
               NEW v \in ClientVersions(jobVersion[j]), BeginMove(d, j, next, v)
        PROVE TxStep(c)
    BY <1>3 DEF BeginMove, MoveAllowed, Begin, TxBegun, BegunMove
  <1>4. ASSUME NEW d \in Clients, NEW w \in Windows, NEW js \in SUBSET Jobs,
               BeginDiveWindow(d, w, js)
        PROVE TxStep(c)
    BY <1>4 DEF BeginDiveWindow, Begin, TxBegun, BegunAttach
  <1>5. ASSUME NEW d \in Clients, NEW w \in Windows,
               NEW v \in ClientVersions(winVersion[w]), BeginCancel(d, w, v)
        PROVE TxStep(c)
    BY <1>5 DEF BeginCancel, Begin, TxBegun, BegunCancel
  <1>6. ASSUME NEW d \in Clients, NEW j \in Jobs, NEW w \in Windows, BeginSubmit(d, j, w)
        PROVE TxStep(c)
    BY <1>6 DEF BeginSubmit, Begin, TxBegun, BegunSubmit
  <1>7. CASE UNCHANGED tx
    BY <1>7
  <1>8. QED
    BY <1>1, <1>2, <1>3, <1>4, <1>5, <1>6, <1>7
    DEF Next, HandOffNext, WindowChangeNext, ReviewNext, IncidentNext, MissionNext,
        JobNext, WindowNext, ReportNext, CreateSurveyMission, CreateRecoveryJob,
        CreateRecoveryJobsBulk, ActivationRecoveryJob, AcceptRecoveryJob, HandOff,
        CommitAdvance, CommitComplete, CommitArchive, CommitDiveWindow, CommitCancel,
        CommitSubmit, StartDiveWindow, CompleteDiveWindow, ChangeDiveWindow,
        ReviewSignalRecoveryReport, OpenIntegrityIncident,
        MarkIntegrityIncidentInProgress, CloseIntegrityIncident, MoveIncident,
        MarkExpiredRecoveryJobs, Rollback, Tick, vars

\* When clients send versions they were shown, an unlocked read whose version
\* still matches is not stale.
LEMMA FreshStep ==
  ASSUME MaxLead = 0, TypeOK, AbsentRows, FreshReads, [Next]_vars
  PROVE  FreshReads'
  <1>1. RowStep /\ TypeOK'
    BY RowsStep, TypeStep
  <1>2. SUFFICES ASSUME NEW c \in Clients
        PROVE /\ tx'[c].kind = "advance" =>
                   /\ tx'[c].version <= missionVersion'[tx'[c].mission]
                   /\ tx'[c].version = missionVersion'[tx'[c].mission] =>
                        MissionCanMoveTo(missionStatus'[tx'[c].mission], tx'[c].next)
              /\ tx'[c].kind = "move" =>
                   /\ tx'[c].version <= jobVersion'[tx'[c].job]
                   /\ tx'[c].version = jobVersion'[tx'[c].job] =>
                        JobCanMoveTo(jobStatus'[tx'[c].job], tx'[c].next)
    BY DEF FreshReads
  <1>3. TxStep(c)
    BY TxSteps
  <1>4. CASE tx'[c] = tx[c]
    <2>1. CASE tx[c].kind = "advance"
      <3>1. tx[c] \in AdvanceTx
        BY <2>1, TxKinds
      <3>2. QED
        BY <1>1, <1>4, <2>1, <3>1 DEF FreshReads, RowStep, VersionStep, TypeOK, AdvanceTx
    <2>2. CASE tx[c].kind = "move"
      <3>1. tx[c] \in MoveTx
        BY <2>2, TxKinds
      <3>2. QED
        BY <1>1, <1>4, <2>2, <3>1 DEF FreshReads, RowStep, VersionStep, TypeOK, MoveTx
    <2>3. QED
      BY <1>4, <2>1, <2>2
  <1>5. CASE tx'[c] = Idle
    BY <1>5 DEF Idle
  <1>6. CASE TxBegun(c)
    <2>1. \A n \in Nat : \A v \in ClientVersions(n) : v = n
      BY DEF ClientVersions
    <2>2. UNCHANGED <<missionStatus, missionVersion, jobStatus, jobVersion>>
      BY <1>6 DEF TxBegun, missionVars, jobVars
    <2>3. CASE BegunAdvance(c)
      <3>1. PICK m \in Missions, next \in {"scheduled", "active", "closed"} :
              \E v \in ClientVersions(missionVersion[m]) :
                /\ MissionCanMoveTo(missionStatus[m], next)
                /\ tx'[c] = [kind |-> "advance", mission |-> m, next |-> next, version |-> v]
        BY <2>3 DEF BegunAdvance
      <3>2. tx'[c].mission = m /\ tx'[c].next = next
        BY <3>1
      <3>3. tx'[c].version = missionVersion[m] /\ missionVersion[m] \in Nat
        BY <2>1, <3>1 DEF TypeOK
      <3>4. QED
        BY <2>2, <2>3, <3>1, <3>2, <3>3
    <2>4. CASE BegunMove(c)
      <3>1. PICK j \in Jobs, next \in {"completed", "archived"} :
              \E v \in ClientVersions(jobVersion[j]) :
                /\ JobCanMoveTo(jobStatus[j], next)
                /\ tx'[c] = [kind |-> "move", job |-> j, next |-> next, version |-> v]
        BY <2>4 DEF BegunMove
      <3>2. tx'[c].job = j /\ tx'[c].next = next
        BY <3>1
      <3>3. tx'[c].version = jobVersion[j] /\ jobVersion[j] \in Nat
        BY <2>1, <3>1 DEF TypeOK
      <3>4. QED
        BY <2>2, <2>4, <3>1, <3>2, <3>3
    <2>5. CASE BegunAttach(c) \/ BegunCancel(c) \/ BegunSubmit(c)
      <3>1. BegunAttach(c) => tx'[c].kind = "attach"
        BY DEF BegunAttach
      <3>2. BegunCancel(c) => tx'[c].kind = "cancel"
        BY DEF BegunCancel
      <3>3. BegunSubmit(c) => tx'[c].kind = "submit"
        BY DEF BegunSubmit
      <3>4. QED
        BY <2>5, <3>1, <3>2, <3>3
    <2>6. QED
      BY <1>6, <2>3, <2>4, <2>5 DEF TxBegun
  <1>7. QED
    BY <1>3, <1>4, <1>5, <1>6 DEF TxStep

\* The UPDATE of a checked move is applied to a row from which it is legal.
LEMMA CheckedMoveStep ==
  ASSUME TypeOK, AbsentRows, FreshReads, [Next]_vars
  PROVE  CheckedMove
  <1> USE DEF CheckedMove, TypeOK, missionVars, jobVars, winVars
  <1>1. ASSUME NEW m \in Missions, CreateSurveyMission(m) PROVE CheckedMove
    BY <1>1 DEF CreateSurveyMission
  <1>2. ASSUME NEW j \in Jobs, CreateRecoveryJob(j) PROVE CheckedMove
    BY <1>2 DEF CreateRecoveryJob, Creatable, InsertJobs
  <1>2b. ASSUME NEW js \in SUBSET Jobs, CreateRecoveryJobsBulk(js) PROVE CheckedMove
    BY <1>2b DEF CreateRecoveryJobsBulk, Creatable, InsertJobs
  <1>3. ASSUME NEW j \in Jobs, ActivationRecoveryJob(j) \/ AcceptRecoveryJob(j)
        PROVE CheckedMove
    BY <1>3 DEF ActivationRecoveryJob, AcceptRecoveryJob, HandOff, MoveJob
  <1>4. ASSUME NEW c \in Clients, CommitAdvance(c) PROVE CheckedMove
    <2>1. tx[c] \in AdvanceTx
      BY <1>4, TxKinds DEF CommitAdvance, AdvanceMission
    <2>2. MissionCanMoveTo(missionStatus[tx[c].mission], tx[c].next)
      BY <1>4, <2>1 DEF CommitAdvance, AdvanceMission, FreshReads
    <2>3. QED
      BY <1>4, <2>1, <2>2 DEF CommitAdvance, AdvanceMission, AdvanceTx
  <1>5. ASSUME NEW c \in Clients, CommitComplete(c) \/ CommitArchive(c)
        PROVE CheckedMove
    <2>1. tx[c] \in MoveTx
      BY <1>5, TxKinds DEF CommitComplete, CommitArchive
    <2>2. JobCanMoveTo(jobStatus[tx[c].job], tx[c].next)
      BY <1>5, <2>1 DEF CommitComplete, CommitArchive, VersionMatches, FreshReads
    <2>3. QED
      BY <1>5, <2>1, <2>2 DEF CommitComplete, CommitArchive, MoveJob, MoveTx
  <1>6. ASSUME NEW c \in Clients, CommitDiveWindow(c) \/ CommitCancel(c) PROVE CheckedMove
    BY <1>6 DEF CommitDiveWindow, CommitCancel, MoveJobs
  <1>7. ASSUME NEW j \in Jobs, NEW w \in Windows, NEW verdict \in {"verified", "rejected"},
               ReviewSignalRecoveryReport(j, w, verdict)
        PROVE CheckedMove
    BY <1>7 DEF ReviewSignalRecoveryReport, ReviewRecord, MoveJob
  <1>8. ASSUME NEW js \in SUBSET Jobs, MarkExpiredRecoveryJobs(js) PROVE CheckedMove
    BY <1>8 DEF MarkExpiredRecoveryJobs, MoveJobs
  <1>9. CASE UNCHANGED <<missionVars, jobVars>>
    BY <1>9
  <1>10. QED
    BY <1>1, <1>2, <1>2b, <1>3, <1>4, <1>5, <1>6, <1>7, <1>8, <1>9
    DEF Next, HandOffNext, WindowChangeNext, ReviewNext, IncidentNext, MissionNext,
        JobNext, WindowNext, ReportNext, BeginAdvance, BeginMove, BeginDiveWindow,
        BeginCancel, BeginSubmit, CommitSubmit, StartDiveWindow, CompleteDiveWindow,
        ChangeDiveWindow, OpenIntegrityIncident, MarkIntegrityIncidentInProgress,
        CloseIntegrityIncident, MoveIncident, Rollback, Tick, vars

\* When clients send only versions they were shown, completing, archiving and
\* advancing are legal moves at the moment they are applied, whatever other
\* clients did since the row was read without a lock.
THEOREM ChecksHold == MaxLead = 0 => (Spec => CheckedMovesLegal)
  <1> DEFINE I == TypeOK /\ AbsentRows /\ FreshReads
  <1> SUFFICES ASSUME MaxLead = 0 PROVE Spec => CheckedMovesLegal
    OBVIOUS
  <1>1. Init => I
    BY
    DEF Init, TypeOK, AbsentRows, FreshReads, MissionStatus, JobStatus, WindowStatus,
        ReportStatus, TxState, Idle
  <1>2. I /\ [Next]_vars => I'
    BY TypeStep, RowsStep, FreshStep
  <1>3. I /\ [Next]_vars => CheckedMove
    BY CheckedMoveStep
  <1> HIDE DEF I
  <1>4. QED
    BY <1>1, <1>2, <1>3, PTL DEF Spec, CheckedMovesLegal

(***************************************************************************)
(* Windows and their reports                                               *)
(***************************************************************************)

\* What a step may do to a window and to a report.
WindowStep(w) ==
  \/ winStatus'[w] = winStatus[w] /\ items'[w] = items[w]
  \/ winStatus[w] = "absent" /\ winStatus'[w] = "queued"
  \/ /\ WindowCanMoveTo(winStatus[w], winStatus'[w])
     /\ items'[w] = items[w]
     /\ winStatus'[w] = "completed" => \A j \in items[w] : Reviewed(j, w)

ReportStep(j, w) ==
  \/ repStatus'[<<j, w>>] = repStatus[<<j, w>>]
  \/ /\ repStatus[<<j, w>>] = "absent" /\ repStatus'[<<j, w>>] = "pending"
     /\ j \in items[w]
  \/ /\ repStatus[<<j, w>>] = "pending"
     /\ repStatus'[<<j, w>>] \in {"verified", "rejected"}
     /\ jobStatus'[j] = repStatus'[<<j, w>>]

\* Every step moves a window along its machine and completes it only when its
\* reports are reviewed.
LEMMA WindowSteps ==
  ASSUME TypeOK, [Next]_vars, NEW w \in Windows
  PROVE  WindowStep(w)
  <1> USE DEF TypeOK, WindowStep, WindowCanMoveTo, winVars
  <1>1. ASSUME NEW c \in Clients, CommitDiveWindow(c) PROVE WindowStep(w)
    <2>1. tx[c] \in AttachTx
      BY <1>1, TxKinds DEF CommitDiveWindow
    <2>2. QED
      BY <1>1, <2>1 DEF CommitDiveWindow, AttachTx
  <1>2. ASSUME NEW c \in Clients, CommitCancel(c) PROVE WindowStep(w)
    <2>1. tx[c] \in CancelTx
      BY <1>2, TxKinds DEF CommitCancel
    <2>2. QED
      BY <1>2, <2>1 DEF CommitCancel, CancelTx, LiveWindow
  <1>3. ASSUME NEW u \in Windows, StartDiveWindow(u) PROVE WindowStep(w)
    BY <1>3 DEF StartDiveWindow, ChangeDiveWindow
  <1>4. ASSUME NEW u \in Windows, CompleteDiveWindow(u) PROVE WindowStep(w)
    BY <1>4 DEF CompleteDiveWindow, ChangeDiveWindow
  <1>5. CASE UNCHANGED winVars
    BY <1>5
  <1>6. QED
    BY <1>1, <1>2, <1>3, <1>4, <1>5
    DEF Next, HandOffNext, WindowChangeNext, ReviewNext, IncidentNext, MissionNext,
        JobNext, WindowNext, ReportNext, CreateSurveyMission, CreateRecoveryJob,
        CreateRecoveryJobsBulk, ActivationRecoveryJob, AcceptRecoveryJob, HandOff,
        BeginAdvance, CommitAdvance, BeginMove, CommitComplete, CommitArchive,
        BeginDiveWindow, BeginCancel, BeginSubmit, CommitSubmit,
        ReviewSignalRecoveryReport, OpenIntegrityIncident,
        MarkIntegrityIncidentInProgress, CloseIntegrityIncident, MoveIncident,
        MarkExpiredRecoveryJobs, Rollback, Tick, vars

\* Every step adds a report only for a job of the window, and a review takes
\* the job along.
LEMMA ReportSteps ==
  ASSUME TypeOK, ReportsBelong, [Next]_vars, NEW j \in Jobs, NEW w \in Windows
  PROVE  ReportStep(j, w)
  <1> USE DEF TypeOK, ReportStep
  <1>1. ASSUME NEW c \in Clients, CommitSubmit(c) PROVE ReportStep(j, w)
    <2>1. tx[c] \in SubmitTx
      BY <1>1, TxKinds DEF CommitSubmit
    <2>2. tx[c].job \in items[tx[c].window]
      BY <1>1 DEF CommitSubmit, ReportsBelong
    <2>3. QED
      BY <1>1, <2>1, <2>2 DEF CommitSubmit, SubmitTx
  <1>2. ASSUME NEW i \in Jobs, NEW u \in Windows, NEW verdict \in {"verified", "rejected"},
               ReviewSignalRecoveryReport(i, u, verdict)
        PROVE ReportStep(j, w)
    BY <1>2 DEF ReviewSignalRecoveryReport, ReviewRecord, MoveJob
  <1>3. CASE UNCHANGED repStatus
    BY <1>3
  <1>4. QED
    BY <1>1, <1>2, <1>3
    DEF Next, HandOffNext, WindowChangeNext, ReviewNext, IncidentNext, MissionNext,
        JobNext, WindowNext, ReportNext, CreateSurveyMission, CreateRecoveryJob,
        CreateRecoveryJobsBulk, ActivationRecoveryJob, AcceptRecoveryJob, HandOff,
        BeginAdvance, CommitAdvance, BeginMove, CommitComplete, CommitArchive,
        BeginDiveWindow, CommitDiveWindow, BeginCancel, CommitCancel, BeginSubmit,
        StartDiveWindow, CompleteDiveWindow, ChangeDiveWindow, OpenIntegrityIncident,
        MarkIntegrityIncidentInProgress, CloseIntegrityIncident, MoveIncident,
        MarkExpiredRecoveryJobs, Rollback, Tick, vars

\* Items are never taken from a window, so reports keep belonging to it.
LEMMA BelongStep ==
  ASSUME TypeOK, AbsentRows, ReportsBelong, [Next]_vars
  PROVE  ReportsBelong'
  <1>1. \A w \in Windows : items[w] \subseteq items'[w]
    BY WindowSteps DEF WindowStep, AbsentRows
  <1>2. ASSUME NEW j \in Jobs, NEW w \in Windows, repStatus'[<<j, w>>] # "absent"
        PROVE j \in items'[w]
    BY <1>1, <1>2, ReportSteps DEF ReportStep, ReportsBelong
  <1>3. ASSUME NEW c \in Clients, tx'[c].kind = "submit"
        PROVE tx'[c].job \in items'[tx'[c].window]
    <2>1. TxStep(c)
      BY TxSteps
    <2>2. CASE tx'[c] = tx[c]
      <3>1. tx[c] \in SubmitTx
        BY <1>3, <2>2, TxKinds
      <3>2. QED
        BY <1>1, <1>3, <2>2, <3>1 DEF ReportsBelong, SubmitTx
    <2>3. CASE tx'[c] = Idle
      BY <1>3, <2>3 DEF Idle
    <2>4. CASE TxBegun(c)
      <3>1. BegunAdvance(c) => tx'[c].kind = "advance"
        BY DEF BegunAdvance
      <3>2. BegunMove(c) => tx'[c].kind = "move"
        BY DEF BegunMove
      <3>3. BegunAttach(c) => tx'[c].kind = "attach"
        BY DEF BegunAttach
      <3>4. BegunCancel(c) => tx'[c].kind = "cancel"
        BY DEF BegunCancel
      <3>5. BegunSubmit(c)
        BY <1>3, <2>4, <3>1, <3>2, <3>3, <3>4 DEF TxBegun
      <3>6. QED
        BY <1>1, <3>5 DEF BegunSubmit
    <2>5. QED
      BY <2>1, <2>2, <2>3, <2>4 DEF TxStep
  <1>4. QED
    BY <1>2, <1>3 DEF ReportsBelong

\* The reports of a completed window stay reviewed.
LEMMA SettledStep ==
  ASSUME TypeOK, AbsentRows, ReportsBelong, CompletedWindowSettled, [Next]_vars
  PROVE  CompletedWindowSettled'
  <1>1. SUFFICES ASSUME NEW w \in Windows, winStatus'[w] = "completed", NEW j \in Jobs
        PROVE IF j \in items'[w] THEN repStatus'[<<j, w>>] \in {"verified", "rejected"}
                                 ELSE repStatus'[<<j, w>>] = "absent"
    BY DEF CompletedWindowSettled
  <1>2. WindowStep(w) /\ ReportStep(j, w)
    BY WindowSteps, ReportSteps
  <1>3. items'[w] = items[w]
    BY <1>1, <1>2 DEF WindowStep
  <1>4. IF j \in items[w] THEN repStatus[<<j, w>>] \in {"verified", "rejected"}
                          ELSE repStatus[<<j, w>>] = "absent"
    BY <1>1, <1>2 DEF WindowStep, Reviewed, ReportsBelong, CompletedWindowSettled
  <1>5. QED
    BY <1>2, <1>3, <1>4 DEF ReportStep

\* Whatever clients do and whatever versions they send, a completed window has
\* a reviewed report for each of its jobs and no other report.
THEOREM WindowsSettle == Spec => []CompletedWindowSettled
  <1> DEFINE I == TypeOK /\ AbsentRows /\ ReportsBelong /\ CompletedWindowSettled
  <1>1. Init => I
    BY
    DEF Init, TypeOK, AbsentRows, ReportsBelong, CompletedWindowSettled, MissionStatus,
        JobStatus, WindowStatus, ReportStatus, TxState, Idle
  <1>2. I /\ [Next]_vars => I'
    BY TypeStep, RowsStep, BelongStep, SettledStep
  <1>3. I => CompletedWindowSettled
    OBVIOUS
  <1> HIDE DEF I
  <1>4. QED
    BY <1>1, <1>2, <1>3, PTL DEF Spec

(***************************************************************************)
(* Jobs and windows, when clients respect the statuses they are shown      *)
(***************************************************************************)

\* What a step may do to a job's status: a legal move; and the three that
\* come with something else, the attachment to a new window, the return from
\* a cancelled one and the expiry.
JobStep(j) ==
  \/ jobStatus'[j] = jobStatus[j]
  \/ jobStatus[j] = "absent" /\ jobStatus'[j] = "queued"
  \/ JobCanMoveTo(jobStatus[j], jobStatus'[j]) /\ jobStatus'[j] # "in_progress"
  \/ /\ jobStatus[j] = "accepted" /\ jobStatus'[j] = "in_progress"
     /\ \E w \in Windows : /\ winStatus[w] = "absent" /\ winStatus'[w] = "queued"
                           /\ j \in items'[w]
  \/ /\ jobStatus[j] = "in_progress" /\ jobStatus'[j] = "accepted"
     /\ \E w \in Windows : /\ LiveWindow(w) /\ winStatus'[w] = "cancelled"
                           /\ j \in items[w]
  \/ jobStatus[j] \in Expirable /\ jobStatus'[j] = "rejected"

\* What the creation and the cancellation of a window do to its jobs.
WindowEffect(w) ==
  /\ winStatus[w] = "absent" /\ winStatus'[w] # "absent" =>
       /\ \A j \in items'[w] : jobStatus[j] = "accepted" /\ jobStatus'[j] = "in_progress"
       /\ \A u \in Windows \ {w} : winStatus'[u] = winStatus[u] /\ items'[u] = items[u]
  /\ winStatus[w] # "cancelled" /\ winStatus'[w] = "cancelled" =>
       \A j \in items[w] : jobStatus[j] = "in_progress" => jobStatus'[j] = "accepted"

\* Every step of disciplined clients and of the reconciler is such a step.
LEMMA JobSteps ==
  ASSUME Disciplined = TRUE, TypeOK, FreshReads, SnapshotCovers, [Next]_vars,
         NEW j \in Jobs
  PROVE  JobStep(j)
  <1> USE DEF TypeOK, jobVars
  <1>1. ASSUME NEW i \in Jobs, CreateRecoveryJob(i) PROVE JobStep(j)
    BY <1>1 DEF CreateRecoveryJob, Creatable, InsertJobs, JobStep
  <1>1b. ASSUME NEW js \in SUBSET Jobs, CreateRecoveryJobsBulk(js) PROVE JobStep(j)
    BY <1>1b DEF CreateRecoveryJobsBulk, Creatable, InsertJobs, JobStep
  <1>2. ASSUME NEW i \in Jobs, ActivationRecoveryJob(i) \/ AcceptRecoveryJob(i)
        PROVE JobStep(j)
    BY <1>2
    DEF ActivationRecoveryJob, AcceptRecoveryJob, HandOff, ClientPermits, MoveJob,
        JobStep
  <1>3. ASSUME NEW c \in Clients, CommitComplete(c) \/ CommitArchive(c)
        PROVE JobStep(j)
    <2>1. tx[c] \in MoveTx
      BY <1>3, TxKinds DEF CommitComplete, CommitArchive
    <2>2. JobCanMoveTo(jobStatus[tx[c].job], tx[c].next)
      BY <1>3, <2>1 DEF CommitComplete, CommitArchive, VersionMatches, FreshReads
    <2>3. QED
      BY <1>3, <2>1, <2>2 DEF CommitComplete, CommitArchive, MoveJob, MoveTx, JobStep
  <1>4. ASSUME NEW c \in Clients, CommitDiveWindow(c) PROVE JobStep(j)
    <2>1. tx[c] \in AttachTx
      BY <1>4, TxKinds DEF CommitDiveWindow
    <2>2. CASE j \in tx[c].jobs
      <3>1. jobStatus[j] = "accepted" /\ jobStatus'[j] = "in_progress"
        BY <1>4, <2>2 DEF CommitDiveWindow, Attachable, MoveJobs
      <3>2. /\ tx[c].window \in Windows /\ winStatus[tx[c].window] = "absent"
            /\ winStatus'[tx[c].window] = "queued" /\ j \in items'[tx[c].window]
        BY <1>4, <2>1, <2>2 DEF CommitDiveWindow, AttachTx
      <3>3. QED
        BY <3>1, <3>2 DEF JobStep
    <2>3. CASE j \notin tx[c].jobs
      BY <1>4, <2>3 DEF CommitDiveWindow, MoveJobs, JobStep
    <2>4. QED
      BY <2>2, <2>3
  <1>5. ASSUME NEW c \in Clients, CommitCancel(c) PROVE JobStep(j)
    <2>1. tx[c] \in CancelTx
      BY <1>5, TxKinds DEF CommitCancel
    <2>2. CASE j \in Restored(tx[c].jobs)
      <3>1. jobStatus[j] = "in_progress" /\ jobStatus'[j] = "accepted"
        BY <1>5, <2>2 DEF CommitCancel, Restored, MoveJobs
      <3>2. tx[c].window \in Windows /\ j \in items[tx[c].window]
        BY <1>5, <2>1, <2>2 DEF CommitCancel, CancelTx, Restored, SnapshotCovers
      <3>3. LiveWindow(tx[c].window) /\ winStatus'[tx[c].window] = "cancelled"
        BY <1>5, <3>2 DEF CommitCancel
      <3>4. QED
        BY <3>1, <3>2, <3>3 DEF JobStep
    <2>3. CASE j \notin Restored(tx[c].jobs)
      BY <1>5, <2>3 DEF CommitCancel, MoveJobs, JobStep
    <2>4. QED
      BY <2>2, <2>3
  <1>6. ASSUME NEW i \in Jobs, NEW w \in Windows, NEW verdict \in {"verified", "rejected"},
               ReviewSignalRecoveryReport(i, w, verdict)
        PROVE JobStep(j)
    BY <1>6 DEF ReviewSignalRecoveryReport, ReviewRecord, ClientPermits, MoveJob, JobStep
  <1>7. ASSUME NEW js \in SUBSET Jobs, MarkExpiredRecoveryJobs(js) PROVE JobStep(j)
    BY <1>7 DEF MarkExpiredRecoveryJobs, MoveJobs, JobStep
  <1>8. CASE UNCHANGED jobVars
    BY <1>8 DEF JobStep
  <1>9. QED
    BY <1>1, <1>1b, <1>2, <1>3, <1>4, <1>5, <1>6, <1>7, <1>8
    DEF Next, HandOffNext, WindowChangeNext, ReviewNext, IncidentNext, MissionNext,
        JobNext, WindowNext, ReportNext, CreateSurveyMission, BeginAdvance,
        CommitAdvance, BeginMove, BeginDiveWindow, BeginCancel, BeginSubmit,
        CommitSubmit, StartDiveWindow, CompleteDiveWindow, ChangeDiveWindow,
        OpenIntegrityIncident, MarkIntegrityIncidentInProgress, CloseIntegrityIncident,
        MoveIncident, Rollback, Tick, vars

\* A new window takes all its jobs from "accepted", and a cancelled one gives
\* back all that are in progress.
LEMMA WindowEffects ==
  ASSUME TypeOK, SnapshotCovers, [Next]_vars, NEW w \in Windows
  PROVE  WindowEffect(w)
  <1> USE DEF TypeOK, WindowEffect, winVars
  <1>1. ASSUME NEW c \in Clients, CommitDiveWindow(c) PROVE WindowEffect(w)
    <2>1. tx[c] \in AttachTx
      BY <1>1, TxKinds DEF CommitDiveWindow
    <2>2. QED
      BY <1>1, <2>1 DEF CommitDiveWindow, Attachable, MoveJobs, AttachTx
  <1>2. ASSUME NEW c \in Clients, CommitCancel(c) PROVE WindowEffect(w)
    <2>1. tx[c] \in CancelTx
      BY <1>2, TxKinds DEF CommitCancel
    <2>2. \A j \in items[tx[c].window] :
            jobStatus[j] = "in_progress" => j \in Restored(tx[c].jobs)
      BY <1>2, <2>1 DEF CommitCancel, SnapshotCovers, Restored
    <2>3. QED
      BY <1>2, <2>1, <2>2 DEF CommitCancel, MoveJobs, CancelTx, LiveWindow
  <1>3. ASSUME NEW u \in Windows, StartDiveWindow(u) PROVE WindowEffect(w)
    BY <1>3 DEF StartDiveWindow, ChangeDiveWindow
  <1>4. ASSUME NEW u \in Windows, CompleteDiveWindow(u) PROVE WindowEffect(w)
    BY <1>4 DEF CompleteDiveWindow, ChangeDiveWindow
  <1>5. CASE UNCHANGED winVars
    BY <1>5
  <1>6. QED
    BY <1>1, <1>2, <1>3, <1>4, <1>5
    DEF Next, HandOffNext, WindowChangeNext, ReviewNext, IncidentNext, MissionNext,
        JobNext, WindowNext, ReportNext, CreateSurveyMission, CreateRecoveryJob,
        CreateRecoveryJobsBulk, ActivationRecoveryJob, AcceptRecoveryJob, HandOff,
        BeginAdvance, CommitAdvance, BeginMove, CommitComplete, CommitArchive,
        BeginDiveWindow, BeginCancel, BeginSubmit, CommitSubmit,
        ReviewSignalRecoveryReport, OpenIntegrityIncident,
        MarkIntegrityIncidentInProgress, CloseIntegrityIncident, MoveIncident,
        MarkExpiredRecoveryJobs, Rollback, Tick, vars

\* The inductive step: the parts of WorkflowInv keep each other.
LEMMA WorkflowStep ==
  ASSUME Disciplined = TRUE, MaxLead = 0, TypeOK, WorkflowInv, [Next]_vars
  PROVE  WorkflowInv'
  <1> USE DEF WorkflowInv
  <1>1. AbsentRows' /\ ReportsBelong' /\ FreshReads'
    BY RowsStep, BelongStep, FreshStep
  <1>2. /\ \A j \in Jobs : JobStep(j)
        /\ \A w \in Windows : WindowStep(w) /\ WindowEffect(w)
        /\ \A j \in Jobs, w \in Windows : ReportStep(j, w)
    BY JobSteps, WindowSteps, WindowEffects, ReportSteps
  <1>3. \A w \in Windows : items[w] \in SUBSET Jobs /\ items'[w] \in SUBSET Jobs
    BY TypeStep DEF TypeOK
  <1>4. \* a window that is live after the step was live or is new
        \A w \in Windows :
          LiveWindow(w)' =>
            \/ LiveWindow(w) /\ items'[w] = items[w]
            \/ winStatus[w] = "absent" /\ winStatus'[w] = "queued"
    BY <1>2 DEF LiveWindow, WindowStep, WindowCanMoveTo
  <1>5. LiveItems'
    <2>1. SUFFICES ASSUME NEW w \in Windows, LiveWindow(w)', NEW j \in items'[w]
          PROVE jobStatus'[j] \in {"in_progress", "verified", "rejected", "archived"}
      BY DEF LiveItems
    <2>2. j \in Jobs
      BY <1>3, <2>1
    <2>3. CASE winStatus[w] = "absent"
      BY <1>2, <2>1, <2>3 DEF WindowEffect, LiveWindow
    <2>4. CASE LiveWindow(w) /\ items'[w] = items[w]
      <3>1. jobStatus[j] \in {"in_progress", "verified", "rejected", "archived"}
        BY <2>1, <2>4 DEF LiveItems
      <3>2. ASSUME NEW u \in Windows, LiveWindow(u), winStatus'[u] = "cancelled", j \in items[u]
            PROVE FALSE
        BY <2>1, <2>4, <3>2 DEF OneLiveWindow, LiveWindow
      <3>3. QED
        BY <1>2, <2>2, <3>1, <3>2 DEF JobStep, JobCanMoveTo
    <2>5. QED
      BY <1>4, <2>1, <2>3, <2>4
  <1>6. OneLiveWindow'
    <2>1. SUFFICES ASSUME NEW w1 \in Windows, NEW w2 \in Windows,
                          LiveWindow(w1)', LiveWindow(w2)', NEW j \in items'[w1] \cap items'[w2],
                          w1 # w2
          PROVE FALSE
      BY DEF OneLiveWindow
    <2>2. ASSUME NEW u \in {w1, w2}, NEW v \in {w1, w2}, u # v, winStatus[u] = "absent"
          PROVE FALSE
      <3>1. winStatus'[u] # "absent" /\ j \in items'[u] /\ v \in Windows \ {u}
        BY <2>1, <2>2 DEF LiveWindow
      <3>2. jobStatus[j] = "accepted" /\ winStatus'[v] = winStatus[v] /\ items'[v] = items[v]
        BY <1>2, <2>1, <2>2, <3>1 DEF WindowEffect
      <3>3. LiveWindow(v) /\ j \in items[v]
        BY <2>1, <2>2, <3>2 DEF LiveWindow
      <3>4. QED
        BY <2>1, <2>2, <3>2, <3>3 DEF LiveItems
    <2>3. LiveWindow(w1) /\ LiveWindow(w2) /\ j \in items[w1] \cap items[w2]
      BY <1>4, <2>1, <2>2
    <2>4. QED
      BY <2>1, <2>3 DEF OneLiveWindow
  <1>7. VerdictMatchesJob'
    <2>1. SUFFICES ASSUME NEW j \in Jobs, NEW w \in Windows,
                          repStatus'[<<j, w>>] \in {"verified", "rejected"}
          PROVE jobStatus'[j] \in {repStatus'[<<j, w>>], "archived"}
      BY DEF VerdictMatchesJob
    <2>2. CASE repStatus'[<<j, w>>] = repStatus[<<j, w>>]
      <3>1. jobStatus[j] \in {repStatus[<<j, w>>], "archived"}
        BY <2>1, <2>2 DEF VerdictMatchesJob
      <3>2. jobStatus'[j] \in {jobStatus[j], "archived"}
        BY <1>2, <2>1, <2>2, <3>1 DEF JobStep, JobCanMoveTo, Expirable
      <3>3. QED
        BY <2>2, <3>1, <3>2
    <2>3. QED
      BY <1>2, <2>1, <2>2 DEF ReportStep
  <1>8. InProgressHasWindow'
    <2>1. SUFFICES ASSUME NEW j \in Jobs, jobStatus'[j] = "in_progress"
          PROVE \E w \in Windows : LiveWindow(w)' /\ j \in items'[w]
      BY DEF InProgressHasWindow
    <2>2. CASE jobStatus[j] = "in_progress"
      <3>1. PICK w \in Windows : LiveWindow(w) /\ j \in items[w]
        BY <2>2 DEF InProgressHasWindow
      <3>2. winStatus'[w] # "cancelled"
        BY <1>2, <2>1, <2>2, <3>1 DEF WindowEffect, LiveWindow
      <3>3. ~Reviewed(j, w)
        BY <2>2 DEF Reviewed, VerdictMatchesJob
      <3>4. LiveWindow(w)' /\ items'[w] = items[w]
        BY <1>2, <3>1, <3>2, <3>3 DEF WindowStep, WindowCanMoveTo, LiveWindow
      <3>5. QED
        BY <3>1, <3>4
    <2>3. CASE jobStatus[j] # "in_progress"
      <3>1. \E w \in Windows : winStatus'[w] = "queued" /\ j \in items'[w]
        BY <1>2, <2>1, <2>3 DEF JobStep
      <3>2. QED
        BY <3>1 DEF LiveWindow
    <2>4. QED
      BY <2>2, <2>3
  <1>9. SnapshotCovers'
    <2>1. SUFFICES ASSUME NEW c \in Clients, tx'[c].kind = "cancel"
          PROVE /\ winStatus'[tx'[c].window] # "absent"
                /\ tx'[c].jobs \subseteq items'[tx'[c].window]
                /\ winStatus'[tx'[c].window] \in {"queued", "running"} =>
                     \A j \in items'[tx'[c].window] :
                       jobStatus'[j] = "in_progress" => j \in tx'[c].jobs
      BY DEF SnapshotCovers, LiveWindow
    <2>2. CASE tx'[c] = tx[c]
      <3>1. PICK w \in Windows : w = tx[c].window
        BY <2>1, <2>2, TxKinds DEF CancelTx
      <3>2. /\ winStatus[w] # "absent" /\ tx[c].jobs \subseteq items[w]
            /\ LiveWindow(w) =>
                 \A j \in items[w] : jobStatus[j] = "in_progress" => j \in tx[c].jobs
        BY <2>1, <2>2, <3>1 DEF SnapshotCovers
      <3>3. winStatus'[w] # "absent" /\ items'[w] = items[w]
        BY <1>2, <3>1, <3>2 DEF WindowStep, WindowCanMoveTo
      <3>4. ASSUME LiveWindow(w)', NEW j \in items[w], jobStatus'[j] = "in_progress"
            PROVE j \in tx[c].jobs
        <4>1. LiveWindow(w) /\ j \in Jobs
          BY <1>3, <1>4, <3>1, <3>2, <3>4
        <4>2. jobStatus[j] = "in_progress"
          BY <1>2, <3>1, <3>4, <4>1 DEF JobStep, LiveItems
        <4>3. QED
          BY <3>2, <4>1, <4>2
      <3>5. QED
        BY <2>2, <3>1, <3>2, <3>3, <3>4 DEF LiveWindow
    <2>3. CASE tx'[c] = Idle
      BY <2>1, <2>3 DEF Idle
    <2>4. CASE TxBegun(c)
      <3>1. BegunAdvance(c) => tx'[c].kind = "advance"
        BY DEF BegunAdvance
      <3>2. BegunMove(c) => tx'[c].kind = "move"
        BY DEF BegunMove
      <3>3. BegunAttach(c) => tx'[c].kind = "attach"
        BY DEF BegunAttach
      <3>4. BegunSubmit(c) => tx'[c].kind = "submit"
        BY DEF BegunSubmit
      <3>5. BegunCancel(c)
        BY <2>1, <2>4, <3>1, <3>2, <3>3, <3>4 DEF TxBegun
      <3>6. PICK w \in Windows : /\ LiveWindow(w) /\ tx'[c].window = w
                                 /\ tx'[c].jobs = Restored(items[w])
        BY <3>5 DEF BegunCancel
      <3>7. UNCHANGED <<winStatus, items, jobStatus>>
        BY <2>4 DEF TxBegun, winVars, jobVars
      <3>8. QED
        BY <3>6, <3>7 DEF Restored, LiveWindow
    <2>5. QED
      BY <2>2, <2>3, <2>4, TxSteps DEF TxStep
  <1>10. QED
    BY <1>1, <1>5, <1>6, <1>7, <1>8, <1>9

\* Clients that respect the statuses they are shown and send the versions they
\* were shown keep open transactions and rows consistent.
THEOREM WorkflowInvariant ==
  Disciplined = TRUE /\ MaxLead = 0 => (Spec => []WorkflowInv)
  <1> SUFFICES ASSUME Disciplined = TRUE, MaxLead = 0 PROVE Spec => []WorkflowInv
    OBVIOUS
  <1>1. Init => TypeOK /\ WorkflowInv
    <2>1. Init => TypeOK
      BY DEF Init, TypeOK, MissionStatus, JobStatus, WindowStatus, ReportStatus, TxState
    <2>2. Init => WorkflowInv
      BY
      DEF Init, WorkflowInv, AbsentRows, ReportsBelong, FreshReads, LiveItems,
          SnapshotCovers, OneLiveWindow, InProgressHasWindow, VerdictMatchesJob,
          LiveWindow, Idle
    <2>3. QED
      BY <2>1, <2>2
  <1>2. TypeOK /\ WorkflowInv /\ [Next]_vars => TypeOK' /\ WorkflowInv'
    BY TypeStep, WorkflowStep
  <1>3. QED
    BY <1>1, <1>2, PTL DEF Spec

\* Then no two live windows share a job, whatever is created and cancelled
\* concurrently; no job stays in progress without a live window; and a reviewed
\* report and its job never disagree.
THEOREM WindowsAndVerdicts ==
  Disciplined = TRUE /\ MaxLead = 0 =>
    (Spec => [](OneLiveWindow /\ InProgressHasWindow /\ VerdictMatchesJob))
  <1>1. WorkflowInv => OneLiveWindow /\ InProgressHasWindow /\ VerdictMatchesJob
    BY DEF WorkflowInv
  <1>2. QED
    BY <1>1, WorkflowInvariant, PTL


(***************************************************************************)
(* Completions and the audit trail                                         *)
(***************************************************************************)

\* CommitComplete is the only step that records a completion, and no step
\* queues a job again.
LEMMA CompletionSteps ==
  ASSUME TypeOK, [Next]_vars
  PROVE  /\ \A j \in Jobs : jobStatus[j] \notin {"absent", "queued"} =>
                              jobStatus'[j] \notin {"absent", "queued"}
         /\ \/ installs' = installs /\ \A j \in Jobs : <<"job", j, "complete">> \in audit'
                                                         <=> <<"job", j, "complete">> \in audit
            \/ \E c \in Clients : CommitComplete(c)
  <1> USE DEF TypeOK, jobVars, WriteAudit
  <1> DEFINE P == /\ \A j \in Jobs : jobStatus[j] \notin {"absent", "queued"} =>
                                       jobStatus'[j] \notin {"absent", "queued"}
                  /\ \/ installs' = installs
                        /\ \A j \in Jobs : <<"job", j, "complete">> \in audit'
                                             <=> <<"job", j, "complete">> \in audit
                     \/ \E c \in Clients : CommitComplete(c)
  <1>1. ASSUME NEW m \in Missions, CreateSurveyMission(m) PROVE P
    BY <1>1 DEF CreateSurveyMission
  <1>2. ASSUME NEW i \in Jobs, CreateRecoveryJob(i) PROVE P
    BY <1>2 DEF CreateRecoveryJob, Creatable, InsertJobs
  <1>3. ASSUME NEW js \in SUBSET Jobs, CreateRecoveryJobsBulk(js) PROVE P
    BY <1>3 DEF CreateRecoveryJobsBulk, Creatable, InsertJobs
  <1>4. ASSUME NEW i \in Jobs, ActivationRecoveryJob(i) \/ AcceptRecoveryJob(i) PROVE P
    BY <1>4 DEF ActivationRecoveryJob, AcceptRecoveryJob, HandOff, MoveJob
  <1>5. ASSUME NEW c \in Clients, CommitAdvance(c) PROVE P
    BY <1>5 DEF CommitAdvance
  <1>6. ASSUME NEW c \in Clients, CommitComplete(c) PROVE P
    BY <1>6 DEF CommitComplete, MoveJob
  <1>7. ASSUME NEW c \in Clients, CommitArchive(c) PROVE P
    BY <1>7 DEF CommitArchive, MoveJob
  <1>8. ASSUME NEW c \in Clients, CommitDiveWindow(c) PROVE P
    BY <1>8 DEF CommitDiveWindow, MoveJobs
  <1>9. ASSUME NEW c \in Clients, CommitCancel(c) PROVE P
    BY <1>9 DEF CommitCancel, MoveJobs
  <1>10. ASSUME NEW c \in Clients, CommitSubmit(c) PROVE P
    BY <1>10 DEF CommitSubmit
  <1>11. ASSUME NEW w \in Windows, StartDiveWindow(w) \/ CompleteDiveWindow(w) PROVE P
    BY <1>11 DEF StartDiveWindow, CompleteDiveWindow, ChangeDiveWindow
  <1>12. ASSUME NEW i \in Jobs, NEW w \in Windows, NEW verdict \in {"verified", "rejected"},
                ReviewSignalRecoveryReport(i, w, verdict)
         PROVE P
    BY <1>12 DEF ReviewSignalRecoveryReport, MoveJob
  <1>13. ASSUME NEW i \in Jobs, OpenIntegrityIncident(i) \/ MarkIntegrityIncidentInProgress(i)
                                \/ CloseIntegrityIncident(i)
         PROVE P
    BY <1>13 DEF OpenIntegrityIncident, MarkIntegrityIncidentInProgress, CloseIntegrityIncident,
                 MoveIncident
  <1>14. ASSUME NEW js \in SUBSET Jobs, MarkExpiredRecoveryJobs(js) PROVE P
    BY <1>14 DEF MarkExpiredRecoveryJobs, MoveJobs
  <1>15. CASE UNCHANGED <<jobStatus, installs, audit>>
    BY <1>15
  <1>16. QED
    BY <1>1, <1>2, <1>3, <1>4, <1>5, <1>6, <1>7, <1>8, <1>9, <1>10, <1>11, <1>12, <1>13, <1>14,
       <1>15
    DEF Next, HandOffNext, WindowChangeNext, ReviewNext, IncidentNext, MissionNext, JobNext,
        WindowNext, ReportNext, BeginAdvance, BeginMove, BeginDiveWindow, BeginCancel,
        BeginSubmit, Rollback, Tick, vars

\* Completing is legal from "queued" only, so each completion is of a job that
\* was not counted before, and the quota is compared under the buoy's lock.
LEMMA InstallsStep ==
  ASSUME TypeOK, FreshReads, InstallsExact, CompletedPast, [Next]_vars
  PROVE  InstallsExact' /\ CompletedPast'
  <1>1. \A j \in Jobs : jobStatus[j] \notin {"absent", "queued"} =>
                          jobStatus'[j] \notin {"absent", "queued"}
    BY CompletionSteps
  <1>2. CASE installs' = installs /\ \A j \in Jobs : <<"job", j, "complete">> \in audit'
                                                       <=> <<"job", j, "complete">> \in audit
    <2>1. \A b \in Buoys : Completions(b)' = Completions(b)
      BY <1>2 DEF Completions
    <2>2. QED
      BY <1>1, <1>2, <2>1 DEF InstallsExact, CompletedPast
  <1>3. ASSUME NEW c \in Clients, CommitComplete(c)
        PROVE InstallsExact' /\ CompletedPast'
    <2>0. tx[c] \in MoveTx
      BY <1>3, TxKinds DEF CommitComplete
    <2>1. PICK i \in Jobs, a \in Buoys : i = tx[c].job /\ a = JobBuoy[i]
      BY <2>0, ConstantsAssumption DEF MoveTx
    <2>2. jobStatus[i] = "queued"
      BY <1>3, <2>1 DEF CommitComplete, VersionMatches, FreshReads, JobCanMoveTo
    <2>3. <<"job", i, "complete">> \notin audit
      BY <2>1, <2>2 DEF CompletedPast
    <2>4. /\ audit' = audit \cup {<<"job", i, "complete">>}
          /\ installs' = [installs EXCEPT ![a] = @ + 1] /\ installs[a] < RequiredSuccesses[a]
          /\ jobStatus'[i] = "completed"
      BY <1>3, <2>1 DEF CommitComplete, WriteAudit, QuotaLeft, MoveJob, TypeOK
    <2>5. \A b \in Buoys :
            Completions(b)' = IF b = a THEN Completions(b) \cup {i} ELSE Completions(b)
      BY <2>1, <2>4 DEF Completions
    <2>6. i \notin Completions(a)
      BY <2>3 DEF Completions
    <2>7. \A b \in Buoys : /\ IsFiniteSet(Completions(b)) /\ installs[b] = Cardinality(Completions(b))
                           /\ installs[b] \in Nat /\ installs[b] <= RequiredSuccesses[b]
                           /\ RequiredSuccesses[b] \in Nat
      BY ConstantsAssumption DEF InstallsExact, CompletedPast, TypeOK
    <2>8. \A j \in Jobs : <<"job", j, "complete">> \in audit' => jobStatus'[j] \notin {"absent", "queued"}
      BY <1>1, <2>4 DEF CompletedPast
    <2>9. ASSUME NEW b \in Buoys
          PROVE /\ IsFiniteSet(Completions(b)') /\ installs'[b] = Cardinality(Completions(b)')
                /\ installs'[b] <= RequiredSuccesses[b]
      <3>1. CASE b = a
        <4>1. /\ IsFiniteSet(Completions(a) \cup {i})
              /\ Cardinality(Completions(a) \cup {i}) = Cardinality(Completions(a)) + 1
          BY <2>1, <2>6, <2>7, FS_AddElement
        <4>2. installs'[a] = installs[a] + 1
          BY <2>1, <2>4 DEF TypeOK
        <4>3. Completions(a)' = Completions(a) \cup {i}
          BY <2>1, <2>5
        <4>4. /\ installs[a] = Cardinality(Completions(a)) /\ installs[a] \in Nat
              /\ installs[a] < RequiredSuccesses[a] /\ RequiredSuccesses[a] \in Nat
          BY <2>1, <2>4, <2>7
        <4>5. /\ IsFiniteSet(Completions(a)') /\ installs'[a] = Cardinality(Completions(a)')
              /\ installs'[a] <= RequiredSuccesses[a]
          BY <4>1, <4>2, <4>3, <4>4
        <4>6. QED
          BY <3>1, <4>5
      <3>2. CASE b # a
        <4>1. installs'[b] = installs[b]
          BY <2>1, <2>4, <3>2 DEF TypeOK
        <4>2. QED
          BY <2>5, <2>7, <3>2, <4>1
      <3>3. QED
        BY <3>1, <3>2
    <2>10. QED
      BY <2>8, <2>9 DEF InstallsExact, CompletedPast
  <1>4. QED
    BY <1>2, <1>3, CompletionSteps

\* When clients send only versions they were shown, completed_installs counts
\* each completed job once and stays within the quota, for any number of
\* concurrent completions.
THEOREM InstallsCounted == MaxLead = 0 => (Spec => []InstallsExact)
  <1> DEFINE I == TypeOK /\ AbsentRows /\ FreshReads /\ InstallsExact /\ CompletedPast
  <1> SUFFICES ASSUME MaxLead = 0 PROVE Spec => []InstallsExact
    OBVIOUS
  <1>1. Init => I
    <2> SUFFICES ASSUME Init PROVE I
      OBVIOUS
    <2>1. \A b \in Buoys : Completions(b) = {}
      BY DEF Init, Completions
    <2>2. InstallsExact
      <3>1. \A b \in Buoys : 0 <= RequiredSuccesses[b]
        BY ConstantsAssumption
      <3>2. Cardinality({}) = 0
        BY FS_EmptySet
      <3>3. \A b \in Buoys : installs[b] = 0
        BY DEF Init
      <3>4. QED
        BY <2>1, <3>1, <3>2, <3>3 DEF InstallsExact
    <2>2b. CompletedPast
      BY <2>1, FS_EmptySet DEF Init, CompletedPast
    <2>3. QED
      BY <2>2, <2>2b
      DEF Init, TypeOK, AbsentRows, FreshReads, MissionStatus, JobStatus, WindowStatus,
          ReportStatus, TxState, Idle
  <1>2. I /\ [Next]_vars => I'
    BY TypeStep, RowsStep, FreshStep, InstallsStep
  <1>3. I => InstallsExact
    OBVIOUS
  <1> HIDE DEF I
  <1>4. QED
    BY <1>1, <1>2, <1>3, PTL DEF Spec

\* Audit rows are never taken back.
LEMMA AuditGrows ==
  ASSUME [Next]_vars
  PROVE  audit \subseteq audit'
  BY DEF Next, HandOffNext, WindowChangeNext, ReviewNext, IncidentNext, MissionNext,
         JobNext, WindowNext, ReportNext, CreateSurveyMission, CreateRecoveryJob,
         CreateRecoveryJobsBulk, ActivationRecoveryJob, AcceptRecoveryJob, HandOff,
         BeginAdvance, CommitAdvance, BeginMove, CommitComplete, CommitArchive,
         BeginDiveWindow, CommitDiveWindow, BeginCancel, CommitCancel, BeginSubmit,
         CommitSubmit, StartDiveWindow, CompleteDiveWindow, ChangeDiveWindow,
         ReviewSignalRecoveryReport, OpenIntegrityIncident, MarkIntegrityIncidentInProgress,
         CloseIntegrityIncident, MoveIncident, MarkExpiredRecoveryJobs, Rollback, Tick, vars,
         WriteAudit

\* A job gets a verdict by an expiry or a review, which leave their audit rows.
LEMMA VerdictsAudited ==
  ASSUME TypeOK, [Next]_vars, NEW j \in Jobs, jobStatus'[j] \in {"verified", "rejected"}
  PROVE  \/ jobStatus'[j] = jobStatus[j]
         \/ jobStatus'[j] = "rejected" /\ <<"job", j, "expire">> \in audit'
         \/ \E w \in Windows : repStatus'[<<j, w>>] = jobStatus'[j]
                               /\ <<"report", <<j, w>>, "review">> \in audit'
  <1> USE DEF TypeOK, jobVars
  <1>1. ASSUME NEW i \in Jobs, NEW w \in Windows, NEW verdict \in {"verified", "rejected"},
               ReviewSignalRecoveryReport(i, w, verdict), jobStatus'[j] # jobStatus[j]
        PROVE repStatus'[<<j, w>>] = jobStatus'[j] /\ <<"report", <<j, w>>, "review">> \in audit'
    <2>1. i = j
      BY <1>1 DEF ReviewSignalRecoveryReport, MoveJob
    <2>2. repStatus'[<<j, w>>] = jobStatus'[j]
      BY <1>1, <2>1 DEF ReviewSignalRecoveryReport, ReviewRecord, MoveJob
    <2>3. <<"report", <<j, w>>, "review">> \in audit'
      BY <1>1, <2>1 DEF ReviewSignalRecoveryReport, WriteAudit
    <2>4. QED
      BY <2>2, <2>3
  <1>2. ASSUME NEW js \in SUBSET Jobs, MarkExpiredRecoveryJobs(js), jobStatus'[j] # jobStatus[j]
        PROVE jobStatus'[j] = "rejected" /\ <<"job", j, "expire">> \in audit'
    <2>1. j \in js
      BY <1>2 DEF MarkExpiredRecoveryJobs, MoveJobs
    <2>2. QED
      BY <1>2, <2>1 DEF MarkExpiredRecoveryJobs, MoveJobs
  <1>3. ASSUME NEW c \in Clients, JobNext(c) \/ WindowNext(c) \/ ReportNext(c) \/ MissionNext(c)
        PROVE jobStatus'[j] = jobStatus[j]
    BY <1>3 DEF MissionNext, JobNext, WindowNext, ReportNext, BeginAdvance, CommitAdvance,
         BeginMove, CommitComplete, CommitArchive, BeginDiveWindow, CommitDiveWindow, BeginCancel,
         CommitCancel, BeginSubmit, CommitSubmit, MoveJob, MoveJobs
  <1>4. ASSUME HandOffNext \/ (\E i \in Jobs : CreateRecoveryJob(i))
               \/ (\E js \in SUBSET Jobs : CreateRecoveryJobsBulk(js))
        PROVE jobStatus'[j] = jobStatus[j]
    BY <1>4 DEF HandOffNext, ActivationRecoveryJob, AcceptRecoveryJob, HandOff, MoveJob,
         CreateRecoveryJob, CreateRecoveryJobsBulk, InsertJobs
  <1>5. QED
    BY <1>1, <1>2, <1>3, <1>4
    DEF Next, WindowChangeNext, ReviewNext, IncidentNext, CreateSurveyMission, StartDiveWindow,
        CompleteDiveWindow, ChangeDiveWindow, OpenIntegrityIncident,
        MarkIntegrityIncidentInProgress, CloseIntegrityIncident, MoveIncident, Rollback, Tick, vars

\* A window that ends leaves an audit row.
LEMMA EndsAudited ==
  ASSUME TypeOK, [Next]_vars, NEW w \in Windows
  PROVE  /\ winStatus'[w] = "cancelled" => \/ winStatus[w] = "cancelled"
                                           \/ <<"window", w, "cancel">> \in audit'
         /\ winStatus'[w] = "completed" => \/ winStatus[w] = "completed"
                                           \/ <<"window", w, "complete">> \in audit'
  <1> USE DEF TypeOK, winVars, WriteAudit
  <1> DEFINE P == /\ winStatus'[w] = "cancelled" => \/ winStatus[w] = "cancelled"
                                                    \/ <<"window", w, "cancel">> \in audit'
                  /\ winStatus'[w] = "completed" => \/ winStatus[w] = "completed"
                                                    \/ <<"window", w, "complete">> \in audit'
  <1>1. ASSUME NEW c \in Clients, CommitDiveWindow(c) \/ CommitCancel(c) PROVE P
    BY <1>1 DEF CommitDiveWindow, CommitCancel
  <1>2. ASSUME NEW u \in Windows, StartDiveWindow(u) \/ CompleteDiveWindow(u) PROVE P
    BY <1>2 DEF StartDiveWindow, CompleteDiveWindow, ChangeDiveWindow
  <1>3. CASE UNCHANGED winVars
    BY <1>3
  <1>4. QED
    BY <1>1, <1>2, <1>3
    DEF Next, HandOffNext, WindowChangeNext, ReviewNext, IncidentNext, MissionNext,
        JobNext, WindowNext, ReportNext, CreateSurveyMission, CreateRecoveryJob,
        CreateRecoveryJobsBulk, ActivationRecoveryJob, AcceptRecoveryJob, HandOff,
        BeginAdvance, CommitAdvance, BeginMove, CommitComplete, CommitArchive,
        BeginDiveWindow, BeginCancel, BeginSubmit, CommitSubmit,
        ReviewSignalRecoveryReport, OpenIntegrityIncident,
        MarkIntegrityIncidentInProgress, CloseIntegrityIncident, MoveIncident,
        MarkExpiredRecoveryJobs, Rollback, Tick, vars

\* Verdicts on reports and audit rows stay, so what they explain stays explained.
LEMMA TrailStep ==
  ASSUME TypeOK, ReportsBelong, AuditTrail, [Next]_vars
  PROVE  AuditTrail'
  <1>1. ASSUME NEW j \in Jobs, NEW w \in Windows, NEW v \in {"verified", "rejected"},
               repStatus[<<j, w>>] = v, <<"report", <<j, w>>, "review">> \in audit
        PROVE repStatus'[<<j, w>>] = v /\ <<"report", <<j, w>>, "review">> \in audit'
    BY <1>1, ReportSteps, AuditGrows DEF ReportStep
  <1>2. ASSUME NEW j \in Jobs, jobStatus'[j] = "rejected"
        PROVE \/ <<"job", j, "expire">> \in audit'
              \/ \E w \in Windows : repStatus'[<<j, w>>] = "rejected"
                                    /\ <<"report", <<j, w>>, "review">> \in audit'
    <2>1. CASE jobStatus[j] = "rejected"
      BY <2>1, <1>1, AuditGrows DEF AuditTrail
    <2>2. QED
      BY <1>2, <2>1, VerdictsAudited
  <1>3. ASSUME NEW j \in Jobs, jobStatus'[j] = "verified"
        PROVE \E w \in Windows : repStatus'[<<j, w>>] = "verified"
                                 /\ <<"report", <<j, w>>, "review">> \in audit'
    <2>1. CASE jobStatus[j] = "verified"
      BY <2>1, <1>1 DEF AuditTrail
    <2>2. QED
      BY <1>3, <2>1, VerdictsAudited
  <1>4. ASSUME NEW w \in Windows
        PROVE /\ winStatus'[w] = "cancelled" => <<"window", w, "cancel">> \in audit'
              /\ winStatus'[w] = "completed" => <<"window", w, "complete">> \in audit'
    BY EndsAudited, AuditGrows DEF AuditTrail
  <1>5. QED
    BY <1>2, <1>3, <1>4 DEF AuditTrail

\* Whatever clients ask for, every verdict on a job and every end of a window
\* is explained by an audit row, and by the report that was reviewed.
THEOREM TrailComplete == Spec => []AuditTrail
  <1> DEFINE I == TypeOK /\ AbsentRows /\ ReportsBelong /\ AuditTrail
  <1>1. Init => I
    BY
    DEF Init, TypeOK, AbsentRows, ReportsBelong, AuditTrail, MissionStatus,
        JobStatus, WindowStatus, ReportStatus, TxState, Idle
  <1>2. I /\ [Next]_vars => I'
    BY TypeStep, RowsStep, BelongStep, TrailStep
  <1>3. I => AuditTrail
    OBVIOUS
  <1> HIDE DEF I
  <1>4. QED
    BY <1>1, <1>2, <1>3, PTL DEF Spec
=============================================================================
