----------------------------- MODULE Assignments -----------------------------
(***************************************************************************)
(* Assignments of buoys to operators: clients create and advance them in   *)
(* transactions of two statements, the change and its audit entry, while   *)
(* the assignment worker activates what is due with one statement.         *)
(*                                                                         *)
(* A row that an open transaction has changed is locked: other             *)
(* transactions wait for it, and look at it again when it is free; the     *)
(* worker skips it.  An insert waits for an open one with its unique key.  *)
(* Requests whose operator may not be assigned, or whose buoy is of another *)
(* mission, are refused without a step; roles and missions of a buoy do    *)
(* not change while the server runs.                                       *)
(***************************************************************************)
EXTENDS Naturals, FiniteSets

CONSTANTS
  Clients, Ids,       \* concurrent requests; the assignments they may create
  Buoys,
  MaxTime,            \* bound on the clock
  Limit,              \* the worker's 100
  MaxRollbacks,       \* bound on the transactions that fail
  None

Times == 0 .. MaxTime

Row == [buoy : Buoys, start : Times, end : Times,
        status : {"queued", "active", "completed", "cancelled"}, version : Nat]
Actions == {"create", "active", "completed", "cancelled"}
Transaction == [id : Ids, action : Actions, row : Row]

\* no row is NULL
ASSUME NoneAssumption == None \notin Row /\ None \notin Transaction

VARIABLES
  now,                \* the clock
  rows,               \* the committed assignments, None where there is none
  tx,                 \* each client's open transaction: the row as it will be
  audit,              \* audit entries: assignment and action
  tick,               \* the time the worker read for its statement, None before it has
  activated,          \* what the worker activated
  rollbacks

vars == <<now, rows, tx, audit, tick, activated, rollbacks>>

Init ==
  /\ now = 0
  /\ rows = [i \in Ids |-> None]
  /\ tx = [c \in Clients |-> None]
  /\ audit = {}
  /\ tick = None
  /\ activated = {}
  /\ rollbacks = 0

TypeOK ==
  /\ now \in Nat /\ tick \in Nat \cup {None} /\ rollbacks \in Nat
  /\ rows \in [Ids -> Row \cup {None}]
  /\ tx \in [Clients -> Transaction \cup {None}]
  /\ audit \in SUBSET (Ids \X Actions)
  /\ activated \in SUBSET Ids

Created == {i \in Ids : rows[i] # None}
Open == {c \in Clients : tx[c] # None}
Locked(i) == \E c \in Open : tx[c].id = i

Advance == now < MaxTime /\ now' = now + 1 /\ UNCHANGED <<rows, tx, audit, tick, activated, rollbacks>>

(***************************************************************************)
(* Clients                                                                 *)
(***************************************************************************)
\* domain.Assignment.Validate
Validate(start, end) == end > start

\* mutant: the index sees committed rows only
KeyFreeCommitted(b, start) ==
  \A i \in Created : rows[i].buoy # b \/ rows[i].start # start

\* UNIQUE (acoustic_buoy_id, starts_at)
KeyFree(b, start) ==
  /\ \A i \in Created : rows[i].buoy # b \/ rows[i].start # start
  /\ \A c \in Open : tx[c].row.buoy # b \/ tx[c].row.start # start

\* createAssignment: INSERT.  The version is the column's default.
CreateAssignment(c, i, b, start, end) ==
  /\ tx[c] = None
  /\ rows[i] = None /\ ~Locked(i)
  /\ Validate(start, end)
  /\ KeyFree(b, start)
  /\ tx' = [tx EXCEPT ![c] =
              [id |-> i, action |-> "create",
               row |-> [buoy |-> b, start |-> start, end |-> end, status |-> "queued",
                        version |-> 1]]]
  /\ UNCHANGED <<now, rows, audit, tick, activated, rollbacks>>

AssignmentSourcesFor(next) ==
  CASE next = "active" -> {"queued"}
    [] next = "completed" -> {"active"}
    [] next = "cancelled" -> {"queued", "active"}

\* SET status=..., version=version+1
Moved(row, next) == [row EXCEPT !.status = next, !.version = @ + 1]

\* advanceAssignment: UPDATE, with a version that the client states
AdvanceAssignment(c, i, next, version) ==
  /\ tx[c] = None
  /\ rows[i] # None /\ ~Locked(i)
  /\ rows[i].version = version
  /\ rows[i].status \in AssignmentSourcesFor(next)
  /\ tx' = [tx EXCEPT ![c] =
              [id |-> i, action |-> next, row |-> Moved(rows[i], next)]]
  /\ UNCHANGED <<now, rows, audit, tick, activated, rollbacks>>

\* WriteAudit, in the same transaction
Audited(c) == audit \cup {<<tx[c].id, tx[c].action>>}

\* WriteAudit and COMMIT
CommitTx(c) ==
  /\ tx[c] # None
  /\ rows' = [rows EXCEPT ![tx[c].id] = tx[c].row]
  /\ audit' = Audited(c)
  /\ tx' = [tx EXCEPT ![c] = None]
  /\ UNCHANGED <<now, tick, activated, rollbacks>>

\* WriteAudit fails, or the client goes away
RollbackTx(c) ==
  /\ tx[c] # None
  /\ rollbacks < MaxRollbacks
  /\ tx' = [tx EXCEPT ![c] = None]
  /\ rollbacks' = rollbacks + 1
  /\ UNCHANGED <<now, rows, audit, tick, activated>>

(***************************************************************************)
(* The worker                                                              *)
(***************************************************************************)
\* time.Now(), before ActivateDue gets a connection
ReadClock ==
  /\ tick = None
  /\ tick' = now
  /\ UNCHANGED <<now, rows, tx, audit, activated, rollbacks>>

\* mutant: an assignment is due once its start is over
DueAfter(i) == rows[i].status = "queued" /\ rows[i].start < tick /\ tick < rows[i].end

\* mutant: the status is not compared
DueAnyStatus(i) == rows[i].start <= tick /\ tick < rows[i].end

Due(i) == rows[i].status = "queued" /\ rows[i].start <= tick /\ tick < rows[i].end

\* mutant: a lock is not waited for nor looked at
SkipsNone(i) == FALSE

\* FOR UPDATE SKIP LOCKED
Skips(i) == Locked(i)

\* ActivateDue: a set of at most Limit rows, the earliest starts first
ActivateDue ==
  LET due == {i \in Created : Due(i) /\ ~Skips(i)} IN
  /\ tick # None
  /\ \E batch \in SUBSET due :
       /\ Cardinality(batch) = (IF Cardinality(due) < Limit THEN Cardinality(due) ELSE Limit)
       /\ \A i \in batch, j \in due \ batch : rows[i].start <= rows[j].start
       /\ rows' = [i \in Ids |-> IF i \in batch THEN Moved(rows[i], "active") ELSE rows[i]]
       /\ activated' = activated \cup batch
  /\ tick' = None
  /\ UNCHANGED <<now, tx, audit, rollbacks>>

Next ==
  \/ Advance
  \/ \E c \in Clients :
       \/ \E i \in Ids, b \in Buoys, start, end \in Times : CreateAssignment(c, i, b, start, end)
       \/ \E i \in Ids, next \in {"active", "completed", "cancelled"}, version \in 1 .. 3 :
            AdvanceAssignment(c, i, next, version)
       \/ CommitTx(c)
       \/ RollbackTx(c)
  \/ ReadClock
  \/ ActivateDue

\* Transactions end, and the worker's ticker goes on.
Fairness ==
  /\ \A c \in Clients : WF_vars(CommitTx(c))
  /\ WF_vars(ReadClock)
  /\ WF_vars(ActivateDue)

Spec == Init /\ [][Next]_vars /\ Fairness

(***************************************************************************)
(* Properties                                                              *)
(***************************************************************************)

\* What clients and the worker do to an assignment can be told from its
\* version: one for the insert, one for each audited move, one for the worker's.
\* No change of either is lost and none is unaccounted for.
VersionAccounts ==
  \A i \in Created :
    rows[i].version =
      Cardinality({e \in audit : e[1] = i}) + (IF i \in activated THEN 1 ELSE 0)

\* However clients and the worker interleave, an assignment only moves from
\* queued to active, from active to completed, and from either to cancelled.
LegalMoves ==
  [][\A i \in Created :
       rows'[i] # rows[i] =>
         <<rows[i].status, rows'[i].status>> \in
           {<<"queued", "active">>, <<"active", "completed">>,
            <<"queued", "cancelled">>, <<"active", "cancelled">>}]_vars

\* A buoy is not assigned twice from one time on, by racing requests either.
SlotUnique ==
  \A i, j \in Created :
    i # j => rows[i].buoy # rows[j].buoy \/ rows[i].start # rows[j].start

\* Changes by clients and by the worker are all in the rows, and no two rows
\* are for one slot.
AssignmentsSound == VersionAccounts /\ SlotUnique

(***************************************************************************)
(* What makes these properties inductive                                   *)
(***************************************************************************)
\* A row that an open transaction has changed or inserted is still as the
\* transaction found it, and no other transaction has changed it.
LocksHold ==
  /\ \A c, d \in Open : tx[c].id = tx[d].id => c = d
  /\ \A c \in Open :
       LET old == rows[tx[c].id] IN
       IF tx[c].action = "create"
       THEN old = None /\ tx[c].row.status = "queued" /\ tx[c].row.version = 1
       ELSE /\ old # None
            /\ old.status \in AssignmentSourcesFor(tx[c].action)
            /\ tx[c].row = Moved(old, tx[c].action)

\* The audit entries and the worker's activation fit the row's status: no
\* move that may still come has an entry already.
AuditFits ==
  \A i \in Ids :
    /\ rows[i] = None => i \notin activated /\ \A a \in Actions : <<i, a>> \notin audit
    /\ rows[i] # None =>
         /\ rows[i].status = "queued" => i \notin activated /\ <<i, "active">> \notin audit
         /\ \A a \in {"completed", "cancelled"} : <<i, a>> \in audit => rows[i].status = a

\* A transaction on its way takes no slot of another one or of another row.
SlotsTaken ==
  \A c \in Open :
    LET Other(row) == row.buoy # tx[c].row.buoy \/ row.start # tx[c].row.start IN
    /\ \A i \in Created : i # tx[c].id => Other(rows[i])
    /\ \A d \in Open : d # c => Other(tx[d].row)

AssignmentsInv ==
  /\ TypeOK /\ LocksHold /\ AuditFits /\ SlotsTaken
  /\ IsFiniteSet(audit) /\ VersionAccounts /\ SlotUnique

WaitsDue(i) ==
  rows[i] # None /\ rows[i].status = "queued" /\ rows[i].start <= now /\ now < rows[i].end

\* An assignment that is due does not stay queued: in the end it is activated,
\* cancelled, or over, although the worker skips locked rows and takes a
\* limited number at a time.
DueLeaves == \A i \in Ids : WaitsDue(i) ~> ~WaitsDue(i)
=============================================================================
