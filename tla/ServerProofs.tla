---------------------------- MODULE ServerProofs ----------------------------
(***************************************************************************)
(* The parts of the server process that MCServer puts together, for any    *)
(* clients, assignments, workers, requests, connections and attempts.      *)
(***************************************************************************)
EXTENDS MCServer, FiniteSetTheorems, WellFoundedInduction, NaturalsInduction, TLAPS

(***************************************************************************)
(* Assignments                                                             *)
(***************************************************************************)
\* No assignment exists, and nothing is on its way.
LEMMA AssignmentsInit == Init => AssignmentsInv
<1> SUFFICES ASSUME Init PROVE AssignmentsInv
  OBVIOUS
<1>1. Created = {} /\ Open = {}
  BY DEF Init, Created, Open
<1>2. TypeOK
  BY DEF Init, TypeOK
<1>3. IsFiniteSet(audit)
  BY FS_EmptySet DEF Init
<1> QED BY <1>1, <1>2, <1>3 DEF Init, AssignmentsInv, LocksHold, AuditFits, SlotsTaken,
                                VersionAccounts, SlotUnique

\* An audit entry that is new counts one, for its own assignment only.
LEMMA EntriesCounted ==
  ASSUME NEW A \in SUBSET (Ids \X Actions), IsFiniteSet(A),
         NEW i \in Ids, NEW a \in Actions, <<i, a>> \notin A, NEW j \in Ids
  PROVE  /\ Cardinality({e \in A : e[1] = j}) \in Nat
         /\ Cardinality({e \in A \cup {<<i, a>>} : e[1] = j}) =
              Cardinality({e \in A : e[1] = j}) + (IF j = i THEN 1 ELSE 0)
<1> DEFINE E == {e \in A : e[1] = j}
           F == {e \in A \cup {<<i, a>>} : e[1] = j}
<1>1. IsFiniteSet(E)
  BY FS_Subset
<1>2. IF j = i THEN F = E \cup {<<i, a>>} /\ <<i, a>> \notin E ELSE F = E
  OBVIOUS
<1> SUFFICES /\ Cardinality(E) \in Nat
             /\ Cardinality(F) = Cardinality(E) + (IF j = i THEN 1 ELSE 0)
  OBVIOUS
<1> HIDE DEF E, F
<1> QED BY <1>1, <1>2, FS_AddElement, FS_CardinalityType

\* What an UPDATE leaves of a row.
LEMMA MovedRow ==
  ASSUME NEW row \in Row, NEW next \in {"active", "completed", "cancelled"}
  PROVE  /\ Moved(row, next) \in Row
         /\ Moved(row, next).buoy = row.buoy /\ Moved(row, next).start = row.start
         /\ Moved(row, next).status = next /\ Moved(row, next).version = row.version + 1
<1>1. row.version + 1 \in Nat
  BY DEF Row
<1> QED BY <1>1 DEF Row, Moved

\* An insert takes a slot that is free, and an update locks its row.
LEMMA BeginStep ==
  ASSUME AssignmentsInv, NEW c \in Clients, tx[c] = None, NEW r \in Transaction,
         tx' = [tx EXCEPT ![c] = r], ~Locked(r.id),
         UNCHANGED <<now, rows, audit, tick, activated, rollbacks>>,
         LET old == rows[r.id] IN
         IF r.action = "create"
         THEN old = None /\ r.row.status = "queued" /\ r.row.version = 1
         ELSE /\ old # None /\ old.status \in AssignmentSourcesFor(r.action)
              /\ r.row = Moved(old, r.action),
         \A i \in Created : i # r.id => rows[i].buoy # r.row.buoy \/ rows[i].start # r.row.start,
         \A d \in Open : tx[d].row.buoy # r.row.buoy \/ tx[d].row.start # r.row.start
  PROVE  AssignmentsInv'
<1>1. TypeOK'
  BY DEF AssignmentsInv, TypeOK
<1>2. Created' = Created /\ Open' = Open \cup {c} /\ c \notin Open
  BY NoneAssumption DEF AssignmentsInv, TypeOK, Created, Open
<1>3. tx'[c] = r /\ \A d \in Open : tx'[d] = tx[d] /\ d \in Clients
  BY DEF AssignmentsInv, TypeOK, Open
<1>4. LocksHold'
  <2>1. \A d \in Open : tx[d].id # r.id
    BY DEF Locked
  <2>2. \A d, e \in Open : tx[d].id = tx[e].id => d = e
    BY DEF AssignmentsInv, LocksHold
  <2>3. \A d, e \in Open \cup {c} : tx'[d].id = tx'[e].id => d = e
    BY <1>3, <2>1, <2>2
  <2> QED BY <1>2, <1>3, <2>3 DEF AssignmentsInv, LocksHold
<1>5. SlotsTaken'
  BY <1>2, <1>3 DEF AssignmentsInv, SlotsTaken
<1> QED BY <1>1, <1>2, <1>4, <1>5 DEF AssignmentsInv, AuditFits, VersionAccounts, SlotUnique

\* createAssignment keeps the invariant.
LEMMA CreateStep ==
  ASSUME AssignmentsInv, NEW c \in Clients, NEW i \in Ids, NEW b \in Buoys,
         NEW start \in Times, NEW end \in Times, CreateAssignment(c, i, b, start, end)
  PROVE  AssignmentsInv'
<1> DEFINE r == [id |-> i, action |-> "create",
                 row |-> [buoy |-> b, start |-> start, end |-> end, status |-> "queued",
                          version |-> 1]]
<1>1. r \in Transaction
  BY DEF Transaction, Actions, Row
<1>2. /\ tx[c] = None /\ tx' = [tx EXCEPT ![c] = r] /\ ~Locked(r.id) /\ rows[r.id] = None
      /\ UNCHANGED <<now, rows, audit, tick, activated, rollbacks>> /\ KeyFree(b, start)
  BY DEF CreateAssignment
<1> QED BY <1>1, <1>2, BeginStep DEF KeyFree

\* advanceAssignment keeps the invariant.
LEMMA AdvanceStep ==
  ASSUME AssignmentsInv, NEW c \in Clients, NEW i \in Ids,
         NEW next \in {"active", "completed", "cancelled"}, NEW version \in Nat,
         AdvanceAssignment(c, i, next, version)
  PROVE  AssignmentsInv'
<1> DEFINE r == [id |-> i, action |-> next, row |-> Moved(rows[i], next)]
<1>1. rows[i] \in Row /\ i \in Created
  BY DEF AdvanceAssignment, AssignmentsInv, TypeOK, Created
<1>2. r \in Transaction /\ r.row.buoy = rows[i].buoy /\ r.row.start = rows[i].start
  BY <1>1, MovedRow DEF Transaction, Actions
<1>3. /\ tx[c] = None /\ tx' = [tx EXCEPT ![c] = r] /\ ~Locked(i)
      /\ rows[i] # None /\ rows[i].status \in AssignmentSourcesFor(next)
      /\ UNCHANGED <<now, rows, audit, tick, activated, rollbacks>>
  BY DEF AdvanceAssignment
<1>4. \A j \in Created : j # i => rows[j].buoy # rows[i].buoy \/ rows[j].start # rows[i].start
  BY <1>1 DEF AssignmentsInv, SlotUnique
<1>5. \A d \in Open : tx[d].row.buoy # rows[i].buoy \/ tx[d].row.start # rows[i].start
  BY <1>1, <1>3 DEF AssignmentsInv, SlotsTaken, Locked
<1>6. r.action # "create" /\ r.id = i /\ r.action = next /\ r.row = Moved(rows[i], next)
  OBVIOUS
<1> HIDE DEF r
<1> QED BY <1>2, <1>3, <1>4, <1>5, <1>6, BeginStep

\* COMMIT: the row is as the transaction found it, and its audit entry is new.
LEMMA CommitStep ==
  ASSUME AssignmentsInv, NEW c \in Clients, CommitTx(c)
  PROVE  AssignmentsInv'
<1> DEFINE i == tx[c].id
           a == tx[c].action
           old == rows[i]
           new == tx[c].row
           Entries(A, j) == Cardinality({e \in A : e[1] = j})
           Activation(j) == IF j \in activated THEN 1 ELSE 0
<1>1. /\ rows' = [rows EXCEPT ![i] = new] /\ audit' = audit \cup {<<i, a>>}
      /\ tx' = [tx EXCEPT ![c] = None]
      /\ UNCHANGED <<now, tick, activated, rollbacks>>
  BY DEF CommitTx, Audited
<1>2. c \in Open /\ tx[c] \in Transaction
  BY DEF CommitTx, Open, AssignmentsInv, TypeOK
<1>3. i \in Ids /\ a \in Actions /\ new \in Row
  BY <1>2 DEF Transaction
<1>4. TypeOK'
  BY <1>1, <1>3 DEF AssignmentsInv, TypeOK
<1>5. Created' = Created \cup {i} /\ Open' = Open \ {c}
  BY <1>1, <1>3, NoneAssumption DEF AssignmentsInv, TypeOK, Created, Open
<1>6. /\ rows'[i] = new /\ \A j \in Ids : j # i => rows'[j] = rows[j]
      /\ \A d \in Open \ {c} : tx'[d] = tx[d] /\ tx[d].id # i /\ tx[d].id \in Ids
  BY <1>1, <1>2, <1>3 DEF AssignmentsInv, TypeOK, LocksHold, Open, Transaction
<1>7. /\ <<i, a>> \notin audit /\ new # None
      /\ (i \notin activated /\ <<i, "active">> \notin audit) \/ new.status # "queued"
      /\ \A b \in {"completed", "cancelled"} : <<i, b>> \in audit \/ a = b => new.status = b
      /\ new.version = Entries(audit, i) + 1 + Activation(i)
      /\ new.status = "queued" => a = "create"
  <2>1. CASE a = "create"
    <3>1. old = None /\ new.status = "queued" /\ new.version = 1
      BY <1>2, <2>1 DEF AssignmentsInv, LocksHold
    <3>2. i \notin activated /\ \A b \in Actions : <<i, b>> \notin audit
      BY <1>3, <3>1 DEF AssignmentsInv, AuditFits
    <3>3. {e \in audit : e[1] = i} = {}
      BY <3>2, <1>3 DEF AssignmentsInv, TypeOK
    <3>4. Entries(audit, i) = 0
      BY <3>3, FS_EmptySet
    <3> HIDE DEF i, a, old, new, Entries
    <3> QED BY <1>3, <2>1, <3>1, <3>2, <3>4, NoneAssumption DEF Actions
  <2>2. CASE a # "create"
    <3>1. /\ old # None /\ old.status \in AssignmentSourcesFor(a) /\ new = Moved(old, a)
          /\ a \in {"active", "completed", "cancelled"}
      BY <1>2, <1>3, <2>2 DEF AssignmentsInv, LocksHold, Actions
    <3>2. old \in Row /\ i \in Created
      BY <1>3, <3>1 DEF AssignmentsInv, TypeOK, Created
    <3>3. new.status = a /\ new.version = old.version + 1
      BY <3>1, <3>2, MovedRow
    <3>4. old.version = Entries(audit, i) + Activation(i)
      BY <3>2 DEF AssignmentsInv, VersionAccounts
    <3>5. Entries(audit, i) \in Nat
      <4>1. IsFiniteSet({e \in audit : e[1] = i})
        BY FS_Subset DEF AssignmentsInv
      <4> QED BY <4>1, FS_CardinalityType
    <3>6. /\ old.status = "queued" => i \notin activated /\ <<i, "active">> \notin audit
          /\ \A b \in {"completed", "cancelled"} : <<i, b>> \in audit => old.status = b
      BY <1>3, <3>1 DEF AssignmentsInv, AuditFits
    <3>7. old.status \notin {"completed", "cancelled"} /\ (a = "active" => old.status = "queued")
      BY <3>1 DEF AssignmentSourcesFor
    <3> HIDE DEF i, a, old, new, Entries
    <3> QED BY <1>3, <3>1, <3>3, <3>4, <3>5, <3>6, <3>7, NoneAssumption
  <2> QED BY <2>1, <2>2
<1>8. AuditFits'
  <2> SUFFICES ASSUME NEW j \in Ids
               PROVE  /\ rows'[j] = None => /\ j \notin activated
                                            /\ \A b \in Actions : <<j, b>> \notin audit'
                      /\ rows'[j] # None =>
                           /\ rows'[j].status = "queued" =>
                                j \notin activated /\ <<j, "active">> \notin audit'
                           /\ \A b \in {"completed", "cancelled"} :
                                <<j, b>> \in audit' => rows'[j].status = b
    BY <1>1 DEF AuditFits
  <2>1. CASE j = i
    <3> HIDE DEF i, a, old, new, Entries
    <3> QED BY <1>1, <1>3, <1>6, <1>7, <2>1
  <2>2. CASE j # i
    <3>1. rows'[j] = rows[j] /\ \A b \in Actions : <<j, b>> \in audit' => <<j, b>> \in audit
      BY <1>1, <1>6, <2>2
    <3> HIDE DEF i, a, old, new, Entries
    <3> QED BY <3>1 DEF AssignmentsInv, AuditFits, Actions
  <2> QED BY <2>1, <2>2
<1>9. IsFiniteSet(audit') /\ VersionAccounts'
  <2>1. IsFiniteSet(audit')
    BY <1>1, FS_AddElement DEF AssignmentsInv
  <2>2. ASSUME NEW j \in Created'
        PROVE  rows'[j].version = Entries(audit', j) + Activation(j)
    <3>1. /\ Entries(audit, j) \in Nat
          /\ Entries(audit', j) = Entries(audit, j) + (IF j = i THEN 1 ELSE 0)
      <4>1. j \in Ids /\ audit \in SUBSET (Ids \X Actions) /\ IsFiniteSet(audit)
        BY DEF Created, AssignmentsInv, TypeOK
      <4>2. <<i, a>> \notin audit
        BY <1>7
      <4> HIDE DEF i, a
      <4> QED BY <1>1, <1>3, <4>1, <4>2, EntriesCounted
    <3>2. j # i => j \in Created /\ rows'[j] = rows[j]
      BY <1>5, <1>6 DEF Created
    <3>3. j \in Created => rows[j].version = Entries(audit, j) + Activation(j)
      BY DEF AssignmentsInv, VersionAccounts
    <3> HIDE DEF i, a, old, new, Entries
    <3> QED BY <1>6, <1>7, <3>1, <3>2, <3>3
  <2> QED BY <1>1, <2>1, <2>2 DEF VersionAccounts
<1>10. LocksHold'
  BY <1>5, <1>6 DEF AssignmentsInv, LocksHold
<1>11. SlotsTaken' /\ SlotUnique'
  <2>1. \A j \in Created : j # i => rows[j].buoy # new.buoy \/ rows[j].start # new.start
    BY <1>2 DEF AssignmentsInv, SlotsTaken
  <2>2. \A d \in Open \ {c} : new.buoy # tx[d].row.buoy \/ new.start # tx[d].row.start
    BY <1>2 DEF AssignmentsInv, SlotsTaken
  <2>3. \A j \in Created : j \in Ids
    BY DEF Created
  <2> HIDE DEF i, a, old, new
  <2>4. SlotUnique'
    BY <1>5, <1>6, <2>1, <2>3 DEF AssignmentsInv, SlotUnique
  <2>5. SlotsTaken'
    BY <1>5, <1>6, <2>2, <2>3 DEF AssignmentsInv, SlotsTaken
  <2> QED BY <2>4, <2>5
<1> QED BY <1>4, <1>8, <1>9, <1>10, <1>11 DEF AssignmentsInv
\* A transaction that is rolled back gives its row and its slot free.
LEMMA RollbackStep ==
  ASSUME AssignmentsInv, NEW c \in Clients, RollbackTx(c)
  PROVE  AssignmentsInv'
<1>1. /\ tx' = [tx EXCEPT ![c] = None] /\ rollbacks' = rollbacks + 1
      /\ UNCHANGED <<now, rows, audit, tick, activated>>
  BY DEF RollbackTx
<1>2. TypeOK'
  BY <1>1 DEF AssignmentsInv, TypeOK
<1>3. Created' = Created /\ Open' = Open \ {c} /\ \A d \in Open \ {c} : tx'[d] = tx[d]
  BY <1>1 DEF AssignmentsInv, TypeOK, Created, Open
<1>4. LocksHold' /\ SlotsTaken'
  BY <1>1, <1>3 DEF AssignmentsInv, LocksHold, SlotsTaken
<1> QED BY <1>1, <1>2, <1>3, <1>4 DEF AssignmentsInv, AuditFits, VersionAccounts, SlotUnique

\* ActivateDue takes queued rows that no transaction has locked, and each of
\* them once.
LEMMA ActivateStep ==
  ASSUME AssignmentsInv, ActivateDue
  PROVE  AssignmentsInv'
<1> DEFINE Entries(j) == Cardinality({e \in audit : e[1] = j})
<1>1. PICK batch \in SUBSET {i \in Created : Due(i) /\ ~Skips(i)} :
        /\ rows' = [i \in Ids |-> IF i \in batch THEN Moved(rows[i], "active") ELSE rows[i]]
        /\ activated' = activated \cup batch
  BY DEF ActivateDue
<1>2. tick' = None /\ UNCHANGED <<now, tx, audit, rollbacks>>
  BY DEF ActivateDue
<1>3. \A i \in batch :
        /\ i \in Ids /\ rows[i] # None /\ rows[i] \in Row
        /\ rows[i].status = "queued" /\ ~Locked(i) /\ i \notin activated
  BY DEF Created, Due, Skips, AssignmentsInv, TypeOK, AuditFits
<1>4. \A i \in batch :
        /\ rows'[i] \in Row /\ rows'[i] # None
        /\ rows'[i].buoy = rows[i].buoy /\ rows'[i].start = rows[i].start
        /\ rows'[i].status = "active" /\ rows'[i].version = rows[i].version + 1
  BY <1>1, <1>3, MovedRow, NoneAssumption
<1>5. \A i \in Ids \ batch : rows'[i] = rows[i]
  BY <1>1
<1>6. TypeOK'
  BY <1>1, <1>2, <1>3, <1>4 DEF AssignmentsInv, TypeOK
<1>7. Created' = Created /\ Open' = Open /\ \A i \in Created : i \in Ids
  BY <1>2, <1>3, <1>4, <1>5 DEF Created, Open
<1>8. LocksHold'
  <2>1. \A c \in Open : tx[c].id \in Ids \ batch
    BY <1>3 DEF Open, Locked, AssignmentsInv, TypeOK, Transaction
  <2> QED BY <1>2, <1>5, <1>7, <2>1 DEF AssignmentsInv, LocksHold
<1>9. AuditFits'
  BY <1>1, <1>2, <1>3, <1>4, <1>5 DEF AssignmentsInv, AuditFits
<1>10. VersionAccounts'
  <2> SUFFICES ASSUME NEW i \in Created
               PROVE  rows'[i].version = Entries(i) + (IF i \in activated' THEN 1 ELSE 0)
    BY <1>2, <1>7 DEF VersionAccounts
  <2>1. rows[i].version = Entries(i) + (IF i \in activated THEN 1 ELSE 0)
    BY DEF AssignmentsInv, VersionAccounts
  <2>2. Entries(i) \in Nat
    <3>1. IsFiniteSet({e \in audit : e[1] = i})
      BY FS_Subset DEF AssignmentsInv
    <3> QED BY <3>1, FS_CardinalityType
  <2> HIDE DEF Entries
  <2> QED BY <1>1, <1>3, <1>4, <1>5, <1>7, <2>1, <2>2
<1>11. SlotsTaken' /\ SlotUnique'
  BY <1>2, <1>4, <1>5, <1>7 DEF AssignmentsInv, SlotsTaken, SlotUnique
<1> QED BY <1>2, <1>6, <1>8, <1>9, <1>10, <1>11 DEF AssignmentsInv

\* The invariant is inductive.
LEMMA AssignmentsStep == AssignmentsInv /\ [Next]_vars => AssignmentsInv'
<1> SUFFICES ASSUME AssignmentsInv, [Next]_vars PROVE AssignmentsInv'
  OBVIOUS
<1>1. CASE Advance \/ ReadClock \/ UNCHANGED vars
  <2>1. UNCHANGED <<rows, tx, audit, activated, rollbacks>> /\ now' \in Nat
        /\ tick' \in Nat \cup {None}
    BY <1>1 DEF Advance, ReadClock, vars, AssignmentsInv, TypeOK
  <2>2. Created' = Created /\ Open' = Open
    BY <2>1 DEF Created, Open
  <2> QED BY <2>1, <2>2 DEF AssignmentsInv, TypeOK, LocksHold, AuditFits, SlotsTaken,
                            VersionAccounts, SlotUnique
<1>2. CASE ActivateDue
  BY <1>2, ActivateStep
<1>3. ASSUME NEW c \in Clients, NEW i \in Ids, NEW b \in Buoys, NEW start \in Times,
             NEW end \in Times, CreateAssignment(c, i, b, start, end)
      PROVE  AssignmentsInv'
  BY <1>3, CreateStep
<1>4. ASSUME NEW c \in Clients, NEW i \in Ids, NEW version \in 1 .. 3,
             NEW next \in {"active", "completed", "cancelled"},
             AdvanceAssignment(c, i, next, version)
      PROVE  AssignmentsInv'
  BY <1>4, AdvanceStep
<1>5. ASSUME NEW c \in Clients, CommitTx(c) PROVE AssignmentsInv'
  BY <1>5, CommitStep
<1>6. ASSUME NEW c \in Clients, RollbackTx(c) PROVE AssignmentsInv'
  BY <1>6, RollbackStep
<1> QED BY <1>1, <1>2, <1>3, <1>4, <1>5, <1>6 DEF Next

\* Assignments, by clients and by ActivateDue: versions account for every change
\* and no slot is given twice.
THEOREM AssignmentsSafe == Spec => []AssignmentsSound
<1>1. AssignmentsInv => AssignmentsSound
  BY DEF AssignmentsInv, AssignmentsSound
<1> QED BY <1>1, AssignmentsInit, AssignmentsStep, PTL DEF Spec

\* advanceAssignment and ActivateDue: an assignment makes no move but those of
\* its status machine, whatever clients and the worker read before.
THEOREM MovesLegal == Spec => LegalMoves
<1> DEFINE Legal == {<<"queued", "active">>, <<"active", "completed">>,
                     <<"queued", "cancelled">>, <<"active", "cancelled">>}
           Move == \A i \in Created :
                     rows'[i] # rows[i] => <<rows[i].status, rows'[i].status>> \in Legal
<1>1. AssignmentsInv /\ [Next]_vars => [Move]_vars
  <2> SUFFICES ASSUME AssignmentsInv, Next, NEW i \in Created, rows'[i] # rows[i]
               PROVE  <<rows[i].status, rows'[i].status>> \in Legal
    OBVIOUS
  <2>1. i \in Ids /\ rows[i] \in Row
    BY DEF Created, AssignmentsInv, TypeOK
  <2>2. ActivateDue \/ \E c \in Clients : CommitTx(c)
    BY DEF Next, Advance, CreateAssignment, AdvanceAssignment, RollbackTx, ReadClock
  <2>3. CASE ActivateDue
    <3>1. rows'[i] = Moved(rows[i], "active") /\ Due(i)
      BY <2>1, <2>3 DEF ActivateDue
    <3> QED BY <2>1, <3>1, MovedRow DEF Due
  <2>4. ASSUME NEW c \in Clients, CommitTx(c)
        PROVE  <<rows[i].status, rows'[i].status>> \in Legal
    <3>1. /\ c \in Open /\ tx[c] \in Transaction /\ tx[c].id = i /\ rows'[i] = tx[c].row
      BY <2>1, <2>4 DEF CommitTx, Open, AssignmentsInv, TypeOK
    <3>2. /\ tx[c].action \in {"active", "completed", "cancelled"}
          /\ rows[i].status \in AssignmentSourcesFor(tx[c].action)
          /\ tx[c].row = Moved(rows[i], tx[c].action)
      BY <3>1 DEF AssignmentsInv, LocksHold, Created, Transaction, Actions
    <3>3. rows'[i].status = tx[c].action
      BY <2>1, <3>1, <3>2, MovedRow
    <3> QED BY <3>2, <3>3 DEF AssignmentSourcesFor
  <2> QED BY <2>2, <2>3, <2>4
<1> QED BY <1>1, AssignmentsInit, AssignmentsStep, PTL DEF Spec, LegalMoves
(***************************************************************************)
(* run() and its workers                                                   *)
(***************************************************************************)
\* Server counts as the theorems about finite sets do.
LEMMA SameCount == \A X : S!Cardinality(X) = Cardinality(X)
  BY Zenon DEF S!Cardinality, Cardinality

\* Nothing has been started.
LEMMA ServerInit == S!Init => S!ServerInv
<1> SUFFICES ASSUME S!Init PROVE S!ServerInv
  OBVIOUS
<1>1. signalled \in BOOLEAN /\ cancelled \in BOOLEAN /\ workersDone \in BOOLEAN
  BY Zenon DEF S!Init
<1>2. S!TypeOK
  BY <1>1 DEF S!Init, S!TypeOK
<1>3. {w \in Loops : loop[w] = "done"} = {}
  BY DEF S!Init
<1>4. S!ErrorsReported
  <2>1. workerErr = 0
    BY DEF S!Init
  <2> QED BY <1>3, <2>1, FS_EmptySet, SameCount DEF S!ErrorsReported
<1>5. ~workersDone
  BY Zenon DEF S!Init
<1> QED BY <1>2, <1>4, <1>5 DEF S!Init, S!ServerInv, S!LateStops, S!StagesPassed, S!CauseReturned

\* A worker's step keeps everything but, perhaps, the number of errors.
LEMMA LoopsStep ==
  ASSUME S!ServerInv, NEW w \in Loops, S!LoopNext(w) \/ S!LoopDone(w) \/ S!LoopFails(w)
  PROVE  S!TypeOK' /\ S!LateStops' /\ S!StagesPassed' /\ S!CauseReturned'
<1> USE DEF S!ServerInv, S!TypeOK
<1>1. PICK from \in {"head", "call", "acquire", "query", "wait", "send"},
           to \in {"head", "call", "acquire", "query", "wait", "send", "done"} :
        S!LoopStep(w, from, to)
  BY DEF S!LoopNext, S!LoopDone, S!LoopFails, S!LoopHead, S!LoopCall, S!LoopAcquire,
         S!LoopReturn, S!LoopTick, S!LoopSend
<1>2. S!TypeOK'
  BY DEF S!LoopNext, S!LoopDone, S!LoopFails, S!LoopHead, S!LoopCall, S!LoopAcquire,
         S!LoopReturn, S!LoopTick, S!LoopSend, S!LoopStep, S!NoSend
<1>3. S!LateStops'
  BY DEF S!LoopNext, S!LoopDone, S!LoopFails, S!LoopHead, S!LoopCall, S!LoopAcquire,
         S!LoopReturn, S!LoopTick, S!LoopSend, S!LoopStep, S!NoSend, S!LateStops, S!CtxErr
<1>4. S!StagesPassed' /\ S!CauseReturned'
  BY <1>1 DEF S!LoopStep, S!StagesPassed, S!CauseReturned, S!AllDone, S!Drained
<1> QED BY <1>2, <1>3, <1>4
\* An error is sent by a worker that returns with it.
LEMMA ErrorsStep ==
  ASSUME S!ServerInv, NEW w \in Loops, S!LoopNext(w) \/ S!LoopDone(w) \/ S!LoopFails(w)
  PROVE  S!ErrorsReported'
<1> DEFINE D == {v \in Loops : loop[v] = "done"}
           E == {v \in Loops : loop'[v] = "done"}
<1>1. IsFiniteSet(D)
  BY FS_Subset, PartsAssumption
<1>2. workerErr \in Nat /\ workerErr <= Cardinality(D)
  BY SameCount DEF S!ServerInv, S!TypeOK, S!ErrorsReported
<1>3. \/ E = D \cup {w} /\ w \notin D /\ workerErr' \in {workerErr, workerErr + 1}
      \/ E = D /\ workerErr' = workerErr
  BY DEF S!ServerInv, S!TypeOK, S!LoopNext, S!LoopDone, S!LoopFails, S!LoopHead, S!LoopCall,
         S!LoopAcquire, S!LoopReturn, S!LoopTick, S!LoopSend, S!LoopStep, S!NoSend
<1> SUFFICES workerErr' <= Cardinality(E)
  BY SameCount DEF S!ErrorsReported
<1> HIDE DEF D, E
<1>4. Cardinality(D) \in Nat /\ Cardinality(D \cup {w}) =
                               IF w \in D THEN Cardinality(D) ELSE Cardinality(D) + 1
  BY <1>1, FS_AddElement, FS_CardinalityType
<1> QED BY <1>2, <1>3, <1>4

\* The other steps leave the workers alone, except for the start.
LEMMA MainStep ==
  ASSUME S!ServerInv,
         \/ S!Signal \/ S!ListenFails \/ S!CloseWorkersDone
         \/ \E h \in Handlers : S!Request(h) \/ S!HandlerNext(h)
         \/ S!MainNext \/ S!Shutdown(TRUE) \/ S!AwaitWorkers(TRUE)
         \/ UNCHANGED S!vars
  PROVE  S!ServerInv'
<1> USE DEF S!ServerInv, S!TypeOK
<1>1. CASE S!Signal \/ S!ListenFails \/ S!CloseWorkersDone \/ UNCHANGED S!vars
  <2>1. signalled' \in BOOLEAN /\ cancelled' \in BOOLEAN /\ workersDone' \in BOOLEAN
    BY <1>1, Zenon DEF S!Signal, S!ListenFails, S!CloseWorkersDone, S!vars
  <2> QED BY <1>1, <2>1
          DEF S!Signal, S!ListenFails, S!CloseWorkersDone, S!vars, S!ErrorsReported, S!LateStops,
              S!StagesPassed, S!CauseReturned, S!AllDone, S!Drained
<1>2. ASSUME NEW h \in Handlers, S!Request(h) \/ S!HandlerNext(h)
      PROVE  S!ServerInv'
  BY <1>2 DEF S!Request, S!HandlerNext, S!HandlerAcquire, S!HandlerReturn, S!HandlerStep,
              S!Serving, S!ErrorsReported, S!LateStops, S!StagesPassed, S!CauseReturned,
              S!AllDone, S!Drained
<1>3. ASSUME NEW ok \in BOOLEAN, S!OpenPool(ok) PROVE S!ServerInv'
  BY <1>3 DEF S!OpenPool, S!MainStep, S!ErrorsReported, S!LateStops, S!StagesPassed,
              S!CauseReturned, S!AllDone, S!Drained
<1>4. ASSUME NEW ok \in BOOLEAN, S!Migrate(ok) PROVE S!ServerInv'
  BY <1>4 DEF S!Migrate, S!MainStep, S!ErrorsReported, S!LateStops, S!StagesPassed,
              S!CauseReturned, S!AllDone, S!Drained
<1>5. CASE S!SelectServerErr \/ S!SelectWorkerErr \/ S!SelectSignal
  <2>1. cancelled' \in BOOLEAN
    BY <1>5, Zenon DEF S!SelectServerErr, S!SelectWorkerErr, S!SelectSignal, S!Stop
  <2>2. workerErr' \in Nat /\ workerErr' <= workerErr /\ loop' = loop
    BY <1>5 DEF S!SelectServerErr, S!SelectWorkerErr, S!SelectSignal, S!Stop
  <2>3. S!ErrorsReported'
    <3> DEFINE D == {w \in Loops : loop[w] = "done"}
    <3>1. IsFiniteSet(D)
      BY FS_Subset, PartsAssumption
    <3>2. Cardinality(D) \in Nat
      BY <3>1, FS_CardinalityType
    <3> QED BY <2>2, <3>2, SameCount DEF S!ErrorsReported
  <2> QED BY <1>5, <2>1, <2>2, <2>3
          DEF S!SelectServerErr, S!SelectWorkerErr, S!SelectSignal, S!Stop, S!MainStep,
              S!LateStops, S!StagesPassed, S!CauseReturned, S!AllDone
<1>6. ASSUME NEW timeout \in BOOLEAN, S!Shutdown(timeout) PROVE S!ServerInv'
  BY <1>6 DEF S!Shutdown, S!ShutdownErr, S!MainStep, S!ErrorsReported, S!LateStops,
              S!StagesPassed, S!CauseReturned, S!AllDone, S!Drained
<1>7. ASSUME NEW timeout \in BOOLEAN, S!AwaitWorkers(timeout) PROVE S!ServerInv'
  BY <1>7 DEF S!AwaitWorkers, S!MainStep, S!ErrorsReported, S!LateStops,
              S!StagesPassed, S!CauseReturned, S!AllDone, S!Drained
<1>8. CASE S!ClosePool \/ S!Return
  BY <1>8 DEF S!ClosePool, S!Return, S!MainStep, S!ErrorsReported, S!LateStops,
              S!StagesPassed, S!CauseReturned, S!AllDone, S!Drained
<1> QED BY <1>1, <1>2, <1>3, <1>4, <1>5, <1>6, <1>7, <1>8 DEF S!MainNext

\* The invariant of run() is inductive.
LEMMA ServerStep == S!ServerInv /\ [S!Next]_(S!vars) => S!ServerInv'
<1> SUFFICES ASSUME S!ServerInv, [S!Next]_(S!vars) PROVE S!ServerInv'
  OBVIOUS
<1>1. ASSUME NEW w \in Loops, S!LoopNext(w) \/ S!LoopDone(w) \/ S!LoopFails(w)
      PROVE  S!ServerInv'
  BY <1>1, LoopsStep, ErrorsStep DEF S!ServerInv
<1> QED BY <1>1, MainStep DEF S!Next

\* cmd/server: whatever fails, times out or is signalled, run() returns nil only
\* after its workers and requests, and the error that stopped it otherwise.
THEOREM ExitsTold == S!Spec => []ExitTold
<1>1. S!ServerInv => ExitTold
  BY DEF S!ServerInv, S!StagesPassed, ExitTold, S!ExitTold, S!CleanExit, S!AllDone, S!Drained
<1> QED BY <1>1, ServerInit, ServerStep, PTL DEF S!Spec

\* cmd/server: for any number of workers, the channel of errors has room for
\* one more while a worker has one to send, and a cancelled worker begins one
\* more call at most.
THEOREM WorkersReport == S!Spec => []WorkersStop
<1>1. S!ServerInv => WorkersStop
  <2> SUFFICES ASSUME S!ServerInv PROVE S!ReportsAtOnce /\ S!OneLateCall
    BY DEF WorkersStop, S!WorkersStop
  <2>1. S!OneLateCall
    BY DEF S!ServerInv, S!LateStops, S!OneLateCall
  <2>2. ASSUME NEW w \in Loops, loop[w] = "send" PROVE workerErr < Cardinality(Loops)
    <3> DEFINE D == {v \in Loops : loop[v] = "done"}
    <3>1. D \in SUBSET Loops /\ D # Loops
      BY <2>2
    <3>2. workerErr \in Nat /\ workerErr <= Cardinality(D)
      BY SameCount DEF S!ServerInv, S!TypeOK, S!ErrorsReported
    <3> HIDE DEF D
    <3>3. IsFiniteSet(D) /\ Cardinality(D) <= Cardinality(Loops) /\ Cardinality(D) # Cardinality(Loops)
      BY <3>1, FS_Subset, PartsAssumption
    <3>4. Cardinality(D) \in Nat /\ Cardinality(Loops) \in Nat
      BY <3>3, FS_CardinalityType, PartsAssumption
    <3> QED BY <3>2, <3>3, <3>4
  <2> QED BY <2>1, <2>2, SameCount DEF S!ReportsAtOnce, S!WorkerErrCap
<1> QED BY <1>1, ServerInit, ServerStep, PTL DEF S!Spec

(***************************************************************************)
(* Retry                                                                   *)
(***************************************************************************)
\* A set of numbers that is not empty has a least member.
LEMMA Least ==
  ASSUME NEW X \in SUBSET Nat, X # {}
  PROVE  \E x \in X : \A y \in X : x <= y
<1> DEFINE L == OpToRel(<, Nat)
<1>1. IsWellFoundedOn(L, Nat)
  BY NatLessThanWellFounded
<1>2. \E x \in X : \A y \in X : <<y, x>> \notin L
  <2> HIDE DEF L
  <2> QED BY <1>1, WFMin
<1>3. ASSUME NEW x \in Nat, NEW y \in Nat, <<y, x>> \notin L PROVE x <= y
  BY <1>3 DEF OpToRel
<1> HIDE DEF L
<1> QED BY <1>2, <1>3

\* The loop of RetryPolicy.Delay defines a delay for every round: a least
\* number of rounds without delays would follow one that has them.
LEMMA DelaysExist ==
  ASSUME base \in Nat, max \in Nat, NEW n \in Nat
  PROVE  \E f \in [1 .. n -> Nat] : \A i \in 1 .. n :
           f[i] = IF i = 1 THEN base ELSE IF f[i - 1] >= max \div 2 THEN max ELSE 2 * f[i - 1]
<1> DEFINE Is(f, m) == \A i \in 1 .. m :
             f[i] = IF i = 1 THEN base ELSE IF f[i - 1] >= max \div 2 THEN max ELSE 2 * f[i - 1]
           Has(m) == \E f \in [1 .. m -> Nat] : Is(f, m)
           Lacking == {m \in Nat : ~Has(m)}
<1>1. SUFFICES ASSUME Lacking # {} PROVE FALSE
  OBVIOUS
<1>2. PICK m \in Lacking : \A k \in Lacking : m <= k
  <2>1. Lacking \in SUBSET Nat
    OBVIOUS
  <2> HIDE DEF Lacking
  <2> QED BY <1>1, <2>1, Least
<1>3. Has(0)
  <2> DEFINE e == [i \in 1 .. 0 |-> 0]
  <2>1. e \in [1 .. 0 -> Nat] /\ Is(e, 0)
    OBVIOUS
  <2> HIDE DEF e, Is
  <2> QED BY <2>1
<1>4. m \in Nat /\ ~Has(m) /\ m - 1 \in Nat /\ Has(m - 1)
  <2> HIDE DEF Has
  <2> QED BY <1>2, <1>3
<1>5. PICK f \in [1 .. m - 1 -> Nat] : Is(f, m - 1)
  BY <1>4
<1> DEFINE d == IF m = 1 THEN base ELSE IF f[m - 1] >= max \div 2 THEN max ELSE 2 * f[m - 1]
           g == [i \in 1 .. m |-> IF i < m THEN f[i] ELSE d]
<1>6. d \in Nat
  <2>1. CASE m = 1
    BY <2>1
  <2>2. CASE m # 1
    <3>1. m - 1 \in 1 .. m - 1
      BY <1>4, <2>2
    <3> QED BY <3>1, <2>2
  <2> QED BY <2>1, <2>2
<1>7. g \in [1 .. m -> Nat]
  <2> HIDE DEF d
  <2> QED BY <1>4, <1>6
<1>8. ASSUME NEW i \in 1 .. m
      PROVE  g[i] = IF i = 1 THEN base ELSE IF g[i - 1] >= max \div 2 THEN max ELSE 2 * g[i - 1]
  <2>1. CASE i < m
    <3>1. i \in 1 .. m - 1 /\ g[i] = f[i] /\ (i # 1 => g[i - 1] = f[i - 1])
      BY <2>1, <1>4
    <3> HIDE DEF g
    <3> QED BY <3>1, <1>5
  <2>2. CASE i = m
    BY <2>2, <1>4
  <2> QED BY <2>1, <2>2, <1>4
<1>9. Is(g, m)
  BY <1>8
<1> HIDE DEF g, Is
<1> QED BY <1>4, <1>7, <1>9

\* Each delay is the one before it doubled, or MaxDelay.
LEMMA DoubledRounds ==
  ASSUME base \in Nat, max \in Nat
  PROVE  /\ R!Doubled \in [1 .. MaxAttempts -> Nat]
         /\ \A i \in 1 .. MaxAttempts :
              R!Doubled[i] = IF i = 1 THEN base
                             ELSE IF R!Doubled[i - 1] >= max \div 2 THEN max
                             ELSE 2 * R!Doubled[i - 1]
<1>1. PICK f \in [1 .. MaxAttempts -> Nat] : \A i \in 1 .. MaxAttempts :
        f[i] = IF i = 1 THEN base ELSE IF f[i - 1] >= max \div 2 THEN max ELSE 2 * f[i - 1]
  BY DelaysExist, PartsAssumption
<1>2. f = [i \in 1 .. MaxAttempts |->
            IF i = 1 THEN base ELSE IF f[i - 1] >= max \div 2 THEN max ELSE 2 * f[i - 1]]
  BY <1>1
<1>3. R!Doubled = [i \in 1 .. MaxAttempts |->
        IF i = 1 THEN base
        ELSE IF R!Doubled[i - 1] >= max \div 2 THEN max ELSE 2 * R!Doubled[i - 1]]
  BY <1>2, Zenon DEF R!Doubled
<1>4. \A i \in 1 .. MaxAttempts : R!Doubled[i] \in Nat
  <2> DEFINE Bad == {i \in Nat : i \in 1 .. MaxAttempts /\ R!Doubled[i] \notin Nat}
  <2>1. SUFFICES ASSUME Bad # {} PROVE FALSE
    BY PartsAssumption
  <2>2. PICK i \in Bad : \A j \in Bad : i <= j
    <3>1. Bad \in SUBSET Nat
      OBVIOUS
    <3> HIDE DEF Bad
    <3> QED BY <2>1, <3>1, Least
  <2>3. i # 1
    BY <1>3, <2>2
  <2>4. i - 1 \in 1 .. MaxAttempts /\ i - 1 \notin Bad
    BY <2>2, <2>3, PartsAssumption
  <2>5. R!Doubled[i - 1] \in Nat
    BY <2>4
  <2>6. i \in 1 .. MaxAttempts /\ R!Doubled[i] \notin Nat
    BY <2>2
  <2>7. R!Doubled[i] = IF R!Doubled[i - 1] >= max \div 2 THEN max ELSE 2 * R!Doubled[i - 1]
    BY <1>3, <2>3, <2>6
  <2> QED BY <2>5, <2>6, <2>7
<1> QED BY <1>3, <1>4

\* What Delay returns doubles while that stays below MaxDelay, and then is it.
LEMMA DelayGrows ==
  ASSUME base \in Nat, max \in Nat, NEW n \in 1 .. MaxAttempts
  PROVE  /\ R!Delay[n] \in Nat /\ R!Delay[n] <= max
         /\ R!Delay[n] < max => R!Delay[n] = IF n = 1 THEN base ELSE 2 * R!Delay[n - 1]
         /\ R!Delay[n] = max => max <= IF n = 1 THEN base ELSE 2 * R!Delay[n - 1] + 1
         /\ n > 1 => R!Delay[n - 1] <= R!Delay[n]
<1>1. \A i \in 1 .. MaxAttempts :
        /\ R!Doubled[i] \in Nat
        /\ R!Delay[i] = IF R!Doubled[i] > max THEN max ELSE R!Doubled[i]
  BY DoubledRounds DEF R!Delay
<1>2. R!Doubled[n] = IF n = 1 THEN base
                     ELSE IF R!Doubled[n - 1] >= max \div 2 THEN max ELSE 2 * R!Doubled[n - 1]
  BY DoubledRounds
<1>3. CASE n = 1
  BY <1>1, <1>2, <1>3
<1>4. CASE n # 1
  <2>1. n - 1 \in 1 .. MaxAttempts
    BY <1>4, PartsAssumption
  <2> QED BY <1>1, <1>2, <1>4, <2>1
<1> QED BY <1>3, <1>4

\* Nothing has been tried.
LEMMA RetryInit == R!Init => R!RetryInv
<1> SUFFICES ASSUME R!Init PROVE R!RetryInv
  OBVIOUS
<1>1. ctx \in BOOLEAN
  BY Zenon DEF R!Init
<1> QED BY <1>1, PartsAssumption
        DEF R!Init, R!RetryInv, R!TypeOK, R!EffectOnce, R!NotYet, R!DelaysWaited

\* The policy is that of the call until it returns.
LEMMA DelayKept ==
  ASSUME UNCHANGED R!args
  PROVE  R!Delay' = R!Delay /\ R!Attempts' = R!Attempts
<1>1. base' = base /\ max' = max /\ kind' = kind /\ asked' = asked /\ jobMax' = jobMax
  BY DEF R!args
<1>2. R!Doubled' = R!Doubled
  BY <1>1, Zenon DEF R!Doubled
<1>3. R!Delay' = R!Delay
  BY <1>1, <1>2, Zenon DEF R!Delay
<1> QED BY <1>1, <1>3 DEF R!Attempts

\* No loop makes more attempts than it was asked for, except that the first is
\* always made by WaitForDatabase.
LEMMA AttemptsBounded ==
  ASSUME R!TypeOK
  PROVE  R!Attempts \in Nat /\ (R!Attempts <= MaxAttempts \/ R!Attempts = 1)
BY PartsAssumption DEF R!TypeOK, R!Attempts, R!Kinds

\* The invariant of the loops is inductive.
LEMMA RetryStep == R!RetryInv /\ [R!Next]_(R!vars) => R!RetryInv'
<1> SUFFICES ASSUME R!RetryInv, [R!Next]_(R!vars) PROVE R!RetryInv'
  OBVIOUS
<1> USE PartsAssumption DEF R!RetryInv
<1>1. CASE R!Refuse \/ R!Begin \/ R!Head \/ R!Done
  <2>1. UNCHANGED <<R!args, attempt, waited, applied, last, ctx, after>>
    BY <1>1 DEF R!Refuse, R!Begin, R!Head, R!Done
  <2>2. /\ pc' \in {"head", "try", "returned"}
        /\ pc' = "try" => pc = "head" /\ ~(kind = "process" /\ ctx)
        /\ pc' = "head" => pc = "begin" /\ R!Attempts >= 1
        /\ IF pc' = "returned" THEN answer' \in {"invalid", "cancelled"} ELSE answer' = answer
        /\ pc # "returned"
    BY <1>1 DEF R!Refuse, R!Begin, R!Head, R!Done, R!Finish, R!HeadErr
  <2>3. R!TypeOK'
    BY <2>1, <2>2 DEF R!args, R!TypeOK
  <2>4. R!EffectOnce' /\ R!NotYet'
    BY <2>1, <2>2 DEF R!args, R!TypeOK, R!EffectOnce, R!NotYet
  <2>5. R!DelaysWaited'
    BY <2>1, <2>2, DelayKept, AttemptsBounded DEF R!args, R!TypeOK, R!DelaysWaited
  <2> QED BY <2>3, <2>4, <2>5
<1>2. CASE R!Cancel \/ UNCHANGED R!vars
  <2>1. ctx' \in BOOLEAN
    BY <1>2, Zenon DEF R!Cancel, R!vars, R!TypeOK
  <2> QED BY <1>2, <2>1, DelayKept DEF R!Cancel, R!vars, R!args,
       R!TypeOK, R!EffectOnce, R!NotYet, R!DelaysWaited
<1>3. ASSUME NEW o \in {"nil", "error", "serialization"}, NEW does \in BOOLEAN, R!Try(o, does)
      PROVE  R!RetryInv'
  <2>1. UNCHANGED <<R!args, attempt, waited, ctx>>
    BY <1>3 DEF R!Try
  <2>2. R!TypeOK'
    BY <1>3 DEF R!Try, R!Finish, R!args, R!TypeOK
  <2>3. R!EffectOnce' /\ R!NotYet'
    <3>1. /\ pc = "try" /\ answer = "none" /\ kind' = kind /\ ctx' = ctx
          /\ kind = "policy" => applied = 0
          /\ kind # "ping" => after = 0
      BY <1>3 DEF R!Try, R!args, R!NotYet
    <3>2. applied' = (IF does THEN applied + 1 ELSE applied) /\ last' = o
      BY <1>3 DEF R!Try
    <3>3. o = "nil" => does /\ pc' = "returned" /\ answer' = "nil"
      BY <1>3 DEF R!Try, R!Finish
    <3>4. o # "nil" => (pc' = "returned" /\ answer' = o) \/ (pc' = "wait" /\ answer' = "none")
      <4>1. o # "nil" => (pc' = "returned" /\ answer' = o) \/ (pc' = "wait" /\ answer' = answer)
        BY <1>3, Zenon DEF R!Try, R!Finish
      <4> QED BY <3>1, <4>1, Zenon
    <3>5. kind = "policy" /\ pc' # "returned" => ~does
      BY <1>3 DEF R!Try, R!Finish, R!Retryable
    <3>6. kind # "ping" =>
            \/ after' = 0
            \/ after' = 1 /\ (pc' = "returned" \/ (kind = "process" /\ ctx /\ pc' = "wait"))
      BY <1>3, <3>1, <3>4 DEF R!Try, R!Finish, R!TypeOK, R!Kinds, R!Retryable
    <3>7. R!EffectOnce'
      BY <3>1, <3>2, <3>3, <3>4 DEF R!EffectOnce, R!TypeOK
    <3> QED BY <3>1, <3>2, <3>3, <3>4, <3>5, <3>6, <3>7 DEF R!NotYet
  <2>4. R!DelaysWaited'
    BY <1>3, <2>1, DelayKept DEF R!Try, R!Finish, R!args, R!TypeOK, R!DelaysWaited
  <2> QED BY <2>2, <2>3, <2>4
<1>4. CASE R!Timer
  <2>1. UNCHANGED <<R!args, applied, last, ctx, after>>
    BY <1>4 DEF R!Timer
  <2>2. attempt \in 1 .. MaxAttempts /\ R!Attempts \in Nat /\ attempt <= R!Attempts
    BY <1>4, AttemptsBounded DEF R!Timer, R!DelaysWaited
  <2>3. R!Delay[attempt] \in Nat
    BY <2>2, DelayGrows DEF R!TypeOK
  <2>4. R!TypeOK'
    BY <1>4, <2>2, <2>3 DEF R!Timer, R!Finish, R!args, R!TypeOK, R!Kinds
  <2>5. R!EffectOnce' /\ R!NotYet'
    BY <1>4 DEF R!Timer, R!Finish, R!args, R!TypeOK, R!EffectOnce, R!NotYet
  <2>6. R!DelaysWaited'
    <3>1. R!Delay' = R!Delay /\ R!Attempts' = R!Attempts
      BY <2>1, DelayKept
    <3>2. attempt' \in 1 .. MaxAttempts /\ pc' # "begin"
      BY <1>4, <2>2, AttemptsBounded DEF R!Timer, R!Finish, R!TypeOK
    <3>3. pc' \in {"head", "try", "wait"} => attempt' <= R!Attempts
      BY <1>4, <2>2 DEF R!Timer, R!Finish
    <3>4. ASSUME kind = "process", NEW n \in 1 .. attempt' - 1
          PROVE  waited'[n] = R!Delay[n]
      <4>1. n \in 1 .. attempt
        BY <1>4, <2>2 DEF R!Timer
      <4>2. waited' = [waited EXCEPT ![attempt] = R!Delay[attempt]]
        BY <1>4, <3>4 DEF R!Timer
      <4>3. n < attempt => waited[n] = R!Delay[n]
        BY <2>2, <3>4, <4>1 DEF R!DelaysWaited
      <4> QED BY <2>2, <4>1, <4>2, <4>3 DEF R!TypeOK
    <3>5. kind' = kind
      BY <2>1 DEF R!args
    <3> QED BY <3>1, <3>2, <3>3, <3>4, <3>5 DEF R!DelaysWaited
  <2> QED BY <2>4, <2>5, <2>6
<1> QED BY <1>1, <1>2, <1>3, <1>4 DEF R!Next, R!Progress

\* RunWithPolicy repeats only what did not happen, so a transaction takes
\* effect once at most, and the loops stop after the cancellation.
THEOREM RetriesSafe == R!Spec => []RepeatsSafely
<1>1. R!RetryInv => RepeatsSafely
  BY DEF R!RetryInv, R!NotYet, RepeatsSafely, R!RepeatsSafely, R!OneLateAttempt, R!TypeOK
<1> QED BY <1>1, RetryInit, RetryStep, PTL DEF R!Spec

\* RunWithRetry doubles its delays exactly until doubling reaches MaxDelay, for
\* any policy and any number of attempts.
THEOREM DelaysBounded == R!Spec => []DelaysGrow
<1>1. R!RetryInv => DelaysGrow
  <2> SUFFICES ASSUME R!RetryInv, kind = "process", NEW n \in 1 .. attempt - 1
               PROVE  /\ waited[n] <= max
                      /\ waited[n] < max => waited[n] = IF n = 1 THEN base ELSE 2 * waited[n - 1]
                      /\ waited[n] = max =>
                           max <= (IF n = 1 THEN base ELSE 2 * waited[n - 1])
                                    + (IF n = 1 THEN 0 ELSE 1)
                      /\ n > 1 => waited[n - 1] <= waited[n]
    BY DEF DelaysGrow, R!DelaysGrow
  <2>1. attempt \in Nat /\ base \in Nat /\ max \in Nat
    BY DEF R!RetryInv, R!TypeOK
  <2>2. n \in 1 .. MaxAttempts /\ waited[n] = R!Delay[n]
    BY <2>1, PartsAssumption DEF R!RetryInv, R!DelaysWaited
  <2>3. n > 1 => waited[n - 1] = R!Delay[n - 1]
    BY <2>1 DEF R!RetryInv, R!DelaysWaited
  <2> QED BY <2>1, <2>2, <2>3, DelayGrows
<1> QED BY <1>1, RetryInit, RetryStep, PTL DEF R!Spec

(***************************************************************************)
(* TelemetryRuntime                                                        *)
(***************************************************************************)
\* Both modules count with the same Cardinality.
LEMMA SameCountT == \A X : T!Cardinality(X) = Cardinality(X)
  BY Zenon DEF T!Cardinality, Cardinality

\* One member more or less.
LEMMA CountOne ==
  ASSUME NEW X \in SUBSET Calls, NEW c \in Calls
  PROVE  /\ Cardinality(X) \in Nat
         /\ Cardinality(X \cup {c}) = IF c \in X THEN Cardinality(X) ELSE Cardinality(X) + 1
         /\ Cardinality(X \ {c}) = IF c \in X THEN Cardinality(X) - 1 ELSE Cardinality(X)
         /\ c \in X => Cardinality(X) >= 1
<1>1. IsFiniteSet(X)
  BY FS_Subset, PartsAssumption
<1>2. Cardinality(X) \in Nat
  BY <1>1, FS_CardinalityType
<1>3. Cardinality(X \cup {c}) = IF c \in X THEN Cardinality(X) ELSE Cardinality(X) + 1
  BY <1>1, FS_AddElement
<1>4. Cardinality(X \ {c}) = IF c \in X THEN Cardinality(X) - 1 ELSE Cardinality(X)
  BY <1>1, FS_RemoveElement
<1>5. c \in X => Cardinality(X) >= 1
  <2>1. Cardinality(X \ {c}) \in Nat
    BY <1>1, FS_RemoveElement, FS_CardinalityType
  <2> QED BY <1>2, <1>4, <2>1
<1> QED BY <1>2, <1>3, <1>4, <1>5

\* Nobody is inside.
LEMMA LimiterInit == T!Init => T!LimiterInv
<1> SUFFICES ASSUME T!Init PROVE T!LimiterInv
  OBVIOUS
<1>1. T!Holding = {} /\ T!Decoding = {} /\ T!Panicked = {}
  BY DEF T!Init, T!Holding, T!Decoding, T!Panicked
<1>2. T!Cardinality({}) = 0
  BY SameCountT, FS_EmptySet
<1>3. T!TypeOK
  BY DEF T!Init, T!TypeOK
<1> QED BY <1>1, <1>2, <1>3, PartsAssumption
        DEF T!Init, T!LimiterInv, T!TokensHeld, T!OpenExact

\* The invariant of the limiter is inductive.
LEMMA LimiterStep == T!LimiterInv /\ [T!Next]_(T!vars) => T!LimiterInv'
<1> SUFFICES ASSUME T!LimiterInv, [T!Next]_(T!vars) PROVE T!LimiterInv'
  OBVIOUS
<1>1. CASE UNCHANGED T!vars
  BY <1>1 DEF T!vars, T!LimiterInv, T!TypeOK, T!TokensHeld, T!OpenExact, T!Holding, T!Decoding,
              T!Panicked
<1>2. ASSUME NEW c \in Calls, T!TakeToken(c) \/ T!Run(c) \/ T!Cancel(c)
      PROVE  T!LimiterInv'
  <2> DEFINE H == T!Holding
             D == T!Decoding
             P == T!Panicked
  <2>1. /\ H \in SUBSET Calls /\ D \in SUBSET Calls /\ P \in SUBSET Calls
        /\ tokens = Cardinality(H) /\ tokens <= Slots
        /\ open = Cardinality(D) + Cardinality(P) /\ P \cap Guarded = {}
    BY SameCountT DEF T!LimiterInv, T!TokensHeld, T!OpenExact, T!Holding, T!Decoding, T!Panicked
  <2>2. /\ tokens \in Nat /\ open \in Nat
        /\ \A x \in Calls :
             /\ stage[x] \in {"select", "head", "decode"} => outcome[x] = "none"
             /\ stage[x] = "release" => outcome[x] \in {"none", "error"}
    BY DEF T!LimiterInv, T!TypeOK, T!TokensHeld
  <2> USE DEF T!Goto, T!Ends, T!TypeOK, T!Holding, T!Decoding, T!Panicked
  <2>3. /\ \A x \in Calls :
             /\ stage'[x] \in {"select", "head", "decode"} => outcome'[x] = "none"
             /\ stage'[x] = "release" => outcome'[x] \in {"none", "error"}
        /\ stage' \in [Calls -> {"select", "head", "decode", "release", "leave", "returned"}]
        /\ dead' \in SUBSET Calls /\ decoded' \in [Calls -> Nat]
        /\ outcome' \in [Calls -> {"none", "nil", "error", "panic"}]
    BY <1>2, <2>2 DEF T!LimiterInv, T!Run, T!TakeToken, T!Cancel, T!SelectDone, T!Leave,
         T!BatchEnds, T!Acquire, T!DecodeReturns, T!DecodePanics, T!Release
  <2>4. SUFFICES /\ tokens' = Cardinality(H') /\ tokens' <= Slots
                 /\ open' = Cardinality(D') + Cardinality(P') /\ P' \cap Guarded = {}
    <3>1. H' \in SUBSET Calls /\ D' \in SUBSET Calls /\ P' \in SUBSET Calls
      OBVIOUS
    <3> HIDE DEF H, D, P
    <3>2. Cardinality(H') \in Nat /\ Cardinality(D') \in Nat /\ Cardinality(P') \in Nat
      BY <3>1, CountOne
    <3>3. tokens' \in Nat /\ open' \in Nat
      BY <2>4, <3>2
    <3> QED BY <2>3, <2>4, <3>3, SameCountT
            DEF T!LimiterInv, T!TokensHeld, T!OpenExact, H, D, P
  <2>5. CASE T!TakeToken(c)
    <3>1. H' = H \cup {c} /\ c \notin H /\ D' = D /\ P' = P /\ tokens' = tokens + 1
          /\ tokens < Slots /\ open' = open
      BY <2>5 DEF T!LimiterInv, T!TakeToken
    <3> HIDE DEF H, D, P
    <3> QED BY <2>1, <2>2, <3>1, CountOne, PartsAssumption
  <2>6. CASE T!Leave(c)
    <3>1. H' = H \ {c} /\ c \in H /\ D' = D /\ P' = P /\ tokens' = tokens - 1 /\ open' = open
      BY <2>6 DEF T!LimiterInv, T!Leave, T!TokenBack
    <3> HIDE DEF H, D, P
    <3> QED BY <2>1, <2>2, <3>1, CountOne, PartsAssumption
  <2>7. CASE T!Acquire(c)
    <3>1. H' = H /\ D' = D \cup {c} /\ c \notin D /\ P' = P /\ tokens' = tokens /\ open' = open + 1
      BY <2>7 DEF T!LimiterInv, T!Acquire
    <3> HIDE DEF H, D, P
    <3>2. Cardinality(D \cup {c}) = Cardinality(D) + 1 /\ Cardinality(D) \in Nat /\ Cardinality(P) \in Nat
      BY <2>1, <3>1, CountOne
    <3> QED BY <2>1, <2>2, <3>1, <3>2
  <2>8. CASE T!Release(c)
    <3>1. H' = H /\ D' = D \ {c} /\ c \in D /\ P' = P /\ tokens' = tokens /\ open' = open - 1
      BY <2>8 DEF T!LimiterInv, T!Release, T!Released
    <3> HIDE DEF H, D, P
    <3>2. Cardinality(D \ {c}) = Cardinality(D) - 1 /\ Cardinality(D) \in Nat /\ Cardinality(P) \in Nat
      BY <2>1, <3>1, CountOne
    <3> QED BY <2>1, <2>2, <3>1, <3>2
  <2>9. CASE T!DecodePanics(c) /\ T!Unwinds(c)
    <3>1. H' = H /\ D' = D \ {c} /\ c \in D /\ P' = P \cup {c} /\ c \notin P /\ c \notin Guarded
          /\ tokens' = tokens /\ open' = open
      BY <2>2, <2>9 DEF T!LimiterInv, T!DecodePanics, T!Unwinds
    <3> HIDE DEF H, D, P
    <3> QED BY <2>1, <2>2, <3>1, CountOne
  <2>10. CASE \/ T!SelectDone(c) \/ T!BatchEnds(c) \/ T!Cancel(c)
              \/ (\E err \in BOOLEAN : T!DecodeReturns(c, err))
              \/ (T!DecodePanics(c) /\ ~T!Unwinds(c))
    <3>1. H' = H /\ D' = D /\ P' = P /\ tokens' = tokens /\ open' = open
      BY <2>2, <2>10 DEF T!LimiterInv, T!SelectDone, T!BatchEnds, T!Cancel, T!DecodeReturns,
           T!DecodePanics, T!Unwinds
    <3> HIDE DEF H, D, P
    <3> QED BY <2>1, <3>1
  <2> QED BY <1>2, <2>5, <2>6, <2>7, <2>8, <2>9, <2>10 DEF T!Run
<1> QED BY <1>1, <1>2 DEF T!Next

\* Limiter.Run and DecodeBatch: for any number of calls, tokens and inputs, no
\* error, cancellation or recovered panic leaves a resource open or costs a token.
THEOREM ResourcesReleased == T!Spec => []OpenExact
<1>1. T!LimiterInv => OpenExact
  BY DEF T!LimiterInv, OpenExact
<1> QED BY <1>1, LimiterInit, LimiterStep, PTL DEF T!Spec
=============================================================================
