-------------------------- MODULE MigrationsProofs --------------------------
(***************************************************************************)
(* Migrations for any number of servers, versions and failures: the        *)
(* inductive invariant is MigrationInv, whose InMigration says why the      *)
(* advisory lock makes check-then-apply safe.                              *)
(***************************************************************************)
EXTENDS MCServer, SequenceTheorems, TLAPS

\* The step of applying the next script keeps the scripts in order.
LEMMA AppendNext ==
  ASSUME NEW n \in Nat, NEW seq \in Seq(1 .. Versions), Len(seq) = n,
         seq = [i \in 1 .. n |-> i], n + 1 \in 1 .. Versions
  PROVE  /\ Append(seq, n + 1) \in Seq(1 .. Versions)
         /\ Len(Append(seq, n + 1)) = n + 1
         /\ Append(seq, n + 1) = [i \in 1 .. n + 1 |-> i]
  OBVIOUS

\* Initially nothing was applied and nobody serves.
LEMMA InvInit == G!Init => G!MigrationInv
  BY MigrationAssumption
  DEF G!Init, G!MigrationInv, G!TypeOK, G!AppliedInOrder, G!ServingUpToDate, G!InMigration

\* Steps of Migrate before the commit, starts, failures and rollbacks leave the
\* database alone; InMigration is kept since only the owner of the lock reads.
LEMMA InvQuiet ==
  ASSUME G!MigrationInv,
         \/ \E s \in Servers : G!Start(s) \/ G!BeginMigration(s) \/ G!ReadState(s)
                               \/ G!ApplyMigration(s) \/ G!Fail(s)
         \/ G!RollbackOrphan
  PROVE  G!MigrationInv'
<1>0. /\ G!TypeOK /\ G!AppliedInOrder /\ G!ServingUpToDate /\ G!InMigration
      /\ scripts' = scripts /\ recorded' = recorded
  BY DEF G!MigrationInv, G!Start, G!BeginMigration, G!ReadState, G!ApplyMigration, G!Fail,
         G!RollbackOrphan, G!database
<1>1. G!AppliedInOrder'
  BY <1>0 DEF G!AppliedInOrder
<1>2. ASSUME NEW s \in Servers, G!Start(s)
      PROVE  G!TypeOK' /\ G!ServingUpToDate' /\ G!InMigration'
  BY <1>0, <1>2, MigrationAssumption
  DEF G!Start, G!database, G!TypeOK, G!ServingUpToDate, G!InMigration
<1>3. ASSUME NEW s \in Servers, G!BeginMigration(s)
      PROVE  G!TypeOK' /\ G!ServingUpToDate' /\ G!InMigration'
  BY <1>0, <1>3, MigrationAssumption
  DEF G!BeginMigration, G!Lock, G!database, G!TypeOK, G!ServingUpToDate, G!InMigration
<1>4. ASSUME NEW s \in Servers, G!ReadState(s)
      PROVE  G!TypeOK' /\ G!ServingUpToDate' /\ G!InMigration'
  <2> DEFINE v == at[s] \in recorded
  <2>0. /\ phase[s] = "locked" /\ phase' = [phase EXCEPT ![s] = "read"]
        /\ found' = [found EXCEPT ![s] = v] /\ v \in BOOLEAN
        /\ lock' = lock /\ at' = at /\ failures' = failures
    BY <1>4 DEF G!ReadState
  <2>1. /\ found' \in [Servers -> BOOLEAN]
        /\ phase' \in [Servers -> {"down", "begin", "locked", "read", "ran", "serving"}]
        /\ \A t \in Servers : t # s => phase'[t] = phase[t] /\ found'[t] = found[t]
        /\ phase[s] = "locked" /\ phase'[s] = "read" /\ (found'[s] <=> at[s] \in recorded)
        /\ lock' = lock /\ at' = at /\ failures' = failures
    <3>1. found'[s] = v
      BY <1>0, <2>0 DEF G!TypeOK
    <3> HIDE DEF v
    <3>2. /\ found' \in [Servers -> BOOLEAN]
          /\ \A t \in Servers : t # s => found'[t] = found[t]
      BY <1>0, <2>0 DEF G!TypeOK
    <3>3. /\ phase' \in [Servers -> {"down", "begin", "locked", "read", "ran", "serving"}]
          /\ phase'[s] = "read" /\ \A t \in Servers : t # s => phase'[t] = phase[t]
      BY <1>0, <2>0 DEF G!TypeOK
    <3> QED BY <2>0, <3>1, <3>2, <3>3 DEF v
  <2>2. G!TypeOK'
    BY <1>0, <2>1 DEF G!TypeOK
  <2>3. G!ServingUpToDate'
    BY <1>0, <2>1 DEF G!ServingUpToDate
  <2>4. G!InMigration'
    BY <1>0, <2>1 DEF G!InMigration
  <2> QED BY <2>2, <2>3, <2>4
<1>5. ASSUME NEW s \in Servers, G!ApplyMigration(s)
      PROVE  G!TypeOK' /\ G!ServingUpToDate' /\ G!InMigration'
  BY <1>0, <1>5 DEF G!ApplyMigration, G!database, G!TypeOK, G!ServingUpToDate, G!InMigration
<1>6. ASSUME NEW s \in Servers, G!Fail(s)
      PROVE  G!TypeOK' /\ G!ServingUpToDate' /\ G!InMigration'
  BY <1>0, <1>6, MigrationAssumption
  DEF G!Fail, G!database, G!TypeOK, G!ServingUpToDate, G!InMigration
<1>7. CASE G!RollbackOrphan
  <2>1. G!TypeOK' /\ G!ServingUpToDate' /\ G!InMigration'
    BY <1>0, <1>7, MigrationAssumption
    DEF G!RollbackOrphan, G!database, G!TypeOK, G!ServingUpToDate, G!InMigration
  <2> QED BY <2>1, <1>1 DEF G!MigrationInv
<1> QED BY <1>1, <1>2, <1>3, <1>4, <1>5, <1>6, <1>7 DEF G!MigrationInv

\* The commit applies the script that comes next, or none.
LEMMA InvCommit ==
  ASSUME G!MigrationInv, NEW s \in Servers, G!CommitMigration(s)
  PROVE  G!MigrationInv'
<1>0. G!TypeOK /\ G!AppliedInOrder /\ G!ServingUpToDate /\ G!InMigration
  BY DEF G!MigrationInv
<1>1. /\ lock = s /\ lock' = NoOne /\ at[s] \in 1 .. Versions
      /\ at[s] <= Len(scripts) + 1 /\ Len(scripts) \in Nat
      /\ found[s] <=> at[s] \in recorded
  <2>1. phase[s] \in {"read", "ran"} /\ lock' = NoOne
    BY DEF G!CommitMigration, G!LockAfterCommit
  <2>2. lock = s /\ at[s] <= Len(scripts) + 1 /\ (found[s] <=> at[s] \in recorded)
    BY <1>0, <2>1 DEF G!InMigration
  <2>3. at[s] \in 1 .. Versions /\ Len(scripts) \in Nat
    BY <1>0 DEF G!TypeOK
  <2> QED BY <2>1, <2>2, <2>3
<1>2. \A t \in Servers : t # s => phase[t] \notin {"locked", "read", "ran"}
  BY <1>0, <1>1 DEF G!InMigration
<1>3. /\ scripts' \in Seq(1 .. Versions)
      /\ Len(scripts') >= Len(scripts) /\ Len(scripts') >= at[s]
      /\ G!AppliedInOrder'
  <2>1. CASE found[s]
    BY <1>0, <1>1, <2>1 DEF G!CommitMigration, G!VersionRecorded, G!AppliedInOrder, G!TypeOK
  <2>2. CASE ~found[s]
    <3>1. at[s] = Len(scripts) + 1
      BY <1>0, <1>1, <2>2 DEF G!AppliedInOrder
    <3>2. scripts' = Append(scripts, Len(scripts) + 1)
          /\ recorded' = recorded \cup {Len(scripts) + 1}
      BY <3>1, <2>2 DEF G!CommitMigration, G!VersionRecorded
    <3>3. /\ scripts' \in Seq(1 .. Versions)
          /\ Len(scripts') = Len(scripts) + 1
          /\ scripts' = [i \in 1 .. Len(scripts) + 1 |-> i]
      BY <3>1, <3>2, <1>0, <1>1, AppendNext DEF G!AppliedInOrder, G!TypeOK
    <3> QED BY <3>1, <3>2, <3>3, <1>0, <1>1 DEF G!AppliedInOrder
  <2> QED BY <2>1, <2>2
<1>4. Len(scripts') <= Versions /\ Len(scripts') \in Nat
  <2>1. Len(scripts') \in Nat
    BY <1>3
  <2>2. CASE Len(scripts') = 0
    BY <2>1, <2>2, MigrationAssumption
  <2>3. CASE Len(scripts') > 0
    <3>1. scripts'[Len(scripts')] \in 1 .. Versions
      <4>1. scripts' \in Seq(1 .. Versions)
        BY <1>3
      <4>2. Len(scripts') \in 1 .. Len(scripts')
        BY <2>1, <2>3
      <4> QED BY <4>1, <4>2, ElementOfSeq
    <3>2. scripts'[Len(scripts')] = Len(scripts')
      BY <1>3, <2>1, <2>3 DEF G!AppliedInOrder
    <3> QED BY <3>1, <3>2, <2>1
  <2> QED BY <2>1, <2>2, <2>3
<1>5. G!TypeOK'
  <2>1. recorded' \in SUBSET (1 .. Versions)
    BY <1>3, <1>4, MigrationAssumption DEF G!AppliedInOrder
  <2>2. /\ phase' \in [Servers -> {"down", "begin", "locked", "read", "ran", "serving"}]
        /\ at' \in [Servers -> 1 .. Versions]
    <3>1. CASE at[s] = Versions
      BY <1>0, <1>1, <3>1 DEF G!CommitMigration, G!LastMigration, G!TypeOK
    <3>2. CASE at[s] # Versions
      <4>1. at[s] + 1 \in 1 .. Versions
        BY <1>1, <3>2, MigrationAssumption
      <4>2. at' = [at EXCEPT ![s] = at[s] + 1] /\ phase' = [phase EXCEPT ![s] = "begin"]
        BY <3>2 DEF G!CommitMigration, G!LastMigration
      <4> QED BY <1>0, <4>1, <4>2 DEF G!TypeOK
    <3> QED BY <3>1, <3>2
  <2> QED BY <1>0, <1>1, <1>3, <2>1, <2>2 DEF G!CommitMigration, G!TypeOK
<1>6. G!ServingUpToDate'
  <2>1. \A t \in Servers : t # s => phase'[t] = phase[t]
    BY <1>0 DEF G!CommitMigration, G!TypeOK
  <2>2. phase'[s] = "serving" => at[s] = Versions
    BY <1>0 DEF G!CommitMigration, G!LastMigration, G!TypeOK
  <2>3. ASSUME NEW t \in Servers, phase'[t] = "serving" PROVE Len(scripts') >= Versions
    BY <2>1, <2>2, <2>3, <1>0, <1>1, <1>3, <1>4, MigrationAssumption DEF G!ServingUpToDate
  <2> QED BY <2>3, <1>4, MigrationAssumption DEF G!ServingUpToDate
<1>7. G!InMigration'
  <2>1. ASSUME NEW t \in Servers, t # s
        PROVE  /\ phase'[t] = phase[t] /\ phase'[t] \notin {"locked", "read", "ran"}
               /\ at'[t] = at[t] /\ at[t] \in 1 .. Versions
               /\ phase[t] \notin {"down", "serving"} => at'[t] <= Len(scripts') + 1
    BY <1>0, <1>1, <1>2, <1>3, <1>4, <2>1, MigrationAssumption
    DEF G!CommitMigration, G!TypeOK, G!InMigration
  <2>2. /\ phase'[s] \in {"begin", "serving"}
        /\ phase'[s] = "begin" => at'[s] <= Len(scripts') + 1
    BY <1>0, <1>1, <1>3, <1>4, MigrationAssumption
    DEF G!CommitMigration, G!LastMigration, G!TypeOK
  <2> QED BY <2>1, <2>2 DEF G!InMigration
<1> QED BY <1>3, <1>5, <1>6, <1>7 DEF G!MigrationInv

\* db.Migrate, for any servers, versions and failures: MigrationInv always holds.
THEOREM MigrationInvariant == G!Spec => []MigrationInv
<1>0. MigrationInv <=> G!MigrationInv
  BY DEF MigrationInv
<1>1. G!MigrationInv /\ [G!Next]_(G!vars) => G!MigrationInv'
  <2> SUFFICES ASSUME G!MigrationInv, [G!Next]_(G!vars) PROVE G!MigrationInv'
    OBVIOUS
  <2>1. CASE \E s \in Servers : G!CommitMigration(s)
    BY <2>1, InvCommit
  <2>2. CASE \/ \E s \in Servers : G!Start(s) \/ G!BeginMigration(s) \/ G!ReadState(s)
                                   \/ G!ApplyMigration(s) \/ G!Fail(s)
             \/ G!RollbackOrphan
    BY <2>2, InvQuiet
  <2>3. CASE UNCHANGED G!vars
    BY <2>3
    DEF G!vars, G!MigrationInv, G!TypeOK, G!AppliedInOrder, G!ServingUpToDate, G!InMigration
  <2> QED BY <2>1, <2>2, <2>3 DEF G!Next, G!Migrate
<1> QED BY <1>0, <1>1, InvInit, PTL DEF G!Spec

\* Each script is applied exactly once and in order, schema_migrations says
\* which, and no server serves before the last one.
THEOREM MigrationsSafe == G!Spec => [](G!AppliedInOrder /\ G!ServingUpToDate)
<1>1. MigrationInv => G!AppliedInOrder /\ G!ServingUpToDate
  BY DEF MigrationInv, G!MigrationInv
<1> QED BY <1>1, MigrationInvariant, PTL
=============================================================================
