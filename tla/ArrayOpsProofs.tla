--------------------------- MODULE ArrayOpsProofs ---------------------------
(***************************************************************************)
(* What the process keeps in memory, for any goroutines, owners, times to  *)
(* live and clock, any concurrent calls, sessions, missions and keys, and  *)
(* any finite set of jobs.                                                 *)
(***************************************************************************)
EXTENDS MCArrayOps, Sequences, FiniteSetTheorems, TLAPS

(***************************************************************************)
(* Leases                                                                  *)
(***************************************************************************)
\* Nothing has been given or committed.
LEMMA LeaseInit == Init => LeaseInv
  BY LeaseAssumption DEF Init, LeaseInv, TypeOK, HoldersHold, TokensGiven, TokenUnique

\* A deadline that a worker was told is the lease's own for as long as the
\* clock has not reached it, unless another goroutine of its owner changed it.
LEMMA HoldersStep == LeaseInv /\ [Next]_vars => HoldersHold'
<1> SUFFICES ASSUME LeaseInv, [Next]_vars PROVE HoldersHold'
  OBVIOUS
<1>0. TypeOK /\ HoldersHold /\ \A w \in Workers : read[w] <= now
  BY DEF LeaseInv
<1> USE <1>0, LeaseAssumption DEF TypeOK, HoldersHold, HeldBy
<1>1. CASE Tick
  BY <1>1 DEF Tick, lease
<1>2. ASSUME NEW w \in Workers, ReadClock(w) PROVE HoldersHold'
  BY <1>2 DEF ReadClock, lease
<1>3. ASSUME NEW w \in Workers, NEW ttl \in TTLs, Acquire(w, ttl) PROVE HoldersHold'
  <2> HIDE DEF HeldBy
  <2>1. /\ owner' = OwnerOf[w] /\ expiresAt' = read[w] + ttl /\ now' = now
        /\ until' = [until EXCEPT ![w] = read[w] + ttl] /\ Touch(w)
        /\ owner = NoOwner \/ read[w] >= expiresAt \/ owner = OwnerOf[w]
    BY <1>3 DEF Acquire, Free
  <2> SUFFICES ASSUME NEW u \in Workers, now < until'[u], u \notin touched'
               PROVE  owner' = OwnerOf[u] /\ now < expiresAt' /\ until'[u] = expiresAt'
    BY <2>1 DEF HeldBy
  <2> QED BY <2>1 DEF HeldBy, Touch
<1>4. ASSUME NEW w \in Workers, Refused(w) PROVE HoldersHold'
  BY <1>4 DEF Refused, lease
<1>5. ASSUME NEW w \in Workers, NEW ttl \in TTLs, Renew(w, ttl) PROVE HoldersHold'
  BY <1>5 DEF Renew, Renewable, Touch
<1>6. ASSUME NEW w \in Workers, Release(w) PROVE HoldersHold'
  BY <1>6 DEF Release, Releasable, Touch
<1>7. ASSUME NEW w \in Workers, Commit(w) PROVE HoldersHold'
  BY <1>7 DEF Commit, lease
<1>8. CASE UNCHANGED vars
  BY <1>8 DEF vars, lease
<1> QED BY <1>1, <1>2, <1>3, <1>4, <1>5, <1>6, <1>7, <1>8 DEF Next, AcquireRefused, RenewRefused

\* LeaseInv is inductive: a new token is larger than all that were given.
LEMMA LeaseStep == LeaseInv /\ [Next]_vars => LeaseInv'
<1> SUFFICES ASSUME LeaseInv, [Next]_vars PROVE LeaseInv'
  OBVIOUS
<1> DEFINE Times == \A w \in Workers : read[w] <= now
           Unfenced == ~fenced => token = 0
<1>0. TypeOK /\ TokensGiven /\ TokenUnique /\ Times /\ Unfenced
  BY DEF LeaseInv
<1> USE DEF TypeOK, Times, Unfenced
<1>h. HoldersHold'
  BY HoldersStep
<1>s. SUFFICES (TypeOK /\ TokensGiven /\ TokenUnique /\ Times /\ Unfenced)'
  BY <1>h DEF LeaseInv
<1>1. CASE Tick
  BY <1>0, <1>1 DEF Tick, lease, TokensGiven, TokenUnique
<1>2. ASSUME NEW w \in Workers, ReadClock(w)
      PROVE  (TypeOK /\ TokensGiven /\ TokenUnique /\ Times /\ Unfenced)'
  BY <1>0, <1>2 DEF ReadClock, lease, TokensGiven, TokenUnique
<1>3. ASSUME NEW w \in Workers, NEW ttl \in TTLs, Acquire(w, ttl)
      PROVE  (TypeOK /\ TokensGiven /\ TokenUnique /\ Times /\ Unfenced)'
  <2>1. /\ held' \in [Workers -> Nat] /\ held'[w] = token' /\ token' \in Nat
        /\ token' = IF fenced THEN token + 1 ELSE token
        /\ \A v \in Workers : v # w => held'[v] = held[v]
        /\ commits' = commits /\ newest' = newest /\ now' = now /\ read' = read
        /\ fenced' = fenced
    BY <1>0, <1>3 DEF Acquire, NextToken
  <2>2. TypeOK'
    <3>1. /\ owner' \in Owners \cup {NoOwner} /\ expiresAt' \in Nat
          /\ until' \in [Workers -> Nat]
      BY <1>0, <1>3, LeaseAssumption DEF Acquire, Owners
    <3>2. touched' \in SUBSET Workers
      BY <1>0, <1>3 DEF Acquire, Touch
    <3> QED BY <1>0, <2>1, <3>1, <3>2
  <2>3. TokensGiven'
    BY <1>0, <2>1 DEF TokensGiven
  <2> QED BY <1>0, <2>1, <2>2, <2>3 DEF TokenUnique
<1>4. ASSUME NEW w \in Workers, Refused(w)
      PROVE  (TypeOK /\ TokensGiven /\ TokenUnique /\ Times /\ Unfenced)'
  BY <1>0, <1>4 DEF Refused, lease, TokensGiven, TokenUnique
<1>5. ASSUME NEW w \in Workers, NEW ttl \in TTLs, Renew(w, ttl)
      PROVE  (TypeOK /\ TokensGiven /\ TokenUnique /\ Times /\ Unfenced)'
  BY <1>0, <1>5, LeaseAssumption DEF Renew, Touch, TokensGiven, TokenUnique
<1>6. ASSUME NEW w \in Workers, Release(w)
      PROVE  (TypeOK /\ TokensGiven /\ TokenUnique /\ Times /\ Unfenced)'
  BY <1>0, <1>6 DEF Release, Touch, TokensGiven, TokenUnique
<1>7. ASSUME NEW w \in Workers, Commit(w)
      PROVE  (TypeOK /\ TokensGiven /\ TokenUnique /\ Times /\ Unfenced)'
  <2>1. /\ commits' = commits \cup {<<w, held[w]>>} /\ newest' = held[w] /\ held[w] # 0
        /\ now' = now /\ read' = read /\ held' = held /\ until' = until /\ fenced' = fenced
        /\ touched' = touched
        /\ owner' = owner /\ token' = token /\ expiresAt' = expiresAt
    BY <1>7 DEF Commit, lease
  <2>2. TypeOK'
    BY <1>0, <2>1
  <2>3. TokensGiven'
    BY <1>0, <2>1 DEF TokensGiven
  <2>4. TokenUnique'
    <3>1. \A c \in commits : c[2] = held[w] => c[1] = w
      BY <1>0 DEF TokensGiven
    <3> QED BY <1>0, <2>1, <3>1 DEF TokenUnique
  <2> QED BY <1>0, <2>1, <2>2, <2>3, <2>4
<1>8. CASE UNCHANGED vars
  BY <1>0, <1>8 DEF vars, lease, TokensGiven, TokenUnique
<1> QED BY <1>1, <1>2, <1>3, <1>4, <1>5, <1>6, <1>7, <1>8 DEF Next, AcquireRefused, RenewRefused

\* arrayops.Lease, worker.Lease and FenceLease: the invariant always holds.
THEOREM LeaseInvariant == Spec => []LeaseInv
<1> QED BY LeaseInit, LeaseStep, PTL DEF Spec

\* arrayops.Lease, worker.Lease and FenceLease: who was given the lease has it
\* until the deadline it was told.
THEOREM HoldersSafe == Spec => []HoldersHold
<1>1. LeaseInv => HoldersHold
  BY DEF LeaseInv
<1> QED BY <1>1, LeaseInit, LeaseStep, PTL DEF Spec

\* Acquire takes the lease from another owner only after its deadline.
THEOREM TakeoverLate == Spec => NoEarlyTakeover
<1>1. LeaseInv /\ [Next]_vars =>
        [owner # NoOwner /\ owner' \notin {owner, NoOwner} => now >= expiresAt]_vars
  <2> SUFFICES ASSUME LeaseInv, Next, owner # NoOwner, owner' \notin {owner, NoOwner}
               PROVE  now >= expiresAt
    OBVIOUS
  <2>1. PICK w \in Workers, ttl \in TTLs : Acquire(w, ttl)
    BY DEF Next, Tick, ReadClock, AcquireRefused, Refused, Renew, RenewRefused, Release,
           Commit, lease
  <2> QED BY <2>1, LeaseAssumption DEF Acquire, Free, LeaseInv, TypeOK
<1> QED BY <1>1, LeaseInit, LeaseStep, PTL DEF Spec, NoEarlyTakeover

\* FenceLease.Commit: no two goroutines commit under one token.
THEOREM TokensUnique == Spec => [](TokensGiven /\ TokenUnique)
<1>1. LeaseInv => TokensGiven /\ TokenUnique
  BY DEF LeaseInv
<1> QED BY <1>1, LeaseInit, LeaseStep, PTL DEF Spec

\* FenceLease.Commit: accepted commits follow the order of the leases.
THEOREM CommitsFenced == Spec => CommitsInOrder
<1>1. LeaseInv /\ [Next]_vars => [newest' >= newest]_vars
  <2> SUFFICES ASSUME LeaseInv, Next PROVE newest' >= newest
    OBVIOUS
  <2>1. newest \in Nat /\ newest <= token /\ token \in Nat
    BY DEF LeaseInv, TypeOK, TokensGiven
  <2>2. ASSUME NEW w \in Workers, Commit(w) PROVE newest' >= newest
    BY <2>1, <2>2 DEF Commit, Commits
  <2>3. newest' = newest \/ \E w \in Workers : Commit(w)
    BY DEF Next, Tick, ReadClock, Acquire, AcquireRefused, RenewRefused, Refused, Renew, Release
  <2> QED BY <2>1, <2>2, <2>3
<1> QED BY <1>1, LeaseInit, LeaseStep, PTL DEF Spec, CommitsInOrder

(***************************************************************************)
(* AcousticControl                                                         *)
(***************************************************************************)
\* The kinds of calls in flight, told apart by what they do.
LEMMA CallKinds ==
  ASSUME A!TypeOK, NEW c \in Callers
  PROVE  /\ call[c].op = "role" => call[c] \in [op : {"role"}, token : Tokens, next : A!Session]
         /\ call[c].op = "mission" =>
              call[c] \in [op : {"mission"}, mission : Missions, copy : A!Mission]
         /\ call[c].op = "enroll" =>
              call[c] \in [op : {"enroll"}, buoy : Buoys, bundle : Bundles]
         /\ A!Idle.op = "idle"
BY DEF A!TypeOK, A!Idle

\* The store is empty.
LEMMA ControlInit == A!Init => A!ControlInv
<1> SUFFICES ASSUME A!Init PROVE A!ControlInv
  OBVIOUS
<1>1. A!TypeOK
  BY DEF A!Init, A!TypeOK
<1>2. \A c \in Callers : call[c].op = "idle"
  BY DEF A!Init, A!Idle
<1> QED BY <1>1, <1>2 DEF A!Init, A!ControlInv, A!MissionsKnown, A!MissionsVersioned,
      A!BundlesPut, A!ClosedRevoked, A!LogoutFinal, A!StoreKeeps, A!EnrolledBundle, A!FirstStays

\* A step of the sessions leaves the rest of the store as it was, and the
\* calls that are not about sessions.
LEMMA SessionTypes ==
  ASSUME A!TypeOK, A!SessionNext
  PROVE  /\ A!TypeOK' /\ UNCHANGED <<A!missionVars, A!otherVars>>
         /\ \A c \in Callers : call'[c] = call[c] \/ call'[c].op \in {"idle", "role"}
<1> USE DEF A!TypeOK
<1>0. ASSUME NEW t \in Tokens, NEW role \in Roles, A!PutSession(t, role)
      PROVE  A!TypeOK'
  <2>1. [role |-> role, revoked |-> FALSE] \in A!Session
    BY Zenon DEF A!Session
  <2> QED BY <1>0, <2>1 DEF A!PutSession, A!missionVars, A!otherVars
<1>1. ASSUME NEW t \in Tokens, NEW role \in Roles, A!Authenticate(t, role)
      PROVE  A!TypeOK'
  <2> DEFINE b == t \in closed
  <2>1. b \in BOOLEAN
    OBVIOUS
  <2>2. granted' = granted \cup {[token |-> t, role |-> role, late |-> b]}
    BY <1>1, Zenon DEF A!Authenticate
  <2> HIDE DEF b
  <2>3. [token |-> t, role |-> role, late |-> b] \in [token : Tokens, role : Roles, late : BOOLEAN]
    BY <2>1
  <2> QED BY <1>1, <2>2, <2>3 DEF A!Authenticate, A!missionVars, A!otherVars
<1>2. ASSUME NEW t \in Tokens, A!Expire(t) PROVE A!TypeOK'
  BY <1>2 DEF A!Expire, A!missionVars, A!otherVars
<1>3. ASSUME NEW t \in Tokens, A!Logout(t) PROVE A!TypeOK'
  <2>1. [sessions[t] EXCEPT !.revoked = TRUE] \in A!Session
    BY <1>3 DEF A!Logout, A!Session
  <2> QED BY <1>3, <2>1 DEF A!Logout, A!missionVars, A!otherVars
<1>4. ASSUME NEW c \in Callers, NEW t \in Tokens, NEW role \in Roles, A!ReadRole(c, t, role)
      PROVE  A!TypeOK'
  <2> DEFINE r == [op |-> "role", token |-> t, next |-> [sessions[t] EXCEPT !.role = role]]
  <2>1. r \in [op : {"role"}, token : Tokens, next : A!Session]
    BY <1>4 DEF A!ReadRole, A!Session
  <2> HIDE DEF r
  <2> QED BY <1>4, <2>1 DEF A!ReadRole, A!Begin, A!sessionVars, A!missionVars, A!otherVars, r
<1>5. ASSUME NEW c \in Callers, A!PutRole(c) PROVE A!TypeOK'
  BY <1>5, CallKinds DEF A!PutRole, A!End, A!RotatedSession, A!missionVars, A!otherVars
<1>6. UNCHANGED <<A!missionVars, A!otherVars>>
  BY DEF A!SessionNext, A!PutSession, A!Authenticate, A!Expire, A!Logout, A!ReadRole, A!PutRole
<1>7. ASSUME NEW c \in Callers PROVE call'[c] = call[c] \/ call'[c].op \in {"idle", "role"}
  BY DEF A!SessionNext, A!PutSession, A!Authenticate, A!Expire, A!Logout, A!ReadRole, A!PutRole,
         A!Begin, A!End, A!Idle
<1> QED BY <1>0, <1>1, <1>2, <1>3, <1>4, <1>5, <1>6, <1>7 DEF A!SessionNext

\* An update ends a mission that runs.
LEMMA UpdatedMission ==
  ASSUME NEW x \in A!Mission, NEW next \in {"dispatching", "promoted"}
  PROVE  /\ A!Updated(x, next) \in A!Mission
         /\ A!Updated(x, next).state = next
         /\ A!Updated(x, next).version = x.version + 1
<1>1. PICK n \in Nat : n = x.version + 1
  BY DEF A!Mission
<1>2. A!Updated(x, next) = [x EXCEPT !.state = next, !.version = n]
  BY <1>1 DEF A!Updated
<1>3. [x EXCEPT !.state = next, !.version = n] \in A!Mission
  BY DEF A!Mission
<1>4. /\ [x EXCEPT !.state = next, !.version = n].state = next
      /\ [x EXCEPT !.state = next, !.version = n].version = n
  BY DEF A!Mission
<1> QED BY <1>1, <1>2, <1>3, <1>4

\* The same of a step of the missions.
LEMMA MissionTypes ==
  ASSUME A!TypeOK, A!MissionsKnown, A!MissionNext
  PROVE  /\ A!TypeOK' /\ UNCHANGED <<A!sessionVars, A!otherVars>>
         /\ \A c \in Callers : call'[c] = call[c] \/ call'[c].op \in {"idle", "mission"}
<1> USE DEF A!TypeOK
<1>1. ASSUME NEW m \in Missions, NEW healthy \in BOOLEAN, A!PutSurveyMission(m, healthy)
      PROVE  A!TypeOK'
  <2>1. [state |-> "running", digest |-> None, healthy |-> healthy, version |-> 1] \in A!Mission
    BY DEF A!Mission
  <2> QED BY <1>1, <2>1 DEF A!PutSurveyMission, A!sessionVars, A!otherVars
<1>2. ASSUME NEW c \in Callers, NEW m \in Missions, A!SnapshotSurveyMission(c, m)
      PROVE  A!TypeOK'
  <2> DEFINE r == [op |-> "mission", mission |-> m, copy |-> missions[m]]
  <2>1. r \in [op : {"mission"}, mission : Missions, copy : A!Mission]
    BY <1>2 DEF A!SnapshotSurveyMission
  <2> HIDE DEF r
  <2> QED BY <1>2, <2>1 DEF A!SnapshotSurveyMission, A!Begin, A!sessionVars, A!missionVars,
                            A!otherVars, r
<1>3. ASSUME NEW c \in Callers, NEW d \in Digests, A!ApproveSurveyMission(c, d)
      PROVE  A!TypeOK'
  <2>1. call[c].mission \in Missions /\ call[c].copy \in A!Mission
    BY <1>3, CallKinds DEF A!ApproveSurveyMission
  <2>2. [call[c].copy EXCEPT !.digest = d] \in A!Mission
    BY <2>1 DEF A!Mission
  <2> QED BY <1>3, <2>1, <2>2 DEF A!ApproveSurveyMission, A!End, A!sessionVars, A!otherVars
<1>4. ASSUME NEW c \in Callers, A!Dispatch(c) \/ A!Promote(c)
      PROVE  A!TypeOK'
  <2>1. PICK next \in {"dispatching", "promoted"} :
          call[c].op = "mission" /\ missions[call[c].mission].state = "running"
          /\ A!UpdateSurveyMission(c, next)
    BY <1>4 DEF A!Dispatch, A!Promote, A!CanDispatch, A!CanPromote
  <2> DEFINE m == call[c].mission
             x == A!Updated(missions[m], next)
  <2>2. m \in Missions /\ call[c].copy \in A!Mission
    BY <2>1, CallKinds
  <2>3. missions[m] \in A!Mission
    BY <2>1, <2>2 DEF A!MissionsKnown
  <2>4. x \in A!Mission
    BY <2>3, UpdatedMission
  <2>5. /\ missions' = [missions EXCEPT ![m] = x] /\ ended' = [ended EXCEPT ![m] = @ + 1]
        /\ call' = [call EXCEPT ![c] = A!Idle]
        /\ UNCHANGED <<A!sessionVars, approvals, regressed, A!otherVars>>
    BY <2>1 DEF A!UpdateSurveyMission, A!End
  <2> HIDE DEF x, m
  <2> QED BY <2>2, <2>4, <2>5 DEF A!sessionVars, A!otherVars, m
<1>5. ASSUME NEW c \in Callers, A!Discard(c) PROVE A!TypeOK'
  BY <1>5 DEF A!Discard, A!End, A!sessionVars, A!missionVars, A!otherVars
<1>6. UNCHANGED <<A!sessionVars, A!otherVars>>
  BY DEF A!MissionNext, A!PutSurveyMission, A!SnapshotSurveyMission, A!ApproveSurveyMission,
         A!Dispatch, A!Promote, A!UpdateSurveyMission, A!Discard
<1>7. ASSUME NEW c \in Callers PROVE call'[c] = call[c] \/ call'[c].op \in {"idle", "mission"}
  <2>1. \/ call' = call
        \/ \E b \in Callers, m \in Missions : A!SnapshotSurveyMission(b, m)
        \/ \E b \in Callers : A!End(b)
    BY DEF A!MissionNext, A!PutSurveyMission, A!ApproveSurveyMission, A!Dispatch, A!Promote,
           A!UpdateSurveyMission, A!Discard
  <2> QED BY <2>1 DEF A!SnapshotSurveyMission, A!Begin, A!End, A!Idle
<1> QED BY <1>1, <1>2, <1>3, <1>4, <1>5, <1>6, <1>7 DEF A!MissionNext

\* The same of enrolments, callbacks and responses.
LEMMA OtherTypes ==
  ASSUME A!TypeOK, A!OtherNext
  PROVE  /\ A!TypeOK' /\ UNCHANGED <<A!sessionVars, A!missionVars>>
         /\ \A c \in Callers : call'[c] = call[c] \/ call'[c].op \in {"idle", "enroll"}
<1> USE DEF A!TypeOK
<1>1. ASSUME NEW c \in Callers, NEW y \in Buoys, NEW b \in Bundles, A!EnrollBundle(c, y, b)
      PROVE  A!TypeOK'
  <2> DEFINE r == [op |-> "enroll", buoy |-> y, bundle |-> b]
  <2>1. r \in [op : {"enroll"}, buoy : Buoys, bundle : Bundles] /\ r.bundle = b
    OBVIOUS
  <2> HIDE DEF r
  <2> QED BY <1>1, <2>1 DEF A!EnrollBundle, A!Begin, A!BundlePut, A!sessionVars, A!missionVars, r
<1>2. ASSUME NEW c \in Callers, A!EnrollBuoy(c) \/ A!EnrollRefused(c) PROVE A!TypeOK'
  BY <1>2, CallKinds DEF A!EnrollBuoy, A!EnrollRefused, A!End, A!sessionVars, A!missionVars,
                         A!otherVars
<1>3. ASSUME NEW k \in Keys, NEW v \in Bodies, A!RecordFirst(k, v) PROVE A!TypeOK'
  BY <1>3 DEF A!RecordFirst, A!sessionVars, A!missionVars
<1>4. UNCHANGED <<A!sessionVars, A!missionVars>>
  BY DEF A!OtherNext, A!EnrollBundle, A!EnrollBuoy, A!EnrollRefused, A!RecordFirst
<1>5. ASSUME NEW c \in Callers PROVE call'[c] = call[c] \/ call'[c].op \in {"idle", "enroll"}
  <2>1. \/ call' = call
        \/ \E b \in Callers, y \in Buoys, u \in Bundles : A!EnrollBundle(b, y, u)
        \/ \E b \in Callers : A!End(b)
    BY DEF A!OtherNext, A!EnrollBuoy, A!EnrollRefused, A!RecordFirst
  <2>2. ASSUME NEW b \in Callers, NEW y \in Buoys, NEW u \in Bundles, A!EnrollBundle(b, y, u)
        PROVE  call'[c] = call[c] \/ call'[c].op \in {"idle", "enroll"}
    <3>1. call' = [call EXCEPT ![b] = [op |-> "enroll", buoy |-> y, bundle |-> u]]
      BY <2>2 DEF A!EnrollBundle, A!Begin
    <3> QED BY <3>1
  <2> QED BY <2>1, <2>2 DEF A!End, A!Idle
<1> QED BY <1>1, <1>2, <1>3, <1>4, <1>5 DEF A!OtherNext

\* A logout revokes the session in the store, and every copy of it that is
\* made from then on.
LEMMA SessionStep ==
  ASSUME A!ControlInv, A!SessionNext
  PROVE  A!ClosedRevoked' /\ A!LogoutFinal'
<1> USE DEF A!ControlInv, A!TypeOK, A!ClosedRevoked, A!LogoutFinal
<1>1. ASSUME NEW t \in Tokens, NEW role \in Roles, A!PutSession(t, role)
      PROVE  A!ClosedRevoked' /\ A!LogoutFinal'
  <2>1. t \notin closed
    BY <1>1 DEF A!PutSession
  <2>2. \A u \in closed : u \in Tokens /\ sessions'[u] = sessions[u]
    BY <1>1, <2>1 DEF A!PutSession
  <2>3. closed' = closed /\ call' = call /\ granted' = granted
    BY <1>1 DEF A!PutSession
  <2> QED BY <2>2, <2>3
<1>2. ASSUME NEW t \in Tokens, NEW role \in Roles, A!Authenticate(t, role)
      PROVE  A!ClosedRevoked' /\ A!LogoutFinal'
  <2>1. t \notin closed
    BY <1>2 DEF A!Authenticate, A!AuthorizeSession
  <2> DEFINE b == t \in closed
  <2>2. granted' = granted \cup {[token |-> t, role |-> role, late |-> b]}
    BY <1>2, Zenon DEF A!Authenticate
  <2>3. b = FALSE
    BY <2>1
  <2> HIDE DEF b
  <2>4. ~[token |-> t, role |-> role, late |-> b].late
    BY <2>3
  <2>5. \A g \in granted' : ~g.late
    BY <2>2, <2>4
  <2>6. sessions' = sessions /\ closed' = closed /\ call' = call
    BY <1>2 DEF A!Authenticate
  <2> QED BY <2>5, <2>6
<1>3. ASSUME NEW t \in Tokens, A!Expire(t)
      PROVE  A!ClosedRevoked' /\ A!LogoutFinal'
  BY <1>3 DEF A!Expire
<1>4. ASSUME NEW t \in Tokens, A!Logout(t)
      PROVE  A!ClosedRevoked' /\ A!LogoutFinal'
  <2>1. sessions[t] \in A!Session
    BY <1>4 DEF A!Logout
  <2>2. [sessions[t] EXCEPT !.revoked = TRUE] \in A!Session
        /\ [sessions[t] EXCEPT !.revoked = TRUE].revoked
    BY <2>1 DEF A!Session
  <2>3. sessions'[t] # None /\ sessions'[t].revoked
        /\ \A u \in Tokens : u # t => sessions'[u] = sessions[u]
    BY <1>4, <2>2, StoreAssumption DEF A!Logout
  <2>4. \A c \in Callers : t \in closed' => ~(call[c].op = "role" /\ call[c].token = t)
    BY <1>4 DEF A!Logout, A!ChangingRole
  <2>5. closed' \in SUBSET (closed \cup {t}) /\ call' = call /\ granted' = granted
    BY <1>4 DEF A!Logout
  <2>6. A!LogoutFinal'
    BY <2>5
  <2>7. ASSUME NEW u \in closed'
        PROVE  /\ sessions'[u] # None /\ sessions'[u].revoked
               /\ \A c \in Callers :
                    call'[c].op = "role" /\ call'[c].token = u => call'[c].next.revoked
    <3>1. CASE u = t
      BY <2>3, <2>4, <2>5, <3>1
    <3>2. CASE u # t
      <4>1. u \in closed /\ u \in Tokens
        BY <2>5, <3>2
      <4> QED BY <2>3, <2>5, <3>2, <4>1
    <3> QED BY <3>1, <3>2
  <2> QED BY <2>6, <2>7
<1>5. ASSUME NEW c \in Callers, NEW t \in Tokens, NEW role \in Roles, A!ReadRole(c, t, role)
      PROVE  A!ClosedRevoked' /\ A!LogoutFinal'
  <2> DEFINE n == [sessions[t] EXCEPT !.role = role]
  <2>1. sessions[t] \in A!Session
    BY <1>5 DEF A!ReadRole
  <2>2. n.revoked = sessions[t].revoked
    BY <2>1 DEF A!Session
  <2>3. /\ call'[c] = [op |-> "role", token |-> t, next |-> n]
        /\ \A b \in Callers : b # c => call'[b] = call[b]
        /\ sessions' = sessions /\ closed' = closed /\ granted' = granted
    BY <1>5 DEF A!ReadRole, A!Begin, A!sessionVars
  <2> HIDE DEF n
  <2>4. call'[c].token = t /\ call'[c].next = n
    BY <2>3
  <2> QED BY <2>2, <2>3, <2>4
<1>6. ASSUME NEW c \in Callers, A!PutRole(c)
      PROVE  A!ClosedRevoked' /\ A!LogoutFinal'
  <2>1. call[c].token \in Tokens /\ call[c].next \in A!Session
    BY <1>6, CallKinds DEF A!PutRole
  <2>2. /\ sessions' = [sessions EXCEPT ![call[c].token] = call[c].next]
        /\ call' = [call EXCEPT ![c] = A!Idle] /\ A!Idle.op = "idle" /\ call[c].op = "role"
        /\ closed' = closed /\ granted' = granted
    BY <1>6 DEF A!PutRole, A!RotatedSession, A!End, A!Idle
  <2>3. call[c].next # None
    BY <2>1, StoreAssumption
  <2> HIDE DEF A!Idle
  <2> QED BY <2>1, <2>2, <2>3
<1> QED BY <1>1, <1>2, <1>3, <1>4, <1>5, <1>6 DEF A!SessionNext

\* A mission that has ended runs again only by an approval with an older copy.
LEMMA MissionStep ==
  ASSUME A!ControlInv, A!MissionNext
  PROVE  A!MissionsKnown' /\ A!MissionsVersioned'
<1> USE DEF A!ControlInv, A!TypeOK, A!MissionsKnown, A!MissionsVersioned, A!Versioned
<1>1. ASSUME NEW m \in Missions, NEW healthy \in BOOLEAN, A!PutSurveyMission(m, healthy)
      PROVE  A!MissionsKnown' /\ A!MissionsVersioned'
  <2> DEFINE x == [state |-> "running", digest |-> None, healthy |-> healthy, version |-> 1]
  <2>1. x \in A!Mission /\ x.state = "running" /\ x.version = 1
    BY DEF A!Mission
  <2>2. /\ missions' = [missions EXCEPT ![m] = x] /\ missions[m] = None
        /\ call' = call /\ ended' = ended /\ regressed' = regressed
    BY <1>1 DEF A!PutSurveyMission
  <2> HIDE DEF x
  <2>3. x # None
    BY <2>1, StoreAssumption
  <2>4. A!MissionsKnown'
    BY <2>2, <2>3, CallKinds
  <2> QED BY <2>1, <2>2, <2>3, <2>4
<1>2. ASSUME NEW c \in Callers, NEW m \in Missions, A!SnapshotSurveyMission(c, m)
      PROVE  A!MissionsKnown' /\ A!MissionsVersioned'
  <2> DEFINE r == [op |-> "mission", mission |-> m, copy |-> missions[m]]
  <2>1. r.mission = m /\ r.copy = missions[m] /\ missions[m] # None
    BY <1>2 DEF A!SnapshotSurveyMission
  <2>2. /\ call' = [call EXCEPT ![c] = r] /\ missions' = missions /\ ended' = ended
        /\ regressed' = regressed
    BY <1>2 DEF A!SnapshotSurveyMission, A!Begin, A!missionVars
  <2> HIDE DEF r
  <2> QED BY <2>1, <2>2
<1>3. ASSUME NEW c \in Callers, NEW d \in Digests, A!ApproveSurveyMission(c, d)
      PROVE  A!MissionsKnown' /\ A!MissionsVersioned'
  <2> DEFINE m == call[c].mission
             y == call[c].copy
             x == [y EXCEPT !.digest = d]
  <2>1. m \in Missions /\ y \in A!Mission /\ call[c].op = "mission" /\ missions[m] \in A!Mission
    BY <1>3, CallKinds DEF A!ApproveSurveyMission
  <2>2. x \in A!Mission /\ x.state = y.state /\ x.version = y.version
    BY <2>1 DEF A!Mission
  <2>3. /\ missions' = [missions EXCEPT ![m] = x] /\ ended' = ended
        /\ regressed' = IF y.version < missions[m].version
                        THEN [regressed EXCEPT ![m] = @ + 1] ELSE regressed
        /\ call' = [call EXCEPT ![c] = A!Idle] /\ A!Idle.op = "idle"
    BY <1>3 DEF A!ApproveSurveyMission, A!End, A!Idle
  <2>4. A!Versioned(y) /\ A!Versioned(missions[m])
        /\ ended[m] <= regressed[m] + IF missions[m].state = "running" THEN 0 ELSE 1
    BY <2>1, StoreAssumption
  <2> HIDE DEF x, y, m, A!Idle
  <2>5. x # None
    BY <2>2, StoreAssumption
  <2>6. A!MissionsKnown'
    BY <2>1, <2>3, <2>5, CallKinds
  <2>7. ASSUME NEW i \in Missions
        PROVE  IF missions'[i] = None THEN ended'[i] = 0
               ELSE /\ A!Versioned(missions'[i])
                    /\ ended'[i] <= regressed'[i] + IF missions'[i].state = "running" THEN 0 ELSE 1
    <3>1. CASE i = m
      <4>1. missions'[m] = x /\ ended'[m] = ended[m]
            /\ regressed'[m] = IF y.version < missions[m].version
                               THEN regressed[m] + 1 ELSE regressed[m]
        BY <2>1, <2>3
      <4>2. ended[m] \in Nat /\ regressed[m] \in Nat
        BY <2>1
      <4> QED BY <2>2, <2>4, <2>5, <3>1, <4>1, <4>2
    <3>2. CASE i # m
      <4>1. missions'[i] = missions[i] /\ ended'[i] = ended[i] /\ regressed'[i] = regressed[i]
        BY <2>1, <2>3, <3>2
      <4> QED BY <4>1
    <3> QED BY <3>1, <3>2
  <2> QED BY <2>3, <2>6, <2>7
<1>4. ASSUME NEW c \in Callers, A!Dispatch(c) \/ A!Promote(c)
      PROVE  A!MissionsKnown' /\ A!MissionsVersioned'
  <2>1. PICK next \in {"dispatching", "promoted"} :
          call[c].op = "mission" /\ missions[call[c].mission].state = "running"
          /\ A!UpdateSurveyMission(c, next)
    BY <1>4 DEF A!Dispatch, A!Promote, A!CanDispatch, A!CanPromote
  <2> DEFINE m == call[c].mission
             x == A!Updated(missions[m], next)
  <2>2. m \in Missions /\ missions[m] \in A!Mission /\ missions[m] # None
    BY <2>1, CallKinds
  <2>3. x \in A!Mission /\ x.state = next /\ x.version = missions[m].version + 1
    BY <2>2, UpdatedMission
  <2>4. /\ missions' = [missions EXCEPT ![m] = x] /\ ended' = [ended EXCEPT ![m] = @ + 1]
        /\ call' = [call EXCEPT ![c] = A!Idle] /\ A!Idle.op = "idle" /\ regressed' = regressed
    BY <2>1 DEF A!UpdateSurveyMission, A!End, A!Idle
  <2>5. missions[m].state = "running" /\ missions[m].version = 1 /\ ended[m] <= regressed[m]
    BY <2>1, <2>2
  <2> HIDE DEF x, m, A!Idle
  <2>6. x # None
    BY <2>3, StoreAssumption
  <2>7. A!MissionsKnown'
    BY <2>2, <2>4, <2>6, CallKinds
  <2> QED BY <2>2, <2>3, <2>4, <2>5, <2>6, <2>7
<1>5. ASSUME NEW c \in Callers, A!Discard(c)
      PROVE  A!MissionsKnown' /\ A!MissionsVersioned'
  <2>1. /\ call' = [call EXCEPT ![c] = A!Idle] /\ A!Idle.op = "idle" /\ UNCHANGED A!missionVars
    BY <1>5 DEF A!Discard, A!End, A!Idle
  <2> HIDE DEF A!Idle
  <2> QED BY <2>1 DEF A!missionVars
<1> QED BY <1>1, <1>2, <1>3, <1>4, <1>5 DEF A!MissionNext

\* A bundle is put before its buoy and never taken out; what is stored under a
\* key stays.
LEMMA OtherStep ==
  ASSUME A!ControlInv, A!OtherNext
  PROVE  A!StoreKeeps' /\ A!BundlesPut'
<1> USE DEF A!ControlInv, A!TypeOK, A!StoreKeeps, A!EnrolledBundle, A!FirstStays, A!BundlesPut
<1>1. ASSUME NEW c \in Callers, NEW y \in Buoys, NEW b \in Bundles, A!EnrollBundle(c, y, b)
      PROVE  A!StoreKeeps' /\ A!BundlesPut'
  <2> DEFINE r == [op |-> "enroll", buoy |-> y, bundle |-> b]
  <2>1. r.bundle = b
    OBVIOUS
  <2>2. /\ call' = [call EXCEPT ![c] = r] /\ bundles' = bundles \cup {r.bundle}
        /\ buoys' = buoys /\ stored' = stored /\ accepted' = accepted
    BY <1>1 DEF A!EnrollBundle, A!Begin, A!BundlePut
  <2> HIDE DEF r
  <2> QED BY <2>1, <2>2
<1>2. ASSUME NEW c \in Callers, A!EnrollBuoy(c) \/ A!EnrollRefused(c)
      PROVE  A!StoreKeeps' /\ A!BundlesPut'
  <2>1. call[c].buoy \in Buoys /\ call[c].bundle \in bundles
    BY <1>2, CallKinds DEF A!EnrollBuoy, A!EnrollRefused
  <2>2. /\ call' = [call EXCEPT ![c] = A!Idle] /\ A!Idle.op = "idle"
        /\ bundles' = bundles /\ stored' = stored /\ accepted' = accepted
        /\ buoys' = buoys \/ buoys' = [buoys EXCEPT ![call[c].buoy] = call[c].bundle]
    BY <1>2 DEF A!EnrollBuoy, A!EnrollRefused, A!End, A!Idle, A!otherVars
  <2> HIDE DEF A!Idle
  <2> QED BY <2>1, <2>2
<1>3. ASSUME NEW k \in Keys, NEW v \in Bodies, A!RecordFirst(k, v)
      PROVE  A!StoreKeeps' /\ A!BundlesPut'
  <2>1. \A p \in accepted : p[1] \in Keys /\ p[2] \in Bodies /\ p[1] # k
    BY <1>3, StoreAssumption DEF A!RecordFirst, A!FirstOf
  <2> QED BY <1>3, <2>1 DEF A!RecordFirst
<1> QED BY <1>1, <1>2, <1>3 DEF A!OtherNext

\* The invariant of the store is inductive.
LEMMA ControlStep == A!ControlInv /\ [A!Next]_(A!vars) => A!ControlInv'
<1> SUFFICES ASSUME A!ControlInv, [A!Next]_(A!vars) PROVE A!ControlInv'
  OBVIOUS
<1>1. CASE A!SessionNext
  BY <1>1, SessionStep, SessionTypes DEF A!ControlInv, A!missionVars, A!otherVars,
     A!MissionsKnown, A!MissionsVersioned, A!Versioned, A!StoreKeeps, A!EnrolledBundle,
     A!FirstStays, A!BundlesPut
<1>2. CASE A!MissionNext
  BY <1>2, MissionStep, MissionTypes DEF A!ControlInv, A!sessionVars, A!otherVars,
     A!ClosedRevoked, A!LogoutFinal, A!StoreKeeps, A!EnrolledBundle, A!FirstStays, A!BundlesPut
<1>3. CASE A!OtherNext
  BY <1>3, OtherStep, OtherTypes DEF A!ControlInv, A!sessionVars, A!missionVars,
     A!MissionsKnown, A!MissionsVersioned, A!Versioned, A!ClosedRevoked, A!LogoutFinal
<1>4. CASE UNCHANGED A!vars
  BY <1>4 DEF A!vars, A!sessionVars, A!missionVars, A!otherVars, A!ControlInv, A!TypeOK,
     A!MissionsKnown, A!MissionsVersioned, A!Versioned, A!ClosedRevoked, A!LogoutFinal,
     A!StoreKeeps, A!EnrolledBundle, A!FirstStays, A!BundlesPut
<1> QED BY <1>1, <1>2, <1>3, <1>4 DEF A!Next

\* RevokeSession and Authenticate: a logout outside of any ChangeRole is final.
THEOREM LogoutsFinal == A!Spec => []LogoutFinal
<1>1. A!ControlInv => LogoutFinal
  BY DEF A!ControlInv, LogoutFinal
<1> QED BY <1>1, ControlInit, ControlStep, PTL DEF A!Spec

\* UpdateSurveyMission and ApproveSurveyMission: a mission ends once, and once
\* more for each approval that put an older copy back.
THEOREM MissionsEndOnce == A!Spec => []EndedOnce
<1>1. A!ControlInv => EndedOnce
  BY DEF A!ControlInv, A!TypeOK, A!MissionsVersioned, EndedOnce, A!EndedOnce
<1> QED BY <1>1, ControlInit, ControlStep, PTL DEF A!Spec

\* EnrollBuoy, RecordCallback and SaveIdempotent: the store keeps what callers
\* were told, whatever calls overlap.
THEOREM StoreKept == A!Spec => []StoreKeeps
<1>1. A!ControlInv => StoreKeeps
  BY DEF A!ControlInv, StoreKeeps
<1> QED BY <1>1, ControlInit, ControlStep, PTL DEF A!Spec

(***************************************************************************)
(* ArrayWorkers                                                            *)
(***************************************************************************)
\* Both modules count with the same Cardinality.
LEMMA SameCount == \A X : W!Cardinality(X) = Cardinality(X)
  BY Zenon DEF W!Cardinality, Cardinality

\* No job has been started.
LEMMA WorkersInit == W!Init => W!WorkersInv
<1> SUFFICES ASSUME W!Init PROVE W!WorkersInv
  OBVIOUS
<1>1. resultsClosed \in BOOLEAN /\ cancelled \in BOOLEAN
  BY Zenon DEF W!Init
<1>2. W!TypeOK
  BY <1>1 DEF W!Init, W!TypeOK
<1>3. W!Running = {} /\ W!Cardinality({}) = 0
  BY FS_EmptySet, SameCount DEF W!Init, W!Running
<1>4. ~resultsClosed
  BY Zenon DEF W!Init
<1>5. W!Collecting
  BY <1>3, <1>4 DEF W!Init, W!Collecting
<1> QED BY <1>2, <1>5 DEF W!Init, W!WorkersInv, W!Answering, W!LanesFilled

\* The steps of a job move its own goroutine and may give it a result.
LEMMA JobStep ==
  ASSUME W!TypeOK, NEW j \in Jobs, W!Work(j)
  PROVE  \E next \in {"check", "look", "execute", "download", "mark", "wait", "send", "sent", "done"},
            r \in {"none", "nil", "error", "cancelled"} :
           /\ pc' = [pc EXCEPT ![j] = next]
           /\ result' = [result EXCEPT ![j] = r]
           /\ pc[j] # "new" /\ (r # result[j] => next = "send")
           /\ UNCHANGED <<main, resultsClosed, collected, cancelled>>
<1> USE DEF W!TypeOK
<1>0. result[j] \in {"none", "nil", "error", "cancelled"} /\ result = [result EXCEPT ![j] = result[j]]
  OBVIOUS
<1>1. CASE W!Check(j)
  BY <1>0, <1>1 DEF W!Check, W!Returns, W!Goto, W!mainVars
<1>2. CASE W!Look(j)
  BY <1>0, <1>2 DEF W!Look, W!Returns, W!Goto, W!mainVars
<1>3. CASE W!Reserve(j)
  BY <1>0, <1>3 DEF W!Reserve, W!StepFails, W!Returns, W!Goto, W!mainVars
<1>4. CASE W!Download(j)
  BY <1>0, <1>4 DEF W!Download, W!StepFails, W!Returns, W!Goto, W!mainVars
<1>5. CASE W!Mark(j)
  BY <1>0, <1>5 DEF W!Mark, W!Returns, W!Goto, W!mainVars
<1>6. CASE W!WaitBackoff(j)
  BY <1>0, <1>6 DEF W!WaitBackoff, W!Returns, W!Goto, W!mainVars
<1>7. CASE W!Send(j)
  BY <1>0, <1>7 DEF W!Send, W!Goto, W!mainVars
<1>8. CASE W!WorkerDone(j)
  BY <1>0, <1>8 DEF W!WorkerDone, W!Goto, W!mainVars
<1> QED BY <1>1, <1>2, <1>3, <1>4, <1>5, <1>6, <1>7, <1>8 DEF W!Work

\* The counter is that of the goroutines that run, after every step.
LEMMA CounterStep ==
  ASSUME W!WorkersInv, [W!Next]_(W!vars)
  PROVE  wg' \in Nat /\ wg' = W!Cardinality(W!Running')
<1> DEFINE D == W!Running
           E == W!Running'
<1>1. IsFiniteSet(D) /\ D \in SUBSET Jobs
  BY FS_Subset, WorkersAssumption DEF W!Running
<1>2. wg \in Nat /\ wg = Cardinality(D)
  BY SameCount DEF W!WorkersInv, W!TypeOK, W!Collecting
<1>3. \/ \E j \in Jobs : j \notin D /\ E = D \cup {j} /\ wg' = wg + 1
      \/ \E j \in Jobs : j \in D /\ E = D \ {j} /\ wg' = wg - 1
      \/ E = D /\ wg' = wg
  <2> USE DEF W!WorkersInv, W!TypeOK
  <2>1. ASSUME NEW j \in Jobs, W!Spawn(j) PROVE j \notin D /\ E = D \cup {j} /\ wg' = wg + 1
    BY <2>1 DEF W!Spawn, W!Added, W!Goto, W!Running
  <2>2. ASSUME NEW j \in Jobs, W!WorkerDone(j) PROVE j \in D /\ E = D \ {j} /\ wg' = wg - 1
    BY <2>2 DEF W!WorkerDone, W!Done, W!Goto, W!Running
  <2>3. ASSUME NEW j \in Jobs, W!Work(j), ~W!WorkerDone(j) PROVE E = D /\ wg' = wg
    <3>1. PICK next \in {"check", "look", "execute", "download", "mark", "wait", "send", "sent", "done"} :
            pc' = [pc EXCEPT ![j] = next] /\ pc[j] # "new"
      BY <2>3, JobStep
    <3>2. wg' = wg
      BY <2>3 DEF W!Work, W!Check, W!Look, W!Reserve, W!Download, W!Mark, W!WaitBackoff, W!Send,
                  W!mainVars
    <3>3. next # "done" /\ pc[j] # "done"
      BY <2>3, <3>1 DEF W!Work, W!Check, W!Look, W!Reserve, W!Download, W!Mark, W!WaitBackoff,
                        W!Send, W!StepFails, W!Returns, W!Goto
    <3> QED BY <3>1, <3>2, <3>3 DEF W!Running
  <2>4. ASSUME W!Return \/ W!Close \/ W!Cancel \/ (\E j \in Jobs : W!Receive(j)) \/ UNCHANGED W!vars
        PROVE  E = D /\ wg' = wg
    BY <2>4 DEF W!Return, W!Close, W!Cancel, W!Receive, W!vars, W!mainVars, W!Running
  <2> QED BY <2>1, <2>2, <2>3, <2>4 DEF W!Next, W!Collect
<1> SUFFICES wg' \in Nat /\ wg' = Cardinality(E)
  BY SameCount
<1> HIDE DEF D, E
<1>4. ASSUME NEW j \in Jobs, j \notin D, E = D \cup {j}, wg' = wg + 1
      PROVE  wg' \in Nat /\ wg' = Cardinality(E)
  BY <1>1, <1>2, <1>4, FS_AddElement
<1>5. ASSUME NEW j \in Jobs, j \in D, E = D \ {j}, wg' = wg - 1
      PROVE  wg' \in Nat /\ wg' = Cardinality(E)
  <2>1. Cardinality(E) = Cardinality(D) - 1 /\ Cardinality(E) \in Nat
    BY <1>1, <1>5, FS_RemoveElement, FS_CardinalityType
  <2> QED BY <1>2, <1>5, <2>1
<1> QED BY <1>2, <1>3, <1>4, <1>5

\* Every variable keeps its type.
LEMMA WorkersTypes ==
  ASSUME W!WorkersInv, [W!Next]_(W!vars)
  PROVE  W!TypeOK'
<1> USE DEF W!WorkersInv, W!TypeOK
<1>1. wg' \in Nat
  BY CounterStep
<1>2. ASSUME NEW j \in Jobs, W!Spawn(j) \/ W!Receive(j) PROVE W!TypeOK'
  BY <1>1, <1>2 DEF W!Spawn, W!Receive, W!Goto, W!laneVars
<1>3. CASE W!Return \/ W!Close \/ W!Cancel \/ UNCHANGED W!vars
  <2>1. resultsClosed' \in BOOLEAN /\ cancelled' \in BOOLEAN
    BY <1>3, Zenon DEF W!Return, W!Close, W!Cancel, W!vars, W!mainVars
  <2> QED BY <1>3, <2>1 DEF W!Return, W!Close, W!Cancel, W!vars, W!mainVars, W!laneVars
<1>4. ASSUME NEW j \in Jobs, W!Work(j) PROVE W!TypeOK'
  <2>1. /\ pc' \in [Jobs -> {"new", "check", "look", "execute", "download", "mark", "wait", "send",
                             "sent", "done"}]
        /\ result' \in [Jobs -> {"none", "nil", "error", "cancelled"}]
        /\ UNCHANGED <<main, resultsClosed, collected, cancelled>>
    <3>1. PICK next \in {"check", "look", "execute", "download", "mark", "wait", "send", "sent", "done"},
               r \in {"none", "nil", "error", "cancelled"} :
            /\ pc' = [pc EXCEPT ![j] = next] /\ result' = [result EXCEPT ![j] = r]
            /\ UNCHANGED <<main, resultsClosed, collected, cancelled>>
      BY <1>4, JobStep
    <3> QED BY <3>1
  <2>2. attempt' \in [Jobs -> Nat] /\ late' \in [Jobs -> Nat] /\ chan' \in SUBSET Jobs
    <3>1. /\ attempt' = attempt \/ attempt' = [attempt EXCEPT ![j] = @ + 1]
          /\ late' = late \/ late' = [late EXCEPT ![j] = @ + 1]
          /\ chan' = chan \/ chan' = chan \cup {j}
      BY <1>4 DEF W!Work, W!Check, W!Look, W!Reserve, W!Download, W!Mark, W!WaitBackoff, W!Send,
                  W!WorkerDone, W!mainVars
    <3>2. attempt' \in [Jobs -> Nat]
      <4>1. attempt \in [Jobs -> Nat]
        OBVIOUS
      <4> QED BY ONLY <3>1, <4>1, j \in Jobs
    <3>3. late' \in [Jobs -> Nat]
      BY <3>1
    <3> QED BY <3>1, <3>2, <3>3
  <2>3. used' \in Nat /\ grants' \in Seq(Nat)
    <3>1. \/ used' = used /\ grants' = grants
          \/ used' = used + 1 /\ grants' = Append(grants, LimitOf[j])
      BY <1>4 DEF W!Work, W!Check, W!Look, W!Reserve, W!Download, W!Mark, W!WaitBackoff, W!Send,
                  W!WorkerDone, W!laneVars
    <3>2. used \in Nat /\ grants \in Seq(Nat) /\ LimitOf[j] \in Nat
      BY WorkersAssumption
    <3>3. CASE used' = used /\ grants' = grants
      BY <3>2, <3>3
    <3>4. CASE used' = used + 1 /\ grants' = Append(grants, LimitOf[j])
      BY <3>2, <3>4
    <3> QED BY <3>1, <3>3, <3>4
  <2> QED BY <1>1, <2>1, <2>2, <2>3
<1> QED BY <1>2, <1>3, <1>4 DEF W!Next, W!Collect

\* CollectResults: the channel is closed after the last goroutine, and what it
\* holds is received before the loop ends.
LEMMA CollectStep ==
  ASSUME W!WorkersInv, [W!Next]_(W!vars)
  PROVE  W!Collecting'
<1> USE DEF W!WorkersInv, W!TypeOK
<1>1. wg' = W!Cardinality(W!Running')
  BY CounterStep
<1>2. SUFFICES /\ main' # "spawn" => \A j \in Jobs : pc'[j] # "new"
               /\ resultsClosed' => main' # "spawn" /\ \A j \in Jobs : pc'[j] = "done"
               /\ \A j \in Jobs : pc'[j] \in {"sent", "done"} <=> j \in chan' \cup collected'
               /\ main' = "returned" => resultsClosed' /\ chan' = {}
  BY <1>1 DEF W!Collecting
<1> USE DEF W!Collecting
<1>3. ASSUME NEW j \in Jobs, W!Spawn(j) PROVE W!Collecting'
  <2>1. /\ main = "spawn" /\ pc[j] = "new" /\ pc' = [pc EXCEPT ![j] = "check"]
        /\ main' = IF \E i \in Jobs \ {j} : pc[i] = "new" THEN "spawn" ELSE "range"
        /\ UNCHANGED <<resultsClosed, chan, collected>>
    BY <1>3 DEF W!Spawn, W!Goto
  <2>2. ~resultsClosed
    BY <2>1
  <2> QED BY <1>1, <2>1, <2>2
<1>7. ASSUME NEW j \in Jobs, W!Receive(j) PROVE W!Collecting'
  <2>1. /\ main' = "range" /\ chan' \cup collected' = chan \cup collected
        /\ UNCHANGED <<main, resultsClosed, pc>>
    BY <1>7 DEF W!Receive
  <2> QED BY <1>1, <2>1
<1>4. CASE W!Close
  <2>1. \A j \in Jobs : pc[j] = "done"
    <3>1. W!Running = {}
      <4>1. IsFiniteSet(W!Running)
        BY FS_Subset, WorkersAssumption DEF W!Running
      <4>2. Cardinality(W!Running) = 0
        BY <1>4, SameCount DEF W!Close
      <4> QED BY <4>1, <4>2, FS_EmptySet
    <3> QED BY <1>4, <3>1 DEF W!Close, W!Running
  <2> QED BY <1>4, <2>1 DEF W!Close
<1>5. CASE W!Return \/ W!Cancel \/ UNCHANGED W!vars
  BY <1>5 DEF W!Return, W!RangeEnds, W!Cancel, W!vars, W!mainVars
<1>6. ASSUME NEW j \in Jobs, W!Work(j) PROVE W!Collecting'
  <2>1. PICK next \in {"check", "look", "execute", "download", "mark", "wait", "send", "sent", "done"} :
          /\ pc' = [pc EXCEPT ![j] = next] /\ pc[j] # "new"
          /\ UNCHANGED <<main, resultsClosed, collected, cancelled>>
    BY <1>6, JobStep
  <2>2. /\ chan' = IF next = "sent" THEN chan \cup {j} ELSE chan
        /\ next = "sent" => pc[j] = "send"
        /\ next = "done" <=> pc[j] = "sent"
        /\ pc[j] # "done"
    BY <1>6, <2>1 DEF W!Work, W!Check, W!Look, W!Reserve, W!Download, W!Mark, W!WaitBackoff,
         W!Send, W!WorkerDone, W!StepFails, W!Returns, W!Goto, W!mainVars
  <2> QED BY <1>1, <2>1, <2>2
<1> QED BY <1>3, <1>4, <1>5, <1>6, <1>7 DEF W!Next, W!Collect

\* OnceStep and RunSteps: a key is in seen only after its download.
LEMMA AnswerStep ==
  ASSUME W!WorkersInv, [W!Next]_(W!vars)
  PROVE  W!Answering'
<1> USE DEF W!WorkersInv, W!TypeOK, W!Answering
<1>1. ASSUME NEW j \in Jobs, W!Spawn(j) \/ W!Receive(j) PROVE W!Answering'
  BY <1>1 DEF W!Spawn, W!Receive, W!Goto
<1>2. CASE W!Return \/ W!Close \/ W!Cancel \/ UNCHANGED W!vars
  BY <1>2 DEF W!Return, W!Close, W!Cancel, W!vars, W!mainVars
<1>3. ASSUME NEW j \in Jobs, W!Check(j) PROVE W!Answering'
  BY <1>3 DEF W!Check, W!CtxErr, W!Returns, W!Goto
<1>4. ASSUME NEW j \in Jobs, W!Look(j) PROVE W!Answering'
  BY <1>4 DEF W!Look, W!Answered, W!SeenBefore, W!Returns, W!Goto
<1>5. ASSUME NEW j \in Jobs, W!Reserve(j) PROVE W!Answering'
  BY <1>5 DEF W!Reserve, W!StepFails, W!Returns, W!Goto
<1>6. ASSUME NEW j \in Jobs, W!Download(j) PROVE W!Answering'
  BY <1>6 DEF W!Download, W!StepFails, W!Returns, W!Goto
<1>7. ASSUME NEW j \in Jobs, W!Mark(j) PROVE W!Answering'
  BY <1>7 DEF W!Mark, W!Returns, W!Goto
<1>8. ASSUME NEW j \in Jobs, W!WaitBackoff(j) \/ W!Send(j) \/ W!WorkerDone(j) PROVE W!Answering'
  BY <1>8 DEF W!WaitBackoff, W!Send, W!WorkerDone, W!Returns, W!Goto
<1> QED BY <1>1, <1>2, <1>3, <1>4, <1>5, <1>6, <1>7, <1>8 DEF W!Next, W!Collect, W!Work

\* Capacity.Reserve: a reservation is made below the limit.
LEMMA LaneStep ==
  ASSUME W!WorkersInv, [W!Next]_(W!vars)
  PROVE  W!LanesFilled'
<1> USE DEF W!WorkersInv, W!TypeOK, W!LanesFilled
<1>1. \/ used' = used /\ grants' = grants
      \/ \E j \in Jobs : /\ used < LimitOf[j] /\ used' = used + 1
                         /\ grants' = Append(grants, LimitOf[j])
  BY DEF W!Next, W!Collect, W!Spawn, W!Receive, W!Return, W!Close, W!Cancel, W!Work, W!Check,
         W!Look, W!Reserve, W!LaneFree, W!Download, W!Mark, W!WaitBackoff, W!Send, W!WorkerDone,
         W!vars, W!laneVars
<1>2. ASSUME NEW j \in Jobs, used < LimitOf[j], used' = used + 1,
             grants' = Append(grants, LimitOf[j])
      PROVE  W!LanesFilled'
  <2>1. Len(grants') = Len(grants) + 1 /\ \A n \in 1 .. Len(grants) + 1 :
          grants'[n] = IF n = Len(grants) + 1 THEN LimitOf[j] ELSE grants[n]
    BY <1>2
  <2> QED BY <1>2, <2>1, WorkersAssumption
<1> QED BY <1>1, <1>2

\* The invariant of the workers is inductive.
LEMMA WorkersStep == W!WorkersInv /\ [W!Next]_(W!vars) => W!WorkersInv'
  BY WorkersTypes, CollectStep, AnswerStep, LaneStep DEF W!WorkersInv

\* CollectResults, OnceStep and RunSteps: for any jobs, results are complete
\* and backed by a download, and a cancelled job begins one more step at most.
THEOREM ResultsComplete == W!Spec => []ResultsTrue
<1>1. W!WorkersInv => ResultsTrue
  <2> SUFFICES ASSUME W!WorkersInv
               PROVE  W!SendsOpen /\ W!CollectsAll /\ W!NilBacked /\ W!OneLateStep
    BY DEF ResultsTrue, W!ResultsTrue
  <2>1. W!SendsOpen
    BY DEF W!WorkersInv, W!Collecting, W!SendsOpen
  <2>2. W!CollectsAll
    BY DEF W!WorkersInv, W!TypeOK, W!Collecting, W!CollectsAll
  <2>3. W!NilBacked
    BY DEF W!WorkersInv, W!Answering, W!NilBacked
  <2>4. W!OneLateStep
    BY DEF W!WorkersInv, W!Answering, W!OneLateStep
  <2> QED BY <2>1, <2>2, <2>3, <2>4
<1> QED BY <1>1, WorkersInit, WorkersStep, PTL DEF W!Spec

\* Capacity.Reserve: for any limits and any order of the jobs, those that state
\* limit l or less hold l places at most.
THEOREM LanesShared == W!Spec => []LaneShares
<1>1. W!WorkersInv => LaneShares
  <2> SUFFICES ASSUME W!WorkersInv, NEW j \in Jobs
               PROVE  Cardinality({n \in 1 .. Len(grants) : grants[n] <= LimitOf[j]}) <= LimitOf[j]
    BY SameCount DEF LaneShares, W!LaneShares
  <2> DEFINE l == LimitOf[j]
             G == {n \in 1 .. Len(grants) : grants[n] <= l}
  <2>1. l \in Nat /\ Len(grants) \in Nat
    BY WorkersAssumption DEF W!WorkersInv, W!TypeOK
  <2>2. G \in SUBSET (1 .. l)
    <3> SUFFICES ASSUME NEW n \in G PROVE n \in 1 .. l
      OBVIOUS
    <3>1. n \in 1 .. Len(grants) /\ grants[n] <= l /\ grants[n] >= n /\ grants[n] \in Nat
      BY DEF W!WorkersInv, W!TypeOK, W!LanesFilled
    <3> HIDE DEF G, l
    <3> QED BY <2>1, <3>1
  <2> HIDE DEF G, l
  <2>3. IsFiniteSet(1 .. l) /\ Cardinality(1 .. l) = l
    BY <2>1, FS_Interval
  <2>4. Cardinality(G) <= Cardinality(1 .. l)
    BY <2>2, <2>3, FS_Subset
  <2> QED BY <2>3, <2>4 DEF G, l
<1> QED BY <1>1, WorkersInit, WorkersStep, PTL DEF W!Spec

\* OnceStep.Run: a step does not start to execute once a job with its key has
\* been told nil.
THEOREM AnsweredOnce == W!Spec => OnceAnswered
<1>1. W!WorkersInv /\ [W!Next]_(W!vars) =>
        [ \A i, j \in Jobs :
            pc[j] # "execute" /\ pc'[j] = "execute" /\ KeyOf[i] = KeyOf[j]
              => result[i] # "nil" ]_(W!vars)
  <2> SUFFICES ASSUME W!WorkersInv, W!Next, NEW i \in Jobs, NEW j \in Jobs,
                      pc[j] # "execute", pc'[j] = "execute", KeyOf[i] = KeyOf[j]
               PROVE  result[i] # "nil"
    OBVIOUS
  <2>1. W!Look(j) /\ ~W!Answered(j)
    BY DEF W!WorkersInv, W!TypeOK, W!Next, W!Collect, W!Spawn, W!Receive, W!Return, W!Close,
         W!Cancel, W!Work, W!Check, W!Look, W!Reserve, W!StepFails, W!Download, W!Mark,
         W!WaitBackoff, W!Send, W!WorkerDone, W!Returns, W!Goto
  <2> QED BY <2>1 DEF W!WorkersInv, W!Answering, W!Answered
<1> QED BY <1>1, WorkersInit, WorkersStep, PTL DEF W!Spec, OnceAnswered, W!OnceAnswered
=============================================================================
