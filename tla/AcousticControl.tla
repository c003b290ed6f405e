--------------------------- MODULE AcousticControl ---------------------------
(***************************************************************************)
(* service.AcousticControl on arrayops.Store: sessions, calibrated survey  *)
(* missions, enrolment, callbacks and stored responses.  Each method of the *)
(* store is one critical section.  An operation that calls two of them, or  *)
(* that a caller makes with a copy it was given earlier, is two steps, with *)
(* what it carries over in `call`.  Sessions and requests of another tenant *)
(* are refused without a step and left out.                                 *)
(***************************************************************************)
EXTENDS Naturals, FiniteSets

CONSTANTS
  Callers,        \* concurrent calls
  Tokens, Roles,
  Missions, Digests,
  Bundles, Buoys,
  Keys, Bodies,   \* scopes of callbacks and of stored responses, and contents
  None,
  MaxApprovals    \* bound on the approvals of a mission

VARIABLES
  call,           \* what each call in flight carries
  sessions,       \* Store.sessions: role and RevokedAt, None before the login
  expired,        \* the tokens whose ExpiresAt has passed
  closed,         \* tokens whose last logout met no role change in flight
  granted,        \* the Authenticate calls that succeeded
  missions,       \* Store.survey_missions
  ended,          \* how often a mission was dispatched or promoted
  approvals,      \* how often it was approved,
  regressed,      \* and how often with a copy older than the stored one
  bundles,        \* what has been put of Store.calibration_bundles
  buoys,          \* what of Store.buoys, with the bundle it was enrolled with:
                  \* a history, as the stored Buoy has no bundle
  stored,         \* Store.callbacks and Store.idempotency
  accepted        \* key and body of the calls that were told to be the first

sessionVars == <<sessions, expired, closed, granted>>
missionVars == <<missions, ended, approvals, regressed>>
otherVars == <<bundles, buoys, stored, accepted>>
vars == <<call, sessionVars, missionVars, otherVars>>

Idle == [op |-> "idle"]

Session == [role : Roles, revoked : BOOLEAN]
Mission == [state : {"running", "dispatching", "promoted"}, digest : Digests \cup {None},
            healthy : BOOLEAN, version : Nat]

TypeOK ==
  /\ call \in [Callers -> {Idle}
                \cup [op : {"role"}, token : Tokens, next : Session]
                \cup [op : {"mission"}, mission : Missions, copy : Mission]
                \cup [op : {"enroll"}, buoy : Buoys, bundle : Bundles]]
  /\ sessions \in [Tokens -> Session \cup {None}]
  /\ expired \in SUBSET Tokens /\ closed \in SUBSET Tokens
  /\ granted \in SUBSET [token : Tokens, role : Roles, late : BOOLEAN]
  /\ missions \in [Missions -> Mission \cup {None}]
  /\ ended \in [Missions -> Nat] /\ approvals \in [Missions -> Nat]
  /\ regressed \in [Missions -> Nat]
  /\ bundles \in SUBSET Bundles /\ buoys \in [Buoys -> Bundles \cup {None}]
  /\ stored \in [Keys -> Bodies \cup {None}] /\ accepted \in SUBSET (Keys \X Bodies)

\* NewStore
Init ==
  /\ call = [c \in Callers |-> Idle]
  /\ sessions = [t \in Tokens |-> None]
  /\ expired = {} /\ closed = {} /\ granted = {}
  /\ missions = [m \in Missions |-> None]
  /\ ended = [m \in Missions |-> 0] /\ approvals = [m \in Missions |-> 0]
  /\ regressed = [m \in Missions |-> 0]
  /\ bundles = {} /\ buoys = [b \in Buoys |-> None]
  /\ stored = [k \in Keys |-> None] /\ accepted = {}

Begin(c, r) == call[c] = Idle /\ call' = [call EXCEPT ![c] = r]
End(c) == call' = [call EXCEPT ![c] = Idle]

(***************************************************************************)
(* Sessions                                                                *)
(***************************************************************************)
\* a login: the sessions that others put have new tokens
PutSession(t, role) ==
  /\ sessions[t] = None
  /\ sessions' = [sessions EXCEPT ![t] = [role |-> role, revoked |-> FALSE]]
  /\ UNCHANGED <<call, expired, closed, granted, missionVars, otherVars>>

Expire(t) ==
  /\ t \notin expired
  /\ expired' = expired \cup {t}
  /\ UNCHANGED <<call, sessions, closed, granted, missionVars, otherVars>>

\* mutant: the session is not looked at again once it is revoked
AuthorizesRevoked(t, role) == t \notin expired /\ sessions[t].role = role

AuthorizeSession(t, role) ==
  ~sessions[t].revoked /\ t \notin expired /\ sessions[t].role = role

\* one look at the store; what is checked after it is the copy
Authenticate(t, role) ==
  /\ sessions[t] # None
  /\ AuthorizeSession(t, role)
  /\ granted' = granted \cup {[token |-> t, role |-> role, late |-> t \in closed]}
  /\ UNCHANGED <<call, sessions, expired, closed, missionVars, otherVars>>

\* ChangeRole: Store.Session and RotateRole, ...
ReadRole(c, t, role) ==
  /\ sessions[t] # None /\ role # sessions[t].role
  /\ Begin(c, [op |-> "role", token |-> t, next |-> [sessions[t] EXCEPT !.role = role]])
  /\ UNCHANGED <<sessionVars, missionVars, otherVars>>

RotatedSession(r) == r.next

\* ... and PutSession, whatever happened to the session in between
PutRole(c) ==
  /\ call[c].op = "role"
  /\ sessions' = [sessions EXCEPT ![call[c].token] = RotatedSession(call[c])]
  /\ End(c)
  /\ UNCHANGED <<expired, closed, granted, missionVars, otherVars>>

ChangingRole(t) == \E c \in Callers : call[c].op = "role" /\ call[c].token = t

\* RevokeSession
Logout(t) ==
  /\ sessions[t] # None /\ ~sessions[t].revoked
  /\ sessions' = [sessions EXCEPT ![t].revoked = TRUE]
  /\ closed' = IF ChangingRole(t) THEN closed \ {t} ELSE closed \cup {t}
  /\ UNCHANGED <<call, expired, granted, missionVars, otherVars>>

SessionNext ==
  \/ \E t \in Tokens :
       \/ \E role \in Roles : PutSession(t, role) \/ Authenticate(t, role)
       \/ Expire(t)
       \/ Logout(t)
  \/ \E c \in Callers :
       (\E t \in Tokens, role \in Roles : ReadRole(c, t, role)) \/ PutRole(c)

(***************************************************************************)
(* Missions                                                                *)
(***************************************************************************)
PutSurveyMission(m, healthy) ==
  /\ missions[m] = None
  /\ missions' = [missions EXCEPT ![m] = [state |-> "running", digest |-> None,
                                          healthy |-> healthy, version |-> 1]]
  /\ UNCHANGED <<call, sessionVars, ended, approvals, regressed, otherVars>>

SnapshotSurveyMission(c, m) ==
  /\ missions[m] # None
  /\ Begin(c, [op |-> "mission", mission |-> m, copy |-> missions[m]])
  /\ UNCHANGED <<sessionVars, missionVars, otherVars>>

\* ApproveSurveyMission puts the caller's copy, whatever is stored by then.
ApproveSurveyMission(c, d) ==
  LET m == call[c].mission IN
  /\ call[c].op = "mission"
  /\ approvals[m] < MaxApprovals
  /\ missions' = [missions EXCEPT ![m] = [call[c].copy EXCEPT !.digest = d]]
  /\ approvals' = [approvals EXCEPT ![m] = @ + 1]
  /\ regressed' = IF call[c].copy.version < missions[m].version
                  THEN [regressed EXCEPT ![m] = @ + 1] ELSE regressed
  /\ End(c)
  /\ UNCHANGED <<sessionVars, ended, otherVars>>

Updated(x, next) == [x EXCEPT !.state = next, !.version = x.version + 1]

\* the version compared, the update applied to the stored mission and counted
UpdateSurveyMission(c, next) ==
  LET m == call[c].mission IN
  /\ missions[m].version = call[c].copy.version
  /\ missions' = [missions EXCEPT ![m] = Updated(missions[m], next)]
  /\ ended' = [ended EXCEPT ![m] = @ + 1]
  /\ End(c)
  /\ UNCHANGED <<sessionVars, approvals, regressed, otherVars>>

\* mutant: the state is not compared
DispatchableAnyState(x) == x.digest # None

CanDispatch(x) == x.state = "running" /\ x.digest # None
CanPromote(x) == x.state = "running" /\ x.healthy

Dispatch(c) ==
  /\ call[c].op = "mission"
  /\ CanDispatch(missions[call[c].mission])
  /\ UpdateSurveyMission(c, "dispatching")

Promote(c) ==
  /\ call[c].op = "mission"
  /\ CanPromote(missions[call[c].mission])
  /\ UpdateSurveyMission(c, "promoted")

\* a caller that does nothing with its copy, or is refused
Discard(c) ==
  /\ call[c].op = "mission"
  /\ End(c)
  /\ UNCHANGED <<sessionVars, missionVars, otherVars>>

MissionNext ==
  \/ \E m \in Missions, healthy \in BOOLEAN : PutSurveyMission(m, healthy)
  \/ \E c \in Callers :
       \/ \E m \in Missions : SnapshotSurveyMission(c, m)
       \/ \E d \in Digests : ApproveSurveyMission(c, d)
       \/ Dispatch(c)
       \/ Promote(c)
       \/ Discard(c)

(***************************************************************************)
(* Enrolment, callbacks and stored responses                               *)
(***************************************************************************)
\* mutant: the bundle is put last, and not at all when the buoy is refused
FirstPut(r) == bundles

\* EnrollBuoy: PutCalibrationBundle of a bundle that supports the buoy, ...
BundlePut(r) == bundles \cup {r.bundle}

EnrollBundle(c, y, b) ==
  LET r == [op |-> "enroll", buoy |-> y, bundle |-> b] IN
  /\ Begin(c, r)
  /\ bundles' = BundlePut(r)
  /\ UNCHANGED <<sessionVars, missionVars, buoys, stored, accepted>>

\* ... then PutBuoy, unless the buoy has no identity
EnrollBuoy(c) ==
  /\ call[c].op = "enroll"
  /\ buoys' = [buoys EXCEPT ![call[c].buoy] = call[c].bundle]
  /\ End(c)
  /\ UNCHANGED <<sessionVars, missionVars, bundles, stored, accepted>>

\* PutBuoy refuses a buoy without an identity; the bundle stays
EnrollRefused(c) ==
  /\ call[c].op = "enroll"
  /\ End(c)
  /\ UNCHANGED <<sessionVars, missionVars, otherVars>>

\* mutant: a body that differs replaces the first
Replaceable(k, v) == stored[k] # v

\* the condition of RecordCallback and of SaveIdempotent
FirstOf(k, v) == stored[k] = None

RecordFirst(k, v) ==
  /\ FirstOf(k, v)
  /\ stored' = [stored EXCEPT ![k] = v]
  /\ accepted' = accepted \cup {<<k, v>>}
  /\ UNCHANGED <<call, sessionVars, missionVars, bundles, buoys>>

OtherNext ==
  \/ \E c \in Callers :
       \/ \E y \in Buoys, b \in Bundles : EnrollBundle(c, y, b)
       \/ EnrollBuoy(c)
       \/ EnrollRefused(c)
  \/ \E k \in Keys, v \in Bodies : RecordFirst(k, v)

Next == SessionNext \/ MissionNext \/ OtherNext

Spec == Init /\ [][Next]_vars

(***************************************************************************)
(* Properties                                                              *)
(***************************************************************************)

\* A logout that no ChangeRole was in the middle of is final: no Authenticate
\* after it succeeds, whatever role changes follow.  (One that overlaps a
\* ChangeRole may be undone, because PutSession puts the copy back.)
LogoutFinal == \A g \in granted : ~g.late

\* Such a session is revoked in the store and in every copy of it.
ClosedRevoked ==
  \A t \in closed :
    /\ sessions[t] # None /\ sessions[t].revoked
    /\ \A c \in Callers : call[c].op = "role" /\ call[c].token = t => call[c].next.revoked

\* A mission is dispatched or promoted once, and once more only for an
\* approval that put an outdated copy of it back.
EndedOnce == \A m \in Missions : ended[m] <= 1 + regressed[m]

\* A buoy is enrolled only with a bundle that is in the store, also when
\* enrolments overlap or are refused half way.
EnrolledBundle == \A y \in Buoys : buoys[y] # None => buoys[y] \in bundles

\* The callback or response whose sender was told that it is the first stays,
\* and there is no other such sender.
FirstStays == \A p \in accepted : stored[p[1]] = p[2]

\* What the store was given and what callers were told stay together.
StoreKeeps == EnrolledBundle /\ FirstStays

(***************************************************************************)
(* What makes these properties inductive                                   *)
(***************************************************************************)
\* A call carries a copy of a mission that is stored.
MissionsKnown ==
  \A c \in Callers : call[c].op = "mission" => missions[call[c].mission] # None

\* A mission is at its first version while it runs and at its second when it
\* has ended, in every copy; what ended more than once ran again for it.
Versioned(x) == x.version = IF x.state = "running" THEN 1 ELSE 2

MissionsVersioned ==
  /\ \A c \in Callers : call[c].op = "mission" => Versioned(call[c].copy)
  /\ \A m \in Missions :
       IF missions[m] = None THEN ended[m] = 0
       ELSE /\ Versioned(missions[m])
            /\ ended[m] <= regressed[m] + IF missions[m].state = "running" THEN 0 ELSE 1

\* The bundle of an enrolment under way has been put.
BundlesPut == \A c \in Callers : call[c].op = "enroll" => call[c].bundle \in bundles

ControlInv ==
  /\ TypeOK /\ MissionsKnown
  /\ ClosedRevoked /\ LogoutFinal
  /\ MissionsVersioned
  /\ StoreKeeps /\ BundlesPut
=============================================================================
