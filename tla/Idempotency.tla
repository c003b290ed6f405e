---------------------------- MODULE Idempotency ----------------------------
(***************************************************************************)
(* Service.IdempotentCreate and ReplayOr over the idempotency_keys table:  *)
(* look the key up, create, put the response down.  The lookup, the create  *)
(* and the put are three separate database operations, so requests with one *)
(* key interleave between them and may fail, or be lost, after each.        *)
(***************************************************************************)
EXTENDS Naturals

CONSTANTS
  Requests,      \* calls; a client's retry is another call with the same key and body
  KeyOf,         \* the Idempotency-Key of each
  BodyOf,        \* its body, as HashRequest tells bodies apart
  NoKey,         \* the empty key
  None, Conflict, Failed  \* answers: none yet; ErrIdempotency; another error

Answers == Requests \cup {None, Conflict, Failed}

ASSUME IdempotencyAssumption ==
  /\ None \notin Requests /\ Conflict \notin Requests /\ Failed \notin Requests
  /\ None # Conflict /\ None # Failed /\ Conflict # Failed

VARIABLES
  record,        \* idempotency_keys: whose response, with its body's hash, a key has
  created,       \* the requests whose create() took effect
  pc,            \* where each call is
  answer,        \* whose response it returned, or which error
  replayed,      \* the calls that answered from a record
  answered       \* for each call, which ones had succeeded when it began

vars == <<record, created, pc, answer, replayed, answered>>

Keys == {KeyOf[r] : r \in Requests}

TypeOK ==
  /\ record \in [Keys -> Requests \cup {None}]
  /\ created \in SUBSET Requests
  /\ pc \in [Requests -> {"new", "missed", "created", "returned"}]
  /\ answer \in [Requests -> Answers]
  /\ replayed \in SUBSET Requests
  /\ answered \in [Requests -> SUBSET Requests]

Init ==
  /\ record = [k \in Keys |-> None]
  /\ created = {}
  /\ pc = [r \in Requests |-> "new"]
  /\ answer = [r \in Requests |-> None]
  /\ replayed = {}
  /\ answered = [r \in Requests |-> {}]

Return(r, a) ==
  /\ pc' = [pc EXCEPT ![r] = "returned"]
  /\ answer' = [answer EXCEPT ![r] = a]

\* the requests that have been answered with a response
Succeeded == {q \in Requests : answer[q] \in Requests}

\* mutant: the body is not compared
MatchesAny(q, r) == TRUE

\* Record.Matches: the record's body has the hash of this one
Matches(q, r) == BodyOf[q] = BodyOf[r]

\* store.Get: a record is replayed or refused; without one the call goes on
Get(r) ==
  LET q == record[KeyOf[r]] IN
  /\ pc[r] = "new"
  /\ answered' = [answered EXCEPT ![r] = Succeeded]
  /\ \/ /\ q # None /\ Matches(q, r)
        /\ Return(r, q)
        /\ replayed' = replayed \cup {r}
     \/ /\ q # None /\ ~Matches(q, r)
        /\ Return(r, Conflict)
        /\ UNCHANGED replayed
     \/ /\ q = None
        /\ pc' = [pc EXCEPT ![r] = "missed"]
        /\ UNCHANGED <<answer, replayed>>
  /\ UNCHANGED <<record, created>>

\* ReplayOr refuses an empty key; IdempotentCreate looks it up.
RefuseNoKey(r) ==
  /\ pc[r] = "new" /\ KeyOf[r] = NoKey
  /\ Return(r, Failed)
  /\ UNCHANGED <<record, created, replayed, answered>>

\* create() commits
Create(r) ==
  /\ pc[r] = "missed"
  /\ created' = created \cup {r}
  /\ pc' = [pc EXCEPT ![r] = "created"]
  /\ UNCHANGED <<record, answer, replayed, answered>>

\* mutant: ON CONFLICT (key) DO UPDATE
LastRecord(k, r) == r

\* PutIdempotency: ON CONFLICT (key) DO NOTHING
FirstRecord(k, r) == IF record[k] = None THEN r ELSE record[k]

\* mutant: a record is made for any key
RecordableAny(k) == TRUE

\* NewRecord refuses an empty key, when create() has been called
Recordable(k) == k # NoKey

\* the record is put down, or another is there; the call returns its own
\* response
Put(r) ==
  LET k == KeyOf[r] IN
  /\ pc[r] = "created" /\ Recordable(k)
  /\ record' = [record EXCEPT ![k] = FirstRecord(k, r)]
  /\ Return(r, r)
  /\ UNCHANGED <<created, replayed, answered>>

\* mutant: the error of store.Put is dropped
FailureIgnored(r) == IF pc[r] = "created" THEN r ELSE Failed

\* what a call returns when an operation fails
Failure(r) == Failed

\* Get, create(), NewRecord or Put fails and the call returns the error: what
\* create() has done stays done.
Fail(r) ==
  /\ pc[r] # "returned"
  /\ Return(r, Failure(r))
  /\ UNCHANGED <<record, created, replayed, answered>>

\* The process dies after Put has committed and before the answer is sent.
PutAnswerLost(r) ==
  LET k == KeyOf[r] IN
  /\ pc[r] = "created" /\ Recordable(k)
  /\ record' = [record EXCEPT ![k] = FirstRecord(k, r)]
  /\ Return(r, Failed)
  /\ UNCHANGED <<created, replayed, answered>>

Next ==
  \E r \in Requests :
    Get(r) \/ RefuseNoKey(r) \/ Create(r) \/ Put(r) \/ Fail(r) \/ PutAnswerLost(r)

Spec == Init /\ [][Next]_vars

(***************************************************************************)
(* Properties                                                              *)
(***************************************************************************)

\* Whoever gets a response, as the one that created or by a replay, gets that of
\* a create that took effect for the same key and body.
AnswersCreated ==
  \A r \in Succeeded :
    /\ answer[r] \in created
    /\ KeyOf[answer[r]] = KeyOf[r] /\ BodyOf[answer[r]] = BodyOf[r]

\* All replays of a key agree, also when several calls created and put their
\* records down.
ReplaysAgree ==
  \A q, r \in replayed : KeyOf[q] = KeyOf[r] => answer[q] = answer[r]

\* A call that begins after another one with its key has succeeded creates
\* nothing: a client that retries for want of an answer duplicates only what
\* nobody was told of.
AnsweredOnce ==
  \A r \in created : \A q \in answered[r] : KeyOf[q] # KeyOf[r]

\* A call without a key gets an error, although what it created is there: no
\* record is put down under the empty key, which would be replayed to whoever
\* comes next without one.
KeylessRefused ==
  \A r \in Requests :
    KeyOf[r] = NoKey => answer[r] \in {None, Failed} /\ record[NoKey] = None

\* What makes them inductive: a key's record is the response of a create with
\* that key and a success leaves one, replays answer with it, and a call that
\* missed began before any success.
RecordsSound ==
  /\ \A k \in Keys : record[k] # None => record[k] \in created /\ KeyOf[record[k]] = k
  /\ \A r \in Succeeded : record[KeyOf[r]] # None
  /\ \A r \in replayed :
       pc[r] = "returned" /\ answer[r] \in Requests /\ answer[r] = record[KeyOf[r]]
  /\ \A r \in Requests :
       /\ r \in created => pc[r] \in {"created", "returned"}
       /\ pc[r] = "created" => r \in created
       /\ pc[r] = "missed" \/ r \in created =>
            \A q \in answered[r] : KeyOf[q] # KeyOf[r]

\* The inductive invariant: answers and replays are of one create of the same
\* request, nothing is created after a success, and nothing is kept for no key.
IdempotencyInv ==
  /\ TypeOK /\ AnswersCreated /\ ReplaysAgree /\ AnsweredOnce /\ KeylessRefused
  /\ RecordsSound

\* What TestReplayReturnsTheOriginalResponse demands of two calls one after the
\* other, "createCalls != 1" fails it, of any calls: create() takes effect once
\* for a key.
CreatedOnce ==
  \A q, r \in created : KeyOf[q] = KeyOf[r] => q = r
=============================================================================
