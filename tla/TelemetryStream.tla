-------------------------- MODULE TelemetryStream --------------------------
(***************************************************************************)
(* telemetry.Manager: capture streams filled by concurrent Append calls,   *)
(* sealed by Finalize, and watched by AwaitComplete through a channel that  *)
(* every change closes and replaces.  Each method holds the manager's mutex *)
(* from its first to its last access, so each is one step; AwaitComplete    *)
(* gives it up to wait, so each of its rounds is one.  A call that returns  *)
(* an error changes nothing and is a step only where a caller moves on.     *)
(***************************************************************************)
EXTENDS Naturals, Sequences, FiniteSets

CONSTANTS
  Keys,          \* streams, by StreamKey
  Digests,       \* digests of the segments that clients send
  PayloadOf,     \* the payload with that digest: the manager takes the client's word
  Waiters,       \* goroutines in AwaitComplete
  Sealers,       \* goroutines that take a Snapshot and call Finalize on it
  MaxSegments    \* bound on ExpectedSegments

ASSUME StreamAssumption ==
  /\ PayloadOf \in [Digests -> Seq(Nat) \ {<< >>}]
  /\ MaxSegments \in Nat \ {0}

VARIABLES
  state,         \* Stream.State, "absent" before Open
  expected,      \* Stream.ExpectedSegments
  segments,      \* Stream.Segments: the digest at each index that is filled
  version,       \* Stream.Version
  changed,       \* which channel Manager.changed is: how many were closed
  waiter,        \* what each AwaitComplete waits for
  snap,          \* the snapshot each sealer works with
  record,        \* the Record that Finalize returned, as its payload
  audits,        \* the records that audit callbacks have written down
  unaudited,     \* the streams that were sealed without an audit callback
  acked          \* the segments whose Append returned without an error

streamVars == <<state, expected, segments, version>>
vars == <<streamVars, changed, waiter, snap, record, audits, unaudited, acked>>

Indexes == 0 .. MaxSegments - 1
NoSegments == [i \in {} |-> i]

\* a Go map with keys in S and values in T
Partial(S, T) == UNION {[D -> T] : D \in SUBSET S}

None == [pc |-> "none"]
WaiterState == {None} \cup [pc : {"waiting"}, key : Keys, seen : Nat]
               \cup [pc : {"returned"}, key : Keys]
SnapState == {None} \cup [pc : {"read"}, key : Keys, version : Nat,
                          segments : Partial(Indexes, Digests)]

TypeOK ==
  /\ state \in [Keys -> {"absent", "collecting", "sealed"}]
  /\ expected \in [Keys -> 0 .. MaxSegments]
  /\ segments \in [Keys -> Partial(Indexes, Digests)]
  /\ version \in [Keys -> Nat]
  /\ changed \in Nat
  /\ waiter \in [Waiters -> WaiterState]
  /\ snap \in [Sealers -> SnapState]
  /\ record = [k \in Keys |-> record[k]]
  /\ \A a \in audits : a[1] \in Keys /\ a = <<a[1], a[2]>>
  /\ unaudited \in SUBSET Keys
  /\ acked \in SUBSET (Keys \X Indexes \X Digests)

Init ==
  /\ state = [k \in Keys |-> "absent"]
  /\ expected = [k \in Keys |-> 0]
  /\ segments = [k \in Keys |-> NoSegments]
  /\ version = [k \in Keys |-> 0]
  /\ changed = 0
  /\ waiter = [w \in Waiters |-> None]
  /\ snap = [s \in Sealers |-> None]
  /\ record = [k \in Keys |-> << >>]
  /\ audits = {} /\ unaudited = {}
  /\ acked = {}

PayloadsOf(segs) == [i \in DOMAIN segs |-> PayloadOf[segs[i]]]

\* what the manager promises, and the mapping to it
Capture == INSTANCE CaptureSpec
  WITH Payloads <- {PayloadOf[d] : d \in Digests},
       size <- expected,
       content <- [k \in Keys |-> PayloadsOf(segments[k])]

\* assemble: the payloads by ascending index
assemble(segs) == Capture!Assemble(PayloadsOf(segs))

(***************************************************************************)
(* The manager's methods                                                   *)
(***************************************************************************)
\* mutant: the waiters are not told
NotSignalled == UNCHANGED changed

\* signalLocked: close the channel and make a new one
signalLocked == changed' = changed + 1

NextVersion(v) == v + 1

\* len(stream.Segments) == stream.ExpectedSegments
Complete(k) == state[k] # "absent" /\ Cardinality(DOMAIN segments[k]) = expected[k]

Open(k, n) ==
  /\ state[k] = "absent"
  /\ state' = [state EXCEPT ![k] = "collecting"]
  /\ expected' = [expected EXCEPT ![k] = n]
  /\ version' = [version EXCEPT ![k] = 1]
  /\ signalLocked
  /\ UNCHANGED <<segments, waiter, snap, record, audits, unaudited, acked>>

\* mutant: a different digest replaces the segment that is there
ReplacedSegment(k, i, d) == i \in DOMAIN segments[k] => segments[k][i] # d

\* the segment is not there yet
NewSegment(k, i, d) == i \notin DOMAIN segments[k]

AppendSegment(k, i, d) ==
  /\ state[k] = "collecting" /\ i < expected[k]
  /\ NewSegment(k, i, d)
  /\ segments' = [segments EXCEPT ![k] = [x \in DOMAIN @ \cup {i} |->
                                            IF x = i THEN d ELSE @[x]]]
  /\ version' = [version EXCEPT ![k] = NextVersion(@)]
  /\ acked' = acked \cup {<<k, i, d>>}
  /\ signalLocked
  /\ UNCHANGED <<state, expected, waiter, snap, record, audits, unaudited>>

\* A retry, or another client's copy: acknowledged when the digest is the same,
\* refused when it is not.
AppendAgain(k, i, d) ==
  /\ state[k] = "collecting" /\ i \in DOMAIN segments[k]
  /\ segments[k][i] = d
  /\ acked' = acked \cup {<<k, i, d>>}
  /\ UNCHANGED <<streamVars, changed, waiter, snap, record, audits, unaudited>>

Snapshot(s, k) ==
  /\ snap[s] = None
  /\ state[k] # "absent"
  /\ snap' = [snap EXCEPT ![s] = [pc |-> "read", key |-> k, version |-> version[k],
                                  segments |-> segments[k]]]
  /\ UNCHANGED <<streamVars, changed, waiter, record, audits, unaudited, acked>>

\* mutant: Finalize does not count the segments
FinalizableIncomplete(t) ==
  state[t.key] = "collecting" /\ version[t.key] = t.version

\* Finalize's checks on the stream, with the version of a snapshot and the
\* checksum of its payload
Finalizable(t) ==
  /\ state[t.key] = "collecting" /\ version[t.key] = t.version /\ Complete(t.key)
  /\ assemble(t.segments) = assemble(segments[t.key])

\* mutant: Finalize does not call the audit callback
AuditSkipped(k, p) == UNCHANGED audits

\* the audit callback wrote the record down
Audited(k, p) == audits' = audits \cup {<<k, p>>}

\* The seal, with an audit callback that wrote the record down, or with none:
\* Finalize takes nil for one, and then nothing is audited.
Finalize(s) ==
  LET t == snap[s] IN
  /\ t # None
  /\ Finalizable(t)
  /\ \/ Audited(t.key, assemble(segments[t.key])) /\ UNCHANGED unaudited
     \/ unaudited' = unaudited \cup {t.key} /\ UNCHANGED audits
  /\ state' = [state EXCEPT ![t.key] = "sealed"]
  /\ version' = [version EXCEPT ![t.key] = NextVersion(@)]
  /\ record' = [record EXCEPT ![t.key] = assemble(segments[t.key])]
  /\ snap' = [snap EXCEPT ![s] = None]
  /\ signalLocked
  /\ UNCHANGED <<expected, segments, waiter, acked>>

\* The audit callback fails, before or after its own write, and the stream
\* stays as it is.
FinalizeAuditFails(s) ==
  LET t == snap[s] IN
  /\ t # None
  /\ Finalizable(t)
  /\ UNCHANGED audits \/ Audited(t.key, assemble(segments[t.key]))
  /\ snap' = [snap EXCEPT ![s] = None]
  /\ UNCHANGED <<streamVars, changed, waiter, record, unaudited, acked>>

\* a conflict: the sealer takes another snapshot or gives up
FinalizeRefused(s) ==
  LET t == snap[s] IN
  /\ t # None
  /\ ~Finalizable(t)
  /\ snap' = [snap EXCEPT ![s] = None]
  /\ UNCHANGED <<streamVars, changed, waiter, record, audits, unaudited, acked>>

(***************************************************************************)
(* AwaitComplete                                                           *)
(***************************************************************************)
\* one round under the mutex: return, or take the present channel to wait on
AwaitRound(w, k) ==
  /\ waiter' = [waiter EXCEPT ![w] =
                  IF Complete(k) THEN [pc |-> "returned", key |-> k]
                  ELSE [pc |-> "waiting", key |-> k, seen |-> changed]]
  /\ UNCHANGED <<streamVars, changed, snap, record, audits, unaudited, acked>>

AwaitComplete(w, k) == waiter[w] = None /\ AwaitRound(w, k)

\* the channel it waits on has been closed
AwaitWakes(w) ==
  /\ waiter[w].pc = "waiting" /\ waiter[w].seen # changed
  /\ AwaitRound(w, waiter[w].key)

\* ctx.Done(): the call returns and the goroutine may call again
AwaitCancelled(w) ==
  /\ waiter[w].pc = "waiting"
  /\ waiter' = [waiter EXCEPT ![w] = None]
  /\ UNCHANGED <<streamVars, changed, snap, record, audits, unaudited, acked>>

StreamNext(k) ==
  \/ \E n \in 1 .. MaxSegments : Open(k, n)
  \/ \E i \in Indexes, d \in Digests : AppendSegment(k, i, d)
  \/ \E i \in Indexes, d \in Digests : AppendAgain(k, i, d)
  \/ \E s \in Sealers : Snapshot(s, k)
  \/ \E w \in Waiters : AwaitComplete(w, k)

SealerNext(s) == Finalize(s) \/ FinalizeAuditFails(s) \/ FinalizeRefused(s)

Next ==
  \/ \E k \in Keys : StreamNext(k)
  \/ \E s \in Sealers : SealerNext(s)
  \/ \E w \in Waiters : AwaitWakes(w)
  \/ \E w \in Waiters : AwaitCancelled(w)

Spec == Init /\ [][Next]_vars

\* The Go scheduler runs a goroutine whose channel is closed.
FairSpec == Spec /\ \A w \in Waiters : WF_vars(AwaitWakes(w))

(***************************************************************************)
(* Properties                                                              *)
(***************************************************************************)

\* A waiter that takes the channel and then sleeps has not missed the change
\* that completed its stream, and one that returned did so rightly.
NoLostWakeup ==
  \A w \in Waiters :
    /\ waiter[w].pc = "waiting" /\ waiter[w].seen = changed => ~Complete(waiter[w].key)
    /\ waiter[w].pc = "returned" => Complete(waiter[w].key)

\* Every AwaitComplete of a stream that gets all its segments returns, or its
\* context is cancelled.
WaitersReturn ==
  \A w \in Waiters, k \in Keys :
    (waiter[w].pc = "waiting" /\ waiter[w].key = k /\ Complete(k))
      ~> waiter[w].pc # "waiting"

\* A snapshot whose version is still the stream's has the stream's segments:
\* the checksum that a sealer computed from it is of what Finalize seals.
SnapshotFresh ==
  \A s \in Sealers :
    snap[s] # None =>
      /\ snap[s].version <= version[snap[s].key]
      /\ snap[s].version = version[snap[s].key] => snap[s].segments = segments[snap[s].key]

\* A segment that was acknowledged, to its first sender or to a retry, is in
\* the stream for good, whatever other clients append at its index.
AckedStored ==
  \A a \in acked : a[2] \in DOMAIN segments[a[1]] /\ segments[a[1]][a[2]] = a[3]

\* A sealed stream has all its segments, its record is their payloads in
\* order, and the record was audited if the call that sealed it had an audit
\* callback (a nil callback seals without an audit).  Every audit, also one whose
\* callback failed after its write, is of the record that the stream has or can
\* still get.
SealedIntact ==
  /\ \A k \in Keys :
       state[k] = "sealed" =>
         /\ DOMAIN segments[k] = 0 .. expected[k] - 1
         /\ record[k] = assemble(segments[k])
         /\ k \in unaudited \/ <<k, record[k]>> \in audits
  /\ \A a \in audits : Complete(a[1]) /\ a[2] = assemble(segments[a[1]])

\* What makes these properties inductive: the shape of a stream, and that no
\* waiter holds a channel the manager has yet to make.
StreamShape ==
  /\ \A k \in Keys :
       /\ DOMAIN segments[k] \subseteq 0 .. expected[k] - 1
       /\ state[k] = "absent" => version[k] = 0 /\ expected[k] = 0
       /\ state[k] # "absent" => expected[k] > 0
       /\ state[k] # "sealed" => record[k] = << >>
  /\ \A w \in Waiters : waiter[w].pc = "waiting" => waiter[w].seen <= changed

StreamInv == StreamShape /\ NoLostWakeup /\ SnapshotFresh /\ AckedStored /\ SealedIntact

\* The manager implements what a capture promises: segments written once, one
\* seal, of all of them, in order, although appends and finalizations race.
ImplementsCapture == Capture!Spec
=============================================================================
