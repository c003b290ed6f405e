------------------------------- MODULE Leases -------------------------------
(***************************************************************************)
(* The leases in memory: arrayops.Lease and worker.Lease, by owner and     *)
(* deadline, and telemetry.FenceLease, which also gives a token with every *)
(* Acquire and lets only the last one Commit.  Each method runs under the  *)
(* lease's mutex, with a time that its caller read from the clock before it *)
(* got the mutex: a goroutine that is held up in between passes a time that *)
(* has gone by.  Several goroutines may work for one owner.                 *)
(***************************************************************************)
EXTENDS Naturals

CONSTANTS
  Workers,       \* goroutines that use the lease
  OwnerOf,       \* the owner each of them names
  NoOwner,       \* the empty owner
  TTLs,          \* the times to live that they ask for
  MaxTime,       \* bound on the clock
  MaxToken       \* bound on the tokens given

ASSUME LeaseAssumption ==
  /\ \A w \in Workers : OwnerOf[w] # NoOwner
  /\ TTLs \subseteq Nat \ {0} /\ MaxTime \in Nat /\ MaxToken \in Nat

VARIABLES
  fenced,        \* is it a FenceLease?  Chosen once
  now,           \* the clock
  owner, expiresAt, token,  \* the lease; token stays 0 without a fence
  read,          \* the time a worker passes to its next call
  until,         \* till when a worker believes that it holds the lease, 0 for not at all
  touched,       \* the workers that believe so and whose owner's other goroutines
                 \* have changed the lease since they were told
  held,          \* the token it was given, 0 before the first
  commits,       \* the commits that were accepted: worker and token
  newest         \* the token of the last one

lease == <<owner, expiresAt, token>>
vars == <<fenced, now, lease, read, until, touched, held, commits, newest>>

Owners == {OwnerOf[w] : w \in Workers}

TypeOK ==
  /\ fenced \in BOOLEAN /\ now \in Nat
  /\ owner \in Owners \cup {NoOwner} /\ expiresAt \in Nat /\ token \in Nat
  /\ read \in [Workers -> Nat] /\ until \in [Workers -> Nat] /\ held \in [Workers -> Nat]
  /\ touched \in SUBSET Workers
  /\ commits \in SUBSET (Workers \X Nat) /\ newest \in Nat

\* the zero value of either kind; the clock is past the zero time
Init ==
  /\ fenced \in BOOLEAN
  /\ now = 1
  /\ owner = NoOwner /\ expiresAt = 0 /\ token = 0
  /\ read = [w \in Workers |-> 1]
  /\ until = [w \in Workers |-> 0] /\ held = [w \in Workers |-> 0]
  /\ touched = {}
  /\ commits = {} /\ newest = 0

Tick ==
  /\ now < MaxTime
  /\ now' = now + 1
  /\ UNCHANGED <<fenced, lease, read, until, touched, held, commits, newest>>

\* time.Now(), before the call
ReadClock(w) ==
  /\ read' = [read EXCEPT ![w] = now]
  /\ UNCHANGED <<fenced, now, lease, until, touched, held, commits, newest>>

\* w changes the lease: it is told so, and its owner's other goroutines are not
Touch(w) ==
  touched' = (touched \ {w}) \cup
               {v \in Workers : v # w /\ OwnerOf[v] = OwnerOf[w] /\ until[v] # 0}

\* mutant: a lease is free one tick before its deadline
FreeEarly(w) == owner = NoOwner \/ read[w] + 1 >= expiresAt \/ owner = OwnerOf[w]

\* Acquire's condition: free, expired by the caller's time, or its owner's
Free(w) == owner = NoOwner \/ read[w] >= expiresAt \/ owner = OwnerOf[w]

\* mutant: only a change of owner gets a new token
TokenPerOwner(w) == IF fenced /\ owner # OwnerOf[w] THEN token + 1 ELSE token

NextToken(w) == IF fenced THEN token + 1 ELSE token

Acquire(w, ttl) ==
  /\ token < MaxToken
  /\ Free(w)
  /\ owner' = OwnerOf[w]
  /\ expiresAt' = read[w] + ttl
  /\ token' = NextToken(w)
  /\ until' = [until EXCEPT ![w] = read[w] + ttl] /\ Touch(w)
  /\ held' = [held EXCEPT ![w] = NextToken(w)]
  /\ UNCHANGED <<fenced, now, read, commits, newest>>

\* Acquire or Renew is refused: the worker knows that it does not hold it
Refused(w) ==
  /\ until[w] # 0
  /\ until' = [until EXCEPT ![w] = 0] /\ touched' = touched \ {w}
  /\ UNCHANGED <<fenced, now, lease, read, held, commits, newest>>

AcquireRefused(w) == ~Free(w) /\ Refused(w)

\* Renew's condition: its owner's and not expired by the caller's time
Renewable(w) == owner = OwnerOf[w] /\ read[w] < expiresAt

Renew(w, ttl) ==
  /\ ~fenced
  /\ Renewable(w)
  /\ expiresAt' = read[w] + ttl
  /\ until' = [until EXCEPT ![w] = read[w] + ttl] /\ Touch(w)
  /\ UNCHANGED <<fenced, now, owner, token, read, held, commits, newest>>

RenewRefused(w) == ~fenced /\ ~Renewable(w) /\ Refused(w)

\* mutant: Release frees the lease whoever has it
ReleasableByAnyone(w) == owner # NoOwner

Releasable(w) == owner = OwnerOf[w]

Release(w) ==
  /\ ~fenced
  /\ Releasable(w)
  /\ owner' = NoOwner /\ expiresAt' = 0
  /\ until' = [until EXCEPT ![w] = 0] /\ Touch(w)
  /\ UNCHANGED <<fenced, now, token, read, held, commits, newest>>

\* mutant: Commit compares the owner and the deadline only
OwnerCommits(w) == owner = OwnerOf[w] /\ read[w] < expiresAt

\* Commit's answer
Commits(w) == owner = OwnerOf[w] /\ token = held[w] /\ read[w] < expiresAt

Commit(w) ==
  /\ fenced /\ held[w] # 0
  /\ Commits(w)
  /\ commits' = commits \cup {<<w, held[w]>>}
  /\ newest' = held[w]
  /\ UNCHANGED <<fenced, now, lease, read, until, touched, held>>

Next ==
  \/ Tick
  \/ \E w \in Workers :
       \/ ReadClock(w)
       \/ \E ttl \in TTLs : Acquire(w, ttl)
       \/ AcquireRefused(w)
       \/ \E ttl \in TTLs : Renew(w, ttl)
       \/ RenewRefused(w)
       \/ Release(w)
       \/ Commit(w)

Spec == Init /\ [][Next]_vars

(***************************************************************************)
(* Properties                                                              *)
(***************************************************************************)
\* worker.Lease.HeldBy, asked at the present time
HeldBy(w) == owner = OwnerOf[w] /\ now < expiresAt

\* A worker that was told that it has the lease has it until the deadline it
\* was told, although others call with times that have gone by, unless another
\* goroutine of its own owner has acquired, renewed or released it since.
HoldersHold ==
  \A w \in Workers :
    now < until[w] => w \in touched \/ (HeldBy(w) /\ until[w] = expiresAt)

\* The lease passes from one owner to another only after its deadline.
NoEarlyTakeover ==
  [][owner # NoOwner /\ owner' \notin {owner, NoOwner} => now >= expiresAt]_vars

\* Work is committed in the order in which the lease was given: a holder that
\* wakes up after a takeover, by another owner or by another goroutine of its
\* own, commits nothing.
CommitsInOrder == [][newest' >= newest]_vars

\* A token is one goroutine's: no two of them commit under the same one.
TokenUnique ==
  \A c, d \in commits : c[2] = d[2] => c[1] = d[1]

\* Why: the tokens were given in order, each to one goroutine, and a commit's
\* token is not given again.
TokensGiven ==
  /\ newest <= token
  /\ \A w \in Workers : held[w] <= token
  /\ \A v, w \in Workers : held[v] = held[w] /\ held[v] # 0 => v = w
  /\ \A c \in commits :
       /\ c[2] # 0 /\ c[2] <= token
       /\ \A w \in Workers : held[w] = c[2] => w = c[1]

\* The inductive invariant: holders hold, tokens are one goroutine's, and
\* callers' times are not ahead of the clock.
LeaseInv ==
  /\ TypeOK /\ HoldersHold /\ TokensGiven /\ TokenUnique
  /\ \A w \in Workers : read[w] <= now
  /\ ~fenced => token = 0
=============================================================================
