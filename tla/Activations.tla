----------------------------- MODULE Activations -----------------------------
(***************************************************************************)
(* The chain of hand-offs of one recovery job: mooring_events, as the      *)
(* activation and accept requests write it and VerifyActivation reads it.  *)
(*                                                                         *)
(* Nothing compares from_operator with the chain when it is written: the   *)
(* caller names whoever held the job at the version it was shown, and the  *)
(* job's version is all that keeps two callers from doing so at once.  The *)
(* handler reads the clock, or takes the caller's own time, before the     *)
(* transaction, so that events are not committed in the order of their     *)
(* recorded_at.  Other moves of the job raise its version too, so that     *)
(* requests are refused more often, and are left out.                      *)
(***************************************************************************)
EXTENDS Naturals, Sequences

CONSTANTS
  Callers,            \* concurrent requests
  Operators, Nobody,  \* Nobody: from_operator is NULL
  MaxTime,            \* bound on the clock
  MaxLead,            \* five minutes
  MaxHandOffs         \* bound on the events

VARIABLES
  now,
  version,            \* recovery_jobs.version
  events,             \* mooring_events of the job, in the order of their commits
  request             \* what each caller was shown or has sent

vars == <<now, version, events, request>>

Idle == [pc |-> "idle"]
Event == [from : Operators \cup {Nobody}, to : Operators, at : 0 .. MaxTime + MaxLead,
          stamped : BOOLEAN]   \* stamped: recorded_at is the server's time

Init ==
  /\ now = 0 /\ version = 1 /\ events = <<>>
  /\ request = [c \in Callers |-> Idle]

Tick == now < MaxTime /\ now' = now + 1 /\ UNCHANGED <<version, events, request>>

\* who holds the job
Holder == IF events = <<>> THEN Nobody ELSE events[Len(events)].to

Step(c, r) == request' = [request EXCEPT ![c] = r] /\ UNCHANGED now

\* the caller is shown the job and knows who holds it
Look(c) ==
  /\ request[c] = Idle
  /\ Step(c, [pc |-> "shown", version |-> version, from |-> Holder])
  /\ UNCHANGED <<version, events>>

\* Activation.Validate: not more than five minutes ahead
Validate(at) == at <= now + MaxLead

\* activation: the time is the caller's own, or else the server's
Receive(c, to, own, at) ==
  /\ request[c].pc = "shown"
  /\ IF own THEN Validate(at) ELSE at = now
  /\ Step(c, [pc |-> "sent", version |-> request[c].version,
              event |-> [from |-> request[c].from, to |-> to, at |-> at, stamped |-> ~own]])
  /\ UNCHANGED <<version, events>>

\* mutant: AND version=$4 is missing
VersionIgnored(c) == TRUE

VersionMatches(c) == version = request[c].version

\* ActivationRecoveryJob, AcceptRecoveryJob: the UPDATE and the INSERT
HandOff(c) ==
  /\ request[c].pc = "sent" /\ VersionMatches(c) /\ Len(events) < MaxHandOffs
  /\ version' = version + 1
  /\ events' = Append(events, request[c].event)
  /\ Step(c, Idle)

\* ErrConflict, another error, or the caller gives up
Refuse(c) == request[c] # Idle /\ Step(c, Idle) /\ UNCHANGED <<version, events>>

Next ==
  \/ Tick
  \/ \E c \in Callers :
       \/ Look(c)
       \/ \E to \in Operators, own \in BOOLEAN, at \in 0 .. MaxTime + MaxLead :
            Receive(c, to, own, at)
       \/ HandOff(c)
       \/ Refuse(c)

Spec == Init /\ [][Next]_vars

(***************************************************************************)
(* VerifyActivation                                                        *)
(***************************************************************************)
\* mutant: the newest first, as in activation_task_time_idx
NewestFirst(p) == \A i \in 2 .. Len(events) : events[p[i]].at <= events[p[i - 1]].at

\* ORDER BY recorded_at, id
Chronological(p) == \A i \in 2 .. Len(events) : events[p[i - 1]].at <= events[p[i]].at

\* The orders in which ListActivation may return the events: ids are random.
ListActivation ==
  LET n == Len(events) IN
  {p \in [1 .. n -> 1 .. n] : (\A i, j \in 1 .. n : p[i] = p[j] => i = j) /\ Chronological(p)}

ValidateActivationSequence(p) ==
  \A i \in 2 .. Len(events) :
    /\ events[p[i - 1]].at <= events[p[i]].at
    /\ events[p[i]].from # Nobody /\ events[p[i]].from = events[p[i - 1]].to

(***************************************************************************)
(* Properties                                                              *)
(***************************************************************************)

\* VerifyActivation accepts every chain whose times are the server's, two of
\* which are never the same, although callers race and the clock is read
\* before the transaction.
ChainVerified ==
  /\ \A i \in DOMAIN events : events[i].stamped
  /\ \A i, j \in DOMAIN events : events[i].at = events[j].at => i = j
  => \A p \in ListActivation : ValidateActivationSequence(p)

\* Whatever times callers claim: a list that VerifyActivation accepts ends
\* with the operator who holds the job.
VerifiedHolder ==
  \A p \in ListActivation :
    events # <<>> /\ ValidateActivationSequence(p) => events[p[Len(events)]].to = Holder

\* What VerifyActivation says of a job can be relied on, both ways.
VerifiesChain == ChainVerified /\ VerifiedHolder

(***************************************************************************)
(* Why: the inductive invariant                                            *)
(***************************************************************************)
TypeOK ==
  /\ now \in Nat /\ version \in Nat
  /\ events \in Seq(Event)
  /\ request \in [Callers ->
       {Idle} \cup [pc : {"shown"}, version : Nat, from : Operators \cup {Nobody}]
              \cup [pc : {"sent"}, version : Nat, event : Event]]

\* Committed in this order, each event is from whoever held the job before it,
\* and the server's times among them, all of the past, go up.
Chained ==
  \A i \in 1 .. Len(events) :
    /\ events[i].from = (IF i = 1 THEN Nobody ELSE events[i - 1].to)
    /\ events[i].stamped => events[i].at <= now
    /\ \A j \in 1 .. i : events[j].stamped /\ events[i].stamped => events[j].at <= events[i].at

\* A caller whose version is still the job's knows who holds it, and took its
\* time after the last event was committed.
Informed ==
  \A c \in Callers :
    LET q == request[c] IN
    /\ q.pc \in {"shown", "sent"} => q.version <= version
    /\ q.pc = "shown" /\ q.version = version => q.from = Holder
    /\ q.pc = "sent" /\ q.version = version =>
         /\ q.event.from = Holder
         /\ q.event.stamped =>
              /\ q.event.at <= now
              /\ \A i \in 1 .. Len(events) : events[i].stamped => events[i].at <= q.event.at

HandOffsInv == TypeOK /\ Chained /\ Informed
=============================================================================
