-------------------------------- MODULE Retry --------------------------------
(***************************************************************************)
(* The loops that try again: RunWithRetry, as DiveWindowProcessor.Process  *)
(* uses it ("process"), RunWithPolicy, which repeats a transaction that    *)
(* the database asked to repeat ("policy"), and WaitForDatabase ("ping").  *)
(* The attempt itself is external: it may succeed, fail with an error that *)
(* says that nothing was done, or fail without saying so.                  *)
(***************************************************************************)
EXTENDS Naturals

CONSTANTS
  MaxAttempts,        \* bound on the attempts asked for
  MaxUnit             \* bound on the delays

Kinds == {"process", "policy", "ping"}

VARIABLES
  kind,               \* which loop
  asked, jobMax,      \* policy.Attempts and job.MaxAttempts
  base, max,          \* BaseDelay and MaxDelay
  pc, attempt,
  waited,             \* the delays so far, by attempt
  answer,             \* what the caller got: "none", "nil" or an error
  applied,            \* how often the attempt's effect happened
  last,               \* how the last attempt ended
  ctx,                \* is the context cancelled?
  after               \* attempts begun since

vars == <<kind, asked, jobMax, base, max, pc, attempt, waited, answer, applied, last, ctx, after>>
args == <<kind, asked, jobMax, base, max>>

TypeOK ==
  /\ kind \in Kinds /\ asked \in 0 .. MaxAttempts /\ jobMax \in 0 .. MaxAttempts
  /\ base \in Nat /\ max \in Nat
  /\ pc \in {"begin", "head", "try", "wait", "returned"} /\ attempt \in Nat
  /\ waited \in [1 .. MaxAttempts -> Nat]
  /\ answer \in {"none", "nil", "error", "serialization", "cancelled", "invalid"}
  /\ applied \in Nat /\ last \in {"none", "nil", "error", "serialization"}
  /\ ctx \in BOOLEAN /\ after \in Nat

Init ==
  /\ kind \in Kinds
  /\ asked \in 0 .. MaxAttempts /\ jobMax \in 0 .. MaxAttempts
  /\ base \in 0 .. MaxUnit /\ max \in 0 .. MaxUnit
  /\ kind # "process" => jobMax = 0 /\ base = 1 /\ max = 1
  /\ pc = "begin" /\ attempt = 1 /\ waited = [i \in 1 .. MaxAttempts |-> 0]
  /\ answer = "none" /\ applied = 0 /\ last = "none" /\ ctx = FALSE /\ after = 0

\* Process lowers the attempts to the job's; WaitForDatabase makes at least one
Attempts ==
  CASE kind = "process" -> IF jobMax > 0 /\ asked > jobMax THEN jobMax ELSE asked
    [] kind = "policy" -> asked
    [] kind = "ping" -> IF asked < 1 THEN 1 ELSE asked

\* mutants: the delay is doubled first and compared afterwards; and it gives up
\* doubling at a third of MaxDelay
DelayDoubled ==
  LET d[i \in 1 .. MaxAttempts] == IF i = 1 THEN base ELSE 2 * d[i - 1] IN
  [n \in 1 .. MaxAttempts |-> IF d[n] > 2 * max THEN max ELSE d[n]]
DelayJumps ==
  LET d[i \in 1 .. MaxAttempts] ==
        IF i = 1 THEN base ELSE IF d[i - 1] >= max \div 3 THEN max ELSE 2 * d[i - 1]
  IN  [n \in 1 .. MaxAttempts |-> IF d[n] > max THEN max ELSE d[n]]

\* RetryPolicy.Delay: delay before the loop's i-th round, MaxDelay once half of
\* it is reached, ...
Doubled[i \in 1 .. MaxAttempts] ==
  IF i = 1 THEN base
  ELSE IF Doubled[i - 1] >= max \div 2 THEN max ELSE 2 * Doubled[i - 1]

\* ... and what is returned
Delay == [n \in 1 .. MaxAttempts |-> IF Doubled[n] > max THEN max ELSE Doubled[n]]

Finish(a) == pc' = "returned" /\ answer' = a

\* Validate, or Attempts < 1
Refuse ==
  /\ pc = "begin" /\ Attempts < 1
  /\ Finish("invalid")
  /\ UNCHANGED <<args, attempt, waited, applied, last, ctx, after>>

Begin ==
  /\ pc = "begin" /\ Attempts >= 1
  /\ pc' = "head"
  /\ UNCHANGED <<args, attempt, waited, answer, applied, last, ctx, after>>

Cancel ==
  /\ pc # "returned" /\ ~ctx
  /\ ctx' = TRUE
  /\ UNCHANGED <<args, pc, attempt, waited, answer, applied, last, after>>

\* mutant: the head of the loop does not look at the context
HeadNever == FALSE

\* only RunWithRetry does
HeadErr == kind = "process" /\ ctx

Head ==
  /\ pc = "head"
  /\ IF HeadErr THEN Finish("cancelled") ELSE pc' = "try" /\ UNCHANGED answer
  /\ UNCHANGED <<args, attempt, waited, applied, last, ctx, after>>

\* mutant: any error is worth another attempt
RetryableAny(outcome) == outcome # "nil"

\* retryableTransactionError; the others retry whatever the error is
Retryable(outcome) == kind # "policy" \/ outcome = "serialization"

\* The operation, the transaction or the ping.  With a cancelled context the
\* latter two fail before they do anything.
Try(outcome, does) ==
  /\ pc = "try"
  /\ outcome = "nil" => does
  /\ outcome = "serialization" => kind = "policy" /\ ~does
  /\ ctx /\ kind # "process" => outcome = "error" /\ ~does
  /\ applied' = IF does THEN applied + 1 ELSE applied
  /\ last' = outcome
  /\ after' = IF ctx THEN after + 1 ELSE after
  /\ IF outcome = "nil" THEN Finish("nil")
     ELSE IF ~Retryable(outcome) \/ (attempt = Attempts /\ kind # "ping") THEN Finish(outcome)
     ELSE pc' = "wait" /\ UNCHANGED answer
  /\ UNCHANGED <<args, attempt, waited, ctx>>

\* select: the timer, perhaps together with the context, ...
Timer ==
  /\ pc = "wait"
  /\ waited' = [waited EXCEPT ![attempt] = CASE kind = "process" -> Delay[attempt]
                                             [] kind = "policy" -> attempt
                                             [] kind = "ping" -> base]
  /\ IF attempt = Attempts
     THEN Finish("error") /\ UNCHANGED attempt
     ELSE attempt' = attempt + 1 /\ pc' = "head" /\ UNCHANGED answer
  /\ UNCHANGED <<args, applied, last, ctx, after>>

\* ... or the context alone
Done ==
  /\ pc = "wait" /\ ctx
  /\ Finish("cancelled")
  /\ UNCHANGED <<args, attempt, waited, applied, last, ctx, after>>

Progress ==
  \/ Refuse \/ Begin \/ Head
  \/ \E outcome \in {"nil", "error", "serialization"}, does \in BOOLEAN : Try(outcome, does)
  \/ Timer

Next == Progress \/ Cancel \/ Done

Spec == Init /\ [][Next]_vars

(***************************************************************************)
(* Properties                                                              *)
(***************************************************************************)

\* A transaction that is repeated takes effect once at most, although a commit
\* whose answer is lost may have happened; and once exactly if nil is returned.
EffectOnce ==
  /\ kind = "policy" => applied <= 1
  /\ answer = "nil" => last = "nil" /\ applied >= 1

\* The delays of RunWithRetry begin with BaseDelay and double while that stays
\* below MaxDelay; they neither fall again nor exceed it, and they are MaxDelay
\* only when doubling gets there, or would but for the one that halving an odd
\* MaxDelay rounds off.
DelaysGrow ==
  kind = "process" =>
    \A n \in 1 .. attempt - 1 :
      LET doubled == IF n = 1 THEN base ELSE 2 * waited[n - 1] IN
      /\ waited[n] <= max
      /\ waited[n] < max => waited[n] = doubled
      /\ waited[n] = max => max <= doubled + (IF n = 1 THEN 0 ELSE 1)
      /\ n > 1 => waited[n - 1] <= waited[n]

\* After the cancellation one attempt is begun at most (WaitForDatabase may
\* begin more, if its timer is done each time it looks).
OneLateAttempt == kind # "ping" => after <= 1

\* A loop repeats what did not happen, and stops when it is told to.
RepeatsSafely == EffectOnce /\ OneLateAttempt

(***************************************************************************)
(* What makes these properties inductive                                   *)
(***************************************************************************)
\* A transaction that goes on has not taken effect, and a loop that began an
\* attempt after the cancellation will not come to another one.
NotYet ==
  /\ kind = "policy" /\ pc # "returned" => applied = 0
  /\ pc # "returned" => answer = "none"
  /\ kind # "ping" =>
       \/ after = 0
       \/ after = 1 /\ (pc = "returned" \/ (kind = "process" /\ ctx /\ pc \in {"head", "wait"}))

\* Attempts are counted up to the loop's own number, and the delays waited
\* for are those of the policy.
DelaysWaited ==
  /\ attempt \in 1 .. MaxAttempts /\ (pc = "begin" => attempt = 1)
  /\ pc \in {"head", "try", "wait"} => attempt <= Attempts
  /\ kind = "process" => \A n \in 1 .. attempt - 1 : waited[n] = Delay[n]

RetryInv == TypeOK /\ EffectOnce /\ NotYet /\ DelaysWaited
=============================================================================
