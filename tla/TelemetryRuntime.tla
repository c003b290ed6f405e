--------------------------- MODULE TelemetryRuntime ---------------------------
(***************************************************************************)
(* Limiter.Run around DecodeBatch, as RunLimited and DecodeBatch of        *)
(* TelemetryControl offer them: calls share a limiter and a                *)
(* ResourceTracker.  A batch decodes its inputs with telemetry.Decode,     *)
(* which turns a panic of the decoder into an error, or with a function of *)
(* its own, whose panic unwinds DecodeBatch: Limiter.Run gives its token   *)
(* back in a deferred function, DecodeBatch does not release.              *)
(***************************************************************************)
EXTENDS Naturals, FiniteSets

CONSTANTS
  Calls,
  Slots,              \* NewLimiter(Slots)
  Inputs,             \* how many inputs a batch has
  Guarded             \* the calls that decode with telemetry.Decode

VARIABLES
  stage,              \* where each call is
  tokens,             \* len(l.tokens)
  open,               \* r.open
  decoded,            \* how many inputs each call is done with
  outcome,            \* "none", "nil", "error" or "panic"
  dead                \* the calls whose context is done

vars == <<stage, tokens, open, decoded, outcome, dead>>

TypeOK ==
  /\ stage \in [Calls -> {"select", "head", "decode", "release", "leave", "returned"}]
  /\ tokens \in Nat /\ open \in Nat /\ dead \in SUBSET Calls
  /\ decoded \in [Calls -> Nat]
  /\ outcome \in [Calls -> {"none", "nil", "error", "panic"}]

Init ==
  /\ stage = [c \in Calls |-> "select"]
  /\ tokens = 0 /\ open = 0 /\ dead = {}
  /\ decoded = [c \in Calls |-> 0]
  /\ outcome = [c \in Calls |-> "none"]

Goto(c, from, to) == stage[c] = from /\ stage' = [stage EXCEPT ![c] = to]
Ends(c, o) == outcome' = [outcome EXCEPT ![c] = o]

\* a timeout of DerivedContext, or a cancellation
Cancel(c) ==
  /\ c \notin dead /\ stage[c] # "returned"
  /\ dead' = dead \cup {c}
  /\ UNCHANGED <<stage, tokens, open, decoded, outcome>>

(***************************************************************************)
(* Limiter.Run: with a token free and the context done, either             *)
(***************************************************************************)
TakeToken(c) ==
  /\ tokens < Slots
  /\ Goto(c, "select", "head")
  /\ tokens' = tokens + 1
  /\ UNCHANGED <<open, decoded, outcome, dead>>

SelectDone(c) ==
  /\ c \in dead
  /\ Goto(c, "select", "returned") /\ Ends(c, "error")
  /\ UNCHANGED <<tokens, open, decoded, dead>>

\* mutant: the token is given back when operation() returned nil
TokenOnSuccess(c) == IF outcome[c] = "nil" THEN tokens - 1 ELSE tokens

\* the deferred function runs after an error and during a panic too
TokenBack(c) == tokens - 1

Leave(c) ==
  /\ Goto(c, "leave", "returned")
  /\ tokens' = TokenBack(c)
  /\ UNCHANGED <<open, decoded, outcome, dead>>

(***************************************************************************)
(* DecodeBatch                                                             *)
(***************************************************************************)
\* ctx.Err(), or the end of the inputs
BatchEnds(c) ==
  /\ \/ decoded[c] = Inputs /\ Ends(c, "nil")
     \/ decoded[c] < Inputs /\ c \in dead /\ Ends(c, "error")
  /\ Goto(c, "head", "leave")
  /\ UNCHANGED <<tokens, open, decoded, dead>>

Acquire(c) ==
  /\ decoded[c] < Inputs /\ c \notin dead
  /\ Goto(c, "head", "decode")
  /\ open' = open + 1
  /\ UNCHANGED <<tokens, decoded, outcome, dead>>

DecodeReturns(c, err) ==
  /\ Goto(c, "decode", "release")
  /\ outcome' = IF err THEN [outcome EXCEPT ![c] = "error"] ELSE outcome
  /\ UNCHANGED <<tokens, open, decoded, dead>>

\* the deferred recover of telemetry.Decode
Unwinds(c) == c \notin Guarded

DecodePanics(c) ==
  /\ IF Unwinds(c) THEN Goto(c, "decode", "leave") /\ Ends(c, "panic")
                   ELSE Goto(c, "decode", "release") /\ Ends(c, "error")
  /\ UNCHANGED <<tokens, open, decoded, dead>>

\* mutant: an error returns before release()
ReleasedOnSuccess(c) == IF outcome[c] = "none" THEN open - 1 ELSE open

Released(c) == open - 1

\* release(), and an error ends the batch
Release(c) ==
  /\ Goto(c, "release", IF outcome[c] = "none" THEN "head" ELSE "leave")
  /\ open' = Released(c)
  /\ decoded' = [decoded EXCEPT ![c] = @ + 1]
  /\ UNCHANGED <<tokens, outcome, dead>>

Run(c) ==
  \/ SelectDone(c) \/ Leave(c)
  \/ BatchEnds(c) \/ Acquire(c)
  \/ (\E err \in BOOLEAN : DecodeReturns(c, err)) \/ DecodePanics(c)
  \/ Release(c)

Next == \E c \in Calls : TakeToken(c) \/ Run(c) \/ Cancel(c)

\* Decoders return, and those who wait for a token get it in turn.
Fairness == \A c \in Calls : WF_vars(Run(c)) /\ SF_vars(TakeToken(c))

Spec == Init /\ [][Next]_vars /\ Fairness

(***************************************************************************)
(* Properties                                                              *)
(***************************************************************************)
Holding == {c \in Calls : stage[c] \notin {"select", "returned"}}
Decoding == {c \in Calls : stage[c] \in {"decode", "release"}}
Panicked == {c \in Calls : outcome[c] = "panic"}

\* Batches hold a resource only while they decode, and so never more of them
\* than the limiter lets in, whatever fails or is cancelled.  What a panic of
\* the caller's own function leaves open is all that stays open.
OpenExact ==
  /\ open = Cardinality(Decoding) + Cardinality(Panicked)
  /\ Panicked \cap Guarded = {}
  /\ Cardinality(Holding) <= Slots

\* Every call returns: no error, panic or cancellation costs the limiter a
\* token that somebody waits for.
RunsReturn == <>(\A c \in Calls : stage[c] = "returned")

(***************************************************************************)
(* What makes OpenExact inductive                                          *)
(***************************************************************************)
\* The tokens taken are those of the calls inside, and a batch whose outcome is
\* decided decodes no more.
TokensHeld ==
  /\ tokens = Cardinality(Holding) /\ tokens <= Slots
  /\ \A c \in Calls :
       /\ stage[c] \in {"select", "head", "decode"} => outcome[c] = "none"
       /\ stage[c] = "release" => outcome[c] \in {"none", "error"}

LimiterInv == TypeOK /\ TokensHeld /\ OpenExact
=============================================================================
