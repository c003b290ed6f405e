--------------------------- MODULE MCIdempotency ---------------------------
(***************************************************************************)
(* Requests that race, of two kinds that share no state; each behaviour is *)
(* of one, chosen at the start.  Creations of missions: calls with one key *)
(* and body (a request and its retries), one that reuses the key with      *)
(* another body, and one without a key.  Hand-offs of a job.               *)
(***************************************************************************)
EXTENDS Idempotency, TLC

CONSTANTS
  Retries, Reuse, Bare,
  Callers, Operators, Nobody, MaxTime, MaxLead, MaxHandOffs

VARIABLES part, now, version, events, request

handOffVars == <<now, version, events, request>>

H == INSTANCE Activations

ASSUME HandOffsAssumption ==
  MaxTime \in Nat /\ MaxLead \in Nat /\ MaxHandOffs \in Nat /\ Nobody \notin Operators

MCRequests == Retries \cup {Reuse, Bare}
MCKeyOf == [r \in MCRequests |-> IF r = Bare THEN NoKey ELSE "key"]
MCBodyOf == [r \in MCRequests |-> IF r = Reuse THEN "other" ELSE "body"]
MCSymmetry == Permutations(Retries) \cup Permutations(Callers) \cup Permutations(Operators)

MCInit == part \in {"keys", "handoffs"} /\ Init /\ H!Init

MCNext ==
  \/ part = "keys" /\ Next /\ UNCHANGED <<part, handOffVars>>
  \/ part = "handoffs" /\ H!Next /\ UNCHANGED <<part, vars>>

MCSpec == MCInit /\ [][MCNext]_<<part, vars, handOffVars>>

\* The properties of Activations, about what VerifyActivation says of a chain.
VerifiesChain == H!VerifiesChain
=============================================================================
