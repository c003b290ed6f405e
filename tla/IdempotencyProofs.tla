------------------------- MODULE IdempotencyProofs -------------------------
(***************************************************************************)
(* What idempotent creation guarantees for any requests, keys and bodies.  *)
(* RecordsSound carries the proof: a key's first record stays, and every    *)
(* success leaves one behind before it is reported.                        *)
(*                                                                         *)
(* And what VerifyActivation says of the hand-offs of a job, for any       *)
(* callers, operators and times: HandOffsInv carries that proof.           *)
(***************************************************************************)
EXTENDS MCIdempotency, Sequences, FiniteSetTheorems, WellFoundedInduction, NaturalsInduction, TLAPS

\* Initially there are no records, creates or answers.
LEMMA InvInit == Init => IdempotencyInv
<1> SUFFICES ASSUME Init PROVE IdempotencyInv
  OBVIOUS
<1> USE IdempotencyAssumption DEF Init
<1>1. TypeOK
  BY DEF TypeOK, Answers
<1>2. Succeeded = {}
  BY DEF Succeeded
<1>3. \A k \in Keys : record[k] = None
  BY DEF Keys
<1>4. AnswersCreated /\ ReplaysAgree /\ AnsweredOnce /\ RecordsSound
  BY <1>2, <1>3 DEF AnswersCreated, ReplaysAgree, AnsweredOnce, RecordsSound
<1>5. KeylessRefused
  BY <1>3 DEF KeylessRefused, Keys
<1> QED BY <1>1, <1>4, <1>5 DEF IdempotencyInv

\* A call that returns changes the successes by itself alone.
LEMMA ReturnEffect ==
  ASSUME TypeOK, NEW r \in Requests, NEW a \in Answers, Return(r, a)
  PROVE  /\ pc' \in [Requests -> {"new", "missed", "created", "returned"}]
         /\ answer' \in [Requests -> Answers]
         /\ answer'[r] = a /\ pc'[r] = "returned"
         /\ \A q \in Requests : q # r => answer'[q] = answer[q] /\ pc'[q] = pc[q]
         /\ Succeeded' = IF a \in Requests THEN Succeeded \cup {r}
                         ELSE Succeeded \ {r}
<1>1. /\ pc' \in [Requests -> {"new", "missed", "created", "returned"}]
      /\ answer' \in [Requests -> Answers]
      /\ answer'[r] = a /\ pc'[r] = "returned"
      /\ \A q \in Requests : q # r => answer'[q] = answer[q] /\ pc'[q] = pc[q]
  BY DEF TypeOK, Return
<1> QED BY <1>1 DEF Succeeded

\* A call without a key finds no record and leaves none.
LEMMA KeylessStep ==
  ASSUME TypeOK, KeylessRefused, NEW r \in Requests,
         Get(r) \/ RefuseNoKey(r) \/ Create(r) \/ Put(r) \/ Fail(r) \/ PutAnswerLost(r)
  PROVE  KeylessRefused'
<1> USE IdempotencyAssumption
<1> SUFFICES ASSUME NEW s \in Requests, KeyOf[s] = NoKey
             PROVE  answer'[s] \in {None, Failed} /\ record'[NoKey] = None
  BY DEF KeylessRefused
<1>0. KeyOf[r] \in Keys /\ NoKey \in Keys /\ record[NoKey] = None /\ answer[s] \in {None, Failed}
  BY DEF Keys, KeylessRefused
<1>1. CASE Get(r)
  <2>1. KeyOf[r] = NoKey => answer' = answer
    BY <1>0, <1>1 DEF Get
  <2>2. record' = record /\ (s # r => answer'[s] = answer[s])
    BY <1>1 DEF Get, Return, TypeOK
  <2> QED BY <1>0, <2>1, <2>2
<1>2. CASE Put(r) \/ PutAnswerLost(r)
  <2>1. KeyOf[r] # NoKey /\ record' = [record EXCEPT ![KeyOf[r]] = FirstRecord(KeyOf[r], r)]
    BY <1>2 DEF Put, PutAnswerLost, Recordable
  <2>2. s # r /\ answer'[s] = answer[s]
    BY <1>2, <2>1 DEF Put, PutAnswerLost, Return, TypeOK
  <2> QED BY <1>0, <2>1, <2>2 DEF TypeOK
<1>3. CASE RefuseNoKey(r) \/ Create(r) \/ Fail(r)
  BY <1>0, <1>3 DEF RefuseNoKey, Create, Fail, Failure, Return, TypeOK
<1> QED BY <1>1, <1>2, <1>3

\* The invariant is kept by every operation of a call.
LEMMA InvNext ==
  ASSUME IdempotencyInv, NEW r \in Requests,
         Get(r) \/ RefuseNoKey(r) \/ Create(r) \/ Put(r) \/ Fail(r) \/ PutAnswerLost(r)
  PROVE  IdempotencyInv'
<1> USE IdempotencyAssumption
<1>0. /\ TypeOK /\ AnswersCreated /\ ReplaysAgree /\ AnsweredOnce /\ RecordsSound
      /\ KeyOf[r] \in Keys
  BY DEF IdempotencyInv, Keys
<1>k. KeylessRefused'
  BY KeylessStep DEF IdempotencyInv
<1>1. CASE Get(r)
  <2> DEFINE q == record[KeyOf[r]]
  <2>1. /\ pc[r] = "new" /\ record' = record /\ created' = created
        /\ answered' = [answered EXCEPT ![r] = Succeeded]
        /\ r \notin created
    BY <1>0, <1>1 DEF Get, RecordsSound
  <2>2. /\ answered' \in [Requests -> SUBSET Requests]
        /\ answered'[r] = Succeeded /\ \A s \in Requests : s # r => answered'[s] = answered[s]
    BY <1>0, <2>1 DEF TypeOK, Succeeded
  <2>3. CASE q # None /\ Matches(q, r) /\ Return(r, q) /\ replayed' = replayed \cup {r}
    <3>1. q \in created /\ q \in Requests /\ KeyOf[q] = KeyOf[r] /\ BodyOf[q] = BodyOf[r]
      BY <1>0, <2>3 DEF RecordsSound, TypeOK, Matches
    <3>2. q \in Answers
      BY <3>1 DEF Answers
    <3>3. /\ pc' \in [Requests -> {"new", "missed", "created", "returned"}]
          /\ answer' \in [Requests -> Answers]
          /\ answer'[r] = q /\ pc'[r] = "returned"
          /\ \A s \in Requests : s # r => answer'[s] = answer[s] /\ pc'[s] = pc[s]
          /\ Succeeded' = Succeeded \cup {r}
      BY <1>0, <2>3, <3>1, <3>2, ReturnEffect
    <3>4. TypeOK' /\ AnswersCreated'
      BY <1>0, <2>1, <2>2, <2>3, <3>1, <3>3 DEF TypeOK, AnswersCreated, Keys
    <3>5. AnsweredOnce'
      BY <1>0, <2>1, <2>2 DEF AnsweredOnce, TypeOK
    <3>6. RecordsSound'
      BY <1>0, <2>1, <2>2, <2>3, <3>1, <3>3 DEF RecordsSound, TypeOK
    <3>7. ReplaysAgree'
      BY <3>6 DEF RecordsSound, ReplaysAgree
    <3> QED BY <1>k, <3>4, <3>5, <3>6, <3>7 DEF IdempotencyInv
  <2>4. CASE Return(r, Conflict) /\ replayed' = replayed
    <3>1. /\ pc' \in [Requests -> {"new", "missed", "created", "returned"}]
          /\ answer' \in [Requests -> Answers]
          /\ answer'[r] = Conflict /\ pc'[r] = "returned"
          /\ \A s \in Requests : s # r => answer'[s] = answer[s] /\ pc'[s] = pc[s]
          /\ Succeeded' = Succeeded \ {r}
      BY <1>0, <2>4, ReturnEffect DEF Answers
    <3>2. TypeOK' /\ AnswersCreated' /\ AnsweredOnce'
      BY <1>0, <2>1, <2>2, <2>4, <3>1
      DEF TypeOK, AnswersCreated, AnsweredOnce, Keys
    <3>3. r \notin replayed
      BY <1>0, <2>1 DEF RecordsSound
    <3>4. RecordsSound'
      BY <1>0, <2>1, <2>2, <2>4, <3>1, <3>3 DEF RecordsSound, TypeOK
    <3>5. ReplaysAgree'
      BY <3>4 DEF RecordsSound, ReplaysAgree
    <3> QED BY <1>k, <3>2, <3>4, <3>5 DEF IdempotencyInv
  <2>5. CASE q = None /\ pc' = [pc EXCEPT ![r] = "missed"] /\ UNCHANGED <<answer, replayed>>
    <3>1. /\ pc' \in [Requests -> {"new", "missed", "created", "returned"}]
          /\ pc'[r] = "missed" /\ \A s \in Requests : s # r => pc'[s] = pc[s]
          /\ Succeeded' = Succeeded
      BY <1>0, <2>5 DEF TypeOK, Succeeded
    <3>2. \A s \in Succeeded : KeyOf[s] # KeyOf[r]
      BY <1>0, <2>5 DEF RecordsSound
    <3>3. TypeOK' /\ AnswersCreated' /\ AnsweredOnce' /\ ReplaysAgree'
      BY <1>0, <2>1, <2>2, <2>5, <3>1
      DEF TypeOK, AnswersCreated, AnsweredOnce, ReplaysAgree, Keys
    <3>4. RecordsSound'
      BY <1>0, <2>1, <2>2, <2>5, <3>1, <3>2 DEF RecordsSound, TypeOK
    <3> QED BY <1>k, <3>3, <3>4 DEF IdempotencyInv
  <2> QED BY <1>1, <2>3, <2>4, <2>5 DEF Get
<1>2. CASE Create(r)
  <2>1. /\ pc[r] = "missed" /\ created' = created \cup {r}
        /\ pc' \in [Requests -> {"new", "missed", "created", "returned"}]
        /\ pc'[r] = "created" /\ \A s \in Requests : s # r => pc'[s] = pc[s]
        /\ Succeeded' = Succeeded
        /\ UNCHANGED <<record, answer, replayed, answered>>
    BY <1>0, <1>2 DEF Create, TypeOK, Succeeded
  <2>2. TypeOK' /\ AnswersCreated' /\ ReplaysAgree'
    BY <1>0, <2>1 DEF TypeOK, AnswersCreated, ReplaysAgree, Keys
  <2>3. RecordsSound'
    <3>1. \A s \in replayed : s # r
      BY <1>0, <2>1 DEF RecordsSound
    <3>2. /\ \A k \in Keys : record[k] # None => record[k] \in created' /\ KeyOf[record[k]] = k
          /\ \A s \in Succeeded : record[KeyOf[s]] # None
          /\ \A s \in replayed : pc'[s] = "returned" /\ answer[s] \in Requests /\ answer[s] = record[KeyOf[s]]
      BY <1>0, <2>1, <3>1 DEF RecordsSound, TypeOK
    <3>3. \A s \in Requests :
            /\ s \in created' => pc'[s] \in {"created", "returned"}
            /\ pc'[s] = "created" => s \in created'
            /\ pc'[s] = "missed" \/ s \in created' =>
                 \A q \in answered[s] : KeyOf[q] # KeyOf[s]
      BY <1>0, <2>1 DEF RecordsSound
    <3> QED BY <2>1, <3>2, <3>3 DEF RecordsSound
  <2>4. AnsweredOnce'
    BY <2>2, <2>3 DEF RecordsSound, AnsweredOnce, TypeOK
  <2> QED BY <1>k, <2>2, <2>3, <2>4 DEF IdempotencyInv
<1>3. ASSUME NEW a \in {r, Failed}, Return(r, a), pc[r] = "created",
             record' = [record EXCEPT ![KeyOf[r]] = FirstRecord(KeyOf[r], r)],
             UNCHANGED <<created, replayed, answered>>
      PROVE  IdempotencyInv'
  <2>1. /\ pc' \in [Requests -> {"new", "missed", "created", "returned"}]
        /\ answer' \in [Requests -> Answers]
        /\ answer'[r] = a /\ pc'[r] = "returned"
        /\ \A s \in Requests : s # r => answer'[s] = answer[s] /\ pc'[s] = pc[s]
        /\ Succeeded' \subseteq Succeeded \cup {r}
    BY <1>0, <1>3, ReturnEffect DEF Answers
  <2>2. /\ record' \in [Keys -> Requests \cup {None}]
        /\ \A k \in Keys : record[k] # None => record'[k] = record[k]
        /\ record'[KeyOf[r]] # None
        /\ \A k \in Keys : record'[k] # record[k] => k = KeyOf[r] /\ record'[k] = r
    BY <1>0, <1>3 DEF TypeOK, FirstRecord
  <2>3. r \in created /\ r \notin replayed
    <3>1. r \in created
      BY <1>0, <1>3 DEF RecordsSound
    <3>2. ASSUME r \in replayed PROVE FALSE
      BY <1>0, <1>3, <3>2 DEF RecordsSound
    <3> QED BY <3>1, <3>2
  <2>4. TypeOK'
    BY <1>0, <1>3, <2>1, <2>2 DEF TypeOK, Keys
  <2>5. AnswersCreated'
    <3>1. ASSUME NEW s \in Succeeded', s # r
          PROVE  answer'[s] \in created /\ KeyOf[answer'[s]] = KeyOf[s] /\ BodyOf[answer'[s]] = BodyOf[s]
      BY <1>0, <2>1, <3>1 DEF AnswersCreated, Succeeded
    <3>2. r \in Succeeded' => answer'[r] = r
      BY <1>3, <2>1 DEF Succeeded
    <3> QED BY <1>3, <2>3, <3>1, <3>2 DEF AnswersCreated
  <2>6. RecordsSound'
    <3>1. \A k \in Keys : record'[k] # None => record'[k] \in created /\ KeyOf[record'[k]] = k
      BY <1>0, <2>2, <2>3 DEF RecordsSound
    <3>2. ASSUME NEW s \in Succeeded' PROVE record'[KeyOf[s]] # None
      <4>1. KeyOf[s] \in Keys
        BY DEF Succeeded, Keys
      <4> QED BY <1>0, <2>1, <2>2, <4>1 DEF RecordsSound
    <3>3. ASSUME NEW s \in replayed 
          PROVE  pc'[s] = "returned" /\ answer'[s] \in Requests /\ answer'[s] = record'[KeyOf[s]]
      <4>1. s \in Requests /\ s # r /\ KeyOf[s] \in Keys
        BY <1>0, <2>3 DEF TypeOK, Keys
      <4>2. answer[s] = record[KeyOf[s]] /\ answer[s] \in Requests
        BY <1>0, <4>1 DEF RecordsSound, TypeOK
      <4> QED BY <1>0, <2>1, <2>2, <4>1, <4>2 DEF RecordsSound
    <3>4. \A s \in Requests :
            /\ s \in created => pc'[s] \in {"created", "returned"}
            /\ pc'[s] = "created" => s \in created
            /\ pc'[s] = "missed" \/ s \in created =>
                 \A q \in answered[s] : KeyOf[q] # KeyOf[s]
      BY <1>0, <2>1 DEF RecordsSound
    <3> QED BY <1>3, <3>1, <3>2, <3>3, <3>4 DEF RecordsSound
  <2>7. ReplaysAgree' /\ AnsweredOnce'
    BY <1>0, <1>3, <2>6 DEF RecordsSound, ReplaysAgree, AnsweredOnce
  <2> QED BY <1>k, <2>4, <2>5, <2>6, <2>7 DEF IdempotencyInv
<1>4. CASE Put(r)
  BY <1>3, <1>4 DEF Put
<1>5. CASE PutAnswerLost(r)
  BY <1>3, <1>5 DEF PutAnswerLost
<1>6. CASE RefuseNoKey(r) \/ Fail(r)
  <2>1. /\ pc[r] # "returned" /\ Return(r, Failed)
        /\ UNCHANGED <<record, created, replayed, answered>>
    BY <1>6 DEF RefuseNoKey, Fail, Failure
  <2>2. /\ pc' \in [Requests -> {"new", "missed", "created", "returned"}]
        /\ answer' \in [Requests -> Answers]
        /\ answer'[r] = Failed /\ pc'[r] = "returned"
        /\ \A s \in Requests : s # r => answer'[s] = answer[s] /\ pc'[s] = pc[s]
        /\ Succeeded' = Succeeded \ {r}
    BY <1>0, <2>1, ReturnEffect DEF Answers
  <2>3. r \notin replayed
    BY <1>0, <2>1 DEF RecordsSound
  <2>4. TypeOK'
    BY <1>0, <2>1, <2>2 DEF TypeOK
  <2>5. AnswersCreated' /\ AnsweredOnce'
    BY <1>0, <2>1, <2>2 DEF AnswersCreated, AnsweredOnce, Succeeded
  <2>6. RecordsSound'
    <3>1. /\ \A k \in Keys : record[k] # None => record[k] \in created /\ KeyOf[record[k]] = k
          /\ \A s \in Succeeded' : record[KeyOf[s]] # None
          /\ \A s \in replayed : pc'[s] = "returned" /\ answer'[s] \in Requests /\ answer'[s] = record[KeyOf[s]]
      BY <1>0, <2>2, <2>3 DEF RecordsSound, TypeOK
    <3>2. \A s \in Requests :
            /\ s \in created => pc'[s] \in {"created", "returned"}
            /\ pc'[s] = "created" => s \in created
            /\ pc'[s] = "missed" \/ s \in created =>
                 \A q \in answered[s] : KeyOf[q] # KeyOf[s]
      BY <1>0, <2>2 DEF RecordsSound
    <3> QED BY <2>1, <3>1, <3>2 DEF RecordsSound
  <2>7. ReplaysAgree'
    BY <2>6 DEF RecordsSound, ReplaysAgree
  <2> QED BY <1>k, <2>4, <2>5, <2>6, <2>7 DEF IdempotencyInv
<1> QED BY <1>1, <1>2, <1>4, <1>5, <1>6

\* Service.IdempotentCreate and ReplayOr: the invariant always holds.
THEOREM IdempotencyInvariant == Spec => []IdempotencyInv
<1>1. IdempotencyInv /\ [Next]_vars => IdempotencyInv'
  <2> SUFFICES ASSUME IdempotencyInv, [Next]_vars PROVE IdempotencyInv'
    OBVIOUS
  <2>1. CASE Next
    BY <2>1, InvNext DEF Next
  <2>2. CASE UNCHANGED vars
    BY <2>2 DEF vars, IdempotencyInv, TypeOK, AnswersCreated, ReplaysAgree,
                AnsweredOnce, KeylessRefused, RecordsSound, Succeeded
  <2> QED BY <2>1, <2>2
<1> QED BY <1>1, InvInit, PTL DEF Spec

\* Responses are those of creates that took effect for the same key and body,
\* replays of a key agree, and nothing is created for a key after a success.
THEOREM ReplaysSound == Spec => [](AnswersCreated /\ ReplaysAgree /\ AnsweredOnce)
<1>1. IdempotencyInv => AnswersCreated /\ ReplaysAgree /\ AnsweredOnce
  BY DEF IdempotencyInv
<1> QED BY <1>1, IdempotencyInvariant, PTL

(***************************************************************************)
(* Orders of a chain                                                       *)
(***************************************************************************)
\* A set of numbers has a least one.
LEMMA Least ==
  ASSUME NEW X \in SUBSET Nat, X # {}
  PROVE  \E x \in X : \A y \in X : x <= y
<1> DEFINE L == OpToRel(<, Nat)
<1>1. IsWellFoundedOn(L, Nat)
  BY NatLessThanWellFounded
<1>2. \E x \in X : \A y \in X : <<y, x>> \notin L
  <2> HIDE DEF L
  <2> QED BY <1>1, WFMin
<1>3. ASSUME NEW x \in Nat, NEW y \in Nat, <<y, x>> \notin L PROVE x <= y
  BY <1>3 DEF OpToRel
<1> HIDE DEF L
<1> QED BY <1>2, <1>3

\* Only one order of the first n numbers goes up: ListActivation has no choice
\* when the times go up with the commits.
LEMMA UpwardsOnly ==
  ASSUME NEW n \in Nat, NEW p \in [1 .. n -> 1 .. n],
         \A i \in 2 .. n : p[i - 1] < p[i]
  PROVE  \A i \in 1 .. n : p[i] = i
<1>1. \A i \in 1 .. n : p[i] >= i
  <2> DEFINE X == {i \in 1 .. n : p[i] < i}
  <2>0. ASSUME NEW i \in 1 .. n, ~(p[i] >= i) PROVE i \in X
    <3>1. p[i] \in 1 .. n
      OBVIOUS
    <3> QED BY <2>0, <3>1
  <2> SUFFICES ASSUME X # {} PROVE FALSE
    BY <2>0
  <2>1. PICK x \in X : \A y \in X : x <= y
    <3>1. X \in SUBSET Nat
      OBVIOUS
    <3> HIDE DEF X
    <3> QED BY <3>1, Least
  <2>2. x \in 2 .. n /\ x - 1 \in 1 .. n /\ p[x - 1] \in 1 .. n /\ p[x] \in 1 .. n
    OBVIOUS
  <2>3. x - 1 \notin X
    BY <2>1, <2>2
  <2> QED BY <2>1, <2>2, <2>3
<1>2. \A i \in 1 .. n : p[i] <= i
  <2> DEFINE X == {d \in 0 .. n - 1 : p[n - d] > n - d}
  <2>1. ASSUME NEW i \in 1 .. n, ~(p[i] <= i) PROVE n - i \in X
    <3>1. n - (n - i) = i /\ n - i \in 0 .. n - 1 /\ p[i] \in 1 .. n
      OBVIOUS
    <3> QED BY <2>1, <3>1
  <2> SUFFICES ASSUME X # {} PROVE FALSE
    BY <2>1
  <2>2. PICK d \in X : \A y \in X : d <= y
    <3>1. X \in SUBSET Nat
      OBVIOUS
    <3> HIDE DEF X
    <3> QED BY <3>1, Least
  <2> DEFINE i == n - d
  <2>3. i \in 1 .. n /\ p[i] > i /\ p[i] \in 1 .. n
    OBVIOUS
  <2>4. i + 1 \in 2 .. n /\ d - 1 \in 0 .. n - 1 /\ n - (d - 1) = i + 1 /\ (i + 1) - 1 = i
    BY <2>3
  <2>5. p[i + 1] <= i + 1 /\ p[i + 1] \in 1 .. n
    <3>1. p[i + 1] \in 1 .. n
      <4> HIDE DEF i
      <4> QED BY <2>4
    <3>2. d - 1 \notin X
      <4>1. d \in 0 .. n - 1
        OBVIOUS
      <4>2. ~(d <= d - 1)
        BY <4>1
      <4> HIDE DEF X
      <4> QED BY <2>2, <4>2
    <3>3. ~(p[n - (d - 1)] > n - (d - 1))
      BY <3>2, <2>4
    <3>4. ~(p[i + 1] > i + 1)
      <4>1. n - (d - 1) = i + 1
        BY <2>4
      <4> HIDE DEF i
      <4> QED BY <3>3, <4>1
    <3> HIDE DEF i
    <3> QED BY <3>1, <3>4, <2>3
  <2>6. p[i] < p[i + 1]
    BY <2>4
  <2> HIDE DEF i
  <2> QED BY <2>3, <2>4, <2>5, <2>6
<1> QED BY <1>1, <1>2

\* Hand-offs 1 to n pass the job from hand to hand, and so they do in the order p.
PassedOn(n, from, to, p) ==
  /\ \A i, j \in 1 .. n : p[i] = p[j] => i = j
  /\ p[1] = 1
  /\ \A i \in 2 .. n : from[i] = to[i - 1]
  /\ \A i \in 2 .. n : from[p[i]] = to[p[i - 1]]

\* Two orders of the same hand-offs that begin alike and pass the job from hand
\* to hand end in the same hands: each operator is handed the job once more
\* than he passes it on if he ends up with it.
LEMMA TrailsEndAlike ==
  ASSUME NEW n \in Nat \ {0}, NEW from, NEW to,
         NEW p \in [1 .. n -> 1 .. n], PassedOn(n, from, to, p)
  PROVE  to[p[n]] = to[n]
<1> USE DEF PassedOn
<1> SUFFICES ASSUME to[p[n]] # to[n] PROVE FALSE
  OBVIOUS
<1> DEFINE In == {e \in 1 .. n : to[e] = to[n]}
           Out == {e \in 2 .. n : from[e] = to[n]}
           Rest == In \ {n}
<1>1. IsFiniteSet(1 .. n) /\ IsFiniteSet(2 .. n)
  BY FS_Interval
<1>2. IsFiniteSet(In) /\ IsFiniteSet(Out) /\ n \in In
  <2>1. In \subseteq 1 .. n /\ Out \subseteq 2 .. n /\ n \in In
    OBVIOUS
  <2> HIDE DEF In, Out
  <2> QED BY <1>1, <2>1, FS_Subset
<1>3. p \in Surjection(1 .. n, 1 .. n)
  <2>1. p \in Injection(1 .. n, 1 .. n)
    BY DEF Injection, IsInjective
  <2> QED BY <2>1, <1>1, FS_Injection
<1>4. Cardinality(In) <= Cardinality(Out)
  <2> DEFINE at(e) == CHOOSE i \in 1 .. n : p[i] = e
             g == [e \in In |-> p[at(e) + 1]]
  <2>1. ASSUME NEW e \in In
        PROVE  at(e) \in 1 .. n - 1 /\ p[at(e)] = e /\ at(e) + 1 \in 2 .. n /\ at(e) + 1 \in 1 .. n
    <3>1. \E i \in 1 .. n : p[i] = e
      BY <1>3 DEF Surjection
    <3>2. at(e) \in 1 .. n /\ p[at(e)] = e
      BY <3>1
    <3>3. at(e) # n
      BY <3>2
    <3> HIDE DEF at
    <3> QED BY <3>2, <3>3
  <2>2. ASSUME NEW e \in In PROVE g[e] \in Out
    <3> DEFINE i == at(e)
    <3>0. i \in 1 .. n - 1 /\ p[i] = e /\ i + 1 \in 2 .. n /\ i + 1 \in 1 .. n
      BY <2>1
    <3> HIDE DEF i
    <3>1. i \in 1 .. n - 1 /\ p[i] = e /\ i + 1 \in 2 .. n /\ i + 1 \in 1 .. n /\ (i + 1) - 1 = i
      BY <3>0
    <3>2. from[p[i + 1]] = to[e]
      BY <3>1
    <3>3. p[i + 1] # 1 /\ p[i + 1] \in 1 .. n
      BY <3>1
    <3>4. g[e] = p[i + 1]
      BY DEF i
    <3>5. p[i + 1] \in 2 .. n /\ to[e] = to[n]
      BY <3>3
    <3> HIDE DEF g
    <3> QED BY <3>2, <3>5, <3>4
  <2>3. ASSUME NEW d \in In, NEW e \in In, g[d] = g[e] PROVE d = e
    <3>1. at(d) \in 1 .. n - 1 /\ p[at(d)] = d /\ at(d) + 1 \in 1 .. n
      BY <2>1
    <3>2. at(e) \in 1 .. n - 1 /\ p[at(e)] = e /\ at(e) + 1 \in 1 .. n
      BY <2>1
    <3>3. p[at(d) + 1] = p[at(e) + 1]
      BY <2>3
    <3> HIDE DEF at, g
    <3>4. at(d) + 1 = at(e) + 1
      BY <3>1, <3>2, <3>3
    <3>5. at(d) = at(e)
      BY <3>1, <3>2, <3>4
    <3> QED BY <3>1, <3>2, <3>5
  <2>4. g \in Injection(In, Out)
    <3>1. g \in [In -> Out]
      <4> HIDE DEF Out
      <4> QED BY <2>2
    <3> HIDE DEF g
    <3> QED BY <3>1, <2>3 DEF Injection, IsInjective
  <2> HIDE DEF g, In, Out
  <2> QED BY <2>4, <1>2, FS_Injection
<1>5. Cardinality(Out) <= Cardinality(Rest)
  <2> DEFINE h == [e \in Out |-> e - 1]
  <2>1. h \in Injection(Out, Rest)
    BY DEF Injection, IsInjective
  <2>2. IsFiniteSet(Rest)
    <3> HIDE DEF In
    <3> QED BY <1>2, FS_RemoveElement
  <2> HIDE DEF h, Rest, Out
  <2> QED BY <2>1, <2>2, FS_Injection
<1>6. Cardinality(Rest) = Cardinality(In) - 1 /\ Cardinality(In) \in Nat /\ Cardinality(Out) \in Nat
  <2> HIDE DEF In, Out
  <2> QED BY <1>2, FS_RemoveElement, FS_CardinalityType
<1> HIDE DEF In, Out, Rest
<1> QED BY <1>4, <1>5, <1>6

(***************************************************************************)
(* Hand-offs                                                               *)
(***************************************************************************)
\* Initially there are no hand-offs and no requests.
LEMMA HandOffsInit == H!Init => H!HandOffsInv
<1> SUFFICES ASSUME H!Init PROVE H!HandOffsInv
  OBVIOUS
<1> USE DEF H!Init, H!Idle
<1>1. H!TypeOK
  BY DEF H!TypeOK
<1>2. H!Chained /\ H!Informed
  BY DEF H!Chained, H!Informed
<1> QED BY <1>1, <1>2 DEF H!HandOffsInv

\* Whatever becomes of one request, the others stay informed.
LEMMA StepEffect ==
  ASSUME H!TypeOK, NEW c \in Callers, NEW q, H!Step(c, q)
  PROVE  /\ now' = now
         /\ request'[c] = q
         /\ \A d \in Callers : d # c => request'[d] = request[d]
BY DEF H!TypeOK, H!Step

\* A request that is refused, or forgotten, leaves the job as it is.
LEMMA RefuseInv ==
  ASSUME H!HandOffsInv, NEW c \in Callers, H!Refuse(c)
  PROVE  H!HandOffsInv'
<1> USE DEF H!HandOffsInv
<1>1. H!Step(c, H!Idle) /\ UNCHANGED <<version, events>>
  BY DEF H!Refuse
<1>2. H!TypeOK'
  BY <1>1 DEF H!TypeOK, H!Step
<1>3. H!Chained'
  BY <1>1 DEF H!Chained, H!Step
<1>4. H!Informed'
  BY <1>1, StepEffect DEF H!Informed, H!Idle, H!Holder
<1> QED BY <1>2, <1>3, <1>4

\* What a caller is shown is what holds.
LEMMA LookInv ==
  ASSUME H!HandOffsInv, NEW c \in Callers, H!Look(c)
  PROVE  H!HandOffsInv'
<1> USE DEF H!HandOffsInv
<1> DEFINE q == [pc |-> "shown", version |-> version, from |-> H!Holder]
<1>1. H!Step(c, q) /\ UNCHANGED <<version, events>>
  BY DEF H!Look
<1>2. H!Holder \in Operators \cup {Nobody}
  <2>1. CASE events = <<>>
    BY <2>1 DEF H!Holder
  <2>2. CASE events # <<>>
    <3>1. Len(events) \in 1 .. Len(events)
      BY <2>2 DEF H!TypeOK
    <3>2. events[Len(events)] \in H!Event
      BY <3>1 DEF H!TypeOK
    <3> QED BY <2>2, <3>2 DEF H!Holder, H!Event
  <2> QED BY <2>1, <2>2
<1>3. H!TypeOK'
  BY <1>1, <1>2 DEF H!TypeOK, H!Step
<1>4. H!Chained'
  BY <1>1 DEF H!Chained, H!Step
<1>5. H!Informed'
  <2>1. H!Holder' = H!Holder
    BY <1>1 DEF H!Holder
  <2>2. /\ now' = now /\ request'[c] = q
        /\ \A d \in Callers : d # c => request'[d] = request[d]
    BY <1>1, StepEffect
  <2>3. version \in Nat
    BY DEF H!TypeOK
  <2> QED BY <1>1, <2>1, <2>2, <2>3 DEF H!Informed
<1> QED BY <1>3, <1>4, <1>5

\* The server's time is not before any that was committed.
LEMMA ReceiveInv ==
  ASSUME H!HandOffsInv, NEW c \in Callers, NEW to \in Operators, NEW own \in BOOLEAN,
         NEW at \in 0 .. MaxTime + MaxLead, H!Receive(c, to, own, at)
  PROVE  H!HandOffsInv'
<1> USE DEF H!HandOffsInv
<1> DEFINE e == [from |-> request[c].from, to |-> to, at |-> at, stamped |-> ~own]
           q == [pc |-> "sent", version |-> request[c].version, event |-> e]
<1>1. H!Step(c, q) /\ UNCHANGED <<version, events>> /\ request[c].pc = "shown"
  BY DEF H!Receive
<1>2. ~own => at = now
  BY DEF H!Receive
<1>3. /\ request[c].version \in Nat
      /\ request[c].from \in Operators \cup {Nobody}
  BY <1>1 DEF H!TypeOK, H!Idle
<1>4. e \in H!Event /\ e.stamped = (~own) /\ e.at = at
  <2>1. (~own) \in BOOLEAN
    OBVIOUS
  <2> QED BY <2>1, <1>3 DEF H!Event
<1>5. H!TypeOK'
  <2>1. q \in [pc : {"sent"}, version : Nat, event : H!Event]
    BY <1>3, <1>4
  <2> HIDE DEF q
  <2> QED BY <1>1, <2>1 DEF H!TypeOK, H!Step
<1>6. H!Chained'
  BY <1>1 DEF H!Chained, H!Step
<1>7. H!Informed'
  <2>1. H!Holder' = H!Holder
    BY <1>1 DEF H!Holder
  <2>2. /\ now' = now /\ request'[c] = q
        /\ \A d \in Callers : d # c => request'[d] = request[d]
    BY <1>1, StepEffect
  <2>3. /\ request[c].version <= version
        /\ request[c].version = version => request[c].from = H!Holder
    BY <1>1 DEF H!Informed
  <2>4. e.stamped => e.at <= now /\ \A i \in 1 .. Len(events) : events[i].stamped => events[i].at <= e.at
    <3>1. now <= now
      BY DEF H!TypeOK
    <3> QED BY <1>2, <1>4, <3>1 DEF H!Chained
  <2>5. e.from = request[c].from
    OBVIOUS
  <2> HIDE DEF e
  <2> QED BY <1>1, <2>1, <2>2, <2>3, <2>4, <2>5 DEF H!Informed
<1> QED BY <1>5, <1>6, <1>7

\* Only a caller that is informed hands the job off: the chain goes on where it
\* was, and everybody else's version is out of date.
LEMMA HandOffInv ==
  ASSUME H!HandOffsInv, NEW c \in Callers, H!HandOff(c)
  PROVE  H!HandOffsInv'
<1> USE DEF H!HandOffsInv
<1> DEFINE q == request[c]
           n == Len(events)
<1>1. /\ q.pc = "sent" /\ q.version = version
      /\ version' = version + 1 /\ events' = Append(events, q.event)
      /\ H!Step(c, H!Idle)
  BY DEF H!HandOff, H!VersionMatches
<1>2. q.event \in H!Event
  BY <1>1 DEF H!TypeOK, H!Idle
<1>3. /\ q.event.from = H!Holder
      /\ q.event.stamped =>
           q.event.at <= now /\ \A i \in 1 .. n : events[i].stamped => events[i].at <= q.event.at
  BY <1>1 DEF H!Informed
<1>4. H!TypeOK'
  BY <1>1, <1>2 DEF H!TypeOK, H!Step
<1>5. /\ n \in Nat /\ Len(events') = n + 1
      /\ \A i \in 1 .. n : events'[i] = events[i]
      /\ events'[n + 1] = q.event
      /\ events \in Seq(H!Event)
  BY <1>1, <1>2 DEF H!TypeOK
<1>6. q.event.at \in Nat /\ version \in Nat /\ now' = now
  <2>1. q.event.at \in 0 .. MaxTime + MaxLead
    BY <1>2 DEF H!Event
  <2> QED BY <2>1, <1>1, HandOffsAssumption DEF H!TypeOK, H!Step
<1>7. H!Chained'
  <2> SUFFICES ASSUME NEW i \in 1 .. n + 1
               PROVE  /\ events'[i].from = (IF i = 1 THEN Nobody ELSE events'[i - 1].to)
                      /\ events'[i].stamped => events'[i].at <= now
                      /\ \A j \in 1 .. i : events'[j].stamped /\ events'[i].stamped =>
                            events'[j].at <= events'[i].at
    BY <1>5, <1>6 DEF H!Chained
  <2>1. CASE i \in 1 .. n
    <3>1. events'[i] = events[i] /\ \A j \in 1 .. i : events'[j] = events[j]
      BY <2>1, <1>5
    <3>2. i # 1 => events'[i - 1] = events[i - 1]
      BY <2>1, <1>5
    <3> QED BY <2>1, <3>1, <3>2 DEF H!Chained
  <2>2. CASE i = n + 1
    <3>1. events'[i] = q.event
      BY <2>2, <1>5
    <3>2. q.event.from = (IF i = 1 THEN Nobody ELSE events'[i - 1].to)
      <4>1. CASE n = 0
        BY <4>1, <2>2, <1>3, <1>5 DEF H!Holder
      <4>2. CASE n # 0
        <5>1. events # <<>> /\ i # 1 /\ i - 1 = n /\ n \in 1 .. n
          BY <4>2, <2>2, <1>5
        <5>2. events'[n] = events[n]
          BY <5>1, <1>5
        <5> QED BY <5>1, <5>2, <1>3 DEF H!Holder
      <4> QED BY <4>1, <4>2
    <3>3. \A j \in 1 .. i : events'[j].stamped /\ q.event.stamped => events'[j].at <= q.event.at
      <4> SUFFICES ASSUME NEW j \in 1 .. i, events'[j].stamped, q.event.stamped
                   PROVE  events'[j].at <= q.event.at
        OBVIOUS
      <4>1. CASE j = n + 1
        BY <4>1, <1>5, <1>6
      <4>2. CASE j \in 1 .. n
        BY <4>2, <1>5, <1>3
      <4> QED BY <4>1, <4>2, <2>2, <1>5
    <3> QED BY <3>1, <3>2, <3>3, <1>3
  <2> QED BY <2>1, <2>2, <1>5
<1>8. H!Informed'
  <2>1. /\ request'[c] = H!Idle
        /\ \A d \in Callers : d # c => request'[d] = request[d]
    BY <1>1, StepEffect
  <2>2. \A d \in Callers : request[d].pc \in {"shown", "sent"} => request[d].version \in Nat
    BY DEF H!TypeOK, H!Idle
  <2>3. \A d \in Callers : request'[d].pc \in {"shown", "sent"} =>
          request'[d].version <= version' /\ request'[d].version # version'
    <3> SUFFICES ASSUME NEW d \in Callers, request'[d].pc \in {"shown", "sent"}
                 PROVE  request'[d].version <= version' /\ request'[d].version # version'
      OBVIOUS
    <3>1. d # c /\ request'[d] = request[d]
      BY <2>1 DEF H!Idle
    <3>2. request[d].version \in Nat /\ request[d].version <= version
      BY <3>1, <2>2 DEF H!Informed
    <3> QED BY <3>1, <3>2, <1>1, <1>6
  <2> QED BY <2>3 DEF H!Informed
<1> QED BY <1>4, <1>7, <1>8

\* Every step of the hand-offs keeps the invariant.
LEMMA HandOffsStep == H!HandOffsInv /\ [H!Next]_handOffVars => H!HandOffsInv'
<1> SUFFICES ASSUME H!HandOffsInv, [H!Next]_handOffVars PROVE H!HandOffsInv'
  OBVIOUS
<1>1. CASE H!Tick
  <2>1. /\ now \in Nat /\ now' = now + 1 /\ UNCHANGED <<version, events, request>>
        /\ H!TypeOK
    BY <1>1 DEF H!Tick, H!HandOffsInv, H!TypeOK
  <2>2. \A i \in 1 .. Len(events) : events[i] \in H!Event /\ events[i].at \in 0 .. MaxTime + MaxLead
    <3>1. \A i \in 1 .. Len(events) : events[i] \in H!Event
      BY <2>1 DEF H!TypeOK
    <3>2. \A x \in H!Event : x.at \in 0 .. MaxTime + MaxLead
      BY DEF H!Event
    <3> QED BY <3>1, <3>2
  <2>3. \A x \in 0 .. MaxTime + MaxLead : x <= now => x <= now + 1
    BY <2>1, HandOffsAssumption
  <2>4. H!TypeOK'
    BY <2>1 DEF H!TypeOK
  <2>5. H!Chained'
    BY <2>1, <2>2, <2>3 DEF H!Chained, H!HandOffsInv
  <2>6. \A d \in Callers : request[d].pc = "sent" => request[d].event.at \in 0 .. MaxTime + MaxLead
    BY <2>1 DEF H!TypeOK, H!Idle, H!Event
  <2>7. H!Informed'
    BY <2>1, <2>3, <2>6 DEF H!Informed, H!HandOffsInv, H!Holder
  <2> QED BY <2>4, <2>5, <2>7 DEF H!HandOffsInv
<1>2. ASSUME NEW c \in Callers, H!Look(c) PROVE H!HandOffsInv'
  BY <1>2, LookInv
<1>3. ASSUME NEW c \in Callers, NEW to \in Operators, NEW own \in BOOLEAN,
             NEW at \in 0 .. MaxTime + MaxLead, H!Receive(c, to, own, at)
      PROVE  H!HandOffsInv'
  BY <1>3, ReceiveInv
<1>4. ASSUME NEW c \in Callers, H!HandOff(c) PROVE H!HandOffsInv'
  BY <1>4, HandOffInv
<1>5. ASSUME NEW c \in Callers, H!Refuse(c) PROVE H!HandOffsInv'
  BY <1>5, RefuseInv
<1>6. CASE UNCHANGED handOffVars
  BY <1>6 DEF handOffVars, H!HandOffsInv, H!TypeOK, H!Chained, H!Informed, H!Holder
<1> QED BY <1>1, <1>2, <1>3, <1>4, <1>5, <1>6 DEF H!Next

\* With server times that are all different, a list in their order is the chain
\* as it was committed, which VerifyActivation accepts.
LEMMA ListsInOrder == H!HandOffsInv => H!ChainVerified
<1> DEFINE n == Len(events)
<1> SUFFICES ASSUME H!HandOffsInv,
                    \A i \in DOMAIN events : events[i].stamped,
                    \A i, j \in DOMAIN events : events[i].at = events[j].at => i = j,
                    NEW p \in H!ListActivation
             PROVE  H!ValidateActivationSequence(p)
  BY DEF H!ChainVerified
<1>1. n \in Nat /\ DOMAIN events = 1 .. n /\ \A i \in 1 .. n : events[i] \in H!Event
  BY DEF H!HandOffsInv, H!TypeOK
<1>2. \A i \in 1 .. n : events[i].at \in Nat
  <2>1. \A x \in H!Event : x.at \in 0 .. MaxTime + MaxLead
    BY DEF H!Event
  <2> QED BY <1>1, <2>1, HandOffsAssumption
<1>3. /\ p \in [1 .. n -> 1 .. n]
      /\ \A i, j \in 1 .. n : p[i] = p[j] => i = j
      /\ \A i \in 2 .. n : events[p[i - 1]].at <= events[p[i]].at
  BY DEF H!ListActivation, H!Chronological
<1>4. \A i \in 1 .. n : \A j \in 1 .. i : events[j].at <= events[i].at
  BY <1>1 DEF H!HandOffsInv, H!Chained
<1> HIDE DEF n
<1>5. \A i \in 2 .. n : p[i - 1] < p[i]
  <2> SUFFICES ASSUME NEW i \in 2 .. n PROVE p[i - 1] < p[i]
    OBVIOUS
  <2>1. i \in 1 .. n /\ i - 1 \in 1 .. n /\ i - 1 # i
    BY <1>1
  <2>2. PICK a \in 1 .. n, b \in 1 .. n : a = p[i - 1] /\ b = p[i]
    BY <2>1, <1>3
  <2>3. a # b /\ events[a].at <= events[b].at
    BY <2>1, <2>2, <1>3
  <2>4. events[a].at # events[b].at
    BY <2>3, <1>1
  <2>5. ~(events[b].at <= events[a].at)
    BY <2>3, <2>4, <1>2
  <2>6. ~(b <= a)
    <3> SUFFICES ASSUME b <= a PROVE FALSE
      OBVIOUS
    <3>1. b \in 1 .. a
      OBVIOUS
    <3> QED BY <3>1, <2>5, <1>4
  <2> QED BY <2>2, <2>6
<1>6. \A i \in 1 .. n : p[i] = i
  BY <1>1, <1>3, <1>5, UpwardsOnly
<1>7. ASSUME NEW i \in 2 .. n
      PROVE  /\ events[p[i - 1]].at <= events[p[i]].at
             /\ events[p[i]].from # Nobody /\ events[p[i]].from = events[p[i - 1]].to
  <2>1. i \in 1 .. n /\ i - 1 \in 1 .. n /\ i # 1
    BY <1>1
  <2>2. p[i] = i /\ p[i - 1] = i - 1
    BY <2>1, <1>6
  <2>3. events[i].from = events[i - 1].to
    BY <2>1 DEF H!HandOffsInv, H!Chained, n
  <2>4. events[i - 1].to \in Operators
    BY <2>1, <1>1 DEF H!Event
  <2> QED BY <2>2, <2>3, <2>4, <1>3, HandOffsAssumption
<1> QED BY <1>7 DEF H!ValidateActivationSequence, n

\* Whatever the times: an accepted list begins with the hand-off from nobody,
\* so that it ends where the chain does.
LEMMA ListsEndWithHolder == H!HandOffsInv => H!VerifiedHolder
<1> DEFINE n == Len(events)
<1> SUFFICES ASSUME H!HandOffsInv, NEW p \in H!ListActivation, events # <<>>,
                    H!ValidateActivationSequence(p)
             PROVE  events[p[n]].to = H!Holder
  BY DEF H!VerifiedHolder
<1>1. n \in Nat \ {0} /\ \A i \in 1 .. n : events[i] \in H!Event
  BY DEF H!HandOffsInv, H!TypeOK
<1>2. /\ p \in [1 .. n -> 1 .. n]
      /\ \A i, j \in 1 .. n : p[i] = p[j] => i = j
  BY DEF H!ListActivation
<1>3. \A i \in 2 .. n : events[p[i]].from # Nobody /\ events[p[i]].from = events[p[i - 1]].to
  BY DEF H!ValidateActivationSequence
<1>4. \A i \in 1 .. n : events[i].from = (IF i = 1 THEN Nobody ELSE events[i - 1].to)
  BY DEF H!HandOffsInv, H!Chained
<1>5. H!Holder = events[n].to
  BY DEF H!Holder
<1> HIDE DEF n
<1>6. p[1] = 1
  <2>1. p \in Surjection(1 .. n, 1 .. n)
    <3>1. p \in Injection(1 .. n, 1 .. n)
      BY <1>2 DEF Injection, IsInjective
    <3>2. IsFiniteSet(1 .. n)
      BY <1>1, FS_Interval
    <3> QED BY <3>1, <3>2, FS_Injection
  <2>2. PICK i \in 1 .. n : p[i] = 1
    BY <2>1, <1>1 DEF Surjection
  <2>3. events[1].from = Nobody
    BY <1>1, <1>4
  <2>4. i \notin 2 .. n
    BY <2>2, <2>3, <1>3
  <2> QED BY <2>2, <2>4, <1>1
<1> DEFINE from == [i \in 1 .. n |-> events[i].from]
           to == [i \in 1 .. n |-> events[i].to]
<1>7. \A i \in 2 .. n : from[i] = to[i - 1]
  <2> SUFFICES ASSUME NEW i \in 2 .. n PROVE from[i] = to[i - 1]
    OBVIOUS
  <2>1. i \in 1 .. n /\ i - 1 \in 1 .. n /\ i # 1
    BY <1>1
  <2> QED BY <2>1, <1>4
<1>8. \A i \in 2 .. n : from[p[i]] = to[p[i - 1]]
  <2> SUFFICES ASSUME NEW i \in 2 .. n PROVE from[p[i]] = to[p[i - 1]]
    OBVIOUS
  <2>1. i \in 1 .. n /\ i - 1 \in 1 .. n
    BY <1>1
  <2>2. p[i] \in 1 .. n /\ p[i - 1] \in 1 .. n
    BY <2>1, <1>2
  <2> QED BY <2>2, <1>3
<1>9. n \in 1 .. n /\ p[n] \in 1 .. n
  BY <1>1, <1>2
<1>10. to[p[n]] = to[n]
  <2> HIDE DEF from, to
  <2>1. PassedOn(n, from, to, p)
    BY <1>2, <1>6, <1>7, <1>8 DEF PassedOn
  <2> QED BY <1>1, <1>2, <2>1, TrailsEndAlike
<1> QED BY <1>5, <1>9, <1>10

\* For any callers, operators and times, what VerifyActivation says of the
\* hand-offs of a job can be relied on: it accepts every chain with different
\* server times, and a chain that it accepts ends with whoever holds the job.
THEOREM ChainsVerified == H!Spec => []VerifiesChain
<1>1. H!Init => H!HandOffsInv
  BY HandOffsInit
<1>2. H!HandOffsInv /\ [H!Next]_(H!vars) => H!HandOffsInv'
  BY HandOffsStep DEF H!vars, handOffVars
<1>3. H!HandOffsInv => VerifiesChain
  BY ListsInOrder, ListsEndWithHolder DEF VerifiesChain, H!VerifiesChain
<1> QED BY <1>1, <1>2, <1>3, PTL DEF H!Spec
=============================================================================
