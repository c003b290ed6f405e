---------------------------- MODULE CaptureSpec ----------------------------
(***************************************************************************)
(* What a telemetry stream promises, without locks, versions or waiting:   *)
(* each segment of a capture is written at most once, a capture is sealed   *)
(* at most once and only when all its segments are there, and its record is *)
(* their payloads in the order of their indexes.                           *)
(***************************************************************************)
EXTENDS Naturals, Sequences

CONSTANTS Keys, Payloads,
  MaxSegments   \* bound on the size of a capture

VARIABLES
  size,      \* the number of segments a capture expects, 0 before it is opened
  content,   \* the payloads of the segments that are there
  record     \* the sealed payload, << >> until then

vars == <<size, content, record>>

\* telemetry.assemble: the payloads that are there, by ascending index
Assemble(payloads) ==
  LET upTo[i \in 0 .. MaxSegments] ==
        IF i = 0 THEN << >>
        ELSE upTo[i - 1] \o (IF i - 1 \in DOMAIN payloads THEN payloads[i - 1] ELSE << >>)
  IN upTo[MaxSegments]

Init ==
  /\ size = [k \in Keys |-> 0]
  /\ content = [k \in Keys |-> [i \in {} |-> << >>]]
  /\ record = [k \in Keys |-> << >>]

Announce(k, n) ==
  /\ size[k] = 0
  /\ size' = [size EXCEPT ![k] = n]
  /\ UNCHANGED <<content, record>>

Write(k, i, p) ==
  /\ i < size[k] /\ i \notin DOMAIN content[k] /\ record[k] = << >>
  /\ content' = [content EXCEPT ![k] = [x \in DOMAIN @ \cup {i} |->
                                          IF x = i THEN p ELSE @[x]]]
  /\ UNCHANGED <<size, record>>

Seal(k) ==
  /\ size[k] > 0 /\ record[k] = << >>
  /\ DOMAIN content[k] = 0 .. size[k] - 1
  /\ record' = [record EXCEPT ![k] = Assemble(content[k])]
  /\ UNCHANGED <<size, content>>

Next ==
  \E k \in Keys :
    \/ \E n \in 1 .. MaxSegments : Announce(k, n)
    \/ \E i \in 0 .. MaxSegments - 1, p \in Payloads : Write(k, i, p)
    \/ Seal(k)

Spec == Init /\ [][Next]_vars
=============================================================================
