----------------------------- MODULE MCBroadcast -----------------------------
\* One subscriber without a buffer and the others with room for one event.
EXTENDS Broadcast

CONSTANTS s1

MCBufferOf == [s \in Subscribers |-> IF s = s1 THEN 0 ELSE 1]
=============================================================================
