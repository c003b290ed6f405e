------------------------ MODULE MCTelemetryStream ------------------------
(***************************************************************************)
(* Small instances of TelemetryStream: the payloads of the digests are     *)
(* chosen so that different segmentations give the same bytes.             *)
(***************************************************************************)
EXTENDS TelemetryStream

CONSTANTS d1

MCPayloadOf == [d \in Digests |-> IF d = d1 THEN <<1>> ELSE <<1, 2>>]
=============================================================================
