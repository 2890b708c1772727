-------------------------------- MODULE MCSse --------------------------------
(* Small instances of the SSE streams for TLC.                             *)
EXTENDS Sse, TLC
=============================================================================
