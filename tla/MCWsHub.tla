------------------------------ MODULE MCWsHub ------------------------------
(* Small instances of the connection hub for TLC.                          *)
EXTENDS WsHub, TLC

\* "short" fits into task.uuid; "long" is cut to "short" by strncpy.
MCStored == [u \in Uuids |-> "short"]
=============================================================================
