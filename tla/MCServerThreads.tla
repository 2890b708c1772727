-------------------------- MODULE MCServerThreads --------------------------
(* Small instances of the server with its worker threads for TLC.          *)
EXTENDS ServerThreads, TLC

\* Two connections with a call each, in different slots.
MCConnOf == <<1, 2>>
MCStored == [u \in Uuids |-> u]
=============================================================================
