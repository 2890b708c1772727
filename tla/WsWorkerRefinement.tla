------------------------ MODULE WsWorkerRefinement ------------------------
(***************************************************************************)
(* The worker pool implements the call service.  A call waits for its      *)
(* answer from submit until push_done; the group of a call is the slot of  *)
(* its connection, since that is what the limit of submit counts.          *)
(***************************************************************************)
EXTENDS WsWorker

Service == INSTANCE CallService WITH
  LastCall   <- MaxJobs,
  Group      <- [j \in Jobs |-> SlotOf(j)],
  Limit      <- MaxPerConn,
  MayLose    <- AllocFails,
  asked      <- submitted,
  turnedDown <- refused,
  waiting    <- Accepted \ (Answered \cup dropped),
  ready      <- doneList,
  fetched    <- delivered,
  lost       <- dropped

\* Every step of the pool is a step of the service or changes nothing the
\* service sees: pops, lock waits, executions, late releases and restarts of
\* the pool are invisible, and no race makes a second or an unasked answer.
ImplementsService == Service!SSpec

\* The pool's scheduling also gives the service's fairness: accepted calls are
\* finished, fetched or thrown away by a shutdown.
ImplementsFairService == Service!SFairSpec
=============================================================================
