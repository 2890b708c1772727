------------------------- MODULE DlCacheRefinement -------------------------
(***************************************************************************)
(* The handle cache implements the loading service.  A library is known    *)
(* from the moment the count covers its entry; a call is settled when its  *)
(* result is, before the mutex is given back.                              *)
(***************************************************************************)
EXTENDS DlCache

Known == {handle[i] : i \in 1 .. count} \ Long

\* Where dl_get still owes a thread its answer.
Asking == [t \in Threads |-> IF pc[t] \in {"idle", "unlock"} THEN None ELSE want[t]]

Service == INSTANCE DlService WITH
  Askers    <- Threads,
  Libraries <- Paths,
  Unfit     <- Long,
  Room      <- CacheMax,
  Nothing   <- None,
  loadable  <- Loadable,
  known     <- Known,
  used      <- count,
  asking    <- Asking,
  got       <- result

\* The lock-free scan, the mutex and the three-step publication behave as one
\* indivisible look-up-or-load: threads that miss together load once, and nobody
\* is denied a library that some other thread has already been given.
ImplementsDlService == Service!DSpec
=============================================================================
