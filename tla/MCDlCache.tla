----------------------------- MODULE MCDlCache -----------------------------
(* Small instances of the handle cache for TLC.                            *)
EXTENDS DlCacheRefinement
=============================================================================
