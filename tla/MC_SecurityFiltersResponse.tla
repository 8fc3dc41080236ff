------------------------ MODULE MC_SecurityFiltersResponse ------------------------
(***************************************************************************)
(* Model-checking instance of SecurityFiltersResponse: two distinct data   *)
(* arrays, so that a stale value can be told from a fresh one, and one     *)
(* meta value.                                                             *)
(***************************************************************************)
EXTENDS SecurityFiltersResponse

CONSTANTS d1, d2, m1

MCDataVals == {d1, d2}
MCMetaVals == {m1}
=============================================================================
