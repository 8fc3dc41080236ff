--------------------------- MODULE MC_MonitorsCall ---------------------------
(***************************************************************************)
(* Model-checking instance of MonitorsCall: every operation, the status    *)
(* codes that take each routing branch (2xx, the 300 boundary, listed and  *)
(* unlisted error codes, the 409 conflict code) and every body kind.       *)
(***************************************************************************)
EXTENDS MonitorsCall

MCOperations == OpNames

\* 200: success; 300: first non-success code; 400, 404: listed for some
\* operations only (404); 401: listed for Delete/Update only; 409: conflict
\* code of CheckCanDeleteMonitor; 500: never listed.
MCStatuses == {200, 300, 400, 401, 404, 409, 500}

MCBodies == BodyKinds
=============================================================================
