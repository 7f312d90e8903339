--------------------------- MODULE MCSafetyCheck ---------------------------
(***************************************************************************)
(* SafetyCheck for two checks.  Each may hold a token besides the cached   *)
(* one; a fourth can always be given.                                      *)
(***************************************************************************)
EXTENDS SafetyCheck
============================================================================
