--------------------------- MODULE MCRejillaBurn ---------------------------
(* RejillaBurn for TLC: every kind of session, whatever is in the drives.   *)
EXTENDS RejillaBurn
=============================================================================
