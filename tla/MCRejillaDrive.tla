--------------------------- MODULE MCRejillaDrive ---------------------------
(* RejillaDrive for TLC: one disc that comes and goes, two threads.          *)
EXTENDS RejillaDrive
=============================================================================
