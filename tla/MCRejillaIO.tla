---------------------------- MODULE MCRejillaIO ----------------------------
(* Instances of RejillaIO for TLC: two objects that share their methods, as *)
(* the tracks of a session do, or that each have their own.                 *)
EXTENDS RejillaIO

CONSTANTS j1, j2, b1, b2, shared, own

MCBaseOf    == j1 :> b1 @@ j2 :> b2
MCMethodsOf == b1 :> shared @@ b2 :> shared

MCOwnMethodsOf == b1 :> shared @@ b2 :> own
=============================================================================
