---------------------------- MODULE MCSessionCfg ----------------------------
(* Instances of SessionCfg for TLC: discs, plugins and drive settings. *)
EXTENDS SessionCfg

All == {"tao", "sao", "dummy_tao", "dummy_sao", "burnfree"}

Disc(kind, status, modes, free) ==
  [kind |-> kind, status |-> status, modes |-> modes, free |-> free, capacity |-> 3]

(***************************************************************************)
(* A DVD-RW blanked quickly and a closed disc cannot be written track at   *)
(* once; for DVD+RW a drive reports no mode.                               *)
(***************************************************************************)
MCDiscs ==
  { Disc("CDRW", "appendable", All, 2),
    Disc("DVDR", "appendable", {"tao", "sao", "burnfree"}, 2),
    Disc("DVDRW", "blank", {"sao", "dummy_sao", "burnfree"}, 3),
    Disc("DVDRW", "appendable", {"tao", "sao", "dummy_sao", "burnfree"}, 2),
    Disc("DVDRW_PLUS", "closed", {}, 2) }

Setup(on, broken) == [on |-> on, broken |-> broken]

MCSetups ==
  { Setup(Plugins, {}),
    Setup(Plugins \ {"libburn", "growisofs", "dvd_rw_format"}, {}),
    Setup(Plugins \ {"libburn"}, {"growisofs"}) }

MCOneSetup == {Setup(Plugins, {})}

MCStored == {Unset, {"DUMMY", "MULTI"}}
=============================================================================
