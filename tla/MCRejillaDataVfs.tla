-------------------------- MODULE MCRejillaDataVfs --------------------------
(* Instances of RejillaDataVfs for TLC: what there is on disk. *)
EXTENDS RejillaDataVfs, TLC

d   == << "d" >>
dh  == << "d", "h" >>
dn  == << "d", "n" >>
ds  == << "d", "s" >>
dsb == << "d", "s", "b" >>
lb  == << "l", "b" >>

OnDisk(uris) ==
  [u \in uris |->
     [dir     |-> u \in {d, ds},
      sectors |-> 1,
      hidden  |-> u = dh,
      big     |-> u \in {dsb, lb},
      status  |-> IF u = dn THEN "unreadable" ELSE "ok",
      real    |-> IF u = lb THEN dsb ELSE u]]

(***************************************************************************)
(* A folder with a hidden file, a file that cannot be read and a folder    *)
(* with a big file, to which a path through a symbolic link leads.         *)
(***************************************************************************)
MCDisk == OnDisk({d, dh, dn, ds, dsb, lb})

(* Two long names with the same beginning. *)
MCLong == {"b", "s"}
MCShort == [x \in {"d", "h", "n", "s", "b", "l", "y"} |-> IF x = "s" THEN "b" ELSE x]
=============================================================================
