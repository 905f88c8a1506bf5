------------------------------- MODULE BurnCaps -------------------------------
(***************************************************************************)
(* What can be burnt on what, and with which flags: rejilla-plugin.h's     *)
(* pairs of flags, the graph RejillaBurnCaps makes of the plugins, and the *)
(* three searches in it: whether a session can be burnt and with which     *)
(* flags (rejilla-caps-session.c), and the tasks it takes                  *)
(* (rejilla-caps-burn.c).  There are no variables here: each function of   *)
(* the code is an operator of the disc, the input, the plugins and the     *)
(* flags of the session.                                                   *)
(*                                                                         *)
(* The graph has a disc at its end, an image or raw audio before it and    *)
(* the input at its start, so that the recursion of the searches is two    *)
(* steps: a recorder, and a plugin that makes what the recorder takes.     *)
(***************************************************************************)
EXTENDS Integers, FiniteSets, Sequences

CD  == {"CDR", "CDRW"}
DVD == {"DVDR", "DVDRW", "DVDRW_PLUS"}

(* A medium is a kind and a status.  "closed" DVD+RW are those that hold   *)
(* data, they can be written over at any time.                             *)
Media ==
  [kind : CD \cup {"DVDR", "DVDRW"}, status : {"blank", "appendable", "closed"}]
    \cup [kind : {"DVDRW_PLUS"}, status : {"unformatted", "blank", "closed"}]

Medium(kind, status) == [kind |-> kind, status |-> status]

(* The flags in the order of their bits. *)
FlagOrder == << "NOGRACE", "MERGE", "MULTI", "APPEND", "BURNPROOF", "NO_TMP_FILES",
                "DUMMY", "BLANK", "FAST_BLANK", "DAO" >>
Flag == {FlagOrder[k] : k \in DOMAIN FlagOrder}

BurnMask  == {"DUMMY", "MULTI", "DAO", "BURNPROOF", "NOGRACE", "APPEND", "MERGE"}
ImageMask == {"APPEND", "MERGE"}
BlankMask == {"NOGRACE", "FAST_BLANK"}

(***************************************************************************)
(* The plugins.  transcode makes raw audio of songs, libisofs an image of  *)
(* a selection of files.                                                   *)
(***************************************************************************)
Priority == [libburn |-> 15, growisofs |-> 7, dvd_rw_format |-> 4, libisofs |-> 3,
             transcode |-> 1, wodim |-> 0]
Plugins == DOMAIN Priority
Inputs  == {"data", "image", "songs"}

(* What a recorder takes for a medium. *)
Takes == [p \in Plugins |-> [m \in Media |->
  LET first   == m.status = "blank"
      further == m.status \in {"blank", "appendable"}
      plus    == m.kind = "DVDRW_PLUS"
  IN  CASE p = "libburn" /\ m.kind \in CD   -> IF further THEN {"image", "raw"} ELSE {}
        [] p = "libburn" /\ m.kind \in DVD  -> IF further \/ plus THEN {"image"} ELSE {}
        [] p = "wodim" /\ m.kind \in CD     -> IF further THEN {"image", "raw"} ELSE {}
        [] p = "wodim" /\ m.kind \in DVD    -> IF further THEN {"image"} ELSE {}
        [] p = "growisofs" /\ m.kind \in DVD ->
             (IF first \/ plus THEN {"image"} ELSE {})
               \cup (IF further \/ plus THEN {"data"} ELSE {})
        [] OTHER -> {}]]

(* What a plugin makes "what" of. *)
MadeOf(p, what) ==
  CASE p = "libisofs" /\ what = "image" -> {"data"}
    [] p = "transcode" /\ what = "raw"  -> {"songs"}
    [] OTHER                            -> {}

Pair(supported, compulsory) == [supported |-> supported, compulsory |-> compulsory]

First   == {"DAO", "MULTI", "BURNPROOF", "DUMMY", "NOGRACE"}
Further == {"APPEND", "MERGE", "MULTI", "BURNPROOF", "DUMMY", "NOGRACE"}

(* REJILLA_PLUGIN_ADD_STANDARD_..._FLAGS *)
StandardFlags(m) ==
  CASE m.kind \in CD /\ m.status = "blank" -> {Pair(First, {})}
    [] m.kind \in {"DVDR", "DVDRW"} /\ m.status = "blank" ->
         {Pair(First \ {"MULTI"}, {}), Pair(First \ {"DAO"}, {})}
    [] m.kind \in {"CDR", "DVDR"} /\ m.status = "appendable" -> {Pair(Further, {"APPEND"})}
    [] m.kind \in {"CDRW", "DVDRW"} /\ m.status = "appendable" -> {Pair(Further, {"MERGE"})}
    [] m.kind = "DVDRW_PLUS" ->
         {Pair({"MULTI", "NOGRACE"} \cup (IF m.status = "closed" THEN {"MERGE"} ELSE {}), {"MULTI"})}
    [] OTHER -> {}

Without(pairs, flags) == {Pair(q.supported \ flags, q.compulsory) : q \in pairs}

LibburnFlags(m) == Without(StandardFlags(m), IF m.kind \in CD THEN {"DUMMY"} ELSE {})

GrowisofsFlags(m) ==
  IF m.kind \in CD THEN {} ELSE Without(StandardFlags(m), IF m.kind = "DVDR" THEN {"DAO"} ELSE {})

WodimFlags(m) ==
  CASE m.kind \in CD -> StandardFlags(m)
    [] m.kind \in {"DVDR", "DVDRW"} /\ m.status = "blank" -> {Pair(First \ {"MULTI"}, {})}
    [] m.kind = "DVDRW_PLUS" /\ m.status # "unformatted" -> {Pair({"NOGRACE"}, {})}
    [] OTHER -> {}

(* The discs whose session libisofs can follow. *)
LibisofsFlags(m) ==
  IF m.status = "appendable" \/ m = Medium("DVDRW_PLUS", "closed")
  THEN {Pair({"APPEND", "MERGE"}, {})} ELSE {}

PluginFlags == [p \in Plugins |-> [m \in Media |->
  CASE p = "libburn"   -> LibburnFlags(m)
    [] p = "growisofs" -> GrowisofsFlags(m)
    [] p = "wodim"     -> WodimFlags(m)
    [] p = "libisofs"  -> LibisofsFlags(m)
    [] OTHER           -> {}]]

(* What a plugin can blank or format, and its flags for that. *)
BlankFlags == [p \in Plugins |-> [m \in Media |->
  LET any == {"NOGRACE", "FAST_BLANK"} IN
  CASE p = "libburn" /\ m.kind \in {"CDRW", "DVDRW", "DVDRW_PLUS"} -> {Pair(any, {})}
    [] p = "growisofs" /\ m.kind = "DVDRW_PLUS"     -> {Pair(any, {"FAST_BLANK"})}
    [] p = "dvd_rw_format" /\ m.kind = "DVDRW_PLUS" -> {Pair({"NOGRACE"}, {})}
    [] p = "dvd_rw_format" /\ m.kind = "DVDRW"      -> {Pair(any, {})}
    [] p = "wodim" /\ m.kind \in {"CDRW", "DVDRW_PLUS"} -> {Pair(any, {})}
    [] OTHER -> {}]]

(* rejilla_plugin_get_active of all plugins. *)
Active(setup, ignore_errors) ==
  {p \in setup.on : ignore_errors \/ p \notin setup.broken}

(***************************************************************************)
(* rejilla_plugin_get_all_flags: the pairs that allow the flags, and what  *)
(* they say together.  Without a pair every flag is compulsory.            *)
(***************************************************************************)
Fitting(pairs, mask, flags) == {q \in pairs : flags \cap mask \subseteq q.supported}

Supported(pairs, mask) == mask \cap UNION {q.supported : q \in pairs}

Compulsory(pairs, mask) == {f \in Flag : \A q \in pairs : f \in mask \cap q.compulsory}

(* rejilla_plugin_check_record_flags, rejilla_plugin_check_blank_flags *)
Accepts(pairs, mask, flags) ==
  \E q \in Fitting(pairs, mask, flags) : q.compulsory \cap mask \subseteq flags

(* rejilla_plugin_check_image_flags *)
AcceptsImage(p, m, flags) ==
  flags \cap ImageMask # {} => Accepts(PluginFlags[p][m], ImageMask, flags)

(* rejilla_plugin_check_media_restrictions *)
Unrestricted(p, m) == p = "transcode" \/ PluginFlags[p][m] # {}

(* A link of the graph is the plugins that go that way. *)
Recorders(m, what, plugins) == {p \in plugins : what \in Takes[p][m]}
Makers(what, input, plugins) == {p \in plugins : input \in MadeOf(p, what)}

Sources == {"image", "raw", "data"}

Blanked(m) == Medium(m.kind, "blank")

(***************************************************************************)
(* rejilla_caps_get_flags: the ways in which the recorder and what comes   *)
(* before it allow the flags.  Several plugins of a link are taken         *)
(* together: one may allow some of the flags and one the others.           *)
(***************************************************************************)
RecordPairs(ps, m, flags) == UNION {Fitting(PluginFlags[p][m], BurnMask, flags) : p \in ps}

DataFlags(ps, m, flags) ==
  Supported(UNION {Fitting(PluginFlags[p][m], ImageMask, flags) : p \in ps}, ImageMask)

LinkAllows(ps, from, m, flags) ==
  /\ ps # {}
  /\ IF from = "data" THEN flags \cap ImageMask \subseteq DataFlags(ps, m, flags)
                      ELSE \E p \in ps : Unrestricted(p, m)

RecorderAllows(ps, from, m, flags) ==
  /\ flags \cap BurnMask \subseteq Supported(RecordPairs(ps, m, flags), BurnMask)
  /\ LinkAllows(ps, from, m, flags)

Ways(m, input, plugins, flags) ==
  {w \in Sources :
     /\ RecorderAllows(Recorders(m, w, plugins), w, m, flags)
     /\ w # input => LinkAllows(Makers(w, input, plugins), input, m, flags)}

Nothing == [ok |-> FALSE, supported |-> {}, compulsory |-> {}]

(* rejilla_caps_get_flags_for_disc.  A recorder that takes the input as it *)
(* is needs no temporary file and cannot have one.                         *)
Together(pairs, data, only_input) ==
  [ok         |-> TRUE,
   supported  |-> Supported(pairs, BurnMask) \cup data \cup {"NO_TMP_FILES"},
   compulsory |-> Compulsory(pairs, BurnMask) \cup (IF only_input THEN {"NO_TMP_FILES"} ELSE {})]

OnWays(ways, m, input, plugins, flags) ==
  IF ways = {} THEN Nothing
  ELSE Together(UNION {RecordPairs(Recorders(m, w, plugins), m, flags) : w \in ways},
                UNION {DataFlags(IF w = "data" THEN Recorders(m, w, plugins)
                                               ELSE Makers(w, input, plugins), m, flags) : w \in ways},
                ways \subseteq {input})

FlagsForDisc(m, input, plugins, flags) ==
  OnWays(Ways(m, input, plugins, flags), m, input, plugins, flags)

(***************************************************************************)
(* Blanking.                                                               *)
(***************************************************************************)
(* A DVD-RW that is to hold several sessions must be blanked entirely. *)
CanBlank(m, plugins, flags) ==
  /\ ~(m.kind = "DVDRW" /\ {"MULTI", "FAST_BLANK"} \subseteq flags)
  /\ \E p \in plugins : Accepts(BlankFlags[p][m], BlankMask, flags)

(* rejilla_burn_caps_get_blanking_flags_real *)
Erasing(pairs, whole) ==
  IF whole /\ "FAST_BLANK" \in Compulsory(pairs, BlankMask) THEN Nothing
  ELSE [ok         |-> TRUE,
        supported  |-> Supported(pairs, BlankMask) \ (IF whole THEN {"FAST_BLANK"} ELSE {}),
        compulsory |-> Compulsory(pairs, BlankMask)]

BlankingFlags(m, plugins, flags) ==
  IF \A p \in Plugins : BlankFlags[p][m] = {} THEN Nothing
  ELSE Erasing(UNION {Fitting(BlankFlags[p][m], BlankMask, flags) : p \in plugins},
               m.kind = "DVDRW" /\ "MULTI" \in flags)

(***************************************************************************)
(* rejilla_burn_caps_get_flags_for_medium: as it is, and blanked first.    *)
(***************************************************************************)
Joined(direct, after, erasing) ==
  IF ~after.ok THEN direct
  ELSE [ok         |-> TRUE,
        supported  |-> direct.supported \cup after.supported \cup {"BLANK"} \cup erasing.supported,
        compulsory |-> ((direct.compulsory \cup after.compulsory
                           \cup (IF direct.ok THEN {} ELSE {"BLANK"})) \ ImageMask)
                         \cup erasing.compulsory]

(* A DVD-RW that is blanked quickly is written at once and never again. *)
Settled(m, flags, r) ==
  LET merging == IF "BLANK" \in flags THEN ImageMask ELSE {}
      multi   == "MULTI" \in flags
      quick   == m.kind = "DVDRW" /\ ~multi /\ {"BLANK", "FAST_BLANK"} \subseteq flags
  IN  IF ~r.ok \/ (quick /\ "DAO" \notin r.supported) THEN Nothing
      ELSE [ok         |-> TRUE,
            supported  |-> (r.supported \ merging)
                             \ (IF m.kind = "DVDRW" /\ multi THEN {"FAST_BLANK"} ELSE {}),
            compulsory |-> (r.compulsory \ merging) \cup (IF quick THEN {"DAO"} ELSE {})]

FlagsForMedium(m, input, plugins, flags) ==
  IF CanBlank(m, plugins, flags)
  THEN Settled(m, flags, Joined(FlagsForDisc(m, input, plugins, flags),
                                FlagsForDisc(Blanked(m), input, plugins, flags),
                                BlankingFlags(Blanked(m), plugins, flags)))
  ELSE IF "BLANK" \in flags THEN Nothing
       ELSE Settled(m, flags, FlagsForDisc(m, input, plugins, flags))

(***************************************************************************)
(* What the disc in the drive allows.  disc.modes are the write modes the  *)
(* drive reports for it.                                                   *)
(***************************************************************************)
MediumOf(disc) == Medium(disc.kind, disc.status)

CanSimulate(disc, dao) ==
  CASE disc.kind = "DVDRW_PLUS"      -> FALSE
    [] disc.kind \in {"DVDR", "DVDRW"} -> "dummy_sao" \in disc.modes
    [] OTHER -> (IF dao THEN "dummy_sao" ELSE "dummy_tao") \in disc.modes

(* rejilla_check_flags_for_drive *)
CheckFlagsForDrive(disc, flags) ==
  /\ "DUMMY" \in flags => CanSimulate(disc, "DAO" \in flags)
  /\ "BURNPROOF" \in flags => "burnfree" \in disc.modes

(* rejilla_medium_supported_flags *)
ForDrive(disc, r) ==
  LET once == /\ "BLANK" \notin r.compulsory
              /\ disc.kind # "DVDRW_PLUS"
              /\ "tao" \notin disc.modes
      sao  == "sao" \in disc.modes
      lost == (IF CanSimulate(disc, "DAO" \in r.supported) THEN {} ELSE {"DUMMY"})
                \cup (IF once THEN {"MULTI"} ELSE {})
                \cup (IF once /\ ~sao THEN {"DAO"} ELSE {})
                \cup (IF "burnfree" \in disc.modes THEN {} ELSE {"BURNPROOF"})
  IN  [r EXCEPT !.supported = @ \ lost,
                !.compulsory = @ \cup (IF once /\ sao THEN {"DAO"} ELSE {})]

(* rejilla_burn_session_get_burn_flags *)
Answer(disc, r) ==
  IF r.ok THEN ForDrive(disc, [r EXCEPT !.supported = @ \cup {"NOGRACE"}]) ELSE Nothing

BurnFlags(disc, input, plugins, flags) ==
  IF \/ ~CheckFlagsForDrive(disc, flags)
     \/ "BLANK" \in flags /\ flags \cap ImageMask # {}
  THEN Nothing
  ELSE Answer(disc, FlagsForMedium(MediumOf(disc), input, plugins, flags))

(***************************************************************************)
(* rejilla_burn_session_can_burn, the flags of the session not counted     *)
(* (except for the blanking it may try).                                   *)
(***************************************************************************)
Leads(ps, from, m) == ps # {} /\ (from # "data" => \E p \in ps : Unrestricted(p, m))

FindLink(m, input, plugins) ==
  \E w \in Sources :
    /\ Leads(Recorders(m, w, plugins), w, m)
    /\ w # input => Leads(Makers(w, input, plugins), input, m)

CanBurn(disc, input, plugins, flags) ==
  LET m == MediumOf(disc) IN
  \/ FindLink(m, input, plugins)
  \/ CanBlank(m, plugins, flags) /\ FindLink(Blanked(m), input, plugins)

(***************************************************************************)
(* rejilla_burn_caps_new_task.  A plugin alone must accept the flags, and  *)
(* the one with the highest priority is taken; of two links of the same    *)
(* plugin the one that has the input.                                      *)
(***************************************************************************)
Best(ps) == CHOOSE p \in ps : \A q \in ps : Priority[p] >= Priority[q]

(* rejilla_caps_link_find_plugin *)
FindRecorders(m, w, plugins, flags) ==
  {p \in Recorders(m, w, plugins) :
     /\ Accepts(PluginFlags[p][m], BurnMask, flags)
     /\ IF w = "data" THEN AcceptsImage(p, m, flags) ELSE Unrestricted(p, m)}

FindMakers(w, input, m, plugins, flags) ==
  {p \in Makers(w, input, plugins) :
     IF input = "data" THEN AcceptsImage(p, m, flags) ELSE Unrestricted(p, m)}

NoChain == [recorder |-> "none", source |-> "none", blanking |-> "none", on |-> "none"]

(* The links that work and the plugin of each. *)
Candidates(m, input, plugins, flags) ==
  {<<w, Best(FindRecorders(m, w, plugins, flags))>> :
     w \in {v \in Sources : /\ FindRecorders(m, v, plugins, flags) # {}
                            /\ v # input => FindMakers(v, input, m, plugins, flags) # {}}}

BestLink(cands, m, input) ==
  IF cands = {} THEN NoChain
  ELSE LET first == {c \in cands : \A d \in cands : Priority[c[2]] >= Priority[d[2]]}
           best  == CHOOSE c \in first : (\E d \in first : d[1] = input) => c[1] = input
       IN  [recorder |-> best[2], source |-> best[1], blanking |-> "none", on |-> m.status]

(* rejilla_caps_find_best_link *)
FindBestLink(m, input, plugins, flags) ==
  BestLink(Candidates(m, input, plugins, flags), m, input)

(* rejilla_burn_caps_new_blanking_task *)
NewBlankingTask(m, plugins, flags) ==
  LET ps == {p \in plugins : Accepts(BlankFlags[p][m], BlankMask, flags)} IN
  IF ps = {} THEN "none" ELSE Best(ps)

OrBlank(direct, after, may_blank, blanking) ==
  CASE direct # NoChain -> direct
    [] direct = NoChain /\ may_blank /\ after # NoChain -> [after EXCEPT !.blanking = blanking]
    [] OTHER -> NoChain

NewTask(disc, input, setup, flags) ==
  LET m       == MediumOf(disc)
      plugins == Active(setup, FALSE)
  IN  IF ~CheckFlagsForDrive(disc, flags) THEN NoChain
      ELSE OrBlank(FindBestLink(m, input, plugins, flags),
                   FindBestLink(Blanked(m), input, plugins, flags \ {"BLANK"}),
                   "BLANK" \in flags /\ CanBlank(m, Active(setup, TRUE), flags),
                   NewBlankingTask(m, plugins, flags))

=============================================================================
