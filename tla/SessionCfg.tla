----------------------------- MODULE SessionCfg -----------------------------
(***************************************************************************)
(* RejillaSessionCfg: a session that keeps its flags in step with the      *)
(* disc, the tracks and the plugins, says whether it can be burnt, and is  *)
(* handed to the burn dialog by the project window (rejilla-project.c).    *)
(* What can be burnt, and how, is asked of BurnCaps.                       *)
(*                                                                         *)
(* disc is the output.  Without a disc in any drive the project window     *)
(* chooses the image file; while files of an earlier session are imported  *)
(* (MERGE) it does not leave the drive, which may then be empty.           *)
(***************************************************************************)
EXTENDS BurnCaps

CONSTANTS
  Discs,    \* the discs: kind, status, modes, free and whole capacity
  Setups,   \* the plugins that are on, and those whose application is missing
  Stored,   \* the flags the drive settings may hold
  MaxSize,  \* sizes of the tracks
  Reuse     \* the window stays open after a recording; a bound of the runs

File  == [kind |-> "file", status |-> "none", modes |-> {}, free |-> 0, capacity |-> 0]
Empty == [kind |-> "empty", status |-> "none", modes |-> {}, free |-> 0, capacity |-> 0]

Toggles == {"DUMMY", "MULTI", "BURNPROOF", "NO_TMP_FILES"}

(* The settings nobody has changed yet. *)
Unset == {"UNSET"}

(* A disc is one of those BurnCaps knows, and has no more room than room. *)
ASSUME DiscsAssumption ==
  \A d \in Discs : /\ MediumOf(d) \in Media
                   /\ d.free \in Nat /\ d.capacity \in Nat /\ d.free <= d.capacity

ASSUME SetupsAssumption == Setups \subseteq [on : SUBSET Plugins, broken : SUBSET Plugins]

(* rejilla_drive_settings_set_mapping_flags stores the toggles only. *)
ASSUME StoredAssumption == Stored \subseteq (SUBSET Toggles) \cup {Unset}

ASSUME SizeAssumption == MaxSize \in Nat /\ Reuse \in BOOLEAN

VARIABLES
  given,      \* disc, input and size of the tracks, setup of the plugins
  imported,   \* the last session of the disc, as far as the tracks have it
  cfg,        \* flags of the session, and what the cfg last knew of them
  is_valid,   \* the session can be burnt
  disabled,   \* no autoconfiguration
  pc,         \* what the project window does
  chain       \* the tasks of the last recording

vars == << given, imported, cfg, is_valid, disabled, pc, chain >>

(***************************************************************************)
(* What rejilla_burn_session_get_burn_flags answers.  Nothing can be set   *)
(* for an image file.                                                      *)
(***************************************************************************)
Offer(g, flags) ==
  IF g.disc = File THEN [ok |-> TRUE, supported |-> {"NOGRACE"}, compulsory |-> {}]
                   ELSE BurnFlags(g.disc, g.input, Active(g.setup, TRUE), flags)

Session(flags, answer) ==
  [flags |-> flags, supported |-> answer.supported, compulsory |-> answer.compulsory]

(* The cfg sets the flags of the session and asks; it adds some and asks again. *)
Asked(g, flags) == Session(flags, Offer(g, flags))
With(g, c, flags) == Asked(g, c.flags \cup flags)

(* rejilla_session_cfg_set_drive_properties_default_flags *)
MultiFirst(g, c) ==
  IF g.disc.kind = "DVDRW_PLUS" /\ "MULTI" \in c.supported THEN With(g, c, {"MULTI"}) ELSE c

BlankFirst(g, c) ==
  IF "BLANK" \notin c.supported THEN c
  ELSE With(g, c, {"BLANK"} \cup (IF g.disc.status = "unformatted" THEN {}
                                  ELSE c.supported \cap {"FAST_BLANK"}))

DefaultFlags(g, c) == BlankFirst(g, MultiFirst(g, c))

AddCompulsory(g, c) == IF c.compulsory \subseteq c.flags THEN c ELSE With(g, c, c.compulsory)

(* Fault: what is supported is not asked again. *)
AddUnasked(g, c, f) == IF f \in c.supported THEN [c EXCEPT !.flags = @ \cup {f}] ELSE c

AddSupported(g, c, f) == IF f \in c.supported THEN With(g, c, {f}) ELSE c

(* The loop over the flags, which goes up FlagOrder; NOGRACE is bit zero. *)
EachFlag(step(_, _), c) ==
  step(step(step(step(step(step(step(step(step(c,
    "MERGE"), "MULTI"), "APPEND"), "BURNPROOF"), "NO_TMP_FILES"), "DUMMY"), "BLANK"),
    "FAST_BLANK"), "DAO")

SetFlag(g, new, c, f) == IF f \in new THEN AddSupported(g, AddCompulsory(g, c), f) ELSE c
SetEach(g, new, c) == EachFlag(LAMBDA d, f : SetFlag(g, new, d, f), c)

WithGrace(c) == [c EXCEPT !.flags = @ \cup {"NOGRACE"}]

(* The library has refused: the flags stay, those to be set with them. *)
Refused(c, new) == [flags |-> c.flags \cup new, supported |-> {}, compulsory |-> {}]

(* Fault: the default flags come first. *)
SetFlagsLast(g, c, new) ==
  CASE g.disc = Empty -> c
    [] g.disc # Empty /\ ~Offer(g, {}).ok -> Refused(c, new)
    [] OTHER -> WithGrace(SetEach(g, new, DefaultFlags(g, Asked(g, {}))))

(***************************************************************************)
(* rejilla_session_cfg_set_drive_properties_flags: wipe the flags out and  *)
(* add those of "new" that are supported, one by one.                      *)
(***************************************************************************)
SetFlags(g, c, new) ==
  LET dao(d) == IF "DAO" \in c.flags THEN AddSupported(g, d, "DAO") ELSE d
  IN  CASE g.disc = Empty -> c
        [] g.disc # Empty /\ ~Offer(g, {}).ok -> Refused(c, new)
        [] OTHER -> WithGrace(DefaultFlags(g, dao(SetEach(g, new, Asked(g, {})))))

CheckDriveSettings(g, c) == SetFlags(g, c, c.flags)

(* rejilla_burn_session_get_available_medium_space *)
Space(g, flags) ==
  IF flags \cap ImageMask = {} /\ CanBlank(MediumOf(g.disc), Active(g.setup, TRUE), flags)
  THEN g.disc.capacity ELSE g.disc.free

(* rejilla_session_cfg_update, rejilla_session_cfg_check_size *)
Validity(g, flags) ==
  CASE g.input = "none" \/ g.size = 0 -> "EMPTY"
    [] g.input # "none" /\ g.size > 0 /\ g.disc = File  -> "FILE"
    [] g.input # "none" /\ g.size > 0 /\ g.disc = Empty -> "NO_OUTPUT"
    [] OTHER ->
         IF ~CanBurn(g.disc, g.input, Active(g.setup, TRUE), flags) THEN "NOT_SUPPORTED"
         ELSE IF g.size < Space(g, flags) THEN "VALID" ELSE "INSUFFICIENT_SPACE"

(* What the window's check and the burn find of plugins that are missing.  *)
Ready(g) == CanBurn(g.disc, g.input, Active(g.setup, FALSE), {})

(* A flag that is supported is set; if the library then refuses, no more is known. *)
KeepFlag(g, flags, c, f) ==
  CASE f \notin flags \cap c.supported -> c
    [] f \in flags \cap c.supported /\ ~Offer(g, c.flags \cup {f}).ok ->
         [c EXCEPT !.flags = @ \cup {f}]
    [] OTHER -> With(g, c, {f})

KeepEach(g, flags) ==
  EachFlag(LAMBDA c, f : KeepFlag(g, flags, c, f), KeepFlag(g, flags, Asked(g, {}), "NOGRACE"))

AndCompulsory(c) == c.flags \cup c.compulsory

(* Fault: what is compulsory is not added. *)
ConsistentOnly(g, flags) == KeepEach(g, flags).flags

(***************************************************************************)
(* rejilla_burn_check_session_consistency, on a copy of the settings:      *)
(* wipe the flags out and drop those that are not supported, then add what *)
(* is compulsory.  Only for MERGE it is an error to be dropped.            *)
(***************************************************************************)
Consistent(g, flags) == AndCompulsory(KeepEach(g, flags))

(* rejilla_burn_run_tasks up to the first task, the flags of it with it. *)
Outcome(g, flags, kept, task) ==
  CASE ~Offer(g, {}).ok \/ ~CanBurn(g.disc, g.input, Active(g.setup, TRUE), kept) -> "unsupported"
    [] Offer(g, {}).ok /\ "MERGE" \in flags \ kept -> "cannot merge"
    [] OTHER -> IF ~Ready(g) THEN "missing"
                ELSE IF task = NoChain THEN "internal" ELSE "record"

RunWith(g, flags, kept) ==
  LET task == NewTask(g.disc, g.input, g.setup, kept) IN
  [does |-> Outcome(g, flags, kept, task), task |-> task, flags |-> kept]

Run(g, flags) == RunWith(g, flags, Consistent(g, flags))

Idle == [does |-> "nothing", task |-> NoChain, flags |-> {}]

-----------------------------------------------------------------------------

(* Every handler of the cfg but those for flags returns early without      *)
(* autoconfiguration.                                                      *)
Configure(g, c) ==
  IF disabled THEN UNCHANGED << cfg, is_valid >>
  ELSE /\ cfg' = c
       /\ is_valid' = Validity(g, c.flags)

Init ==
  /\ given \in [disc : {File}, input : {"none"}, size : {0}, setup : Setups]
  /\ imported = "no"
  /\ cfg = [flags |-> {}, supported |-> {}, compulsory |-> {}]
  /\ is_valid = "EMPTY"
  /\ disabled = FALSE
  /\ pc = "edit"
  /\ chain = Idle

(* rejilla_session_cfg_track_added *)
TrackAdded(i, n) ==
  /\ pc = "edit"
  /\ given.input = "none"
  /\ n = 0 => i = "data"
  /\ given' = [given EXCEPT !.input = i, !.size = n]
  /\ Configure(given', CheckDriveSettings(given', cfg))
  /\ UNCHANGED << imported, disabled, pc, chain >>

(* Fault: the validity is not looked at again. *)
TrackRemovedSilently ==
  /\ pc = "edit"
  /\ given.input # "none"
  /\ imported = "no"
  /\ given' = [given EXCEPT !.input = "none", !.size = 0]
  /\ UNCHANGED << imported, cfg, is_valid, disabled, pc, chain >>

(* Fault: the files of the imported session outlive the track. *)
TrackRemovedAlone ==
  /\ pc = "edit"
  /\ given.input # "none"
  /\ given' = [given EXCEPT !.input = "none", !.size = 0]
  /\ Configure(given', cfg)
  /\ UNCHANGED << imported, disabled, pc, chain >>

(* rejilla_session_cfg_track_removed: the flags are let alone. *)
TrackRemoved ==
  /\ pc = "edit"
  /\ given.input # "none"
  /\ imported = "no"
  /\ given' = [given EXCEPT !.input = "none", !.size = 0]
  /\ Configure(given', cfg)
  /\ UNCHANGED << imported, disabled, pc, chain >>

(* rejilla_session_cfg_track_changed *)
TrackChanged(n) ==
  /\ pc = "edit"
  /\ given.input # "none"
  /\ n # given.size
  /\ n = 0 => given.input = "data"
  /\ given' = [given EXCEPT !.size = n]
  /\ Configure(given', CheckDriveSettings(given', cfg))
  /\ UNCHANGED << imported, disabled, pc, chain >>

(* rejilla_session_cfg_caps_changed *)
CapsChanged(setup) ==
  /\ pc = "edit"
  /\ setup # given.setup
  /\ given' = [given EXCEPT !.setup = setup]
  /\ Configure(given', CheckDriveSettings(given', cfg))
  /\ UNCHANGED << imported, disabled, pc, chain >>

(***************************************************************************)
(* rejilla_session_cfg_output_changed.  The properties are closed by it    *)
(* (rejilla_project_output_changed).  The selection of the drive is locked *)
(* as long as there is MERGE, so that only the disc of the drive goes and  *)
(* another one comes.                                                      *)
(***************************************************************************)
OutputChanged(d) ==
  LET locked == "MERGE" \in cfg.flags IN
  /\ pc # "closed"
  /\ d # given.disc
  /\ d = Empty => locked
  /\ locked => (d = Empty \/ given.disc = Empty) /\ d # File
  /\ given' = [given EXCEPT !.disc = d]
  /\ imported' = "no"
  /\ Configure(given', CheckDriveSettings(given', cfg))
  /\ pc' = IF pc = "properties" THEN "edit" ELSE pc
  /\ UNCHANGED << disabled, chain >>

(***************************************************************************)
(* rejilla_data_session_is_valid_multi: the disc holds data and a plugin   *)
(* writes such a disc (rejilla_burn_library_get_media_capabilities).       *)
(***************************************************************************)
Importable(g) ==
  /\ g.input = "data"
  /\ g.disc \notin {File, Empty}
  /\ g.disc.status \in {"appendable", "closed"}
  /\ \E p \in Active(g.setup, TRUE) : Takes[p][MediumOf(g.disc)] # {}

SessionFlags(g, loaded) ==
  LET c == IF loaded THEN SetFlags(g, cfg, cfg.flags \cup {"MERGE"})
                     ELSE SetFlags(g, cfg, cfg.flags \ {"MERGE"})
  IN  CheckDriveSettings(g, IF ("MERGE" \in cfg.flags) # loaded THEN c ELSE cfg)

(* rejilla_session_cfg_session_loaded, after which the track has changed. *)
SessionLoaded ==
  /\ pc = "edit"
  /\ Importable(given)
  /\ imported = "no"
  /\ imported' = "loaded"
  /\ Configure(given, SessionFlags(given, TRUE))
  /\ UNCHANGED << given, disabled, pc, chain >>

(* The user has the imported files removed. *)
SessionRemoved ==
  /\ pc = "edit"
  /\ imported = "loaded"
  /\ imported' = "no"
  /\ Configure(given, SessionFlags(given, FALSE))
  /\ UNCHANGED << given, disabled, pc, chain >>

(***************************************************************************)
(* A folder of the session cannot be read: rejilla_data_session_load_dir_  *)
(* result says that the session is no longer loaded and keeps its files.   *)
(* They cannot be removed any more: the button that does it is up.         *)
(***************************************************************************)
SessionUnreadable ==
  /\ imported = "loaded"
  /\ pc \in {"edit", "properties"}
  /\ imported' = "unreadable"
  /\ Configure(given, SessionFlags(given, FALSE))
  /\ UNCHANGED << given, disabled, pc, chain >>

-----------------------------------------------------------------------------

(* rejilla_drive_settings_get_mapping_flags *)
Bound(flags, stored) ==
  (IF stored = Unset THEN {"BURNPROOF", "NO_TMP_FILES"} ELSE stored) \cup (flags \ Toggles)

(***************************************************************************)
(* The Burn button: the checks of rejilla_project_burn, then the settings  *)
(* of the drive are bound to the flags of the session, no handler of the   *)
(* cfg sees it, and the properties are shown.                              *)
(***************************************************************************)
OpenProperties(stored) ==
  /\ pc = "edit"
  /\ is_valid = "VALID"
  /\ given.input # "none" /\ given.size > 0
  /\ given.disc \notin {File, Empty}
  /\ Ready(given)
  /\ cfg' = [cfg EXCEPT !.flags = Bound(@, stored)]
  /\ pc' = "properties"
  /\ UNCHANGED << given, imported, is_valid, disabled, chain >>

CancelProperties ==
  /\ pc = "properties"
  /\ pc' = "edit"
  /\ UNCHANGED << given, imported, cfg, is_valid, disabled, chain >>

(* The dialog asks on its own what it may offer. *)
Shown == LET r == Offer(given, cfg.flags) IN Toggles \cap (r.supported \ r.compulsory)

(* rejilla_session_cfg_add_flags *)
AddFlags(f) ==
  /\ pc = "properties"
  /\ f \in Shown \ cfg.flags
  /\ f \in cfg.supported
  /\ cfg' = SetFlags(given, cfg, cfg.flags \cup {f})
  /\ is_valid' = Validity(given, cfg'.flags)
  /\ UNCHANGED << given, imported, disabled, pc, chain >>

(* rejilla_session_cfg_remove_flags *)
RemoveFlags(f) ==
  /\ pc = "properties"
  /\ f \in Shown \cap cfg.flags
  /\ cfg' = DefaultFlags(given, [cfg EXCEPT !.flags = @ \ {f}])
  /\ is_valid' = Validity(given, cfg'.flags)
  /\ UNCHANGED << given, imported, disabled, pc, chain >>

(* rejilla_burn_dialog_run_real, with rejilla_burn_run_tasks *)
Burn ==
  /\ pc = "properties"
  /\ pc' = "burning"
  /\ disabled' = TRUE
  /\ chain' = Run(given, cfg.flags)
  /\ UNCHANGED << given, imported, cfg, is_valid >>

(***************************************************************************)
(* The dialog enables autoconfiguration of the session it has just         *)
(* forgotten, so that nothing is enabled.                                  *)
(***************************************************************************)
BurnEnd ==
  /\ pc = "burning"
  /\ pc' = IF Reuse THEN "edit" ELSE "closed"
  /\ chain' = Idle
  /\ UNCHANGED << given, imported, cfg, is_valid, disabled >>

Next ==
  \/ \E i \in Inputs, n \in 0..MaxSize : TrackAdded(i, n)
  \/ TrackRemoved
  \/ \E n \in 0..MaxSize : TrackChanged(n)
  \/ \E setup \in Setups : CapsChanged(setup)
  \/ \E d \in Discs \cup {File, Empty} : OutputChanged(d)
  \/ SessionLoaded
  \/ SessionRemoved
  \/ SessionUnreadable
  \/ \E stored \in Stored : OpenProperties(stored)
  \/ CancelProperties
  \/ \E f \in Toggles : AddFlags(f) \/ RemoveFlags(f)
  \/ Burn
  \/ BurnEnd

Spec == Init /\ [][Next]_vars

-----------------------------------------------------------------------------

(* The variables have their types; only a data track has a session. *)
TypeOK ==
  /\ given \in [disc : Discs \cup {File, Empty}, input : Inputs \cup {"none"},
                size : 0..MaxSize, setup : Setups]
  /\ imported \in {"no", "loaded", "unreadable"}
  /\ imported # "no" => given.input = "data"
  /\ cfg \in [flags : SUBSET Flag, supported : SUBSET Flag, compulsory : SUBSET Flag]
  /\ is_valid \in {"EMPTY", "FILE", "NO_OUTPUT", "NOT_SUPPORTED", "INSUFFICIENT_SPACE", "VALID"}
  /\ disabled \in BOOLEAN
  /\ pc \in {"edit", "properties", "burning", "closed"}

(***************************************************************************)
(* What the window shows of the session is still true of its disc, tracks, *)
(* plugins and flags, whatever changed last.  The exception is a choice of *)
(* several sessions that the drive settings put on a DVD-RW that is to be  *)
(* blanked quickly: it cannot be, and nobody looks at the space again.     *)
(***************************************************************************)
ValidityIsCurrent ==
  ~disabled => \/ is_valid = Validity(given, cfg.flags)
               \/ {"MULTI", "FAST_BLANK"} \subseteq cfg.flags

(***************************************************************************)
(* The flags the cfg gives a session one by one, and then by default, are  *)
(* those that remain when the burn takes them again one by one: rejilla_   *)
(* burn_check_session_consistency drops nothing.  Only flags the library   *)
(* has refused, which are kept as they were, and those of the drive        *)
(* settings, which are not looked at, may be dropped.                      *)
(***************************************************************************)
SettingsSurvive ==
  [][cfg' # cfg /\ pc' = "edit" /\ is_valid' = "VALID" /\ Offer(given', {}).ok =>
       cfg'.flags \subseteq Consistent(given', cfg'.flags)]_vars

(***************************************************************************)
(* What the window offers to burn is burnt: where rejilla_burn_session_    *)
(* can_burn and get_burn_flags, which take the plugins of a link together, *)
(* have said yes, rejilla_burn_caps_new_task finds for each step one       *)
(* plugin that does it alone.  No plugin lacks its application.            *)
(***************************************************************************)
ReadyIsRecordable ==
  [][pc' # pc /\ pc' = "burning" /\ given.setup.broken = {} /\ Offer(given, cfg.flags).ok
       => chain'.does = "record"]_vars

Mergeable == IF imported = "no" THEN Offer(given, {"MERGE"}).ok ELSE "MERGE" \in cfg.flags

(***************************************************************************)
(* A session that is loaded from a disc that allows it is merged with it,  *)
(* stays so whatever is set, and the recording does it: it has the flag    *)
(* and nothing blanks the disc first.  The plugins do not change.          *)
(***************************************************************************)
MergeKeeps ==
  [][imported' = "loaded" /\ Mergeable /\ given'.setup = given.setup /\ ~disabled =>
       /\ "MERGE" \in cfg'.flags
       /\ (chain'.does = "record" /\ pc' # pc) =>
            ("MERGE" \in chain'.flags /\ chain'.task.blanking = "none")]_vars

(***************************************************************************)
(* "That way, old files from previous sessions will be usable after        *)
(* burning" (rejilla-data-disc.c): what is recorded while the tracks hold  *)
(* an imported session follows that session.  The code does not keep this: *)
(* a session that cannot be read any further loses MERGE, not its files.   *)
(***************************************************************************)
ImportedIsKept ==
  chain.does = "record" /\ imported # "no" => "MERGE" \in chain.flags

(***************************************************************************)
(* "re-enable autoconfiguration" (rejilla-burn-dialog.c), once the burn is *)
(* over.  The code does not keep this, see BurnEnd.                        *)
(***************************************************************************)
ConfiguresAgain == pc # "burning" => ~disabled

=============================================================================
