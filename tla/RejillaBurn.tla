---------------------------- MODULE RejillaBurn ----------------------------
(***************************************************************************)
(* One rejilla_burn_record (librejilla-burn/rejilla-burn.c): the drives    *)
(* are locked, tasks are created for the session and run, and whatever     *)
(* goes wrong is answered by the user, who may change the disc.  Or one    *)
(* rejilla_burn_blank or rejilla_burn_check, which run a single task.      *)
(*                                                                         *)
(* Control is in `pc'.  The functions that ask for another disc are called *)
(* from many places, `caller' says to which one they return.  The program  *)
(* runs main loops in dialogs, sleeps and tasks, so that the user acts in  *)
(* any state: a disc in a drive that is not locked may be swapped at any   *)
(* time.                                                                   *)
(***************************************************************************)
EXTENDS Naturals, Sequences

CONSTANTS
    Kinds,          \* what may be asked for: see AllKinds
    MaxImagers,     \* bound: tasks that write a temporary image first
    MayNeedReload   \* the kinds whose recorder may report MEDIUM_NEED_RELOADING

\* files or an image to a file; a disc to one; files or an image to a disc; a
\* disc to another drive; a disc to another one in the same drive; only blank a
\* disc; only check one
AllKinds == {"file", "rip", "disc", "clone", "copy", "blank", "check"}

ASSUME KindsAssumption == Kinds \subseteq AllKinds
ASSUME BurnAssumption == MaxImagers \in Nat /\ MayNeedReload \subseteq Kinds

VARIABLES
    kind,       \* what the session asks for
    pc, caller,
    result,     \* the RejillaBurnResult on its way up, at last what is returned
    media,      \* what is in each drive
    locked,     \* the drives that are locked
    dest,       \* priv->dest is set
    src,        \* priv->src
    warned,     \* the user agreed to lose what is on the disc in the burner
    flags,      \* flags of the session's settings
    pile,       \* pile_settings of the session, its top first
    asked,      \* the flags the session came with
    tasks,      \* tasks left, the running one first
    temp,       \* temp_output is set: the disc is imaged before it is copied
    simulated,  \* in the record_session nested in another one, after a simulation
    dummy,      \* *dummy_session
    pushed      \* the lists of tracks pushed over the session's own (push_tracks),
                \* the top one first; those of imagers in a row count for one

drives   == <<media, locked, dest, src, warned>>
settings == <<flags, pile>>
work     == <<tasks, temp, simulated, dummy, pushed>>
vars == <<kind, asked, pc, caller, result, drives, settings, work>>

Drives == {"burner", "reader"}
\* "closed" can be rewritten but not appended to, "open" can be both
Media    == {"none", "unfit", "blank", "closed", "open"}
Writable == {"blank", "closed", "open"}
WithData == {"closed", "open"}
Flags    == {"DUMMY", "BLANK", "MERGE"}
Results  == {"OK", "ERR", "CANCEL", "RETRY"}
Failures == {"ERR", "CANCEL"}
PCs == {"idle", "lock_dest", "ask_dest", "insert_dest", "lock_src", "ask_src",
        "insert_src", "run_tasks", "warn", "plan", "task", "erase", "erase_failed",
        "image", "claim", "busy", "record", "rest", "question", "end_tasks", "simulated",
        "reprobe", "check", "eject_copy", "blank", "check_disc", "unlock", "done"}
Callers == {"none", "record", "source", "image", "copied", "warn", "space", "blank",
            "checking", "imager", "recorder", "blanking"}

ToFile   == kind \in {"file", "rip"}
OnDisc   == ~ToFile /\ ~temp
InBurner == media["burner"]

\* rejilla_burn_session_get_src_drive looks at the tracks on top: an image that
\* was made of a disc hides its drive
Imaged    == pushed # <<>> /\ Head(pushed) = "image"
DiscDrive == CASE kind \in {"clone", "rip"} -> "reader"
               [] kind = "copy" -> "burner"
               [] OTHER -> "none"
SrcDrive  == IF Imaged THEN "none" ELSE DiscDrive

\* a disc that is imaged has data
CanRead == SrcDrive # "none" => media[SrcDrive] \notin {"none", "blank"}

\* rejilla_task_ctx_finished: the tracks a job made are pushed, and nobody here
\* pops them, so that they serve for further copies
PushImage == pushed' = IF Imaged THEN pushed ELSE <<"image">> \o pushed

Init ==
    /\ kind \in Kinds /\ asked \in SUBSET Flags
    /\ pc = "idle" /\ caller = "none" /\ result = "OK"
    /\ media \in [Drives -> Media]
    /\ locked = {} /\ dest = FALSE /\ src = "none" /\ warned = FALSE
    /\ flags = asked /\ pile = <<>>
    /\ tasks = <<>> /\ temp = (kind = "copy") /\ simulated = FALSE
    /\ dummy = FALSE /\ pushed = <<>>

-----------------------------------------------------------------------------
(* Locking drives and asking for discs.                                    *)

Start ==
    /\ pc = "idle"
    /\ pc' = CASE kind = "file" -> "run_tasks" [] kind \in {"copy", "rip"} -> "lock_src"
               [] kind = "check" -> "check_disc" [] OTHER -> "lock_dest"
    /\ caller' = CASE kind \in {"file", "check"} -> "none" [] kind = "copy" -> "image"
                   [] kind = "rip" -> "source" [] kind = "blank" -> "blanking"
                   [] OTHER -> "record"
    /\ UNCHANGED <<kind, asked, result, drives, settings, work>>

\* Fault: a disc reloaded after a warning is used without starting again
OnwardWithoutRetry(from) ==
    CASE from \in {"record", "copied"} -> (IF SrcDrive = "none" THEN "run_tasks" ELSE "lock_src")
      [] from \in {"source", "image"} -> "run_tasks"
      [] from = "checking" -> "task"
      [] from = "imager" -> "image"
      [] from = "recorder" -> "claim"
      [] from = "blanking" -> "blank"
      [] from = "warn" -> "plan"
      [] OTHER -> "end_tasks"

\* where the caller goes on when it has its disc
Onward(from) ==
    CASE from \in {"record", "copied"} -> (IF SrcDrive = "none" THEN "run_tasks" ELSE "lock_src")
      [] from \in {"source", "image"} -> "run_tasks"
      [] from = "checking" -> "task"
      [] from = "imager" -> "image"
      [] from = "recorder" -> "claim"
      [] from = "blanking" -> "blank"
      [] OTHER -> "end_tasks"

\* Return to the caller with r.  A task list whose disc was changed is made
\* anew (RETRY); when blanking failed its error stays, whatever became of the
\* reload.
Return(r) ==
    /\ pc' = IF r = "OK" THEN Onward(caller)
             ELSE IF caller \in {"record", "source", "image", "copied", "blanking"}
                  THEN "unlock" ELSE "end_tasks"
    /\ result' = CASE r = "OK" /\ caller \in {"warn", "space", "blank"} -> "RETRY"
                   [] r # "OK" /\ caller = "blank" -> "ERR"
                   [] OTHER -> r
    /\ caller' = IF pc' = "lock_src" THEN "source" ELSE "none"

\* Fault: the drive is left unlocked when the disc comes after a copy
LockDestNotAfterCopy ==
    /\ pc = "lock_dest" /\ kind # "blank"
    /\ dest' = TRUE
    /\ \/ /\ InBurner \in Writable
          /\ locked' = IF caller = "copied" THEN locked ELSE locked \cup {"burner"}
          /\ Return("OK")
       \/ /\ locked' = locked \ {"burner"} /\ pc' = "ask_dest"
          /\ UNCHANGED <<caller, result>>
    /\ UNCHANGED <<kind, asked, media, src, warned, settings, work>>

\* rejilla_burn_lock_dest_media: the drive is locked once the disc is found
\* good; no disc, one that cannot be written, or too small for an image, is
\* asked for again.  After a copy every failure but a cancellation is.
LockDest ==
    /\ pc = "lock_dest" /\ kind # "blank"
    /\ dest' = TRUE
    /\ \/ /\ InBurner \in Writable
          /\ locked' = locked \cup {"burner"} /\ Return("OK")
       \/ /\ locked' = locked \ {"burner"} /\ pc' = "ask_dest"
          /\ UNCHANGED <<caller, result>>
       \/ \E r \in Failures :
          /\ UNCHANGED locked
          /\ IF caller = "copied" /\ r = "ERR"
               THEN pc' = "ask_dest" /\ UNCHANGED <<caller, result>>
               ELSE Return(r)
    /\ UNCHANGED <<kind, asked, media, src, warned, settings, work>>

\* rejilla_burn_eject of drive d: the disc is unmounted, the drive unlocked,
\* then the disc ejected; each of them may fail or be cancelled.
Ejects(d, onward) ==
    \/ /\ media' = [media EXCEPT ![d] = "none"] /\ locked' = locked \ {d}
       /\ onward
    \/ \E r \in Failures :
       /\ locked' \in {locked, locked \ {d}} /\ Return(r)
       /\ UNCHANGED media

\* rejilla_burn_ask_for_dest_media, rejilla_burn_ask_for_src_media ...
Ask(at, d, dialog) ==
    /\ pc = at
    /\ IF d \in Drives /\ media[d] # "none"
         THEN Ejects(d, pc' = dialog /\ UNCHANGED <<caller, result>>)
         ELSE pc' = dialog /\ UNCHANGED <<caller, result, media, locked>>
    /\ warned' = (warned /\ d # "burner")
    /\ UNCHANGED <<kind, asked, dest, src, settings, work>>

AskDest == Ask("ask_dest", "burner", "insert_dest")
AskSrc  == Ask("ask_src", src, "insert_src")

\* ... and their dialog: the user says there is a disc
Insert(dialog, locking) ==
    /\ pc = dialog
    /\ pc' = locking
    /\ UNCHANGED <<kind, asked, caller, result, drives, settings, work>>

InsertDest == Insert("insert_dest", "lock_dest")
InsertSrc  == Insert("insert_src", "lock_src")

\* where the user may cancel: the dialogs, and the sleeps (rejilla_burn_cancel
\* quits their loop)
Waits == {"insert_dest", "insert_src", "question", "busy", "rest"}

\* Fault: after a copy the user who gives up is asked again
GiveUpNotCopying ==
    /\ pc \in Waits
    /\ IF caller = "copied" THEN pc' = "ask_dest" /\ UNCHANGED <<caller, result>>
                            ELSE Return("CANCEL")
    /\ UNCHANGED <<kind, asked, drives, settings, work>>

GiveUp ==
    /\ pc \in Waits
    /\ Return("CANCEL")
    /\ UNCHANGED <<kind, asked, drives, settings, work>>

\* Fault: the drive is locked before priv->src is set
LockSrcEarly ==
    /\ pc = "lock_src"
    /\ src' = SrcDrive
    /\ locked' = locked \cup {src} /\ Return("OK")
    /\ UNCHANGED <<kind, asked, media, dest, warned, settings, work>>

\* rejilla_burn_lock_src_media: only a blank disc is asked for again, an empty
\* drive is locked as it is; without a drive it fails
LockSrc ==
    /\ pc = "lock_src"
    /\ src' = SrcDrive
    /\ \/ /\ SrcDrive # "none" /\ media[SrcDrive] = "blank"
          /\ pc' = "ask_src" /\ UNCHANGED <<caller, result, locked>>
       \/ /\ SrcDrive # "none" /\ media[SrcDrive] # "blank"
          /\ locked' = locked \cup {SrcDrive} /\ Return("OK")
       \/ /\ \E r \in IF SrcDrive = "none" THEN {"ERR"} ELSE Failures : Return(r)
          /\ UNCHANGED locked
    /\ UNCHANGED <<kind, asked, media, dest, warned, settings, work>>

\* The user changes the disc of a drive that is not locked.
Swap(d, m) ==
    /\ pc \notin {"idle", "done"} /\ d \notin locked
    /\ media' = [media EXCEPT ![d] = m]
    /\ warned' = (warned /\ d # "burner")
    /\ UNCHANGED <<kind, asked, pc, caller, result, locked, dest, src, settings, work>>

-----------------------------------------------------------------------------
(* rejilla_burn_run_tasks.                                                 *)

\* what the plugins support with disc m, and require
Supported(m) == IF ~OnDisc THEN {}
                ELSE CASE m = "open"   -> Flags
                       [] m = "closed" -> {"DUMMY", "BLANK"}
                       [] OTHER        -> {"DUMMY"}
Compulsory(m) == IF OnDisc /\ m = "closed" THEN {"BLANK"} ELSE {}

\* rejilla_burn_check_session_consistency of the flags f: those supported are
\* kept, the compulsory ones added; MERGE must be supported.  Some discs cannot
\* be simulated on.
Checked(f, m) ==
    {(f \cap s) \cup Compulsory(m) :
        s \in {t \in {Supported(m), Supported(m) \ {"DUMMY"}} :
                  "MERGE" \in f => "MERGE" \in t}}

EndTasksWith(r) == pc' = "end_tasks" /\ result' = r

\* the settings are pushed, then checked; the check fails too when a plugin or
\* an application is missing
RunTasks ==
    /\ pc = "run_tasks"
    /\ pile' = <<flags>> \o pile
    /\ \/ /\ flags' \in Checked(flags, InBurner)
          /\ pc' = IF ToFile THEN "plan" ELSE "warn"
          /\ UNCHANGED result
       \/ flags' = {} /\ EndTasksWith("ERR")
    /\ UNCHANGED <<kind, asked, caller, drives, work>>

\* rejilla_burn_check_data_loss of the disc in the burner, the one to be copied
\* when a copy is imaged.  A disc to be blanked is always warned about, others
\* for some kinds of input.
Warn ==
    /\ pc = "warn"
    /\ \/ /\ warned' = (warned \/ (InBurner \in WithData /\ "BLANK" \in flags))
          /\ pc' = "plan" /\ UNCHANGED <<caller, result, flags>>
       \/ /\ pc' = "ask_dest" /\ caller' = "warn"
          /\ UNCHANGED <<result, warned, flags>>
       \/ /\ \E r \in Failures : EndTasksWith(r)
          /\ UNCHANGED <<caller, warned, flags>>
       \/ \* the user would rather import the previous session
          /\ kind = "disc" /\ InBurner = "open" /\ flags \cap {"BLANK", "MERGE"} = {}
          /\ flags' \in Checked(Head(pile) \cup {"MERGE"}, InBurner)
          /\ pc' = "plan" /\ UNCHANGED <<caller, result, warned>>
    /\ UNCHANGED <<kind, asked, media, locked, dest, src, pile, work>>

LastTask == IF ToFile THEN "image" ELSE "record"

\* n imagers, then one that erases if b, then the last task
TaskList(n, b) ==
    [i \in 1 .. (IF b THEN n + 2 ELSE n + 1) |->
        CASE i <= n -> "image" [] b /\ i = n + 1 -> "erase" [] OTHER -> LastTask]

\* rejilla_burn_caps_new_task: images first, the recording last, and a task
\* that erases just before it when the recorder cannot overwrite the disc
Plan ==
    /\ pc = "plan"
    /\ \/ \E n \in 0 .. MaxImagers, b \in BOOLEAN :
          /\ b => OnDisc /\ "BLANK" \in flags
          /\ tasks' = TaskList(n, b) /\ pc' = "task" /\ UNCHANGED result
       \/ EndTasksWith("ERR") /\ UNCHANGED tasks
    /\ UNCHANGED <<kind, asked, caller, drives, settings, temp, simulated, dummy, pushed>>

\* the next task; before a disc is erased its size is checked, and it is erased
\* only the first time when there was a simulation; the others are first run in
\* fake mode, and that may fail
Task ==
    /\ pc = "task"
    /\ \/ /\ Head(tasks) = "image"
          /\ pc' = "image" /\ UNCHANGED <<caller, result, tasks, dummy>>
       \/ /\ Head(tasks) = "record"
          /\ pc' = "claim" /\ dummy' = ("DUMMY" \in flags)
          /\ UNCHANGED <<caller, result, tasks>>
       \/ /\ Head(tasks) # "erase"
          /\ \E r \in Failures : EndTasksWith(r)
          /\ UNCHANGED <<caller, tasks, dummy>>
       \/ /\ Head(tasks) = "erase"
          /\ pc' = "ask_dest" /\ caller' = "space" /\ UNCHANGED <<result, tasks, dummy>>
       \/ /\ Head(tasks) = "erase" /\ ~simulated
          /\ pc' = "erase" /\ UNCHANGED <<caller, result, tasks, dummy>>
       \/ /\ Head(tasks) = "erase" /\ simulated
          /\ tasks' = Tail(tasks) /\ UNCHANGED <<pc, caller, result, dummy>>
    /\ UNCHANGED <<kind, asked, drives, settings, temp, simulated, pushed>>

\* Leave record_session, and the one around it: DUMMY is put back.
Leave(to, r) ==
    /\ pc' = to /\ result' = r
    /\ flags' = IF simulated THEN flags \cup {"DUMMY"} ELSE flags
    /\ simulated' = FALSE

\* run_eraser went well: the flags the session came with are checked again
Erased ==
    /\ pc = "erase"
    /\ media' = [media EXCEPT !["burner"] = "blank"]
    /\ \/ /\ flags' \in Checked(Head(pile), "blank")
          /\ tasks' = Tail(tasks) /\ pc' = "task" /\ UNCHANGED result
       \/ EndTasksWith("ERR") /\ UNCHANGED <<flags, tasks>>
    /\ UNCHANGED <<kind, asked, caller, locked, dest, src, warned, pile,
                   temp, simulated, dummy, pushed>>

\* cancelled while it erases, run_tasks returns at once: nothing is popped, and
\* the tasks stay
EraseCancelled ==
    /\ pc = "erase"
    /\ media' \in {media, [media EXCEPT !["burner"] = "unfit"]}
    /\ Leave("unlock", "CANCEL")
    /\ UNCHANGED <<kind, asked, caller, locked, dest, src, warned, pile,
                   tasks, temp, dummy, pushed>>

\* it failed: "do not fail and cancel the entire session but ask the user if he
\* wants to insert another disc instead"
EraseFails ==
    /\ pc = "erase"
    /\ media' \in {media, [media EXCEPT !["burner"] = "unfit"]}
    /\ pc' = "erase_failed"
    /\ UNCHANGED <<kind, asked, caller, result, locked, dest, src, warned, settings, work>>

AnswerBlankFailure ==
    /\ pc = "erase_failed"
    /\ \/ pc' = "ask_dest" /\ caller' = "blank" /\ UNCHANGED result
       \/ EndTasksWith("ERR") /\ UNCHANGED caller
    /\ UNCHANGED <<kind, asked, drives, settings, work>>

\* rejilla_burn_run_imager, not in fake mode
ImageEnds ==
    /\ pc = "image"
    /\ \/ /\ CanRead /\ Len(tasks) > 1
          /\ tasks' = Tail(tasks) /\ pc' = "task" /\ PushImage /\ UNCHANGED result
       \/ /\ CanRead /\ Len(tasks) = 1
          /\ EndTasksWith("OK") /\ PushImage /\ UNCHANGED tasks
       \/ /\ \E r \in Failures : EndTasksWith(r)
          /\ UNCHANGED <<tasks, pushed>>
    /\ UNCHANGED <<kind, asked, caller, drives, settings, temp, simulated, dummy>>

\* what run_imager and run_recorder start again after they have asked the user:
\* a task in fake mode, an imager, the recorder
Resumable(c) ==
    \/ c = "checking" /\ pc = "task" /\ Head(tasks) # "erase"
    \/ c = "imager" /\ pc = "image"
    \/ c = "recorder" /\ pc = "record"

\* MEDIUM_NO_DATA: "the media hasn't data on it: ask for a new one", which is
\* locked again in the middle of the tasks
ImagerAsksSrc ==
    /\ SrcDrive # "none"
    /\ \E c \in {"checking", "imager"} : Resumable(c) /\ caller' = c
    /\ pc' = "ask_src"
    /\ UNCHANGED <<kind, asked, result, drives, settings, work>>

\* files are not conforming to Joliet, or there is no space or no right to write
\* on the hard disc: the user is asked whether to carry on, or where
AskToCarryOn ==
    /\ \E c \in {"checking", "imager", "recorder"} : Resumable(c) /\ caller' = c
    /\ pc' = "question"
    /\ UNCHANGED <<kind, asked, result, drives, settings, work>>

CarryOn ==
    /\ pc = "question"
    /\ Return("OK")
    /\ UNCHANGED <<kind, asked, drives, settings, work>>

\* rejilla_burn_run_recorder: discs are unmounted, and somebody else may have the
\* drive open, as long as he likes
Claim ==
    /\ pc = "claim"
    /\ \/ pc' = "record" /\ UNCHANGED <<caller, result>>
       \/ pc' = "busy" /\ caller' = "recorder" /\ UNCHANGED result
       \/ (\E r \in Failures : EndTasksWith(r)) /\ UNCHANGED caller
    /\ UNCHANGED <<kind, asked, drives, settings, work>>

\* SLOW_DMA: "let it rest for a sec or two", then try again, any number of times
TooSlow ==
    /\ pc = "record" /\ OnDisc
    /\ pc' = "rest" /\ caller' = "recorder"
    /\ UNCHANGED <<kind, asked, result, drives, settings, work>>

SleepEnds ==
    /\ pc \in {"busy", "rest"}
    /\ Return("OK")
    /\ UNCHANGED <<kind, asked, drives, settings, work>>

\* its task, which also makes the image of a copy; a disc is left with data by a
\* recording that was not a simulation
RecordEnds ==
    /\ pc = "record"
    /\ \/ /\ CanRead /\ EndTasksWith("OK")
          /\ IF temp THEN PushImage ELSE UNCHANGED pushed
          /\ IF OnDisc /\ "DUMMY" \notin flags
               THEN \E m \in WithData : media' = [media EXCEPT !["burner"] = m]
               ELSE UNCHANGED media
       \/ (\E r \in Failures : EndTasksWith(r)) /\ UNCHANGED <<media, pushed>>
    /\ UNCHANGED <<kind, asked, caller, locked, dest, src, warned, settings,
                   tasks, temp, simulated, dummy>>

\* the disc is too small or cannot be written, and another one is asked for
\* ("these errors can only come from the dest drive")
RecordAsksDest ==
    /\ pc = "record" /\ OnDisc
    /\ pc' = "ask_dest" /\ caller' = "recorder"
    /\ UNCHANGED <<kind, asked, result, drives, settings, work>>

\* "this error can only come from the source when burning on the fly"
RecordAsksSrc ==
    /\ pc = "record" /\ OnDisc /\ kind \in MayNeedReload
    /\ pc' = "ask_src" /\ caller' = "recorder"
    /\ UNCHANGED <<kind, asked, result, drives, settings, work>>

-----------------------------------------------------------------------------
(* rejilla_burn_record_session, and the rest of record.                    *)

SessionEnds(r) == Leave(IF temp /\ r = "OK" THEN "eject_copy" ELSE "unlock", r)

\* the settings are popped; RETRY starts again, a simulation asks the user, and
\* a single track that has a checksum is compared with the disc, the new top track
EndTasks ==
    /\ pc = "end_tasks"
    /\ pile' = Tail(pile) /\ tasks' = <<>>
    /\ CASE result = "RETRY" ->
              /\ pc' = "run_tasks" /\ flags' = Head(pile)
              /\ UNCHANGED <<result, simulated, pushed>>
         [] result = "OK" /\ ~ToFile /\ dummy ->
              /\ pc' = "simulated" /\ flags' = Head(pile)
              /\ UNCHANGED <<result, simulated, pushed>>
         [] OTHER ->
              \/ /\ pc' = IF temp /\ result = "OK" THEN "eject_copy" ELSE "unlock"
                 /\ flags' = Head(pile) \cup (IF simulated THEN {"DUMMY"} ELSE {})
                 /\ simulated' = FALSE /\ UNCHANGED <<result, pushed>>
              \/ /\ result = "OK" /\ ~ToFile
                 /\ pc' = "reprobe" /\ pushed' = <<"check">> \o pushed /\ flags' = Head(pile)
                 /\ UNCHANGED <<result, simulated>>
    /\ UNCHANGED <<kind, asked, caller, drives, temp, dummy>>

\* the simulation went well: "restart real burning calling ourselves"
DummySuccess ==
    /\ pc = "simulated"
    /\ \/ /\ flags' = flags \ {"DUMMY"} /\ simulated' = TRUE /\ pc' = "run_tasks"
          /\ UNCHANGED result
       \/ \E r \in Failures : Leave("unlock", r)
    /\ UNCHANGED <<kind, asked, caller, drives, pile, tasks, temp, dummy, pushed>>

\* rejilla_burn_reprobe before the check
Reprobe ==
    /\ pc = "reprobe"
    /\ \/ pc' = "check" /\ UNCHANGED <<result, flags, simulated, pushed>>
       \/ SessionEnds("CANCEL") /\ pushed' = Tail(pushed)
    /\ UNCHANGED <<kind, asked, caller, drives, pile, tasks, temp, dummy>>

\* Fault: a check that fails leaves its own track in the session
CheckRealKeeps ==
    /\ pc = "check"
    /\ \/ SessionEnds("OK") /\ pushed' = Tail(pushed)
       \/ SessionEnds("ERR") /\ UNCHANGED pushed
    /\ UNCHANGED <<kind, asked, caller, drives, pile, tasks, temp, dummy>>

\* a check that is cancelled does not fail the session
CheckReal ==
    /\ pc = "check"
    /\ \E r \in {"OK", "ERR"} : SessionEnds(r)
    /\ pushed' = Tail(pushed)
    /\ UNCHANGED <<kind, asked, caller, drives, pile, tasks, temp, dummy>>

\* the image of a copy is done: the source is ejected and a disc asked for
EjectCopy ==
    /\ pc = "eject_copy"
    /\ \/ /\ media' = [media EXCEPT !["burner"] = "none"]
          /\ locked' = locked \ {"burner"} /\ src' = "none" /\ temp' = FALSE
          /\ pc' = "ask_dest" /\ caller' = "copied" /\ UNCHANGED result
       \/ /\ \E r \in Failures : result' = r
          /\ pc' = "unlock" /\ locked' \in {locked, locked \ {"burner"}}
          /\ UNCHANGED <<media, src, temp, caller>>
    /\ UNCHANGED <<kind, asked, dest, warned, settings, tasks, simulated, dummy, pushed>>

-----------------------------------------------------------------------------
(* rejilla_burn_blank and rejilla_burn_check.                              *)

\* rejilla_burn_lock_rewritable_media: a drive that is empty, or holds a disc
\* that cannot be rewritten, is an error, no other disc is asked for
LockRewritable ==
    /\ pc = "lock_dest" /\ kind = "blank"
    /\ dest' = TRUE
    /\ \/ /\ InBurner # "none"
          /\ locked' = locked \cup {"burner"} /\ Return("OK")
       \/ \E r \in Failures : Return(r) /\ UNCHANGED locked
    /\ UNCHANGED <<kind, asked, media, src, warned, settings, work>>

\* rejilla_burn_blank_real: the disc is unmounted, blanked and probed again.
\* Another one is asked for when the plugin says it is not rewritable.
BlankReal ==
    /\ pc = "blank"
    /\ \/ /\ media' = [media EXCEPT !["burner"] = "blank"]
          /\ pc' = "unlock" /\ result' \in {"OK", "CANCEL"} /\ UNCHANGED caller
       \/ /\ media' \in {media, [media EXCEPT !["burner"] = "unfit"]}
          /\ pc' = "unlock" /\ result' \in Failures /\ UNCHANGED caller
       \/ /\ pc' = "ask_dest" /\ caller' = "blanking" /\ UNCHANGED <<media, result>>
    /\ UNCHANGED <<kind, asked, locked, dest, src, warned, settings, work>>

\* rejilla_burn_check of the one track of a session that is a disc: it is looked
\* for and locked only when the track is an image, so that no drive is
CheckDisc ==
    /\ pc = "check_disc"
    /\ pc' = "unlock" /\ result' \in {"OK", "ERR", "CANCEL"}
    /\ UNCHANGED <<kind, asked, caller, drives, settings, work>>

-----------------------------------------------------------------------------
\* Fault: only the destination is unlocked
UnlockDestOnly ==
    /\ pc = "unlock"
    /\ locked' = locked \ (IF dest THEN {"burner"} ELSE {})
    /\ dest' = FALSE /\ src' = "none" /\ pc' = "done"
    /\ UNCHANGED <<kind, asked, caller, result, media, warned, settings, work>>

\* rejilla_burn_unlock_medias, always
Unlock ==
    /\ pc = "unlock"
    /\ locked' = locked \ ({src} \cup (IF dest THEN {"burner"} ELSE {}))
    /\ dest' = FALSE /\ src' = "none" /\ pc' = "done"
    /\ UNCHANGED <<kind, asked, caller, result, media, warned, settings, work>>

Done == pc = "done" /\ UNCHANGED vars

Next ==
    \/ Start \/ LockDest \/ AskDest \/ InsertDest \/ LockSrc \/ AskSrc \/ InsertSrc
    \/ GiveUp \/ RunTasks \/ Warn \/ Plan \/ Task \/ Erased \/ EraseCancelled \/ EraseFails
    \/ AnswerBlankFailure \/ ImageEnds \/ RecordEnds \/ RecordAsksDest \/ RecordAsksSrc
    \/ ImagerAsksSrc \/ AskToCarryOn \/ CarryOn \/ Claim \/ TooSlow \/ SleepEnds
    \/ EndTasks \/ DummySuccess \/ Reprobe \/ CheckReal \/ EjectCopy \/ LockRewritable \/ BlankReal
    \/ CheckDisc \/ Unlock \/ Done
    \/ \E d \in Drives, m \in Media : Swap(d, m)

Spec == Init /\ [][Next]_vars

\* The program goes on, and a user who is asked again and again, or has the
\* recorder sleep again and again, gives up in the end: nothing else ends it.
ProgramStep ==
    \/ Start \/ LockDest \/ AskDest \/ InsertDest \/ LockSrc \/ AskSrc \/ InsertSrc
    \/ RunTasks \/ Warn \/ Plan \/ Task \/ Erased \/ EraseCancelled \/ EraseFails
    \/ AnswerBlankFailure \/ ImageEnds \/ RecordEnds \/ RecordAsksDest \/ RecordAsksSrc
    \/ ImagerAsksSrc \/ AskToCarryOn \/ CarryOn \/ Claim \/ TooSlow \/ SleepEnds
    \/ EndTasks \/ DummySuccess \/ Reprobe \/ CheckReal \/ EjectCopy \/ LockRewritable \/ BlankReal
    \/ CheckDisc \/ Unlock

FairSpec == Spec /\ WF_vars(ProgramStep) /\ SF_vars(GiveUp)

-----------------------------------------------------------------------------
(* Type invariant.                                                         *)
TypeOK ==
    /\ kind \in Kinds /\ asked \subseteq Flags
    /\ pc \in PCs /\ caller \in Callers /\ result \in Results
    /\ media \in [Drives -> Media] /\ locked \subseteq Drives
    /\ dest \in BOOLEAN /\ src \in Drives \cup {"none"} /\ warned \in BOOLEAN
    /\ flags \subseteq Flags /\ pile \in Seq(SUBSET Flags)
    /\ tasks \in Seq({"image", "erase", "record"})
    /\ temp \in BOOLEAN /\ simulated \in BOOLEAN /\ dummy \in BOOLEAN
    /\ pushed \in Seq({"image", "check"})

\* Whatever discs were refused, reloaded or swapped meanwhile, the source's in
\* the middle of the tasks included, no task of a record or a blanking reads or
\* writes a drive that is not locked.
TasksRunLocked ==
    pc \in {"warn", "plan", "task", "erase", "image", "claim", "record", "blank"} =>
        /\ ~ToFile => "burner" \in locked
        /\ kind \in {"clone", "rip"} => "reader" \in locked

\* "We warn the user is going to lose data": the disc being erased is the one
\* the user agreed to lose, not another one loaded since.
EraseIsAgreed == pc = "erase" /\ InBurner \in WithData => warned

\* The same of the disc being recorded, when recording destroys what is on it.
RecordIsAgreed ==
    pc = "record" /\ OnDisc /\ "DUMMY" \notin flags
      /\ (InBurner = "closed" \/ (InBurner = "open" /\ "BLANK" \in flags))
    => warned

\* an erasing task that nobody let go of
ErasingWasCut == tasks # <<>> /\ Head(tasks) = "erase"

\* "Push the session settings to keep the original session untainted": a record
\* gives the session back with its flags and no settings on the pile.  Only when
\* the erasing is cancelled its settings, and nothing else, stay on the pile.  Over
\* its tracks there is at most what was imaged, never the track of a check.
SessionIsUntainted ==
    pc = "done" =>
        /\ \/ flags = asked /\ pile = <<>> /\ tasks = <<>>
           \/ result = "CANCEL" /\ pile = <<asked>> /\ ErasingWasCut
        /\ pushed \in {<<>>, <<"image">>}

\* However a record ends, the drives it locked are unlocked.
DrivesAreReleased == pc = "done" => locked = {} /\ ~dest /\ src = "none"

\* What a record leaves behind: the session as it was, but for the settings that a
\* cancelled erasing leaves on the pile and the images over its tracks, and no
\* locked drive.
RecordLeavesNothing == SessionIsUntainted /\ DrivesAreReleased

\* The source is asked for only where there is a drive to put it in.
SourceAskedHasDrive == pc = "ask_src" => src # "none"

\* No chain of refused discs, questions, sleeps, retries and failures keeps a
\* record going once the user has had enough.
EveryRecordReturns == pc # "idle" ~> pc = "done"
=============================================================================
