------------------------- MODULE RejillaBurnProofs -------------------------
(***************************************************************************)
(* Proofs about RejillaBurn, for every kind of session, any number of      *)
(* imaging tasks and whatever recorders report.                            *)
(***************************************************************************)
EXTENDS RejillaBurn, TLAPS

-----------------------------------------------------------------------------
(* The inductive invariants behind TasksRunLocked, SessionIsUntainted and    *)
(* DrivesAreReleased.                                                        *)
AskingDest == {"lock_dest", "ask_dest", "insert_dest"}
AskingSrc  == {"lock_src", "ask_src", "insert_src"}
Resuming   == {"checking", "imager", "recorder"}
Within     == {"warn", "space", "blank"} \cup Resuming
Checking   == {"reprobe", "check"}

\* Who may be waiting for a disc, for an answer or for some time.
CallerInv ==
    /\ pc \in AskingDest => caller \in {"record", "copied", "blanking", "recorder", "warn", "space", "blank"}
    /\ pc \in AskingSrc  => caller \in {"source", "image"} \cup Resuming
    /\ pc = "question" => caller \in Resuming
    /\ pc \in {"busy", "rest"} => caller = "recorder"
    /\ pc \in AskingDest \cup AskingSrc =>
         /\ caller = "record" => kind \in {"disc", "clone"}
         /\ caller = "copied" => kind = "copy"
         /\ caller = "image" => temp
         /\ temp => caller \in {"image", "warn", "checking", "imager"}
         /\ caller = "source" => kind \in {"clone", "rip"}
         /\ caller = "blanking" => kind = "blank"
    /\ temp => kind = "copy"
    /\ pc = "blank" => kind = "blank"
    /\ pc = "idle" => temp = (kind = "copy")
    /\ pc = "eject_copy" => temp
    /\ temp => pc \notin {"erase", "erase_failed"}
    /\ src \in {"none", DiscDrive}
    /\ src = "burner" => temp

HasImage == pushed \in {<<"image">>, <<"check", "image">>}

\* Over the session's tracks there are the images and, during a check, its
\* track.  The source of a record is not asked for once it is imaged - the
\* recorder apart -, and the disc to copy is imaged before it is ejected.
PushedInv ==
    /\ pc \in Checking => pushed \in {<<"check">>, <<"check", "image">>}
    /\ pc \notin Checking => pushed \in {<<>>, <<"image">>}
    /\ pc = "idle" \/ (pc \in AskingDest /\ caller = "record") => pushed = <<>>
    /\ pc \in AskingSrc /\ temp => ~HasImage
    /\ \/ kind = "copy" /\ ~temp
       \/ temp /\ pc \in {"simulated", "eject_copy"} \cup Checking
       \/ temp /\ pc = "end_tasks" /\ result = "OK"
       => HasImage

\* The running task is the first of the list, the last one is never an erasing
\* one, and imaging a disc to copy it erases none.
TasksInv ==
    /\ \/ pc \in {"task", "erase", "image", "claim", "busy", "record", "rest", "question"}
       \/ pc \in AskingDest \cup AskingSrc /\ caller \in Resuming
       => Len(tasks) > 0 /\ tasks[Len(tasks)] = LastTask
    /\ pc = "erase" => tasks[1] = "erase"
    /\ temp => \A i \in 1 .. Len(tasks) : tasks[i] # "erase"

\* A drive is locked only by the object that will unlock it.  priv->src is
\* forgotten when the source is asked for after it was imaged: its drive had a
\* disc then, that was ejected.
LocksInv ==
    /\ locked \subseteq {src} \cup (IF dest THEN {"burner"} ELSE {})
    /\ HasImage /\ "reader" \in locked => media["reader"] # "none"
    /\ HasImage /\ pc \in {"insert_src", "lock_src"} => "reader" \notin locked
    /\ DrivesAreReleased

Working ==
    \/ pc \in {"run_tasks", "warn", "plan", "task", "erase", "erase_failed", "image", "claim",
              "busy", "record", "rest", "question", "simulated"}
    \/ pc = "end_tasks" /\ result \in {"OK", "RETRY"}

\* What a run of the tasks needs is locked, and what it asks for is all that
\* it gives up meanwhile.
HeldInv ==
    /\ ~ToFile /\ (Working \/ (pc \in AskingSrc /\ ~temp)) => "burner" \in locked
    /\ pc = "blank" => "burner" \in locked
    /\ kind \in {"clone", "rip"} /\ (Working \/ (pc \in AskingDest /\ caller \in Within))
         => "reader" \in locked

Inside ==
    \/ pc \in {"warn", "plan", "task", "erase", "erase_failed", "image", "claim", "busy",
              "record", "rest", "question", "end_tasks"}
    \/ pc \in AskingDest \cup AskingSrc /\ caller \in Within

\* the settings the session has outside run_tasks
OwnFlags == IF simulated THEN asked \ {"DUMMY"} ELSE asked

\* One copy of the session's settings is on the pile inside run_tasks, and none
\* outside, where no tasks are left either, unless it was left by an erasing that
\* was cancelled.
SettingsInv ==
    /\ IF Inside
         THEN pile = <<OwnFlags>> /\ ("DUMMY" \in flags => "DUMMY" \in OwnFlags)
         ELSE \/ pile = <<>> /\ flags = OwnFlags /\ tasks = <<>>
              \/ /\ pc \in {"unlock", "done"} /\ result = "CANCEL"
                 /\ pile = <<asked>> /\ ErasingWasCut
    /\ simulated => /\ "DUMMY" \in asked /\ pc # "erase"
                    /\ Inside \/ pc \in {"run_tasks", "simulated"} \cup Checking
    /\ pc = "simulated" => dummy
    /\ dummy => "DUMMY" \in asked

ToErase == \E i \in 1 .. Len(tasks) : tasks[i] = "erase"

\* before the recorder is reached
Preparing ==
    \/ pc \in {"task", "erase", "image"}
    \/ pc \in AskingSrc \cup {"question"} /\ caller \in {"checking", "imager"}

\* The user agrees between the check of the flags and the tasks, while the disc
\* in the burner is locked: what is left to erase was agreed to, and importing
\* the last session does not bring back a BLANK that the check would have kept.
AgreedInv ==
    /\ ToFile => ~ToErase
    /\ pc = "warn" /\ OnDisc /\ InBurner = "open" /\ "BLANK" \in OwnFlags => "BLANK" \in flags
    /\ pc = "plan" /\ OnDisc /\ "BLANK" \in flags /\ InBurner \in WithData => warned
    /\ Preparing /\ ToErase /\ InBurner \in WithData => warned

-----------------------------------------------------------------------------

LEMMA TaskListIs ==
  ASSUME NEW n \in Nat, NEW b \in BOOLEAN
  PROVE  /\ TaskList(n, b) \in Seq({"image", "erase", "record"})
         /\ Len(TaskList(n, b)) > 0
         /\ TaskList(n, b)[Len(TaskList(n, b))] = LastTask
         /\ ~b => \A i \in 1 .. Len(TaskList(n, b)) : TaskList(n, b)[i] # "erase"
<1> DEFINE last == IF b THEN n + 2 ELSE n + 1
<1>1. last \in Nat \ {0} /\ 1 .. last = DOMAIN TaskList(n, b)
  BY DEF TaskList
<1>2. \A i \in 1 .. last : TaskList(n, b)[i] \in {"image", "erase", "record"}
  BY DEF TaskList, LastTask
<1>3. TaskList(n, b) \in [1 .. last -> {"image", "erase", "record"}]
  BY <1>2 DEF TaskList
<1>4. TaskList(n, b) \in Seq({"image", "erase", "record"}) /\ Len(TaskList(n, b)) = last
  BY <1>1, <1>3
<1>5. TaskList(n, b)[last] = LastTask
  BY DEF TaskList
<1>6. ~b => \A i \in 1 .. last : TaskList(n, b)[i] # "erase"
  BY DEF TaskList, LastTask
<1>q. QED
  BY <1>1, <1>4, <1>5, <1>6

LEMMA Pushes ==
  /\ Head(<<"image">>) = "image" /\ Head(<<"check">>) = "check"
  /\ Head(<<"check", "image">>) = "check"
  /\ <<"image">> \o <<>> = <<"image">> /\ <<"check">> \o <<>> = <<"check">>
  /\ <<"check">> \o <<"image">> = <<"check", "image">>
  /\ Tail(<<"check">>) = <<>> /\ Tail(<<"check", "image">>) = <<"image">>
  /\ <<>> \notin {<<"image">>, <<"check">>, <<"check", "image">>}
  /\ <<"check">> \notin {<<"image">>, <<"check", "image">>}
  /\ {<<>>, <<"image">>, <<"check">>, <<"check", "image">>} \subseteq Seq({"image", "check"})
<1>1. Head(<<"image">>) = "image" /\ Head(<<"check">>) = "check" /\ Head(<<"check", "image">>) = "check"
  OBVIOUS
<1>2. <<"image">> \o <<>> = <<"image">> /\ <<"check">> \o <<>> = <<"check">>
  OBVIOUS
<1>8. <<"check">> \o <<"image">> = <<"check", "image">>
  <2>1. /\ <<"check">> \o <<"image">> \in Seq({"image", "check"})
        /\ Len(<<"check">> \o <<"image">>) = 2
        /\ (<<"check">> \o <<"image">>)[1] = "check" /\ (<<"check">> \o <<"image">>)[2] = "image"
    OBVIOUS
  <2>2. \A s \in Seq({"image", "check"}) : Len(s) = 2 => s = <<s[1], s[2]>>
    OBVIOUS
  <2>q. QED
    BY <2>1, <2>2
<1>3. \A x, y : Tail(<<x>>) = <<>> /\ Tail(<<x, y>>) = <<y>>
  OBVIOUS
<1>4. \A x, y : <<>> # <<x>> /\ <<>> # <<x, y>>
  OBVIOUS
<1>5. \A x, y, z : <<z>> # <<x, y>>
  OBVIOUS
<1>6. <<"check">> # <<"image">>
  BY <1>1
<1>7. {<<>>, <<"image">>, <<"check">>, <<"check", "image">>} \subseteq Seq({"image", "check"})
  OBVIOUS
<1>q. QED
  BY <1>1, <1>2, <1>3, <1>4, <1>5, <1>6, <1>7, <1>8

LEMMA ImagedIs ==
  ASSUME PushedInv, pc \notin Checking
  PROVE  Imaged <=> HasImage
<1>1. pushed = <<>> \/ pushed = <<"image">>
  BY DEF PushedInv
<1>2. CASE pushed = <<>>
  BY <1>2, Pushes DEF Imaged, HasImage
<1>3. CASE pushed = <<"image">>
  BY <1>3, Pushes DEF Imaged, HasImage
<1>q. QED
  BY <1>1, <1>2, <1>3

LEMMA ImagePushed ==
  ASSUME PushedInv, pc \notin Checking, PushImage
  PROVE  pushed' = <<"image">> /\ HasImage'
<1>1. pushed = <<>> \/ pushed = <<"image">>
  BY DEF PushedInv
<1>2. CASE pushed = <<>>
  BY <1>2, Pushes DEF PushImage, Imaged, HasImage
<1>3. CASE pushed = <<"image">>
  BY <1>3, Pushes DEF PushImage, Imaged, HasImage
<1>q. QED
  BY <1>1, <1>2, <1>3

LEMMA CheckPushed ==
  ASSUME PushedInv, pc \notin Checking, pushed' = <<"check">> \o pushed
  PROVE  pushed' \in {<<"check">>, <<"check", "image">>} /\ (HasImage' <=> HasImage)
<1>1. pushed = <<>> \/ pushed = <<"image">>
  BY DEF PushedInv
<1>2. CASE pushed = <<>>
  BY <1>2, Pushes DEF HasImage
<1>3. CASE pushed = <<"image">>
  BY <1>3, Pushes DEF HasImage
<1>q. QED
  BY <1>1, <1>2, <1>3

LEMMA CheckPopped ==
  ASSUME PushedInv, pc \in Checking, pushed' = Tail(pushed)
  PROVE  pushed' \in {<<>>, <<"image">>} /\ (HasImage' <=> HasImage)
<1>1. pushed = <<"check">> \/ pushed = <<"check", "image">>
  BY DEF PushedInv
<1>2. CASE pushed = <<"check">>
  BY <1>2, Pushes DEF HasImage
<1>3. CASE pushed = <<"check", "image">>
  BY <1>3, Pushes DEF HasImage
<1>q. QED
  BY <1>1, <1>2, <1>3

LEMMA PushedStep ==
  ASSUME TypeOK, CallerInv, PushedInv, TasksInv, [Next]_vars
  PROVE  PushedInv'
<1> USE DEF TypeOK, CallerInv, PushedInv, SrcDrive, DiscDrive, ToFile, OnDisc, AskingDest, AskingSrc,
            Resuming, Within, Checking, Failures
<1>u. UNCHANGED pushed => (HasImage' <=> HasImage)
  BY DEF HasImage
<1>i. pc \notin Checking => (Imaged <=> HasImage)
  BY ImagedIs
<1>0. CASE UNCHANGED vars
  BY <1>0, <1>u DEF vars, drives, settings, work
<1>1. CASE Start
  <2>1. pushed = <<>> /\ pushed' = <<>> /\ pc = "idle" /\ UNCHANGED <<kind, temp, locked, media, src, dest>>
    BY <1>1 DEF Start, PushedInv, drives, work
  <2>2. ~HasImage /\ ~HasImage'
    BY <2>1, Pushes DEF HasImage
  <2>3. /\ pc' \in {"run_tasks", "lock_src", "lock_dest", "check_disc"}
        /\ pc' = "run_tasks" => kind = "file"
        /\ pc' = "lock_src" => kind \in {"copy", "rip"}
        /\ pc' = "lock_dest" => caller' \in {"record", "blanking"}
    BY <1>1, KindsAssumption DEF Start, AllKinds
  <2>q. QED
    BY <2>1, <2>2, <2>3
<1>2. CASE LockDest
  BY <1>2, <1>u, <1>i DEF LockDest, Return, Onward, drives, settings, work
<1>3. CASE AskDest
  BY <1>3, <1>u, <1>i DEF AskDest, Ask, Ejects, Return, Onward, drives, settings, work
<1>4. CASE InsertDest
  BY <1>4, <1>u, <1>i DEF InsertDest, Insert, drives, settings, work
<1>5. CASE LockSrc
  BY <1>5, <1>u, <1>i DEF LockSrc, Return, Onward, drives, settings, work
<1>6. CASE AskSrc
  BY <1>6, <1>u, <1>i DEF AskSrc, Ask, Ejects, Return, Onward, drives, settings, work
<1>7. CASE InsertSrc
  BY <1>7, <1>u, <1>i DEF InsertSrc, Insert, drives, settings, work
<1>8. CASE GiveUp
  BY <1>8, <1>u, <1>i DEF GiveUp, Waits, Return, Onward, drives, settings, work
<1>9. CASE RunTasks
  BY <1>9, <1>u, <1>i DEF RunTasks, EndTasksWith, drives, settings, work
<1>10. CASE Warn
  BY <1>10, <1>u, <1>i DEF Warn, EndTasksWith, drives, settings, work
<1>11. CASE Plan
  BY <1>11, <1>u, <1>i DEF Plan, EndTasksWith, drives, settings, work
<1>12. CASE Task
  BY <1>12, <1>u, <1>i DEF Task, EndTasksWith, drives, settings, work
<1>13. CASE Erased
  BY <1>13, <1>u, <1>i DEF Erased, EndTasksWith, drives, settings, work
<1>14. CASE EraseCancelled
  BY <1>14, <1>u, <1>i DEF EraseCancelled, Leave, drives, settings, work
<1>15. CASE EraseFails
  BY <1>15, <1>u, <1>i DEF EraseFails, drives, settings, work
<1>16. CASE AnswerBlankFailure
  BY <1>16, <1>u, <1>i DEF AnswerBlankFailure, EndTasksWith, drives, settings, work
<1>17. CASE ImageEnds
  BY <1>17, <1>u, <1>i, ImagePushed DEF ImageEnds, EndTasksWith, drives, settings, work
<1>18. CASE RecordEnds
  BY <1>18, <1>u, <1>i, ImagePushed DEF RecordEnds, EndTasksWith, drives, settings, work
<1>19. CASE RecordAsksDest
  BY <1>19, <1>u, <1>i DEF RecordAsksDest, drives, settings, work
<1>20. CASE RecordAsksSrc
  BY <1>20, <1>u, <1>i DEF RecordAsksSrc, drives, settings, work
<1>21. CASE EndTasks
  BY <1>21, <1>u, <1>i, CheckPushed DEF EndTasks, drives, settings, work
<1>22. CASE DummySuccess
  BY <1>22, <1>u, <1>i DEF DummySuccess, Leave, drives, settings, work
<1>23. CASE Reprobe
  BY <1>23, <1>u, <1>i, CheckPopped DEF Reprobe, SessionEnds, Leave, drives, settings, work
<1>24. CASE CheckReal
  BY <1>24, <1>u, <1>i, CheckPopped DEF CheckReal, SessionEnds, Leave, drives, settings, work
<1>25. CASE EjectCopy
  BY <1>25, <1>u, <1>i DEF EjectCopy, drives, settings, work
<1>26. CASE Unlock
  BY <1>26, <1>u, <1>i DEF Unlock, drives, settings, work
<1>27. CASE Done
  BY <1>27, <1>u, <1>i DEF Done, vars, drives, settings, work
<1>28. ASSUME NEW d \in Drives, NEW m \in Media, Swap(d, m)
     PROVE  PushedInv'
  BY <1>28, <1>u DEF Swap, drives, settings, work
<1>29. CASE LockRewritable
  BY <1>29, <1>u, <1>i DEF LockRewritable, Return, Onward, drives, settings, work
<1>30. CASE BlankReal
  BY <1>30, <1>u, <1>i DEF BlankReal, drives, settings, work
<1>31. CASE CheckDisc
  BY <1>31, <1>u, <1>i DEF CheckDisc, drives, settings, work
<1>32. CASE ImagerAsksSrc
  BY <1>32, <1>u, <1>i DEF ImagerAsksSrc, Resumable, drives, settings, work
<1>33. CASE AskToCarryOn
  BY <1>33, <1>u, <1>i DEF AskToCarryOn, Resumable, drives, settings, work
<1>34. CASE CarryOn
  BY <1>34, <1>u, <1>i DEF CarryOn, Return, Onward, drives, settings, work
<1>35. CASE Claim
  BY <1>35, <1>u, <1>i DEF Claim, EndTasksWith, drives, settings, work
<1>36. CASE TooSlow
  BY <1>36, <1>u, <1>i DEF TooSlow, drives, settings, work
<1>37. CASE SleepEnds
  BY <1>37, <1>u, <1>i DEF SleepEnds, Return, Onward, drives, settings, work
<1>q. QED
  BY <1>0, <1>1, <1>2, <1>3, <1>4, <1>5, <1>6, <1>7, <1>8, <1>9, <1>10, <1>11, <1>12, <1>13, <1>14, <1>15, <1>16, <1>17, <1>18, <1>19,
     <1>20, <1>21, <1>22, <1>23, <1>24, <1>25, <1>26, <1>27, <1>28, <1>29, <1>30, <1>31, <1>32, <1>33, <1>34, <1>35, <1>36, <1>37 DEF Next

LEMMA CallerStep ==
  ASSUME TypeOK, CallerInv, PushedInv, TasksInv, [Next]_vars
  PROVE  CallerInv'
<1> USE DEF TypeOK, CallerInv, PushedInv, TasksInv, SrcDrive, DiscDrive, ToFile, OnDisc, AskingDest, AskingSrc, Resuming, Within, Checking, PCs, Callers, Drives, AllKinds
<1>i. pc \notin Checking => (Imaged <=> HasImage)
  BY ImagedIs
<1>u. UNCHANGED pushed => (HasImage' <=> HasImage)
  BY DEF HasImage
<1>0. CASE UNCHANGED vars
  BY <1>0, <1>i, <1>u DEF vars, drives, settings, work
<1>1. CASE Start
  BY <1>1, KindsAssumption, <1>i, <1>u DEF Start, drives, settings, work
<1>2. CASE LockDest
  BY <1>2, <1>i, <1>u DEF LockDest, Return, Onward, drives, settings, work
<1>3. CASE AskDest
  BY <1>3, <1>i, <1>u DEF AskDest, Ask, Ejects, Return, Onward, drives, settings, work
<1>4. CASE InsertDest
  BY <1>4, <1>i, <1>u DEF InsertDest, Insert, drives, settings, work
<1>5. CASE LockSrc
  BY <1>5, <1>i, <1>u DEF LockSrc, Return, Onward, drives, settings, work
<1>6. CASE AskSrc
  BY <1>6, <1>i, <1>u DEF AskSrc, Ask, Ejects, Return, Onward, drives, settings, work
<1>7. CASE InsertSrc
  BY <1>7, <1>i, <1>u DEF InsertSrc, Insert, drives, settings, work
<1>8. CASE GiveUp
  BY <1>8, <1>i, <1>u DEF GiveUp, Waits, Return, Onward, drives, settings, work
<1>9. CASE RunTasks
  BY <1>9, <1>i, <1>u DEF RunTasks, EndTasksWith, Checked, Supported, Compulsory, drives, settings, work
<1>10. CASE Warn
  BY <1>10, <1>i, <1>u DEF Warn, EndTasksWith, Checked, Supported, Compulsory, drives, settings, work
<1>11. CASE Plan
  BY <1>11, <1>i, <1>u DEF Plan, TaskList, EndTasksWith, drives, settings, work
<1>12. CASE Task
  BY <1>12, <1>i, <1>u DEF Task, EndTasksWith, drives, settings, work
<1>13. CASE Erased
  BY <1>13, <1>i, <1>u DEF Erased, EndTasksWith, Checked, Supported, Compulsory, drives, settings, work
<1>14. CASE EraseCancelled
  BY <1>14, <1>i, <1>u DEF EraseCancelled, Leave, drives, settings, work
<1>15. CASE EraseFails
  BY <1>15, <1>i, <1>u DEF EraseFails, drives, settings, work
<1>16. CASE AnswerBlankFailure
  BY <1>16, <1>i, <1>u DEF AnswerBlankFailure, EndTasksWith, drives, settings, work
<1>17. CASE ImageEnds
  BY <1>17, <1>i, <1>u, ImagePushed DEF ImageEnds, EndTasksWith, drives, settings, work
<1>18. CASE RecordEnds
  BY <1>18, <1>i, <1>u, ImagePushed DEF RecordEnds, EndTasksWith, drives, settings, work
<1>19. CASE RecordAsksDest
  BY <1>19, <1>i, <1>u DEF RecordAsksDest, drives, settings, work
<1>20. CASE RecordAsksSrc
  BY <1>20, <1>i, <1>u DEF RecordAsksSrc, drives, settings, work
<1>21. CASE EndTasks
  BY <1>21, <1>i, <1>u, CheckPushed DEF EndTasks, drives, settings, work
<1>22. CASE DummySuccess
  BY <1>22, <1>i, <1>u DEF DummySuccess, Leave, drives, settings, work
<1>23. CASE Reprobe
  BY <1>23, <1>i, <1>u, CheckPopped DEF Reprobe, SessionEnds, Leave, drives, settings, work
<1>24. CASE CheckReal
  BY <1>24, <1>i, <1>u, CheckPopped DEF CheckReal, SessionEnds, Leave, drives, settings, work
<1>25. CASE EjectCopy
  BY <1>25, <1>i, <1>u DEF EjectCopy, drives, settings, work
<1>26. CASE Unlock
  BY <1>26, <1>i, <1>u DEF Unlock, drives, settings, work
<1>27. CASE Done
  BY <1>27, <1>i, <1>u DEF Done, vars, drives, settings, work
<1>28. ASSUME NEW d \in Drives, NEW m \in Media, Swap(d, m)
     PROVE  CallerInv'
  BY <1>28, <1>i, <1>u DEF Swap, drives, settings, work
<1>29. CASE LockRewritable
  BY <1>29, <1>i, <1>u DEF LockRewritable, Return, Onward, drives, settings, work
<1>30. CASE BlankReal
  BY <1>30, <1>i, <1>u DEF BlankReal, drives, settings, work
<1>31. CASE CheckDisc
  BY <1>31, <1>i, <1>u DEF CheckDisc, drives, settings, work
<1>32. CASE ImagerAsksSrc
  BY <1>32, <1>i, <1>u DEF ImagerAsksSrc, Resumable, drives, settings, work
<1>33. CASE AskToCarryOn
  BY <1>33, <1>i, <1>u DEF AskToCarryOn, Resumable, drives, settings, work
<1>34. CASE CarryOn
  BY <1>34, <1>i, <1>u DEF CarryOn, Return, Onward, drives, settings, work
<1>35. CASE Claim
  BY <1>35, <1>i, <1>u DEF Claim, EndTasksWith, drives, settings, work
<1>36. CASE TooSlow
  BY <1>36, <1>i, <1>u DEF TooSlow, drives, settings, work
<1>37. CASE SleepEnds
  BY <1>37, <1>i, <1>u DEF SleepEnds, Return, Onward, drives, settings, work
<1>q. QED
  BY <1>0, <1>1, <1>2, <1>3, <1>4, <1>5, <1>6, <1>7, <1>8, <1>9, <1>10, <1>11, <1>12, <1>13, <1>14, <1>15, <1>16, <1>17, <1>18, <1>19, <1>20, <1>21, <1>22, <1>23, <1>24, <1>25, <1>26, <1>27, <1>28, <1>29, <1>30, <1>31, <1>32, <1>33, <1>34,
     <1>35, <1>36, <1>37 DEF Next

LEMMA CheckedIs ==
  ASSUME NEW f \in SUBSET Flags, NEW m, NEW g \in Checked(f, m)
  PROVE  g \in SUBSET Flags /\ ("DUMMY" \in g => "DUMMY" \in f)
<1>1. PICK s : g = (f \cap s) \cup Compulsory(m)
  BY DEF Checked
<1>2. Compulsory(m) \in SUBSET {"BLANK"}
  BY DEF Compulsory
<1>q. QED
  BY <1>1, <1>2 DEF Flags

LEMMA PileTop ==
  ASSUME TypeOK, SettingsInv, Inside
  PROVE  /\ pile = <<OwnFlags>> /\ Head(pile) = OwnFlags /\ Tail(pile) = <<>>
         /\ OwnFlags \in SUBSET Flags
<1>1. pile = <<OwnFlags>>
  BY DEF SettingsInv
<1>2. OwnFlags \in SUBSET Flags
  BY DEF OwnFlags, TypeOK
<1>3. \A x : Head(<<x>>) = x /\ Tail(<<x>>) = <<>>
  OBVIOUS
<1>q. QED
  BY <1>1, <1>2, <1>3

LEMMA FirstTask ==
  ASSUME TypeOK, TasksInv
  PROVE  /\ pc \in {"task", "erase", "image", "record"} =>
              Head(tasks) \in {"image", "erase", "record"}
         /\ Len(tasks) > 1 =>
              /\ Tail(tasks) \in Seq({"image", "erase", "record"})
              /\ Len(Tail(tasks)) > 0
              /\ Tail(tasks)[Len(Tail(tasks))] = tasks[Len(tasks)]
              /\ \A i \in 1 .. Len(Tail(tasks)) : Tail(tasks)[i] = tasks[i + 1]
         /\ pc \in {"task", "erase"} /\ Head(tasks) = "erase" => Len(tasks) > 1
<1>1. tasks \in Seq({"image", "erase", "record"}) /\ Len(tasks) \in Nat
  BY DEF TypeOK
<1>2. Len(tasks) > 0 => Head(tasks) = tasks[1] /\ tasks[1] \in {"image", "erase", "record"}
  BY <1>1
<1>3. pc \in {"task", "erase", "image", "record"} => Len(tasks) > 0
  BY DEF TasksInv
<1>4. Len(tasks) > 1 =>
        /\ Tail(tasks) \in Seq({"image", "erase", "record"})
        /\ Len(Tail(tasks)) = Len(tasks) - 1
        /\ \A i \in 1 .. Len(tasks) - 1 : Tail(tasks)[i] = tasks[i + 1]
  BY <1>1
<1>5. pc \in {"task", "erase"} /\ tasks[1] = "erase" => Len(tasks) # 1
  BY DEF TasksInv, LastTask
<1>6. Len(tasks) > 1 => Len(tasks) - 1 \in 1 .. Len(tasks) - 1
  BY <1>1
<1>7. Len(tasks) > 1 => Tail(tasks)[Len(tasks) - 1] = tasks[Len(tasks)]
  BY <1>1, <1>4, <1>6
<1>8. ASSUME pc \in {"task", "erase"}, Head(tasks) = "erase"
      PROVE  Len(tasks) > 1
  <2>1. Len(tasks) > 0 /\ tasks[1] = "erase"
    BY <1>2, <1>3, <1>8
  <2>2. Len(tasks) # 1
    BY <1>5, <1>8, <2>1
  <2>3. \A n \in Nat : n > 0 /\ n # 1 => n > 1
    OBVIOUS
  <2>4. Len(tasks) \in Nat
    BY <1>1
  <2>5. Len(tasks) > 0 /\ Len(tasks) # 1
    BY <2>1, <2>2
  <2>q. QED
    BY <2>3, <2>4, <2>5
<1>9. pc \in {"task", "erase", "image", "record"} => Head(tasks) \in {"image", "erase", "record"}
  BY <1>2, <1>3
<1>10. ASSUME Len(tasks) > 1
       PROVE  /\ Tail(tasks) \in Seq({"image", "erase", "record"})
              /\ Len(Tail(tasks)) > 0
              /\ Tail(tasks)[Len(Tail(tasks))] = tasks[Len(tasks)]
              /\ \A i \in 1 .. Len(Tail(tasks)) : Tail(tasks)[i] = tasks[i + 1]
  <2>1. Len(tasks) - 1 > 0
    BY <1>1, <1>10
  <2>q. QED
    BY <1>4, <1>7, <1>10, <2>1
<1>q. QED
  BY <1>8, <1>9, <1>10

LEMMA TypeStep ==
  ASSUME TypeOK, CallerInv, PushedInv', TasksInv, SettingsInv, [Next]_vars
  PROVE  TypeOK'
<1>p. pushed' \in Seq({"image", "check"})
  BY Pushes DEF PushedInv
<1> USE DEF TypeOK, PCs, Callers, Drives, AllKinds, Results, Flags, Media, Failures, SrcDrive, DiscDrive, Writable, WithData
<1>0. CASE UNCHANGED vars
  BY <1>0 DEF vars, drives, settings, work
<1>1. CASE Start
  BY <1>1 DEF Start, drives, settings, work
<1>2. CASE LockDest
  BY <1>2 DEF LockDest, Return, Onward, drives, settings, work
<1>3. CASE AskDest
  BY <1>3 DEF AskDest, Ask, Ejects, Return, Onward, drives, settings, work
<1>4. CASE InsertDest
  BY <1>4 DEF InsertDest, Insert, drives, settings, work
<1>5. CASE LockSrc
  BY <1>5 DEF LockSrc, Return, Onward, drives, settings, work
<1>6. CASE AskSrc
  BY <1>6 DEF AskSrc, Ask, Ejects, Return, Onward, drives, settings, work
<1>7. CASE InsertSrc
  BY <1>7 DEF InsertSrc, Insert, drives, settings, work
<1>8. CASE GiveUp
  BY <1>8 DEF GiveUp, Waits, Return, Onward, drives, settings, work
<1>9. CASE RunTasks
<2>1. <<flags>> \o pile \in Seq(SUBSET Flags)
  BY DEF TypeOK, Flags
<2>2. flags' \in SUBSET Flags
  BY <1>9, CheckedIs DEF RunTasks
<2>a. /\ kind' \in Kinds /\ asked' \subseteq Flags /\ pc' \in PCs /\ caller' \in Callers
      /\ result' \in Results
  BY <1>9, <2>1, <2>2 DEF RunTasks, EndTasksWith, Checked, Supported, Compulsory, drives, settings, work
<2>b. /\ media' \in [Drives -> Media] /\ locked' \subseteq Drives
      /\ dest' \in BOOLEAN /\ src' \in Drives \cup {"none"} /\ warned' \in BOOLEAN
  BY <1>9, <2>1, <2>2 DEF RunTasks, EndTasksWith, Checked, Supported, Compulsory, drives, settings, work
<2>c. flags' \subseteq Flags /\ pile' \in Seq(SUBSET Flags)
  BY <1>9, <2>1, <2>2 DEF RunTasks, EndTasksWith, Checked, Supported, Compulsory, drives, settings, work
<2>d. tasks' \in Seq({"image", "erase", "record"})
  BY <1>9, <2>1, <2>2 DEF RunTasks, EndTasksWith, Checked, Supported, Compulsory, drives, settings, work
<2>e. temp' \in BOOLEAN /\ simulated' \in BOOLEAN /\ dummy' \in BOOLEAN
      /\ pushed' \in Seq({"image", "check"})
  BY <1>p, <1>9 DEF RunTasks, EndTasksWith, Checked, Supported, Compulsory, drives, settings, work
<2>q. QED
  BY <2>a, <2>b, <2>c, <2>d, <2>e
<1>10. CASE Warn
<2>1. Inside
  BY <1>10 DEF Warn, Inside
<2>2. Head(pile) \cup {"MERGE"} \in SUBSET Flags
  BY <2>1, PileTop DEF Flags
<2>3. \A f : f \in Checked(Head(pile) \cup {"MERGE"}, InBurner) => f \in SUBSET Flags
  BY <2>2, CheckedIs
<2>a. /\ kind' \in Kinds /\ asked' \subseteq Flags /\ pc' \in PCs /\ caller' \in Callers
      /\ result' \in Results
  BY <1>10, <2>3 DEF Warn, EndTasksWith, Checked, Supported, Compulsory, drives, settings, work
<2>b. /\ media' \in [Drives -> Media] /\ locked' \subseteq Drives
      /\ dest' \in BOOLEAN /\ src' \in Drives \cup {"none"} /\ warned' \in BOOLEAN
  BY <1>10, <2>3 DEF Warn, EndTasksWith, Checked, Supported, Compulsory, drives, settings, work
<2>c. flags' \subseteq Flags /\ pile' \in Seq(SUBSET Flags)
  BY <1>10, <2>3 DEF Warn, EndTasksWith, Checked, Supported, Compulsory, drives, settings, work
<2>d. tasks' \in Seq({"image", "erase", "record"})
  BY <1>10, <2>3 DEF Warn, EndTasksWith, Checked, Supported, Compulsory, drives, settings, work
<2>e. temp' \in BOOLEAN /\ simulated' \in BOOLEAN /\ dummy' \in BOOLEAN
      /\ pushed' \in Seq({"image", "check"})
  BY <1>p, <1>10 DEF Warn, EndTasksWith, Checked, Supported, Compulsory, drives, settings, work
<2>q. QED
  BY <2>a, <2>b, <2>c, <2>d, <2>e
<1>11. CASE Plan
<2>a. /\ kind' \in Kinds /\ asked' \subseteq Flags /\ pc' \in PCs /\ caller' \in Callers
      /\ result' \in Results
  BY <1>11, TaskListIs, BurnAssumption DEF Plan, EndTasksWith, drives, settings, work
<2>b. /\ media' \in [Drives -> Media] /\ locked' \subseteq Drives
      /\ dest' \in BOOLEAN /\ src' \in Drives \cup {"none"} /\ warned' \in BOOLEAN
  BY <1>11, TaskListIs, BurnAssumption DEF Plan, EndTasksWith, drives, settings, work
<2>c. flags' \subseteq Flags /\ pile' \in Seq(SUBSET Flags)
  BY <1>11, TaskListIs, BurnAssumption DEF Plan, EndTasksWith, drives, settings, work
<2>d. tasks' \in Seq({"image", "erase", "record"})
  <3>1. CASE \E n \in 0 .. MaxImagers, b \in BOOLEAN : tasks' = TaskList(n, b)
    BY <3>1, TaskListIs, BurnAssumption
  <3>2. CASE UNCHANGED tasks
    BY <3>2
  <3>q. QED
    BY <1>11, <3>1, <3>2 DEF Plan
<2>e. temp' \in BOOLEAN /\ simulated' \in BOOLEAN /\ dummy' \in BOOLEAN
      /\ pushed' \in Seq({"image", "check"})
  BY <1>p, <1>11 DEF Plan, EndTasksWith, drives, settings, work
<2>q. QED
  BY <2>a, <2>b, <2>c, <2>d, <2>e
<1>12. CASE Task
<2>1. /\ UNCHANGED <<kind, asked, drives, settings, temp, simulated, pushed>> /\ pc = "task"
      /\ dummy' = dummy \/ dummy' = TRUE \/ dummy' = FALSE
  BY <1>12 DEF Task
<2>2. pc' \in PCs /\ caller' \in Callers /\ result' \in Results
  BY <1>12 DEF Task, EndTasksWith
<2>3. tasks' \in Seq({"image", "erase", "record"})
  BY <1>12, FirstTask DEF Task
<2>4. dummy' \in BOOLEAN
  BY <2>1
<2>q. QED
  BY <2>1, <2>2, <2>3, <2>4 DEF drives, settings
<1>13. CASE Erased
<2>1. Inside /\ Head(tasks) = "erase" /\ Len(tasks) > 1
  BY <1>13, FirstTask DEF Erased, Inside, TasksInv
<2>2. \A f : f \in Checked(Head(pile), "blank") => f \in SUBSET Flags
  BY <2>1, PileTop, CheckedIs
<2>a. /\ kind' \in Kinds /\ asked' \subseteq Flags /\ pc' \in PCs /\ caller' \in Callers
      /\ result' \in Results
  BY <1>13, <2>1, <2>2, FirstTask DEF Erased, EndTasksWith, Checked, Supported, Compulsory, drives, settings, work
<2>b. /\ media' \in [Drives -> Media] /\ locked' \subseteq Drives
      /\ dest' \in BOOLEAN /\ src' \in Drives \cup {"none"} /\ warned' \in BOOLEAN
  BY <1>13, <2>1, <2>2, FirstTask DEF Erased, EndTasksWith, Checked, Supported, Compulsory, drives, settings, work
<2>c. flags' \subseteq Flags /\ pile' \in Seq(SUBSET Flags)
  BY <1>13, <2>1, <2>2, FirstTask DEF Erased, EndTasksWith, Checked, Supported, Compulsory, drives, settings, work
<2>d. tasks' \in Seq({"image", "erase", "record"})
  BY <1>13, <2>1, <2>2, FirstTask DEF Erased, EndTasksWith, Checked, Supported, Compulsory, drives, settings, work
<2>e. temp' \in BOOLEAN /\ simulated' \in BOOLEAN /\ dummy' \in BOOLEAN
      /\ pushed' \in Seq({"image", "check"})
  BY <1>p, <1>13 DEF Erased, EndTasksWith, Checked, Supported, Compulsory, drives, settings, work
<2>q. QED
  BY <2>a, <2>b, <2>c, <2>d, <2>e
<1>14. CASE EraseCancelled
<2>1. <<>> \in Seq({"image", "erase", "record"})
  OBVIOUS
<2>a. /\ kind' \in Kinds /\ asked' \subseteq Flags /\ pc' \in PCs /\ caller' \in Callers
      /\ result' \in Results
  BY <1>14, <2>1 DEF EraseCancelled, Leave, drives, settings, work
<2>b. /\ media' \in [Drives -> Media] /\ locked' \subseteq Drives
      /\ dest' \in BOOLEAN /\ src' \in Drives \cup {"none"} /\ warned' \in BOOLEAN
  BY <1>14, <2>1 DEF EraseCancelled, Leave, drives, settings, work
<2>c. flags' \subseteq Flags /\ pile' \in Seq(SUBSET Flags)
  BY <1>14, <2>1 DEF EraseCancelled, Leave, drives, settings, work
<2>d. tasks' \in Seq({"image", "erase", "record"})
  BY <1>14, <2>1 DEF EraseCancelled, Leave, drives, settings, work
<2>e. temp' \in BOOLEAN /\ simulated' \in BOOLEAN /\ dummy' \in BOOLEAN
      /\ pushed' \in Seq({"image", "check"})
  BY <1>p, <1>14 DEF EraseCancelled, Leave, drives, settings, work
<2>q. QED
  BY <2>a, <2>b, <2>c, <2>d, <2>e
<1>15. CASE EraseFails
  BY <1>15 DEF EraseFails, drives, settings, work
<1>16. CASE AnswerBlankFailure
  BY <1>16 DEF AnswerBlankFailure, EndTasksWith, drives, settings, work
<1>17. CASE ImageEnds
<2>a. /\ kind' \in Kinds /\ asked' \subseteq Flags /\ pc' \in PCs /\ caller' \in Callers
      /\ result' \in Results
  BY <1>17, FirstTask DEF ImageEnds, EndTasksWith, drives, settings, work
<2>b. /\ media' \in [Drives -> Media] /\ locked' \subseteq Drives
      /\ dest' \in BOOLEAN /\ src' \in Drives \cup {"none"} /\ warned' \in BOOLEAN
  BY <1>17, FirstTask DEF ImageEnds, EndTasksWith, drives, settings, work
<2>c. flags' \subseteq Flags /\ pile' \in Seq(SUBSET Flags)
  BY <1>17, FirstTask DEF ImageEnds, EndTasksWith, drives, settings, work
<2>d. tasks' \in Seq({"image", "erase", "record"})
  BY <1>17, FirstTask DEF ImageEnds, EndTasksWith, drives, settings, work
<2>e. temp' \in BOOLEAN /\ simulated' \in BOOLEAN /\ dummy' \in BOOLEAN
      /\ pushed' \in Seq({"image", "check"})
  BY <1>p, <1>17 DEF ImageEnds, EndTasksWith, drives, settings, work
<2>q. QED
  BY <2>a, <2>b, <2>c, <2>d, <2>e
<1>18. CASE RecordEnds
  BY <1>p, <1>18 DEF RecordEnds, EndTasksWith, drives, settings, work
<1>19. CASE RecordAsksDest
  BY <1>19 DEF RecordAsksDest, drives, settings, work
<1>20. CASE RecordAsksSrc
  BY <1>20 DEF RecordAsksSrc, drives, settings, work
<1>21. CASE EndTasks
<2>1. Inside
  BY <1>21 DEF EndTasks, Inside
<2>2. /\ <<>> \in Seq({"image", "erase", "record"}) /\ <<>> \in Seq(SUBSET Flags)
  OBVIOUS
<2>3. flags' \in SUBSET Flags
  BY <1>21, <2>1, PileTop DEF EndTasks, Flags
<2>a. /\ kind' \in Kinds /\ asked' \subseteq Flags /\ pc' \in PCs /\ caller' \in Callers
      /\ result' \in Results
  BY <1>21, <2>1, <2>2, <2>3, PileTop DEF EndTasks, drives, settings, work
<2>b. /\ media' \in [Drives -> Media] /\ locked' \subseteq Drives
      /\ dest' \in BOOLEAN /\ src' \in Drives \cup {"none"} /\ warned' \in BOOLEAN
  BY <1>21, <2>1, <2>2, <2>3, PileTop DEF EndTasks, drives, settings, work
<2>c. flags' \subseteq Flags /\ pile' \in Seq(SUBSET Flags)
  BY <1>21, <2>1, <2>2, <2>3, PileTop DEF EndTasks, drives, settings, work
<2>d. tasks' \in Seq({"image", "erase", "record"})
  BY <1>21, <2>1, <2>2, <2>3, PileTop DEF EndTasks, drives, settings, work
<2>e. temp' \in BOOLEAN /\ simulated' \in BOOLEAN /\ dummy' \in BOOLEAN
      /\ pushed' \in Seq({"image", "check"})
  BY <1>p, <1>21 DEF EndTasks, drives, settings, work
<2>q. QED
  BY <2>a, <2>b, <2>c, <2>d, <2>e
<1>22. CASE DummySuccess
<2>a. /\ kind' \in Kinds /\ asked' \subseteq Flags /\ pc' \in PCs /\ caller' \in Callers
      /\ result' \in Results
  BY <1>22 DEF DummySuccess, Leave, drives, settings, work
<2>b. /\ media' \in [Drives -> Media] /\ locked' \subseteq Drives
      /\ dest' \in BOOLEAN /\ src' \in Drives \cup {"none"} /\ warned' \in BOOLEAN
  BY <1>22 DEF DummySuccess, Leave, drives, settings, work
<2>c. flags' \subseteq Flags /\ pile' \in Seq(SUBSET Flags)
  BY <1>22 DEF DummySuccess, Leave, drives, settings, work
<2>d. tasks' \in Seq({"image", "erase", "record"})
  BY <1>22 DEF DummySuccess, Leave, drives, settings, work
<2>e. temp' \in BOOLEAN /\ simulated' \in BOOLEAN /\ dummy' \in BOOLEAN
      /\ pushed' \in Seq({"image", "check"})
  BY <1>p, <1>22 DEF DummySuccess, Leave, drives, settings, work
<2>q. QED
  BY <2>a, <2>b, <2>c, <2>d, <2>e
<1>23. CASE Reprobe
<2>a. /\ kind' \in Kinds /\ asked' \subseteq Flags /\ pc' \in PCs /\ caller' \in Callers
      /\ result' \in Results
  BY <1>23 DEF Reprobe, SessionEnds, Leave, drives, settings, work
<2>b. /\ media' \in [Drives -> Media] /\ locked' \subseteq Drives
      /\ dest' \in BOOLEAN /\ src' \in Drives \cup {"none"} /\ warned' \in BOOLEAN
  BY <1>23 DEF Reprobe, SessionEnds, Leave, drives, settings, work
<2>c. flags' \subseteq Flags /\ pile' \in Seq(SUBSET Flags)
  BY <1>23 DEF Reprobe, SessionEnds, Leave, drives, settings, work
<2>d. tasks' \in Seq({"image", "erase", "record"})
  BY <1>23 DEF Reprobe, SessionEnds, Leave, drives, settings, work
<2>e. temp' \in BOOLEAN /\ simulated' \in BOOLEAN /\ dummy' \in BOOLEAN
      /\ pushed' \in Seq({"image", "check"})
  BY <1>p, <1>23 DEF Reprobe, SessionEnds, Leave, drives, settings, work
<2>q. QED
  BY <2>a, <2>b, <2>c, <2>d, <2>e
<1>24. CASE CheckReal
<2>a. /\ kind' \in Kinds /\ asked' \subseteq Flags /\ pc' \in PCs /\ caller' \in Callers
      /\ result' \in Results
  BY <1>24 DEF CheckReal, SessionEnds, Leave, drives, settings, work
<2>b. /\ media' \in [Drives -> Media] /\ locked' \subseteq Drives
      /\ dest' \in BOOLEAN /\ src' \in Drives \cup {"none"} /\ warned' \in BOOLEAN
  BY <1>24 DEF CheckReal, SessionEnds, Leave, drives, settings, work
<2>c. flags' \subseteq Flags /\ pile' \in Seq(SUBSET Flags)
  BY <1>24 DEF CheckReal, SessionEnds, Leave, drives, settings, work
<2>d. tasks' \in Seq({"image", "erase", "record"})
  BY <1>24 DEF CheckReal, SessionEnds, Leave, drives, settings, work
<2>e. temp' \in BOOLEAN /\ simulated' \in BOOLEAN /\ dummy' \in BOOLEAN
      /\ pushed' \in Seq({"image", "check"})
  BY <1>p, <1>24 DEF CheckReal, SessionEnds, Leave, drives, settings, work
<2>q. QED
  BY <2>a, <2>b, <2>c, <2>d, <2>e
<1>25. CASE EjectCopy
<2>a. /\ kind' \in Kinds /\ asked' \subseteq Flags /\ pc' \in PCs /\ caller' \in Callers
      /\ result' \in Results
  BY <1>25 DEF EjectCopy, drives, settings, work
<2>b. /\ media' \in [Drives -> Media] /\ locked' \subseteq Drives
      /\ dest' \in BOOLEAN /\ src' \in Drives \cup {"none"} /\ warned' \in BOOLEAN
  BY <1>25 DEF EjectCopy, drives, settings, work
<2>c. flags' \subseteq Flags /\ pile' \in Seq(SUBSET Flags)
  BY <1>25 DEF EjectCopy, drives, settings, work
<2>d. tasks' \in Seq({"image", "erase", "record"})
  BY <1>25 DEF EjectCopy, drives, settings, work
<2>e. temp' \in BOOLEAN /\ simulated' \in BOOLEAN /\ dummy' \in BOOLEAN
      /\ pushed' \in Seq({"image", "check"})
  BY <1>p, <1>25 DEF EjectCopy, drives, settings, work
<2>q. QED
  BY <2>a, <2>b, <2>c, <2>d, <2>e
<1>26. CASE Unlock
  BY <1>26, ZenonT(40) DEF Unlock, drives, settings, work
<1>27. CASE Done
  BY <1>27 DEF Done, vars, drives, settings, work
<1>28. ASSUME NEW d \in Drives, NEW m \in Media, Swap(d, m)
     PROVE  TypeOK'
  BY <1>28 DEF Swap, drives, settings, work
<1>29. CASE LockRewritable
  BY <1>29 DEF LockRewritable, Return, Onward, drives, settings, work
<1>30. CASE BlankReal
  BY <1>30 DEF BlankReal, drives, settings, work
<1>31. CASE CheckDisc
  BY <1>31 DEF CheckDisc, drives, settings, work
<1>32. CASE ImagerAsksSrc
  BY <1>32 DEF ImagerAsksSrc, Resumable, drives, settings, work
<1>33. CASE AskToCarryOn
  BY <1>33 DEF AskToCarryOn, Resumable, drives, settings, work
<1>34. CASE CarryOn
  BY <1>34 DEF CarryOn, Return, Onward, drives, settings, work
<1>35. CASE Claim
  BY <1>35 DEF Claim, EndTasksWith, drives, settings, work
<1>36. CASE TooSlow
  BY <1>36 DEF TooSlow, drives, settings, work
<1>37. CASE SleepEnds
  BY <1>37 DEF SleepEnds, Return, Onward, drives, settings, work
<1>q. QED
  BY <1>0, <1>1, <1>2, <1>3, <1>4, <1>5, <1>6, <1>7, <1>8, <1>9, <1>10, <1>11, <1>12, <1>13, <1>14, <1>15, <1>16, <1>17, <1>18, <1>19, <1>20, <1>21, <1>22, <1>23, <1>24, <1>25, <1>26, <1>27, <1>28, <1>29, <1>30, <1>31, <1>32, <1>33, <1>34,
     <1>35, <1>36, <1>37 DEF Next

LEMMA TasksStep ==
  ASSUME TypeOK, CallerInv, PushedInv, TasksInv, [Next]_vars
  PROVE  TasksInv'
<1> USE DEF TypeOK, PCs, Callers, Drives, AllKinds, Results, Flags, Media, CallerInv, TasksInv, LastTask, ToFile, OnDisc, AskingDest, AskingSrc, Resuming
<1>0. CASE UNCHANGED vars
  BY <1>0 DEF vars, drives, settings, work
<1>1. CASE Start
  BY <1>1 DEF Start, drives, settings, work
<1>2. CASE LockDest
  BY <1>2 DEF LockDest, Return, Onward, drives, settings, work
<1>3. CASE AskDest
  BY <1>3 DEF AskDest, Ask, Ejects, Return, Onward, drives, settings, work
<1>4. CASE InsertDest
  BY <1>4 DEF InsertDest, Insert, drives, settings, work
<1>5. CASE LockSrc
  BY <1>5 DEF LockSrc, Return, Onward, drives, settings, work
<1>6. CASE AskSrc
  BY <1>6 DEF AskSrc, Ask, Ejects, Return, Onward, drives, settings, work
<1>7. CASE InsertSrc
  BY <1>7 DEF InsertSrc, Insert, drives, settings, work
<1>8. CASE GiveUp
  BY <1>8 DEF GiveUp, Waits, Return, Onward, drives, settings, work
<1>9. CASE RunTasks
  BY <1>9 DEF RunTasks, EndTasksWith, Checked, Supported, Compulsory, drives, settings, work
<1>10. CASE Warn
  BY <1>10 DEF Warn, EndTasksWith, Checked, Supported, Compulsory, drives, settings, work
<1>11. CASE Plan
  <2>1. PICK n \in 0 .. MaxImagers, b \in BOOLEAN :
          \/ /\ b => OnDisc
             /\ tasks' = TaskList(n, b) /\ pc' = "task"
          \/ UNCHANGED tasks /\ pc' = "end_tasks"
    BY <1>11, BurnAssumption DEF Plan, EndTasksWith
  <2>2. UNCHANGED <<temp, kind, caller>>
    BY <1>11 DEF Plan
  <2>3. n \in Nat
    BY BurnAssumption
  <2>4. CASE tasks' = TaskList(n, b) /\ pc' = "task" /\ (b => OnDisc)
    <3>1. /\ Len(tasks') > 0 /\ tasks'[Len(tasks')] = LastTask
          /\ ~b => \A i \in 1 .. Len(tasks') : tasks'[i] # "erase"
      BY <2>3, <2>4, TaskListIs
    <3>2. LastTask' = LastTask
      BY <2>2 DEF LastTask
    <3>3. temp' => ~b
      BY <2>2, <2>4
    <3>q. QED
      BY <2>4, <3>1, <3>2, <3>3
  <2>5. CASE UNCHANGED tasks /\ pc' = "end_tasks"
    BY <2>2, <2>5
  <2>q. QED
    BY <2>1, <2>4, <2>5
<1>12. CASE Task
  BY <1>12, FirstTask, SMTT(60) DEF Task, EndTasksWith, drives, settings, work
<1>13. CASE Erased
<2>1. Head(tasks) = "erase" /\ Len(tasks) > 1
  BY <1>13, FirstTask DEF Erased, TasksInv
<2>q. QED
  BY <1>13, <2>1, FirstTask DEF Erased, EndTasksWith, Checked, Supported, Compulsory, drives, settings, work
<1>14. CASE EraseCancelled
  BY <1>14 DEF EraseCancelled, Leave, drives, settings, work
<1>15. CASE EraseFails
  BY <1>15 DEF EraseFails, drives, settings, work
<1>16. CASE AnswerBlankFailure
  BY <1>16 DEF AnswerBlankFailure, EndTasksWith, drives, settings, work
<1>17. CASE ImageEnds
  <2>1. UNCHANGED <<temp, kind, caller>>
    BY <1>17 DEF ImageEnds
  <2>2. CASE Len(tasks) > 1 /\ tasks' = Tail(tasks) /\ pc' = "task"
    <3>1. Len(Tail(tasks)) = Len(tasks) - 1 /\ Len(tasks) \in Nat
      BY <2>2 DEF TypeOK
    <3>2. \A i \in 1 .. Len(Tail(tasks)) : i + 1 \in 1 .. Len(tasks)
      BY <3>1
    <3>3. Len(tasks') > 0 /\ tasks'[Len(tasks')] = tasks[Len(tasks)]
      BY <2>2, FirstTask
    <3>4. LastTask' = LastTask /\ tasks[Len(tasks)] = LastTask
      BY <1>17, <2>1 DEF LastTask, ImageEnds
    <3>5. \A i \in 1 .. Len(tasks') : tasks'[i] = tasks[i + 1]
      BY <2>2, FirstTask
    <3>6. temp' => \A i \in 1 .. Len(tasks') : tasks'[i] # "erase"
      BY <2>1, <2>2, <3>2, <3>5
    <3>q. QED
      BY <2>2, <3>3, <3>4, <3>6
  <2>3. CASE UNCHANGED tasks /\ pc' = "end_tasks"
    BY <2>1, <2>3
  <2>q. QED
    BY <1>17, <2>2, <2>3 DEF ImageEnds, EndTasksWith
<1>18. CASE RecordEnds
  BY <1>18 DEF RecordEnds, EndTasksWith, drives, settings, work
<1>19. CASE RecordAsksDest
  BY <1>19 DEF RecordAsksDest, drives, settings, work
<1>20. CASE RecordAsksSrc
  BY <1>20 DEF RecordAsksSrc, drives, settings, work
<1>21. CASE EndTasks
  BY <1>21 DEF EndTasks, drives, settings, work
<1>22. CASE DummySuccess
  BY <1>22 DEF DummySuccess, Leave, drives, settings, work
<1>23. CASE Reprobe
  BY <1>23 DEF Reprobe, SessionEnds, Leave, drives, settings, work
<1>24. CASE CheckReal
  BY <1>24 DEF CheckReal, SessionEnds, Leave, drives, settings, work
<1>25. CASE EjectCopy
  BY <1>25 DEF EjectCopy, drives, settings, work
<1>26. CASE Unlock
  BY <1>26 DEF Unlock, drives, settings, work
<1>27. CASE Done
  BY <1>27 DEF Done, vars, drives, settings, work
<1>28. ASSUME NEW d \in Drives, NEW m \in Media, Swap(d, m)
     PROVE  TasksInv'
  BY <1>28 DEF Swap, drives, settings, work
<1>29. CASE LockRewritable
  BY <1>29 DEF LockRewritable, Return, Onward, drives, settings, work
<1>30. CASE BlankReal
  BY <1>30 DEF BlankReal, drives, settings, work
<1>31. CASE CheckDisc
  BY <1>31 DEF CheckDisc, drives, settings, work
<1>32. CASE ImagerAsksSrc
  BY <1>32 DEF ImagerAsksSrc, Resumable, drives, settings, work
<1>33. CASE AskToCarryOn
  BY <1>33 DEF AskToCarryOn, Resumable, drives, settings, work
<1>34. CASE CarryOn
  BY <1>34 DEF CarryOn, Return, Onward, drives, settings, work
<1>35. CASE Claim
  BY <1>35 DEF Claim, EndTasksWith, drives, settings, work
<1>36. CASE TooSlow
  BY <1>36 DEF TooSlow, drives, settings, work
<1>37. CASE SleepEnds
  BY <1>37 DEF SleepEnds, Return, Onward, drives, settings, work
<1>q. QED
  BY <1>0, <1>1, <1>2, <1>3, <1>4, <1>5, <1>6, <1>7, <1>8, <1>9, <1>10, <1>11, <1>12, <1>13, <1>14, <1>15, <1>16, <1>17, <1>18, <1>19, <1>20, <1>21, <1>22, <1>23, <1>24, <1>25, <1>26, <1>27, <1>28, <1>29, <1>30, <1>31, <1>32, <1>33, <1>34,
     <1>35, <1>36, <1>37 DEF Next

LEMMA LocksStep ==
  ASSUME TypeOK, CallerInv, PushedInv, TasksInv, LocksInv, [Next]_vars
  PROVE  LocksInv'
<1> USE DEF TypeOK, PCs, Callers, Drives, AllKinds, Results, Flags, Media, CallerInv, LocksInv, DrivesAreReleased, SrcDrive, DiscDrive, ToFile, OnDisc, AskingDest, AskingSrc, Resuming, Within, Checking
<1>i. pc \notin Checking => (Imaged <=> HasImage)
  BY ImagedIs
<1>u. UNCHANGED pushed => (HasImage' <=> HasImage)
  BY DEF HasImage
<1>0. CASE UNCHANGED vars
  BY <1>0, <1>i, <1>u DEF vars, drives, settings, work
<1>1. CASE Start
  <2>1. pushed = <<>> /\ pushed' = <<>> /\ pc = "idle" /\ UNCHANGED <<kind, temp, locked, media, src, dest>>
    BY <1>1 DEF Start, PushedInv, drives, work
  <2>2. ~HasImage /\ ~HasImage'
    BY <2>1, Pushes DEF HasImage
  <2>3. /\ pc' \in {"run_tasks", "lock_src", "lock_dest", "check_disc"}
        /\ pc' = "run_tasks" => kind = "file"
        /\ pc' = "lock_src" => kind \in {"copy", "rip"}
        /\ pc' = "lock_dest" => caller' \in {"record", "blanking"}
    BY <1>1, KindsAssumption DEF Start, AllKinds
  <2>q. QED
    BY <2>1, <2>2, <2>3
<1>2. CASE LockDest
  BY <1>2, <1>i, <1>u DEF LockDest, Return, Onward, drives, settings, work
<1>3. CASE AskDest
  BY <1>3, <1>i, <1>u DEF AskDest, Ask, Ejects, Return, Onward, drives, settings, work
<1>4. CASE InsertDest
  BY <1>4, <1>i, <1>u DEF InsertDest, Insert, drives, settings, work
<1>5. CASE LockSrc
  <2>1. /\ src' = SrcDrive /\ UNCHANGED <<media, dest, pushed, kind, temp>>
        /\ pc = "lock_src" /\ pc' # "done"
    BY <1>5 DEF LockSrc, Return, Onward, work
  <2>2. locked' = locked \/ (locked' = locked \cup {SrcDrive} /\ SrcDrive # "none" /\ pc' # "lock_src")
    BY <1>5 DEF LockSrc, Return, Onward
  <2>3. CASE HasImage
    <3>1. SrcDrive = "none" /\ "reader" \notin locked /\ src # "burner"
      BY <1>i, <2>1, <2>3 DEF PushedInv
    <3>q. QED
      BY <1>u, <2>1, <2>2, <3>1
  <2>4. CASE ~HasImage
    <3>1. SrcDrive = DiscDrive /\ (src = "none" \/ src = SrcDrive)
      BY <1>i, <2>1, <2>4
    <3>q. QED
      BY <1>u, <2>1, <2>2, <2>4, <3>1
  <2>q. QED
    BY <2>3, <2>4
<1>6. CASE AskSrc
  BY <1>6, <1>i, <1>u DEF AskSrc, Ask, Ejects, Return, Onward, drives, settings, work
<1>7. CASE InsertSrc
  BY <1>7, <1>i, <1>u DEF InsertSrc, Insert, drives, settings, work
<1>8. CASE GiveUp
  BY <1>8, <1>i, <1>u DEF GiveUp, Waits, Return, Onward, drives, settings, work
<1>9. CASE RunTasks
  BY <1>9, <1>i, <1>u DEF RunTasks, EndTasksWith, Checked, Supported, Compulsory, drives, settings, work
<1>10. CASE Warn
  BY <1>10, <1>i, <1>u DEF Warn, EndTasksWith, Checked, Supported, Compulsory, drives, settings, work
<1>11. CASE Plan
  BY <1>11, <1>i, <1>u DEF Plan, EndTasksWith, drives, settings, work
<1>12. CASE Task
  BY <1>12, <1>i, <1>u, FirstTask DEF Task, EndTasksWith, drives, settings, work
<1>13. CASE Erased
  BY <1>13, <1>i, <1>u DEF Erased, EndTasksWith, Checked, Supported, Compulsory, drives, settings, work
<1>14. CASE EraseCancelled
  BY <1>14, <1>i, <1>u DEF EraseCancelled, Leave, drives, settings, work
<1>15. CASE EraseFails
  BY <1>15, <1>i, <1>u DEF EraseFails, drives, settings, work
<1>16. CASE AnswerBlankFailure
  BY <1>16, <1>i, <1>u DEF AnswerBlankFailure, EndTasksWith, drives, settings, work
<1>17. CASE ImageEnds
  BY <1>17, <1>i, <1>u, ImagePushed DEF ImageEnds, CanRead, EndTasksWith, drives, settings, work
<1>18. CASE RecordEnds
  BY <1>18, <1>i, <1>u, ImagePushed DEF RecordEnds, CanRead, WithData, EndTasksWith, drives, settings, work
<1>19. CASE RecordAsksDest
  BY <1>19, <1>i, <1>u DEF RecordAsksDest, drives, settings, work
<1>20. CASE RecordAsksSrc
  BY <1>20, <1>i, <1>u DEF RecordAsksSrc, drives, settings, work
<1>21. CASE EndTasks
  BY <1>21, <1>i, <1>u, CheckPushed DEF EndTasks, drives, settings, work
<1>22. CASE DummySuccess
  BY <1>22, <1>i, <1>u DEF DummySuccess, Leave, drives, settings, work
<1>23. CASE Reprobe
  BY <1>23, <1>i, <1>u, CheckPopped DEF Reprobe, SessionEnds, Leave, drives, settings, work
<1>24. CASE CheckReal
  BY <1>24, <1>i, <1>u, CheckPopped DEF CheckReal, SessionEnds, Leave, drives, settings, work
<1>25. CASE EjectCopy
  BY <1>25, <1>i, <1>u DEF EjectCopy, drives, settings, work
<1>26. CASE Unlock
  BY <1>26, <1>i, <1>u DEF Unlock, drives, settings, work
<1>27. CASE Done
  BY <1>27, <1>i, <1>u DEF Done, vars, drives, settings, work
<1>28. ASSUME NEW d \in Drives, NEW m \in Media, Swap(d, m)
     PROVE  LocksInv'
  BY <1>28, <1>i, <1>u DEF Swap, drives, settings, work
<1>29. CASE LockRewritable
  BY <1>29, <1>i, <1>u DEF LockRewritable, Return, Onward, drives, settings, work
<1>30. CASE BlankReal
  BY <1>30, <1>i, <1>u DEF BlankReal, drives, settings, work
<1>31. CASE CheckDisc
  BY <1>31, <1>i, <1>u DEF CheckDisc, drives, settings, work
<1>32. CASE ImagerAsksSrc
  BY <1>32, <1>i, <1>u DEF ImagerAsksSrc, Resumable, drives, settings, work
<1>33. CASE AskToCarryOn
  BY <1>33, <1>i, <1>u DEF AskToCarryOn, Resumable, drives, settings, work
<1>34. CASE CarryOn
  BY <1>34, <1>i, <1>u DEF CarryOn, Return, Onward, drives, settings, work
<1>35. CASE Claim
  BY <1>35, <1>i, <1>u DEF Claim, EndTasksWith, drives, settings, work
<1>36. CASE TooSlow
  BY <1>36, <1>i, <1>u DEF TooSlow, drives, settings, work
<1>37. CASE SleepEnds
  BY <1>37, <1>i, <1>u DEF SleepEnds, Return, Onward, drives, settings, work
<1>q. QED
  BY <1>0, <1>1, <1>2, <1>3, <1>4, <1>5, <1>6, <1>7, <1>8, <1>9, <1>10, <1>11, <1>12, <1>13, <1>14, <1>15, <1>16, <1>17, <1>18, <1>19, <1>20, <1>21, <1>22, <1>23, <1>24, <1>25, <1>26, <1>27, <1>28, <1>29, <1>30, <1>31, <1>32, <1>33, <1>34,
     <1>35, <1>36, <1>37 DEF Next

LEMMA HeldStep ==
  ASSUME TypeOK, CallerInv, PushedInv, TasksInv, HeldInv, [Next]_vars
  PROVE  HeldInv'
<1> USE DEF TypeOK, PCs, Callers, Drives, AllKinds, Results, Flags, Media, CallerInv, TasksInv, HeldInv, Working, SrcDrive, DiscDrive, ToFile, OnDisc, AskingDest, AskingSrc, Resuming, Within, Checking, Failures
<1>i. pc \notin Checking => (Imaged <=> HasImage)
  BY ImagedIs
<1>u. UNCHANGED pushed => (HasImage' <=> HasImage)
  BY DEF HasImage
<1>0. CASE UNCHANGED vars
  BY <1>0, <1>i, <1>u DEF vars, drives, settings, work
<1>1. CASE Start
  <2>1. pushed = <<>> /\ pushed' = <<>> /\ pc = "idle" /\ UNCHANGED <<kind, temp, locked, media, src, dest>>
    BY <1>1 DEF Start, PushedInv, drives, work
  <2>2. ~HasImage /\ ~HasImage'
    BY <2>1, Pushes DEF HasImage
  <2>3. /\ pc' \in {"run_tasks", "lock_src", "lock_dest", "check_disc"}
        /\ pc' = "run_tasks" => kind = "file"
        /\ pc' = "lock_src" => kind \in {"copy", "rip"}
        /\ pc' = "lock_dest" => caller' \in {"record", "blanking"}
    BY <1>1, KindsAssumption DEF Start, AllKinds
  <2>q. QED
    BY <2>1, <2>2, <2>3
<1>2. CASE LockDest
  <2>1. pc = "lock_dest" /\ UNCHANGED <<kind, temp, pushed>> /\ kind # "blank" /\ locked' \subseteq Drives
    BY <1>2 DEF LockDest, work
  <2>2. caller = "record" => ~Imaged
    BY <1>i, <2>1, Pushes DEF PushedInv, HasImage
  <2>3. CASE Return("OK") /\ locked' = locked \cup {"burner"}
    <3>1. kind \in {"clone", "rip"} /\ caller \in Within => "reader" \in locked'
      BY <2>1, <2>3
    <3>2. /\ caller = "record" /\ kind = "clone" => pc' = "lock_src"
          /\ caller \in {"record", "copied"} => pc' \in {"lock_src", "run_tasks"}
          /\ caller \notin {"record", "copied"} => pc' \in {"claim", "blank", "end_tasks"}
          /\ caller \notin {"record", "copied"} /\ pc' # "blank" => caller \in Within
      BY <2>1, <2>2, <2>3 DEF Return, Onward
    <3>q. QED
      BY <2>1, <2>3, <3>1, <3>2
  <2>4. CASE pc' = "ask_dest" /\ locked' = locked \ {"burner"} /\ UNCHANGED caller
    BY <2>1, <2>4
  <2>5. CASE pc' = "ask_dest" /\ UNCHANGED <<locked, caller>>
    BY <2>1, <2>5
  <2>6. CASE (\E r \in Failures : Return(r)) /\ UNCHANGED locked
    BY <2>1, <2>6 DEF Return
  <2>q. QED
    BY <1>2, <2>3, <2>4, <2>5, <2>6 DEF LockDest
<1>3. CASE AskDest
  BY <1>3, <1>i, <1>u DEF AskDest, Ask, Ejects, Return, Onward, drives, settings, work
<1>4. CASE InsertDest
  BY <1>4, <1>i, <1>u DEF InsertDest, Insert, drives, settings, work
<1>5. CASE LockSrc
  BY <1>5, <1>i, <1>u DEF LockSrc, Return, Onward, drives, settings, work
<1>6. CASE AskSrc
  BY <1>6, <1>i, <1>u DEF AskSrc, Ask, Ejects, Return, Onward, drives, settings, work
<1>7. CASE InsertSrc
  BY <1>7, <1>i, <1>u DEF InsertSrc, Insert, drives, settings, work
<1>8. CASE GiveUp
  BY <1>8, <1>i, <1>u DEF GiveUp, Waits, Return, Onward, drives, settings, work
<1>9. CASE RunTasks
  BY <1>9, <1>i, <1>u DEF RunTasks, EndTasksWith, Checked, Supported, Compulsory, drives, settings, work
<1>10. CASE Warn
  BY <1>10, <1>i, <1>u DEF Warn, EndTasksWith, Checked, Supported, Compulsory, drives, settings, work
<1>11. CASE Plan
  BY <1>11, <1>i, <1>u DEF Plan, EndTasksWith, drives, settings, work
<1>12. CASE Task
  BY <1>12, <1>i, <1>u DEF Task, EndTasksWith, drives, settings, work
<1>13. CASE Erased
  BY <1>13, <1>i, <1>u DEF Erased, EndTasksWith, Checked, Supported, Compulsory, drives, settings, work
<1>14. CASE EraseCancelled
  BY <1>14, <1>i, <1>u DEF EraseCancelled, Leave, drives, settings, work
<1>15. CASE EraseFails
  BY <1>15, <1>i, <1>u DEF EraseFails, drives, settings, work
<1>16. CASE AnswerBlankFailure
  BY <1>16, <1>i, <1>u DEF AnswerBlankFailure, EndTasksWith, drives, settings, work
<1>17. CASE ImageEnds
  BY <1>17, <1>i, <1>u, ImagePushed DEF ImageEnds, EndTasksWith, drives, settings, work
<1>18. CASE RecordEnds
  BY <1>18, <1>i, <1>u, ImagePushed DEF RecordEnds, EndTasksWith, drives, settings, work
<1>19. CASE RecordAsksDest
  BY <1>19, <1>i, <1>u DEF RecordAsksDest, drives, settings, work
<1>20. CASE RecordAsksSrc
  BY <1>20, <1>i, <1>u DEF RecordAsksSrc, drives, settings, work
<1>21. CASE EndTasks
  BY <1>21, <1>i, <1>u, CheckPushed DEF EndTasks, drives, settings, work
<1>22. CASE DummySuccess
  BY <1>22, <1>i, <1>u DEF DummySuccess, Leave, drives, settings, work
<1>23. CASE Reprobe
  BY <1>23, <1>i, <1>u, CheckPopped DEF Reprobe, SessionEnds, Leave, drives, settings, work
<1>24. CASE CheckReal
  BY <1>24, <1>i, <1>u, CheckPopped DEF CheckReal, SessionEnds, Leave, drives, settings, work
<1>25. CASE EjectCopy
  BY <1>25, <1>i, <1>u DEF EjectCopy, drives, settings, work
<1>26. CASE Unlock
  BY <1>26, <1>i, <1>u DEF Unlock, drives, settings, work
<1>27. CASE Done
  BY <1>27, <1>i, <1>u DEF Done, vars, drives, settings, work
<1>28. ASSUME NEW d \in Drives, NEW m \in Media, Swap(d, m)
     PROVE  HeldInv'
  BY <1>28, <1>i, <1>u DEF Swap, drives, settings, work
<1>29. CASE LockRewritable
  BY <1>29, <1>i, <1>u DEF LockRewritable, Return, Onward, drives, settings, work
<1>30. CASE BlankReal
  BY <1>30, <1>i, <1>u DEF BlankReal, drives, settings, work
<1>31. CASE CheckDisc
  BY <1>31, <1>i, <1>u DEF CheckDisc, drives, settings, work
<1>32. CASE ImagerAsksSrc
  BY <1>32, <1>i, <1>u DEF ImagerAsksSrc, Resumable, drives, settings, work
<1>33. CASE AskToCarryOn
  BY <1>33, <1>i, <1>u DEF AskToCarryOn, Resumable, drives, settings, work
<1>34. CASE CarryOn
  BY <1>34, <1>i, <1>u DEF CarryOn, Return, Onward, drives, settings, work
<1>35. CASE Claim
  BY <1>35, <1>i, <1>u DEF Claim, EndTasksWith, drives, settings, work
<1>36. CASE TooSlow
  BY <1>36, <1>i, <1>u DEF TooSlow, drives, settings, work
<1>37. CASE SleepEnds
  BY <1>37, <1>i, <1>u DEF SleepEnds, Return, Onward, drives, settings, work
<1>q. QED
  BY <1>0, <1>1, <1>2, <1>3, <1>4, <1>5, <1>6, <1>7, <1>8, <1>9, <1>10, <1>11, <1>12, <1>13, <1>14, <1>15, <1>16, <1>17, <1>18, <1>19, <1>20, <1>21, <1>22, <1>23, <1>24, <1>25, <1>26, <1>27, <1>28, <1>29, <1>30, <1>31, <1>32, <1>33, <1>34,
     <1>35, <1>36, <1>37 DEF Next

LEMMA SettingsStep ==
  ASSUME TypeOK, CallerInv, TasksInv, SettingsInv, [Next]_vars
  PROVE  SettingsInv'
<1> USE DEF TypeOK, PCs, Callers, Drives, AllKinds, Results, Flags, Media, CallerInv, TasksInv, SettingsInv, Inside, OwnFlags, AskingDest, AskingSrc, Resuming, Within, Checking, Failures
<1>c. UNCHANGED tasks => (ErasingWasCut' <=> ErasingWasCut)
  BY DEF ErasingWasCut
<1>0. CASE UNCHANGED vars
  BY <1>0, <1>c DEF vars, drives, settings, work
<1>1. CASE Start
  BY <1>1 DEF Start, drives, settings, work
<1>2. CASE LockDest
  BY <1>2 DEF LockDest, Return, Onward, drives, settings, work
<1>3. CASE AskDest
  BY <1>3 DEF AskDest, Ask, Ejects, Return, Onward, drives, settings, work
<1>4. CASE InsertDest
  BY <1>4 DEF InsertDest, Insert, drives, settings, work
<1>5. CASE LockSrc
  BY <1>5 DEF LockSrc, Return, Onward, drives, settings, work
<1>6. CASE AskSrc
  BY <1>6 DEF AskSrc, Ask, Ejects, Return, Onward, drives, settings, work
<1>7. CASE InsertSrc
  BY <1>7 DEF InsertSrc, Insert, drives, settings, work
<1>8. CASE GiveUp
  BY <1>8 DEF GiveUp, Waits, Return, Onward, drives, settings, work
<1>9. CASE RunTasks
<2>0. pile = <<>> /\ flags = OwnFlags
  BY <1>9 DEF RunTasks
<2>1. <<flags>> \o pile = <<OwnFlags>>
  BY <2>0
<2>2. "DUMMY" \in flags' => "DUMMY" \in OwnFlags
  BY <1>9, <2>0, CheckedIs DEF RunTasks
<2>q. QED
  BY <1>9, <2>1, <2>2 DEF RunTasks, EndTasksWith, drives, settings, work
<1>10. CASE Warn
<2>1. Inside
  BY <1>10 DEF Warn, Inside
<2>q. QED
  BY <1>10, <2>1, PileTop, CheckedIs DEF Warn, EndTasksWith, Checked, Supported, Compulsory, drives, settings, work
<1>11. CASE Plan
  BY <1>11 DEF Plan, EndTasksWith, drives, settings, work
<1>12. CASE Task
  BY <1>12 DEF Task, EndTasksWith, drives, settings, work
<1>13. CASE Erased
<2>1. Inside
  BY <1>13 DEF Erased, Inside
<2>q. QED
  BY <1>13, <2>1, PileTop, CheckedIs DEF Erased, EndTasksWith, Checked, Supported, Compulsory, drives, settings, work
<1>14. CASE EraseCancelled
  <2>1. ErasingWasCut'
    <3>1. pc = "erase" /\ UNCHANGED tasks
      BY <1>14 DEF EraseCancelled
    <3>2. Len(tasks) > 0 /\ tasks[1] = "erase" /\ tasks \in Seq({"image", "erase", "record"})
      BY <3>1
    <3>3. tasks # <<>> /\ Head(tasks) = "erase"
      BY <3>2
    <3>q. QED
      BY <3>1, <3>3 DEF ErasingWasCut
  <2>q. QED
    BY <1>14, <2>1 DEF EraseCancelled, Leave
<1>15. CASE EraseFails
  BY <1>15 DEF EraseFails, drives, settings, work
<1>16. CASE AnswerBlankFailure
  BY <1>16 DEF AnswerBlankFailure, EndTasksWith, drives, settings, work
<1>17. CASE ImageEnds
  BY <1>17 DEF ImageEnds, EndTasksWith, drives, settings, work
<1>18. CASE RecordEnds
  BY <1>18 DEF RecordEnds, EndTasksWith, drives, settings, work
<1>19. CASE RecordAsksDest
  BY <1>19 DEF RecordAsksDest, drives, settings, work
<1>20. CASE RecordAsksSrc
  BY <1>20 DEF RecordAsksSrc, drives, settings, work
<1>21. CASE EndTasks
<2>1. Inside
  BY <1>21 DEF EndTasks, Inside
<2>2. pile' = <<>> /\ tasks' = <<>> /\ UNCHANGED <<asked, caller, dummy>> /\ pc = "end_tasks"
  BY <1>21, <2>1, PileTop DEF EndTasks
<2>3. CASE pc' = "run_tasks" /\ flags' = OwnFlags /\ UNCHANGED simulated
  BY <2>2, <2>3
<2>4. CASE dummy /\ pc' = "simulated" /\ flags' = OwnFlags /\ UNCHANGED simulated
  BY <2>2, <2>4
<2>5. CASE /\ pc' \in {"eject_copy", "unlock"} /\ ~simulated'
           /\ flags' = OwnFlags \cup (IF simulated THEN {"DUMMY"} ELSE {})
  <3>1. flags' = asked
    BY <2>5
  <3>q. QED
    BY <2>2, <2>5, <3>1
<2>6. CASE pc' = "reprobe" /\ flags' = OwnFlags /\ UNCHANGED simulated
  BY <2>2, <2>6
<2>q. QED
  BY <1>21, <2>1, PileTop, <2>3, <2>4, <2>5, <2>6 DEF EndTasks
<1>22. CASE DummySuccess
  <2>1. /\ pc = "simulated" /\ pile' = <<>> /\ tasks' = <<>> /\ dummy /\ "DUMMY" \in asked
        /\ flags = OwnFlags /\ UNCHANGED <<asked, caller, dummy>>
    BY <1>22 DEF DummySuccess, drives, settings, work
  <2>2. CASE flags' = flags \ {"DUMMY"} /\ simulated' /\ pc' = "run_tasks"
    <3>1. flags' = asked \ {"DUMMY"}
      BY <2>1, <2>2
    <3>q. QED
      BY <2>1, <2>2, <3>1
  <2>3. CASE \E r \in Failures : Leave("unlock", r)
    <3>1. flags' = asked /\ ~simulated' /\ pc' = "unlock"
      BY <2>1, <2>3 DEF Leave
    <3>q. QED
      BY <2>1, <3>1
  <2>q. QED
    BY <1>22, <2>2, <2>3 DEF DummySuccess
<1>23. CASE Reprobe
  <2>1. pile = <<>> /\ flags = OwnFlags /\ tasks = <<>> /\ pc = "reprobe" /\ UNCHANGED <<asked, pile, tasks, dummy, caller>>
    BY <1>23 DEF Reprobe
  <2>2. CASE pc' = "check" /\ UNCHANGED <<flags, simulated>>
    BY <2>1, <2>2
  <2>3. CASE SessionEnds("CANCEL")
    <3>1. flags' = asked /\ ~simulated' /\ pc' = "unlock"
      BY <2>1, <2>3 DEF SessionEnds, Leave
    <3>q. QED
      BY <2>1, <3>1
  <2>q. QED
    BY <1>23, <2>2, <2>3 DEF Reprobe
<1>24. CASE CheckReal
  BY <1>24 DEF CheckReal, SessionEnds, Leave, drives, settings, work
<1>25. CASE EjectCopy
  BY <1>25 DEF EjectCopy, drives, settings, work
<1>26. CASE Unlock
  BY <1>26, <1>c DEF Unlock, drives, settings, work
<1>27. CASE Done
  BY <1>27, <1>c DEF Done, vars, drives, settings, work
<1>28. ASSUME NEW d \in Drives, NEW m \in Media, Swap(d, m)
     PROVE  SettingsInv'
  BY <1>28, <1>c DEF Swap, drives, settings, work
<1>29. CASE LockRewritable
  BY <1>29 DEF LockRewritable, Return, Onward, drives, settings, work
<1>30. CASE BlankReal
  BY <1>30 DEF BlankReal, drives, settings, work
<1>31. CASE CheckDisc
  BY <1>31 DEF CheckDisc, drives, settings, work
<1>32. CASE ImagerAsksSrc
  BY <1>32 DEF ImagerAsksSrc, Resumable, drives, settings, work
<1>33. CASE AskToCarryOn
  BY <1>33 DEF AskToCarryOn, Resumable, drives, settings, work
<1>34. CASE CarryOn
  BY <1>34 DEF CarryOn, Return, Onward, drives, settings, work
<1>35. CASE Claim
  BY <1>35 DEF Claim, EndTasksWith, drives, settings, work
<1>36. CASE TooSlow
  BY <1>36 DEF TooSlow, drives, settings, work
<1>37. CASE SleepEnds
  BY <1>37 DEF SleepEnds, Return, Onward, drives, settings, work
<1>q. QED
  BY <1>0, <1>1, <1>2, <1>3, <1>4, <1>5, <1>6, <1>7, <1>8, <1>9, <1>10, <1>11, <1>12, <1>13, <1>14, <1>15, <1>16, <1>17, <1>18, <1>19, <1>20, <1>21, <1>22, <1>23, <1>24, <1>25, <1>26, <1>27, <1>28, <1>29, <1>30, <1>31, <1>32, <1>33, <1>34,
     <1>35, <1>36, <1>37 DEF Next

\* A disc that can be appended to supports every flag: BLANK is kept by the check.
LEMMA OpenKeepsBlank ==
  ASSUME NEW f, NEW g \in Checked(f, InBurner), OnDisc, InBurner = "open", "BLANK" \in f
  PROVE  "BLANK" \in g
BY DEF Checked, Supported, Flags

\* Outside run_tasks the session has its own settings.
LEMMA OnlyInside ==
  ASSUME SettingsInv, pc = "run_tasks"
  PROVE  flags = OwnFlags
BY DEF SettingsInv, Inside, AskingDest, AskingSrc

LEMMA EraseIsFirst ==
  ASSUME TypeOK, TasksInv, pc = "erase"
  PROVE  ToErase
<1>1. Len(tasks) > 0 /\ Len(tasks) \in Nat
  BY DEF TypeOK, TasksInv
<1>2. 1 \in 1 .. Len(tasks) /\ tasks[1] = "erase"
  BY <1>1 DEF TasksInv
<1>q. QED
  BY <1>2 DEF ToErase

\* Imaging a disc to copy it erases none.
LEMMA CopyErasesNone ==
  ASSUME TasksInv, temp
  PROVE  ~ToErase
BY DEF TasksInv, ToErase

\* Nothing is added to what is left to erase when a task is done.
LEMMA TailErases ==
  ASSUME TypeOK, TasksInv, pc \in {"task", "image"}, tasks' = Tail(tasks), ToErase'
  PROVE  ToErase
<1>1. Len(tasks) > 0 /\ Len(tasks) \in Nat
  BY DEF TypeOK, TasksInv
<1>2. Len(Tail(tasks)) = Len(tasks) - 1 /\ \A i \in 1 .. Len(tasks) - 1 : Tail(tasks)[i] = tasks[i + 1]
  BY <1>1 DEF TypeOK
<1>3. PICK i \in 1 .. Len(tasks) - 1 : tasks[i + 1] = "erase"
  BY <1>2 DEF ToErase
<1>4. i + 1 \in 1 .. Len(tasks)
  BY <1>1
<1>q. QED
  BY <1>3, <1>4 DEF ToErase

LEMMA AgreedStep ==
  ASSUME TypeOK, CallerInv, TasksInv, HeldInv, SettingsInv, AgreedInv, [Next]_vars
  PROVE  AgreedInv'
<1> USE DEF AgreedInv, Preparing, AskingSrc, ToErase, ToFile
<1>0. CASE UNCHANGED vars
  BY <1>0 DEF OnDisc, OwnFlags, vars, drives, settings, work, InBurner
<1>1. CASE Start
  BY <1>1 DEF Start, drives, settings, work
<1>2. CASE LockDest
  BY <1>2 DEF LockDest, InBurner, OnDisc, CallerInv, AskingDest, Resuming, Return, Onward, drives, settings, work
<1>3. CASE AskDest
  BY <1>3 DEF AskDest, InBurner, OnDisc, CallerInv, AskingDest, Resuming, Ask, Ejects, Return, Onward, drives, settings, work
<1>4. CASE InsertDest
  BY <1>4 DEF InsertDest, InBurner, OnDisc, CallerInv, AskingDest, Resuming, Insert, drives, settings, work
<1>5. CASE LockSrc
  BY <1>5 DEF LockSrc, InBurner, OnDisc, CallerInv, AskingDest, Resuming, Return, Onward, drives, settings, work
<1>6. CASE AskSrc
  <2>1. /\ pc = "ask_src" /\ UNCHANGED <<kind, asked, tasks, temp, simulated, flags>>
        /\ warned' = (warned /\ src # "burner") /\ pc' \notin {"warn", "plan"}
        /\ Preparing' => Preparing
    BY <1>6 DEF AskSrc, Ask, Ejects, Return, Onward, settings, work, CallerInv, Resuming
  <2>2. CASE src = "burner"
    BY <2>1, <2>2, CopyErasesNone DEF CallerInv
  <2>3. CASE src # "burner"
    <3>1. media'["burner"] = media["burner"]
      BY <1>6, <2>3 DEF AskSrc, Ask, Ejects, TypeOK, Drives
    <3>q. QED
      BY <2>1, <2>3, <3>1 DEF InBurner
  <2>q. QED
    BY <2>2, <2>3
<1>7. CASE InsertSrc
  BY <1>7 DEF InsertSrc, InBurner, OnDisc, CallerInv, AskingDest, Resuming, Insert, drives, settings, work
<1>8. CASE GiveUp
  BY <1>8 DEF GiveUp, Waits, Return, Onward, drives, settings, work
<1>9. CASE RunTasks
  <2>1. flags = OwnFlags /\ UNCHANGED <<tasks, kind, asked, temp, simulated, media>>
    BY <1>9, OnlyInside DEF RunTasks, drives, work
  <2>2. ~ToErase \/ ~ToFile
    OBVIOUS
  <2>3. CASE pc' = "warn" /\ flags' \in Checked(flags, InBurner)
    <3>1. OnDisc /\ InBurner = "open" /\ "BLANK" \in OwnFlags => "BLANK" \in flags'
      BY <2>1, <2>3, OpenKeepsBlank
    <3>q. QED
      BY <2>1, <2>2, <2>3, <3>1 DEF OnDisc, OwnFlags, InBurner
  <2>4. CASE pc' = "plan" /\ ToFile
    BY <2>1, <2>2, <2>4 DEF OnDisc
  <2>5. CASE pc' = "end_tasks"
    BY <2>1, <2>2, <2>5
  <2>q. QED
    BY <1>9, <2>3, <2>4, <2>5 DEF RunTasks, EndTasksWith
<1>10. CASE Warn
  <2>1. UNCHANGED <<tasks, kind, temp, media>> /\ Head(pile) = OwnFlags
    BY <1>10, PileTop DEF Warn, Inside, work
  <2>2. ~ToErase \/ ~ToFile
    OBVIOUS
  <2>3. CASE /\ pc' = "plan" /\ UNCHANGED flags
             /\ warned' = (warned \/ (InBurner \in WithData /\ "BLANK" \in flags))
    BY <2>1, <2>2, <2>3 DEF OnDisc, InBurner
  <2>4. CASE pc' \in {"ask_dest", "end_tasks"}
    BY <2>1, <2>2, <2>4
  <2>5. CASE /\ pc' = "plan" /\ kind = "disc" /\ InBurner = "open" /\ "BLANK" \notin flags
             /\ flags' \in Checked(Head(pile) \cup {"MERGE"}, InBurner)
    <3>1. OnDisc
      BY <2>5 DEF OnDisc, CallerInv
    <3>2. "BLANK" \notin OwnFlags
      BY <1>10, <2>5, <3>1 DEF Warn
    <3>3. "BLANK" \notin flags'
      BY <2>1, <2>5, <3>1, <3>2 DEF Checked, Compulsory
    <3>q. QED
      BY <2>1, <2>2, <2>5, <3>3
  <2>q. QED
    BY <1>10, <2>3, <2>4, <2>5 DEF Warn, EndTasksWith
<1>11. CASE Plan
  <2>1. UNCHANGED <<kind, temp, media, warned, flags>> /\ pc = "plan"
    BY <1>11 DEF Plan, drives, settings
  <2>2. CASE pc' = "end_tasks" /\ UNCHANGED tasks
    BY <2>1, <2>2
  <2>3. ASSUME NEW n \in 0 .. MaxImagers, NEW b \in BOOLEAN, b => OnDisc /\ "BLANK" \in flags,
               tasks' = TaskList(n, b), pc' = "task"
        PROVE  AgreedInv'
    <3>1. ToErase' => b
      BY <2>3, BurnAssumption, TaskListIs, SMTT(30) DEF ToErase
    <3>2. b => ~ToFile /\ (InBurner \in WithData => warned)
      BY <2>1, <2>3 DEF OnDisc
    <3>q. QED
      BY <2>1, <2>3, <3>1, <3>2 DEF InBurner
  <2>q. QED
    BY <1>11, <2>2, <2>3 DEF Plan, EndTasksWith
<1>12. CASE Task
  <2>1. UNCHANGED <<kind, temp, media, warned>> /\ pc = "task"
    BY <1>12 DEF Task, drives
  <2>2. ToErase' => ToErase
    BY <1>12, TailErases DEF Task, ToErase
  <2>3. pc' \notin {"warn", "plan"}
    BY <1>12, FirstTask DEF Task, EndTasksWith
  <2>q. QED
    BY <2>1, <2>2, <2>3 DEF InBurner
<1>13. CASE Erased
  <2>1. UNCHANGED <<kind, temp>> /\ pc = "erase" /\ media'["burner"] = "blank"
    BY <1>13 DEF Erased, TypeOK, Drives
  <2>2. ~ToFile
    BY <2>1, EraseIsFirst
  <2>3. pc' \in {"task", "end_tasks"}
    BY <1>13 DEF Erased, EndTasksWith
  <2>q. QED
    BY <2>1, <2>2, <2>3 DEF WithData, InBurner
<1>14. CASE EraseCancelled
  <2>1. UNCHANGED <<kind, tasks>> /\ pc' = "unlock"
    BY <1>14 DEF EraseCancelled, Leave
  <2>q. QED
    BY <2>1
<1>15. CASE EraseFails
  BY <1>15 DEF EraseFails, drives, settings, work
<1>16. CASE AnswerBlankFailure
  BY <1>16 DEF AnswerBlankFailure, EndTasksWith, drives, settings, work
<1>17. CASE ImageEnds
  <2>1. UNCHANGED <<kind, temp, media, warned>> /\ pc = "image"
    BY <1>17 DEF ImageEnds, drives
  <2>2. ToErase' => ToErase
    BY <1>17, TailErases DEF ImageEnds, ToErase
  <2>3. pc' \in {"task", "end_tasks"}
    BY <1>17 DEF ImageEnds, EndTasksWith
  <2>q. QED
    BY <2>1, <2>2, <2>3 DEF InBurner
<1>18. CASE RecordEnds
  BY <1>18 DEF RecordEnds, EndTasksWith, drives, settings, work
<1>19. CASE RecordAsksDest
  BY <1>19 DEF RecordAsksDest, drives, settings, work
<1>20. CASE RecordAsksSrc
  BY <1>20 DEF RecordAsksSrc, drives, settings, work
<1>21. CASE EndTasks
  <2>1. tasks' = <<>> /\ pc' \notin {"warn", "plan"}
    BY <1>21 DEF EndTasks
  <2>q. QED
    BY <2>1
<1>22. CASE DummySuccess
  BY <1>22 DEF DummySuccess, Leave, drives, settings, work
<1>23. CASE Reprobe
  BY <1>23 DEF Reprobe, SessionEnds, Leave, drives, settings, work
<1>24. CASE CheckReal
  BY <1>24 DEF CheckReal, SessionEnds, Leave, drives, settings, work
<1>25. CASE EjectCopy
  BY <1>25 DEF EjectCopy, drives, settings, work
<1>26. CASE LockRewritable
  BY <1>26 DEF LockRewritable, InBurner, OnDisc, CallerInv, AskingDest, Resuming, Return, Onward, drives, settings, work
<1>27. CASE BlankReal
  BY <1>27 DEF BlankReal, drives, settings, work
<1>28. CASE CheckDisc
  BY <1>28 DEF CheckDisc, drives, settings, work
<1>29. CASE Unlock
  BY <1>29 DEF Unlock, drives, settings, work
<1>30. CASE Done
  BY <1>30 DEF Done, OnDisc, OwnFlags, vars, drives, settings, work
<1>31. ASSUME NEW d \in Drives, NEW m \in Media, Swap(d, m)
     PROVE  AgreedInv'
  <2>1. /\ UNCHANGED <<kind, asked, pc, caller, tasks, temp, simulated, flags>>
        /\ media' = [media EXCEPT ![d] = m] /\ d \notin locked /\ warned' = (warned /\ d # "burner")
    BY <1>31 DEF Swap, settings, work
  <2>2. CASE ToFile
    BY <2>1, <2>2 DEF OnDisc
  <2>3. CASE ~ToFile /\ (pc \in {"warn", "plan"} \/ (Preparing /\ ~temp))
    <3>1. d # "burner"
      BY <2>1, <2>3 DEF HeldInv, Working
    <3>2. media'["burner"] = media["burner"] /\ warned' = warned
      BY <2>1, <3>1 DEF TypeOK
    <3>q. QED
      BY <2>1, <3>2 DEF OnDisc, OwnFlags, InBurner, Preparing
  <2>4. CASE ~ToFile /\ pc \notin {"warn", "plan"} /\ (Preparing => temp)
    BY <2>1, <2>4, CopyErasesNone
  <2>q. QED
    BY <2>2, <2>3, <2>4
<1>32. CASE ImagerAsksSrc
  BY <1>32 DEF ImagerAsksSrc, InBurner, OnDisc, CallerInv, AskingDest, Resuming, Resumable, drives, settings, work
<1>33. CASE AskToCarryOn
  BY <1>33 DEF AskToCarryOn, InBurner, OnDisc, CallerInv, AskingDest, Resuming, Resumable, drives, settings, work
<1>34. CASE CarryOn
  BY <1>34 DEF CarryOn, InBurner, OnDisc, CallerInv, AskingDest, Resuming, Return, Onward, drives, settings, work
<1>35. CASE Claim
  BY <1>35 DEF Claim, EndTasksWith, drives, settings, work
<1>36. CASE TooSlow
  BY <1>36 DEF TooSlow, drives, settings, work
<1>37. CASE SleepEnds
  BY <1>37 DEF SleepEnds, InBurner, OnDisc, CallerInv, AskingDest, Resuming, Return, Onward, drives, settings, work
<1>q. QED
  BY <1>0, <1>1, <1>2, <1>3, <1>4, <1>5, <1>6, <1>7, <1>8, <1>9, <1>10, <1>11, <1>12, <1>13, <1>14, <1>15, <1>16, <1>17, <1>18, <1>19, <1>20, <1>21, <1>22, <1>23, <1>24, <1>25, <1>26, <1>27, <1>28, <1>29, <1>30, <1>31, <1>32, <1>33, <1>34,
     <1>35, <1>36, <1>37 DEF Next

-----------------------------------------------------------------------------

IInv == TypeOK /\ CallerInv /\ PushedInv /\ TasksInv /\ LocksInv /\ HeldInv /\ SettingsInv /\ AgreedInv

LEMMA InvInit == Init => IInv
<1> SUFFICES ASSUME Init PROVE IInv
  OBVIOUS
<1>1. kind \in AllKinds
  BY KindsAssumption DEF Init
<1>2. TypeOK
  <2>1. kind \in Kinds /\ asked \subseteq Flags /\ flags \subseteq Flags
    BY DEF Init, Flags
  <2>2. media \in [Drives -> Media] /\ locked \subseteq Drives
    BY DEF Init
  <2>3. pile \in Seq(SUBSET Flags) /\ tasks \in Seq({"image", "erase", "record"})
    BY DEF Init
  <2>4. pc \in PCs /\ caller \in Callers /\ result \in Results
    BY DEF Init, PCs, Callers, Results
  <2>5. /\ dest \in BOOLEAN /\ src \in Drives \cup {"none"} /\ warned \in BOOLEAN
        /\ temp \in BOOLEAN /\ simulated \in BOOLEAN /\ dummy \in BOOLEAN /\ pushed \in Seq({"image", "check"})
    BY Pushes DEF Init
  <2>q. QED
    BY <2>1, <2>2, <2>3, <2>4, <2>5 DEF TypeOK
<1>3. CallerInv /\ PushedInv
  BY <1>1, Pushes DEF Init, CallerInv, PushedInv, HasImage, AskingDest, AskingSrc, Checking, DiscDrive
<1>4. TasksInv
  BY DEF Init, TasksInv, AskingDest, AskingSrc, Resuming
<1>5. LocksInv /\ HeldInv
  BY Pushes DEF Init, LocksInv, HasImage, DrivesAreReleased, HeldInv, Working, AskingDest, AskingSrc
<1>6. SettingsInv
  BY DEF Init, SettingsInv, Inside, OwnFlags, AskingDest, AskingSrc
<1>7. AgreedInv
  BY DEF Init, AgreedInv, Preparing, AskingSrc, ToErase
<1>q. QED
  BY <1>2, <1>3, <1>4, <1>5, <1>6, <1>7 DEF IInv

LEMMA InvStep == IInv /\ [Next]_vars => IInv'
BY TypeStep, CallerStep, PushedStep, TasksStep, LocksStep, HeldStep, SettingsStep, AgreedStep DEF IInv

LEMMA InvHolds == Spec => []IInv
BY InvInit, InvStep, PTL DEF Spec

\* The model is well typed: rejilla_burn_record never leaves the states it was
\* written for.
THEOREM BurnIsTyped == Spec => []TypeOK
<1>1. IInv => TypeOK
  BY DEF IInv
<1>q. QED
  BY <1>1, InvHolds, PTL

\* Every task runs with its drives locked, whatever was reloaded before or in
\* the middle of the tasks (rejilla_burn_lock_dest_media, lock_src_media,
\* reload_dest_media, reload_src_media).
THEOREM TasksAlwaysRunLocked == Spec => []TasksRunLocked
<1>1. IInv => TasksRunLocked
  BY DEF IInv, TypeOK, CallerInv, HeldInv, Working, TasksRunLocked
<1>q. QED
  BY <1>1, InvHolds, PTL

\* The disc that is erased is the one the user was warned about
\* (rejilla_burn_check_data_loss), not one loaded since.
THEOREM ErasingIsAlwaysAgreed == Spec => []EraseIsAgreed
<1>1. IInv => EraseIsAgreed
  BY EraseIsFirst DEF IInv, AgreedInv, Preparing, EraseIsAgreed
<1>q. QED
  BY <1>1, InvHolds, PTL

\* rejilla_burn_unlock_medias finds every drive that was locked.
THEOREM DrivesAreAlwaysReleased == Spec => []DrivesAreReleased
<1>1. IInv => DrivesAreReleased
  BY DEF IInv, LocksInv
<1>q. QED
  BY <1>1, InvHolds, PTL

\* push_settings and pop_settings balance and DUMMY is put back, except that an
\* erasing that is cancelled leaves the settings pushed; the track of a check is
\* popped however the check ends, and nothing but images stays over the tracks.
THEOREM SessionStaysUntainted == Spec => []SessionIsUntainted
<1>1. IInv => SessionIsUntainted
  BY DEF IInv, SettingsInv, PushedInv, Inside, OwnFlags, SessionIsUntainted, Checking, AskingDest, AskingSrc
<1>q. QED
  BY <1>1, InvHolds, PTL

\* Whatever a record leaves is an image over the tracks, or the settings that a
\* cancelled erasing left on the pile; never a locked drive.
THEOREM RecordsLeaveNothing == Spec => []RecordLeavesNothing
<1>q. QED
  BY DrivesAreAlwaysReleased, SessionStaysUntainted, PTL DEF RecordLeavesNothing
=============================================================================
