---------------------------- MODULE RejillaDrive ----------------------------
(***************************************************************************)
(* The probing of one drive (librejilla-media/rejilla-drive.c): threads    *)
(* look whether there is a disc, the main thread makes and drops the       *)
(* RejillaMedium after them, and ejects, locks and reprobes the drive      *)
(* meanwhile.                                                              *)
(*                                                                         *)
(* The main thread is blocked in the states "cancel" and "join..."; it     *)
(* runs a main loop in "loop" and, nested, in "eject_...".  Callbacks are  *)
(* steps of their own.  cond_probe is left out: it only shortens a wait    *)
(* that may end at any time.                                               *)
(***************************************************************************)
EXTENDS Integers, SequencesExt

CONSTANTS
    Discs,
    Threads,        \* identities for probing threads
    MaxMoves,       \* bound: moves of discs, locks, reprobes and ejections
    EarlyMoves      \* discs may be moved during the initial probing

ASSUME DriveAssumption ==
    /\ MaxMoves \in Nat /\ EarlyMoves \in BOOLEAN
    /\ {"none", "busy"} \cap Discs = {} /\ Threads # {}

VARIABLES
    disc,       \* what is in the drive
    moves,
    changes,    \* "changed" signals of the GDrive not delivered yet
    pc,         \* what the main thread does
    next,       \* and does after rejilla_drive_cancel_probing
    at,         \* where each probing thread is
    probe,      \* priv->probe is set
    initial,    \* priv->initial_probe
    cancelled,  \* priv->probe_cancelled, priv->initial_probe_cancelled
    has,        \* priv->has_medium
    gaveUp,     \* history: the drive did not answer the last probe
    idles,      \* idle callbacks queued: see Callbacks
    waiting,    \* priv->probe_waiting
    locked,
    medium,     \* "none", or where the RejillaMedium is in its own probing
    holds       \* the disc it found

threads == <<at, probe, initial, cancelled, has, gaveUp>>
vars == <<disc, moves, changes, pc, next, threads, idles, waiting, locked, medium, holds>>

Contents  == Discs \cup {"none"}
\* rejilla_drive_probed_inside, as priv->probe_id or no longer; rejilla_medium_probed
Callbacks == {"tracked", "orphan", "medium"}
Ejecting  == {"eject_drive", "eject_volume"}
Blocked   == {"cancel", "join", "join_drive", "join_volume"}
Stages    == {"none", "start", "open", "test", "wait", "caps", "end"}

Init ==
    /\ disc \in Contents /\ moves = 0 /\ changes = 0
    /\ pc = "loop" /\ next = "loop"
    /\ \E t \in Threads : at = [u \in Threads |-> IF u = t THEN "open" ELSE "none"]
    /\ probe = TRUE /\ initial = TRUE /\ cancelled = FALSE /\ has = FALSE /\ gaveUp = FALSE
    /\ idles = <<>> /\ waiting = FALSE /\ locked = FALSE
    /\ medium = "none" /\ holds = "none"

Move == moves < MaxMoves /\ moves' = moves + 1

-----------------------------------------------------------------------------
(* Probing threads: rejilla_drive_probe_thread at first, then              *)
(* rejilla_drive_probe_inside_thread.                                      *)

Goes(t, stage) == at' = [at EXCEPT ![t] = stage]

Begin(t) ==
    /\ at[t] = "start"
    /\ Goes(t, "open") /\ has' = FALSE /\ gaveUp' = FALSE
    /\ UNCHANGED <<disc, moves, changes, pc, next, probe, initial, cancelled,
                   idles, waiting, locked, medium, holds>>

\* the device is opened, or given up after some attempts
Open(t) ==
    /\ at[t] = "open"
    /\ \/ ~cancelled /\ Goes(t, "test") /\ UNCHANGED gaveUp
       \/ Goes(t, "end") /\ gaveUp' = TRUE
    /\ UNCHANGED <<disc, moves, changes, pc, next, probe, initial, cancelled, has,
                   idles, waiting, locked, medium, holds>>

\* rejilla_spc1_test_unit_ready; the initial thread goes on to the capabilities
Test(t) ==
    /\ at[t] = "test"
    /\ \/ /\ Goes(t, IF initial THEN "caps" ELSE "end")
          /\ has' = (has \/ disc # "none") /\ UNCHANGED gaveUp
       \/ Goes(t, "end") /\ gaveUp' = TRUE /\ UNCHANGED has
    /\ UNCHANGED <<disc, moves, changes, pc, next, probe, initial, cancelled,
                   idles, waiting, locked, medium, holds>>

NotReady(t) ==
    /\ at[t] = "test"
    /\ Goes(t, "wait")
    /\ UNCHANGED <<disc, moves, changes, pc, next, probe, initial, cancelled, has, gaveUp,
                   idles, waiting, locked, medium, holds>>

\* the wait of two seconds before the next test
Retry(t) ==
    /\ at[t] = "wait"
    /\ Goes(t, IF cancelled THEN "end" ELSE "test")
    /\ UNCHANGED <<disc, moves, changes, pc, next, probe, initial, cancelled, has, gaveUp,
                   idles, waiting, locked, medium, holds>>

Caps(t) ==
    /\ at[t] = "caps"
    /\ Goes(t, "end")
    /\ UNCHANGED <<disc, moves, changes, pc, next, probe, initial, cancelled, has, gaveUp,
                   idles, waiting, locked, medium, holds>>

\* rejilla_drive_update_medium, when queue is what is left of the callbacks.  A
\* medium that is dropped waits for its thread and takes its callback away.
UpdateMedium(queue) ==
    IF has
      THEN /\ medium' = IF medium = "none" THEN "probing" ELSE medium
           /\ holds' = IF medium = "none" THEN "none" ELSE holds
           /\ idles' = queue
      ELSE /\ medium' = "none" /\ holds' = "none"
           /\ idles' = RemoveFirst(queue, "medium")

Orphaned(queue) ==
    [i \in 1 .. Len(queue) |-> IF queue[i] = "tracked" THEN "orphan" ELSE queue[i]]

\* Fault: a cancelled thread starts over
EndStartsOver(t) ==
    /\ at[t] = "end"
    /\ IF cancelled
         THEN Goes(t, "open") /\ UNCHANGED <<probe, initial, idles>>
         ELSE /\ Goes(t, "none") /\ probe' = FALSE /\ initial' = FALSE
              /\ idles' = Append(Orphaned(idles), "tracked")
    /\ UNCHANGED <<disc, moves, changes, pc, next, cancelled, has, gaveUp, waiting,
                   locked, medium, holds>>

\* the end of a thread, with the mutex; the initial one updates the medium itself
End(t) ==
    /\ at[t] = "end"
    /\ Goes(t, "none") /\ probe' = FALSE /\ initial' = FALSE
    /\ IF initial
         THEN UpdateMedium(idles)
         ELSE /\ idles' = IF cancelled THEN idles ELSE Append(Orphaned(idles), "tracked")
              /\ UNCHANGED <<medium, holds>>
    /\ UNCHANGED <<disc, moves, changes, pc, next, cancelled, has, gaveUp, waiting, locked>>

ThreadStep(t) == Begin(t) \/ Open(t) \/ Test(t) \/ NotReady(t) \/ Retry(t) \/ Caps(t) \/ End(t)

\* rejilla_medium_probe_thread finds what is in the drive, or no answer
MediumThread ==
    /\ medium = "probing"
    /\ medium' = "probed" /\ holds' \in {disc, "busy"}
    /\ idles' = Append(idles, "medium")
    /\ UNCHANGED <<disc, moves, changes, pc, next, threads, waiting, locked>>

-----------------------------------------------------------------------------
(* Callbacks of the main loop.                                             *)

InLoop == pc \in {"loop"} \cup Ejecting

\* a new thread, and back to where rejilla_drive_probe_inside was called
StartThread(to) ==
    /\ \E t \in Threads : at[t] = "none" /\ Goes(t, "start")
    /\ probe' = TRUE /\ cancelled' = FALSE /\ waiting' = FALSE
    /\ pc' = to

\* Fault: a probe does not end the one before
ProbeInsideAnyway(to, w) ==
    \/ initial /\ pc' = to /\ waiting' = w /\ UNCHANGED <<next, at, probe, cancelled>>
    \/ ~initial /\ StartThread(to) /\ UNCHANGED next

\* rejilla_drive_probe_inside, called with w for probe_waiting
ProbeInside(to, w) ==
    \/ initial /\ pc' = to /\ waiting' = w /\ UNCHANGED <<next, at, probe, cancelled>>
    \/ ~initial /\ ~probe /\ StartThread(to) /\ UNCHANGED next
    \/ ~initial /\ probe /\ pc' = "cancel" /\ next' = to /\ waiting' = FALSE
       /\ UNCHANGED <<at, probe, cancelled>>

\* Fault: changes are followed while the drive is ejected
ChangedWhileEjecting ==
    /\ InLoop /\ changes > 0
    /\ changes' = changes - 1
    /\ IF locked
         THEN waiting' = TRUE /\ UNCHANGED <<pc, next, at, probe, cancelled>>
         ELSE ProbeInside(pc, waiting)
    /\ UNCHANGED <<disc, moves, initial, has, gaveUp, idles, locked, medium, holds>>

\* rejilla_drive_medium_gdrive_changed_cb
Changed ==
    /\ InLoop /\ changes > 0
    /\ changes' = changes - 1
    /\ IF locked \/ pc \in Ejecting
         THEN waiting' = TRUE /\ UNCHANGED <<pc, next, at, probe, cancelled>>
         ELSE ProbeInside("loop", waiting)
    /\ UNCHANGED <<disc, moves, initial, has, gaveUp, idles, locked, medium, holds>>

\* rejilla_drive_probed_inside
ProbedInside ==
    /\ InLoop /\ idles # <<>> /\ Head(idles) \in {"tracked", "orphan"}
    /\ UpdateMedium(Orphaned(Tail(idles)))
    /\ UNCHANGED <<disc, moves, changes, pc, next, threads, waiting, locked>>

\* Fault: the status of the medium is taken for what became of it
MediumProbedStatus ==
    /\ InLoop /\ idles # <<>> /\ Head(idles) = "medium"
    /\ idles' = Tail(idles)
    /\ medium' = holds
    /\ UNCHANGED <<disc, moves, changes, pc, next, threads, waiting, locked, holds>>

\* rejilla_medium_probed and rejilla_drive_medium_probed
MediumProbed ==
    /\ InLoop /\ idles # <<>> /\ Head(idles) = "medium"
    /\ idles' = Tail(idles)
    /\ medium' = IF holds = "none" THEN "none" ELSE "known"
    /\ UNCHANGED <<disc, moves, changes, pc, next, threads, waiting, locked, holds>>

-----------------------------------------------------------------------------
(* Operations.                                                             *)

\* rejilla_drive_cancel_probing tells the thread ...
CancelProbing ==
    /\ pc = "cancel"
    /\ pc' = "join" /\ cancelled' = (cancelled \/ probe)
    /\ UNCHANGED <<disc, moves, changes, next, at, probe, initial, has, gaveUp,
                   idles, waiting, locked, medium, holds>>

\* ... and waits for its end before it removes the callback
Join ==
    /\ pc = "join" /\ ~probe
    /\ idles' = RemoveFirst(idles, "tracked")
    /\ StartThread(next)
    /\ next # "gone"
    /\ UNCHANGED <<disc, moves, changes, next, initial, has, gaveUp, locked, medium, holds>>

\* rejilla_drive_finalize after rejilla_drive_cancel_probing
Free ==
    /\ pc = "join" /\ ~probe /\ next = "gone"
    /\ pc' = "gone"
    /\ idles' = RemoveFirst(RemoveFirst(idles, "tracked"), "medium")
    /\ medium' = "none" /\ holds' = "none" /\ changes' = 0
    /\ UNCHANGED <<disc, moves, next, threads, waiting, locked>>

Finalize ==
    /\ pc = "loop"
    /\ pc' = "cancel" /\ next' = "gone" /\ waiting' = FALSE
    /\ UNCHANGED <<disc, moves, changes, threads, idles, locked, medium, holds>>

\* the door is locked, whatever is in the drive
Lock ==
    /\ pc = "loop" /\ ~locked /\ Move
    /\ locked' = TRUE
    /\ UNCHANGED <<disc, changes, pc, next, threads, idles, waiting, medium, holds>>

\* Fault: a probe that waits for the unlocking is not made
UnlockForgets ==
    /\ pc = "loop" /\ locked
    /\ locked' = FALSE
    /\ UNCHANGED <<disc, moves, changes, pc, next, threads, idles, waiting, medium, holds>>

Unlock ==
    /\ pc = "loop" /\ locked
    /\ locked' = FALSE
    /\ IF waiting THEN ProbeInside("loop", waiting)
                  ELSE UNCHANGED <<pc, next, at, probe, cancelled, waiting>>
    /\ UNCHANGED <<disc, moves, changes, initial, has, gaveUp, idles, medium, holds>>

\* only a drive that was waited for, and burnt with, is reprobed
Reprobe ==
    /\ pc = "loop" /\ ~initial /\ Move
    /\ medium' = "none" /\ holds' = "none" /\ idles' = RemoveFirst(idles, "medium")
    /\ ProbeInside("loop", FALSE)
    /\ UNCHANGED <<disc, changes, initial, has, gaveUp, locked>>

\* rejilla_drive_eject waits for the thread, without cancelling it ...
Eject ==
    /\ pc = "loop" /\ Move
    /\ pc' = "join_drive"
    /\ UNCHANGED <<disc, changes, next, threads, idles, waiting, locked, medium, holds>>

WaitProbing ==
    /\ pc \in {"join_drive", "join_volume"} /\ ~probe
    /\ pc' = IF pc = "join_drive" THEN "eject_drive" ELSE "eject_volume"
    /\ UNCHANGED <<disc, moves, changes, next, threads, idles, waiting, locked, medium, holds>>

\* ... and ejects the drive, then the volume if that failed
EjectEnds ==
    /\ pc \in Ejecting
    /\ \E ok \in BOOLEAN, to \in {"loop", "join_volume"} :
         /\ to = "join_volume" => ~ok /\ pc = "eject_drive" /\ medium # "none"
         /\ ok => ~locked
         /\ disc' = IF ok THEN "none" ELSE disc
         /\ changes' = IF disc' # disc THEN changes + 1 ELSE changes
         /\ IF waiting THEN ProbeInside(to, waiting)
                       ELSE pc' = to /\ UNCHANGED <<next, at, probe, cancelled, waiting>>
    /\ UNCHANGED <<moves, initial, has, gaveUp, idles, locked, medium, holds>>

-----------------------------------------------------------------------------
(* The user and the drive.                                                 *)

MoveDisc(d) ==
    /\ pc # "gone" /\ Move /\ (initial => EarlyMoves)
    /\ (disc = "none") # (d = "none") /\ ~locked
    /\ disc' = d /\ changes' = changes + 1
    /\ UNCHANGED <<pc, next, threads, idles, waiting, locked, medium, holds>>

Gone == pc = "gone" /\ UNCHANGED vars

Next ==
    \/ \E t \in Threads : ThreadStep(t)
    \/ MediumThread \/ Changed \/ ProbedInside \/ MediumProbed
    \/ CancelProbing \/ Join \/ Free \/ Finalize \/ Lock \/ Unlock \/ Reprobe
    \/ Eject \/ WaitProbing \/ EjectEnds
    \/ \E d \in Contents : MoveDisc(d)
    \/ Gone

Spec == Init /\ [][Next]_vars

\* Threads and the main thread go on; a drive that is asked again and again is
\* ready in the end.
FairSpec ==
    /\ Spec
    /\ WF_vars(CancelProbing \/ Join \/ Free \/ WaitProbing)
    /\ WF_vars(EjectEnds)
    /\ \A t \in Threads :
         /\ WF_vars(ThreadStep(t)) /\ SF_vars(Test(t))

-----------------------------------------------------------------------------
(* Properties.                                                             *)

\* Type invariant.
TypeOK ==
    /\ disc \in Contents /\ moves \in 0 .. MaxMoves /\ changes \in Nat
    /\ pc \in {"loop", "gone"} \cup Blocked \cup Ejecting
    /\ next \in {"loop", "join_volume", "gone"}
    /\ at \in [Threads -> Stages]
    /\ probe \in BOOLEAN /\ initial \in BOOLEAN /\ cancelled \in BOOLEAN
    /\ has \in BOOLEAN /\ gaveUp \in BOOLEAN
    /\ idles \in Seq(Callbacks) /\ waiting \in BOOLEAN /\ locked \in BOOLEAN
    /\ medium \in {"none", "probing", "probed", "known"}
    /\ holds \in Contents \cup {"busy"}

\* There is a probing thread as long as priv->probe says so, never two of
\* them, and none is left when the drive is freed.
OneProbe ==
    /\ \A t, u \in Threads : at[t] # "none" /\ at[u] # "none" => t = u
    /\ probe <=> \E t \in Threads : at[t] # "none"
    /\ pc = "gone" => ~probe

\* "Wait for any ongoing probing as it would prevent the door from being
\* opened": no thread of the drive has the device when it is ejected.
DoorIsFree == pc \in Ejecting => \A t \in Threads : at[t] = "none"

\* The device has one user at a time: one thread, or none while it is ejected.
DeviceHasOneUser == OneProbe /\ DoorIsFree

\* nothing is left to be done
Quiet ==
    /\ pc = "loop" /\ ~probe /\ idles = <<>> /\ changes = 0 /\ ~locked
    /\ medium \in {"none", "known"}

\* However changes, probes, ejections and locks cross each other, no disc that
\* came and none that went is forgotten, if the drive answers.
NothingIsForgotten ==
    Quiet /\ ~gaveUp => (medium = "none" <=> disc = "none")

\* "Gets the medium currently inserted in the drive."
MediumIsCurrent ==
    Quiet /\ medium = "known" /\ holds # "busy" => holds = disc

\* "... and if we do this in the main thread then our whole UI blocks": the
\* main thread is never blocked for good.
MainGoesOn == pc \in Blocked ~> pc \in {"loop", "gone"} \cup Ejecting
=============================================================================
