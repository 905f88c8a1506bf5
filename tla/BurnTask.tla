------------------------------ MODULE BurnTask ------------------------------
(***************************************************************************)
(* A burning task of librejilla-burn (burn-task.c, burn-job.c and the      *)
(* track part of burn-task-ctx.c): a chain of items, the first one reading *)
(* the tracks of the session, the leader writing the result, each one      *)
(* feeding the next through a pipe.                                        *)
(*                                                                         *)
(* Everything happens in the main thread.  rejilla_task_start activates    *)
(* the items, starts them from the leader down to the first, and waits in  *)
(* a main loop for what they report; an item that asks for another attempt *)
(* makes the task sleep in a main loop too, while the items after it       *)
(* already work.  In both loops items report and the user may cancel.      *)
(***************************************************************************)
EXTENDS Naturals

CONSTANTS
    NumItems,       \* number of items of the chain
    NumTracks,      \* number of tracks of the session
    MaxAttempts,    \* MAX_JOB_START_ATTEMPTS
    ByTrack,        \* the items that report each track (the others report the session)
    MayDecline,     \* the items whose ::activate may answer NOT_RUNNING
    MayRetry,       \* the items whose ::start may answer RETRY
    MayRefuse,      \* the items whose ::start may answer NOT_RUNNING or NOT_SUPPORTED
    MaxRuns,        \* bound: how many times the task is started
    MaxStored       \* bound: tracks kept by the ctx

Items == 1 .. NumItems
Tracks == 1 .. NumTracks

ASSUME ChainAssumption ==
    /\ NumItems \in Nat \ {0} /\ NumTracks \in Nat \ {0} /\ MaxAttempts \in Nat
    /\ ByTrack \subseteq Items /\ MayDecline \subseteq Items
    /\ MayRetry \subseteq Items /\ MayRefuse \subseteq Items
    /\ MaxRuns \in Nat /\ MaxStored \in Nat

VARIABLES
    job,        \* the items: ctx set, work in progress, input pipe, linked item
    pc,         \* where rejilla_task_start is
    cur,        \* the item that is being started, 0 when all were
    some,       \* an item of this round was started
    attempts,   \* attempts at starting cur
    track,      \* current_track of the ctx
    fake,       \* the task computes sizes only
    quit,       \* g_main_loop_quit was called on the loop of the task
    retval,     \* priv->retval
    error,      \* priv->error is set
    stored,     \* tracks given by the items, kept by the ctx
    pushed,     \* this run gave tracks to the session
    cancelled,  \* the user cancelled this run
    result,     \* what the last run returned
    raised,     \* and whether it returned an error with it
    runs

vars == <<job, pc, cur, some, attempts, track, fake, quit, retval, error, stored,
          pushed, cancelled, result, raised, runs>>
starting == <<cur, some, attempts>>
outcome == <<result, raised, runs>>

Results == {"OK", "ERR", "CANCEL"}
\* "early": ::start is not reached, the output file, the disc or the pipe failed
Answers == {"OK", "ERR", "RETRY", "NOT_RUNNING", "NOT_SUPPORTED", "early"}
Jobs == [active: BOOLEAN, busy: BOOLEAN, input: {"none", "open", "eof"}, linked: 0 .. NumItems]
Unused == [active |-> FALSE, busy |-> FALSE, input |-> "none", linked |-> 0]

TypeOK ==
    /\ job \in [Items -> Jobs]
    /\ pc \in {"idle", "starting", "sleep", "loop", "broken"}
    /\ cur \in 0 .. NumItems /\ some \in BOOLEAN /\ attempts \in 0 .. MaxAttempts
    /\ track \in Tracks /\ fake \in BOOLEAN /\ quit \in BOOLEAN
    /\ retval \in Results /\ error \in BOOLEAN
    /\ stored \in 0 .. MaxStored /\ pushed \in BOOLEAN /\ cancelled \in BOOLEAN
    /\ result \in Results /\ raised \in BOOLEAN /\ runs \in 0 .. MaxRuns

Init ==
    /\ job = [i \in Items |-> Unused]
    /\ pc = "idle" /\ cur = 0 /\ some = FALSE /\ attempts = 0
    /\ track = 1 /\ fake = FALSE /\ quit = FALSE
    /\ retval = "OK" /\ error = FALSE
    /\ stored = 0 /\ pushed = FALSE /\ cancelled = FALSE
    /\ result = "OK" /\ raised = FALSE /\ runs = 0

-----------------------------------------------------------------------------
(* The chain.  The operators take the jobs as an argument: several of them  *)
(* are applied one after the other in one step.                             *)

LastActive(j, i) == j[i].active /\ \A k \in Items : k > i => ~j[k].active
FirstActive(j, i) == j[i].active /\ \A k \in Items : k < i => ~j[k].active

NextActive(j, i) ==
    IF \A k \in Items : k > i => ~j[k].active THEN 0
    ELSE CHOOSE k \in Items : /\ k > i /\ j[k].active
                              /\ \A l \in Items : i < l /\ l < k => ~j[l].active

\* rejilla_job_disconnect reads the input of the linked item without a check
PipeIsThere(j, i) == j[i].linked # 0 => j[j[i].linked].input # "none"

\* The writer of the pipe closes it, its own input goes away.
Disconnect(j, i) ==
    [k \in Items |->
        IF k = i THEN [j[k] EXCEPT !.input = "none"]
        ELSE IF k = j[i].linked /\ j[k].input = "open" THEN [j[k] EXCEPT !.input = "eof"]
        ELSE j[k]]

StopJob(j, i) == [j EXCEPT ![i].busy = FALSE]
Deactivate(j, i) == [j EXCEPT ![i] = Unused]

\* rejilla_task_send_stop_signal: every active item, from the first to the leader, so
\* that the pipe of an item is still there when its writer closes it.
Stopped(j) ==
    [k \in Items |->
        IF j[k].active THEN [j[k] EXCEPT !.active = FALSE, !.busy = FALSE, !.input = "none"]
        ELSE j[k]]
PipesAreThere(j) == \A i \in Items : j[i].active => PipeIsThere(j, i)

\* The last active item of a fake run is asked for a size (REJILLA_JOB_ACTION_SIZE).
Sizing(j, i) == fake /\ LastActive(j, i)

WithLink(j, i) == [j EXCEPT ![i].linked = NextActive(j, i)]
WithPipe(j, i) ==
    IF FirstActive(j, i) THEN WithLink(j, i) ELSE [WithLink(j, i) EXCEPT ![i].input = "open"]

\* rejilla_job_item_start with the answer a of the item: the jobs after it ...
Started(j, i, a) ==
    CASE ~j[i].active -> j
      [] j[i].active /\ a = "early" -> WithLink(j, i)
      [] j[i].active /\ a = "OK" -> [WithPipe(j, i) EXCEPT ![i].busy = TRUE]
      [] j[i].active /\ a = "NOT_SUPPORTED" /\ Sizing(j, i) -> Deactivate(WithPipe(j, i), i)
      [] OTHER -> WithPipe(j, i)

\* ... and what it returns.
StartResult(j, i, a) ==
    CASE ~j[i].active -> "OK"
      [] j[i].active /\ a = "early" -> "ERR"
      [] j[i].active /\ a = "NOT_RUNNING" /\ NextActive(j, i) # 0 -> "ERR"
      [] j[i].active /\ a = "NOT_SUPPORTED" /\ ~Sizing(j, i) -> "ERR"
      [] OTHER -> a

MayAnswer(j, i, a) ==
    /\ a = "early" => ~FirstActive(j, i) \/ (LastActive(j, i) /\ ~fake)
    /\ a = "RETRY" => i \in MayRetry
    /\ a \in {"NOT_RUNNING", "NOT_SUPPORTED"} => i \in MayRefuse

-----------------------------------------------------------------------------
(* rejilla_task_start *)

Return(res, err) ==
    /\ pc' = "idle" /\ result' = res /\ raised' = err
    /\ runs' = runs

\* The task ends without having waited: send_stop_signal, then return.
StopAndReturn(j, res, err) ==
    IF PipesAreThere(j)
    THEN job' = Stopped(j) /\ Return(res, err)
    ELSE job' = j /\ pc' = "broken" /\ UNCHANGED outcome

\* rejilla_task_start up to the end of activate_items.  An item that fails ends the
\* task and leaves those before it active.
Start ==
    /\ pc = "idle" /\ runs < MaxRuns
    /\ fake' \in BOOLEAN
    /\ track' = 1 /\ stored' = 0 /\ pushed' = FALSE /\ cancelled' = FALSE
    /\ \E declined \in SUBSET MayDecline, failed \in 0 .. NumItems :
          /\ failed \notin declined
          /\ job' = [i \in Items |->
                        IF failed # 0 /\ i > failed THEN job[i]
                        ELSE [job[i] EXCEPT !.active = i # failed /\ i \notin declined]]
          /\ runs' = runs + 1
          /\ IF failed # 0 THEN pc' = "idle" /\ result' = "ERR" /\ raised' = TRUE /\ UNCHANGED starting
             ELSE IF declined = Items THEN pc' = "idle" /\ result' = "OK" /\ raised' = FALSE /\ UNCHANGED starting
             ELSE /\ pc' = "starting" /\ cur' = NumItems /\ some' = FALSE /\ attempts' = 0
                  /\ UNCHANGED <<result, raised>>
    /\ quit' = FALSE
    /\ UNCHANGED <<retval, error>>

\* The track was skipped: the next one is tried, after the last one the task ends.
NextTrackOrReturn(j) ==
    IF track < NumTracks
    THEN /\ track' = track + 1 /\ job' = j
         /\ cur' = NumItems /\ some' = FALSE /\ attempts' = 0
         /\ pc' = "starting" /\ UNCHANGED outcome
    ELSE /\ StopAndReturn(j, "OK", FALSE)
         /\ UNCHANGED <<track, cur, some, attempts>>

\* One turn of the loop of rejilla_task_start_items with the answer a of the item cur.
StartItem(a) ==
    /\ pc = "starting" /\ cur # 0
    /\ IF job[cur].active THEN MayAnswer(job, cur, a) ELSE a = "OK"
    /\ LET res == StartResult(job, cur, a)
           j == Started(job, cur, a)
           called == job[cur].active \/ attempts > 0
       IN  \/ /\ res \in {"OK", "NOT_SUPPORTED"}
              /\ job' = j /\ cur' = cur - 1 /\ attempts' = 0
              /\ some' = (some \/ (called /\ res = "OK"))
              /\ UNCHANGED <<pc, track, outcome>>
           \/ /\ res = "NOT_RUNNING"
              /\ NextTrackOrReturn(j)
           \/ /\ res = "RETRY" /\ attempts < MaxAttempts
              /\ job' = j /\ pc' = "sleep"
              /\ UNCHANGED <<track, starting, outcome>>
           \/ /\ res = "ERR" \/ (res = "RETRY" /\ attempts >= MaxAttempts)
              /\ StopAndReturn(j, "ERR", TRUE)
              /\ UNCHANGED <<track, starting>>
    /\ quit' = FALSE
    /\ UNCHANGED <<fake, retval, error, stored, pushed, cancelled>>

\* Every item was tried.  With none of them the size of the track is taken from the
\* track itself and the track counts as skipped.
EnterLoop ==
    /\ pc = "starting" /\ cur = 0
    /\ \/ /\ some /\ pc' = "loop"
          /\ UNCHANGED <<job, track, starting, outcome>>
       \/ ~some /\ NextTrackOrReturn(job)
    /\ quit' = FALSE
    /\ UNCHANGED <<fake, retval, error, stored, pushed, cancelled>>

-----------------------------------------------------------------------------
(* The two main loops: rejilla_task_is_running holds until quit. *)

Running == pc \in {"sleep", "loop"} /\ ~quit

StopKeepsJobs(j, ret, err) ==   \* Fault: the items are not stopped
    job' = j /\ retval' = ret /\ error' = err /\ quit' = TRUE /\ UNCHANGED pc
StopKeepsLoop(j, ret, err) ==   \* Fault: the loop is not left
    job' = Stopped(j) /\ retval' = ret /\ error' = err /\ UNCHANGED <<quit, pc>>

\* rejilla_task_stop
Stop(j, ret, err) ==
    IF PipesAreThere(j)
    THEN job' = Stopped(j) /\ retval' = ret /\ error' = err /\ quit' = TRUE /\ UNCHANGED pc
    ELSE job' = j /\ pc' = "broken" /\ UNCHANGED <<retval, error, quit>>
Report(i) == Running /\ job[i].active /\ job[i].busy
Unaffected == <<cur, some, attempts, fake, cancelled, outcome>>

CtxFinishedForgets(j) ==        \* Fault: the stored tracks stay in the ctx
    Stop(j, "OK", FALSE) /\ UNCHANGED <<pushed, stored, track>>

\* rejilla_task_ctx_finished: the task stops, then the session gets the stored tracks.
CtxFinished(j) ==
    /\ Stop(j, "OK", FALSE)
    /\ pushed' = (stored > 0) /\ stored' = 0
    /\ UNCHANGED track
CtxErrorSilent(j) ==            \* Fault: the error gets lost
    Stop(j, "ERR", FALSE) /\ UNCHANGED <<pushed, stored, track>>

CtxError(j) == Stop(j, "ERR", TRUE) /\ UNCHANGED <<pushed, stored, track>>

CloseFirstKeepsPipe(j, i) ==    \* Fault: the pipe to the next item stays open
    /\ job' = Deactivate(j, i)
    /\ UNCHANGED <<pc, quit, retval, error, pushed, stored, track>>

\* The item is the first of several: it is closed, the next one sees the end of its input.
CloseFirst(j, i) ==
    /\ IF PipeIsThere(j, i)
       THEN job' = Deactivate(Disconnect(j, i), i) /\ UNCHANGED pc
       ELSE job' = j /\ pc' = "broken"
    /\ UNCHANGED <<quit, retval, error, pushed, stored, track>>
RestartNothing(j, a) ==         \* Fault: the next track is set, nothing works on it
    /\ track' = track + 1 /\ a = "OK" /\ job' = j
    /\ UNCHANGED <<pc, quit, retval, error, pushed, stored>>
RestartClosesPipe(j, a) ==      \* Fault: the pipe is closed between two tracks
    /\ track' = track + 1 /\ a = "OK" /\ job' = Started(Disconnect(j, 1), 1, a)
    /\ UNCHANGED <<pc, quit, retval, error, pushed, stored>>

\* rejilla_task_ctx_next_track and rejilla_task_finished (RETRY): the first item of the
\* chain is started again, in the same step, for the next track.
Restart(j, a) ==
    /\ track' = track + 1
    /\ IF j[1].active THEN MayAnswer(j, 1, a) ELSE a = "OK"
    /\ IF StartResult(j, 1, a) = "OK"
       THEN job' = Started(j, 1, a) /\ UNCHANGED <<pc, quit, retval, error>>
       ELSE Stop(Started(j, 1, a), "ERR", a \in {"ERR", "early"} \/ StartResult(j, 1, a) # a)
    /\ UNCHANGED <<pushed, stored>>
FinishTrackForever(i) ==        \* Fault: there is always a next track
    /\ Report(i) /\ i \in ByTrack /\ FirstActive(job, i)
    /\ \E a \in Answers : Restart(StopJob(job, i), a)
    /\ UNCHANGED Unaffected

\* rejilla_job_finished_track
FinishTrack(i) ==
    /\ Report(i) /\ i \in ByTrack
    /\ LET j == StopJob(job, i)
       IN  \/ /\ FirstActive(j, i) /\ track < NumTracks
              /\ \E a \in Answers : Restart(j, a)
           \/ /\ FirstActive(j, i) /\ track = NumTracks /\ ~LastActive(j, i)
              /\ CloseFirst(j, i)
           \/ /\ FirstActive(j, i) /\ track = NumTracks /\ LastActive(j, i)
              /\ CtxFinished(j)
    /\ UNCHANGED Unaffected
\* the same of an item that is not the first one
FinishTrackLater(i) ==
    /\ Report(i) /\ i \in ByTrack /\ ~FirstActive(job, i)
    /\ IF LastActive(job, i) THEN CtxFinished(job) ELSE CtxError(job)
    /\ UNCHANGED Unaffected

\* rejilla_job_finished_session.  The link of the item stays.
FinishSession(i) ==
    /\ Report(i) /\ i \notin ByTrack
    /\ IF LastActive(job, i) THEN CtxFinished(job)
       ELSE IF ~FirstActive(job, i) THEN CtxError(job)
       ELSE IF ~PipeIsThere(job, i)
       THEN job' = job /\ pc' = "broken" /\ UNCHANGED <<quit, retval, error, pushed, stored, track>>
       ELSE /\ job' = [Disconnect(StopJob(job, i), i) EXCEPT ![i].active = FALSE]
            /\ UNCHANGED <<pc, quit, retval, error, pushed, stored, track>>
    /\ UNCHANGED Unaffected

\* rejilla_job_error
JobError(i) ==
    /\ Report(i)
    /\ CtxError(job)
    /\ UNCHANGED Unaffected

\* rejilla_job_add_track, by the last active item of a run that makes an image
AddTrack(i) ==
    /\ Report(i) /\ LastActive(job, i) /\ ~fake /\ stored < MaxStored
    /\ stored' = stored + 1
    /\ UNCHANGED <<job, pc, track, quit, retval, error, pushed, Unaffected>>

CancelIgnored ==                \* Fault: the user is told so, the items go on
    /\ Running /\ cancelled' = TRUE
    /\ UNCHANGED <<cur, some, attempts, fake, outcome, pushed, stored, track, job, pc, quit, retval, error>>

\* rejilla_task_cancel
Cancel ==
    /\ Running
    /\ Stop(job, "CANCEL", FALSE)
    /\ cancelled' = TRUE
    /\ UNCHANGED <<cur, some, attempts, fake, outcome, pushed, stored, track>>

\* The timeout of rejilla_task_sleep.  It may be dispatched in the same iteration of the
\* main loop as the event that stopped the task.
Wakeup ==
    /\ pc = "sleep" /\ quit' = TRUE /\ retval' = "OK"
    /\ UNCHANGED <<job, pc, starting, track, fake, error, stored, pushed, cancelled, outcome>>

\* The end of rejilla_task_sleep: another attempt, or the task ends.
EndSleep ==
    /\ pc = "sleep" /\ quit
    /\ quit' = FALSE
    /\ IF retval = "OK"
       THEN /\ attempts' = attempts + 1 /\ pc' = "starting"
            /\ UNCHANGED <<job, outcome>>
       ELSE StopAndReturn(job, retval, FALSE) /\ UNCHANGED attempts
    /\ UNCHANGED <<cur, some, track, fake, retval, error, stored, pushed, cancelled>>

EndLoopKeepsError ==            \* Fault: the error stays in the task
    /\ pc = "loop" /\ quit
    /\ quit' = FALSE
    /\ Return(retval, FALSE)
    /\ UNCHANGED <<job, starting, track, fake, retval, error, stored, pushed, cancelled>>

\* The end of rejilla_task_run_loop
EndLoop ==
    /\ pc = "loop" /\ quit
    /\ quit' = FALSE /\ error' = FALSE
    /\ Return(retval, error)
    /\ UNCHANGED <<job, starting, track, fake, retval, stored, pushed, cancelled>>

-----------------------------------------------------------------------------
\* No run is left, or the program is gone.
Rest ==
    /\ pc = "broken" \/ (pc = "idle" /\ runs = MaxRuns)
    /\ UNCHANGED vars

StartAnyItem == \E a \in Answers : StartItem(a)
Reports == \E i \in Items : FinishTrack(i) \/ FinishTrackLater(i) \/ FinishSession(i) \/ JobError(i)

Next ==
    \/ Start
    \/ StartAnyItem
    \/ EnterLoop
    \/ Reports
    \/ \E i \in Items : AddTrack(i)
    \/ Cancel
    \/ Wakeup \/ EndSleep \/ EndLoop
    \/ Rest

Spec == Init /\ [][Next]_vars

\* The program runs on, timeouts fire, and an item at work ends: the user and the
\* callers of the task are free.
Fairness ==
    /\ WF_vars(StartAnyItem) /\ WF_vars(EnterLoop)
    /\ WF_vars(Reports)
    /\ WF_vars(Wakeup) /\ WF_vars(EndSleep) /\ WF_vars(EndLoop)
FairSpec == Spec /\ Fairness

-----------------------------------------------------------------------------
(* Properties *)

\* A task that waits has an item that works: otherwise nothing but the user would ever
\* end it (rejilla_task_run_loop has no other source of wake-up).
LoopIsServed == pc = "loop" /\ ~quit => \E i \in Items : job[i].busy

\* While the task waits, an open pipe has a writer at work: a reader whose writer is gone
\* sees the end of the file (rejilla_job_disconnect).
EofWhenWriterIsDone ==
    pc = "loop" /\ ~quit =>
        \A k \in Items : job[k].input = "open" =>
            \E i \in Items : job[i].busy /\ job[i].linked = k

\* Between two tracks the pipes stay open ("don't close the input of the next connected
\* job", rejilla_job_finished_track) unless the task stops.
PipesOutliveTracks ==
    [][pc = "loop" /\ track' # track /\ ~quit' /\ pc' = "loop" =>
        \A k \in Items : job[k].input = "open" => job'[k].input = "open"]_vars

\* A pipe is open as long as its writer, and no longer: neither when the writer is done,
\* nor between two tracks.
PipesFollowWriters == []EofWhenWriterIsDone /\ PipesOutliveTracks

\* A task that has returned, whatever the way, has left no item at work and no pipe.
QuietWhenIdle == pc = "idle" => \A i \in Items : ~job[i].busy /\ job[i].input = "none"

\* An error is returned by the run it ended, never kept for the next one.
ErrorIsHandedOver == pc = "idle" => ~error

\* A run that fails says why: rejilla_burn_run_imager and _recorder can do nothing about
\* an ERR without a GError.
FailureIsExplained == pc = "idle" /\ result = "ERR" => raised

\* A successful run gives the session all the tracks it was given, another one none.
TracksAreHandedOver ==
    pc = "idle" /\ runs > 0 => /\ result = "OK" => stored = 0
                               /\ pushed => result = "OK"

\* What a run returns is the whole truth about it: its own error, whenever it failed, and
\* its tracks, all or none.
RunIsAnsweredFor == ErrorIsHandedOver /\ FailureIsExplained /\ TracksAreHandedOver

\* Once cancelled, the task does not start or wait for anything more.
CancelIsFinal == cancelled => ~(pc = "loop" /\ ~quit)

\* rejilla_job_disconnect finds the pipe of the item it was linked to.
DisconnectFindsThePipe == pc # "broken"

\* A task that was started returns (or ends as DisconnectFindsThePipe says): somebody stops
\* its loop.
TaskReturns == pc \in {"starting", "sleep", "loop"} ~> pc \in {"idle", "broken"}
=============================================================================
