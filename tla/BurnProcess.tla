----------------------------- MODULE BurnProcess -----------------------------
(***************************************************************************)
(* A plugin that runs a program (burn-process.c), as an item of a burning  *)
(* task: the program is spawned with pipes on its outputs, every line it   *)
(* writes goes to the plugin, and once both pipes are at their end its     *)
(* exit is polled.  The plugin reports to its task, which may be stopped   *)
(* at any moment by the user or by the other item of the chain.            *)
(*                                                                         *)
(* Everything but the program itself happens in the main thread, but not   *)
(* without surprises: stopping a program hands the plugin the lines that   *)
(* were read ahead, and what it makes of them may stop the task again from *)
(* inside the stop.                                                        *)
(***************************************************************************)
EXTENDS Naturals, Sequences

CONSTANTS
    Roles,      \* places of the item in its chain: subset of "alone", "first", "last"
    Posts,      \* what ::post does: subset of "track", "session", "toc"
    Ends,       \* how a program ends: subset of "ok", "bad", "killed"
    LateErrors, \* an error of the first of two items may have been read ahead at its stop
    NumTracks,  \* number of tracks of the session
    MaxLines,   \* bound: lines waiting in a pipe
    MaxRuns     \* bound: how many times the task runs

ASSUME ProcessAssumption ==
    /\ Roles \subseteq {"alone", "first", "last"} /\ Posts \subseteq {"track", "session", "toc"}
    /\ Ends \subseteq {"ok", "bad", "killed"} /\ LateErrors \in BOOLEAN
    /\ NumTracks \in Nat \ {0} /\ MaxLines \in Nat /\ MaxRuns \in Nat

VARIABLES
    role, post,             \* the plugin and its place, chosen once
    action,                 \* what the job does in this run: "image", "record", "size"
    pid,                    \* priv->pid is set
    open,                   \* the pipes that are watched: io_out and io_err
    watch,                  \* the timeout that polls the program
    process_finished, return_status, deferred,
    toc,                    \* tmp_toc_path of cdrdao: toc2cue comes next
    lines, held, ended,     \* the program: lines on their way, pipes it holds, its end
    task,                   \* "idle", "loop", or "broken" when the program crashed
    active,                 \* the item still belongs to the task
    left,                   \* tracks after the current one
    stored, pushed,         \* tracks kept by the ctx; and given to the session in this run
    result, error,          \* what the task returned: its code and whose error
    done,                   \* history: the plugin took a line for the end of the work
    runs

setting == <<role, post>>
program == <<lines, held, ended>>
sources == <<pid, open, watch>>
outcome == <<process_finished, return_status, deferred>>
chain == <<task, active, left, stored, pushed, result, error>>
vars == <<setting, action, sources, outcome, toc, program, chain, done, runs>>

Pipes == {"out", "err"}
\* The lines as the plugins read them: of no consequence, an error that matters only if
\* the program fails, an error, the end of the work.
Lines == {"info", "deferred", "error", "done"}
NoLines == [c \in Pipes |-> <<>>]

TypeOK ==
    /\ role \in Roles /\ post \in Posts
    /\ action \in {"image", "record", "size"}
    /\ pid \in BOOLEAN /\ open \subseteq Pipes /\ watch \in BOOLEAN
    /\ process_finished \in BOOLEAN /\ return_status \in {0, 1} /\ deferred \in BOOLEAN
    /\ toc \in BOOLEAN
    /\ lines \in [Pipes -> Seq(Lines)] /\ held \subseteq Pipes /\ ended \in {"no"} \cup Ends
    /\ task \in {"idle", "loop", "broken"} /\ active \in BOOLEAN
    /\ left \in 0 .. NumTracks /\ stored \in {0, 1} /\ pushed \in BOOLEAN
    /\ result \in {"none", "OK", "ERR", "CANCEL"}
    /\ error \in {"none", "start", "child", "general", "deferred", "peer"}
    /\ done \in BOOLEAN /\ runs \in 0 .. MaxRuns

\* cdrdao is the one plugin that runs a second program, to read a disc into an image.
Init ==
    /\ role \in Roles /\ post \in Posts /\ (post = "toc" => role = "alone")
    /\ action = "size"
    /\ pid = FALSE /\ open = {} /\ watch = FALSE
    /\ process_finished = FALSE /\ return_status = 0 /\ deferred = FALSE /\ toc = FALSE
    /\ lines = NoLines /\ held = {} /\ ended = "no"
    /\ task = "idle" /\ active = FALSE /\ left = 0 /\ stored = 0 /\ pushed = FALSE
    /\ result = "none" /\ error = "none"
    /\ done = FALSE /\ runs = 0

-----------------------------------------------------------------------------
(* The program, as the system runs it *)

Write(c, l) ==
    /\ c \in held /\ pid /\ Len(lines[c]) < MaxLines
    /\ l = "done" => action # "image"
    /\ lines' = [lines EXCEPT ![c] = Append(@, l)]
    /\ UNCHANGED <<setting, action, sources, outcome, toc, held, ended, chain, done, runs>>

\* It may close an output before it ends.
CloseOutput(c) ==
    /\ c \in held /\ pid
    /\ held' = held \ {c}
    /\ UNCHANGED <<setting, action, sources, outcome, toc, lines, ended, chain, done, runs>>

EndProgram(how) ==
    /\ pid /\ ended = "no"
    /\ ended' = how /\ held' = {}
    /\ UNCHANGED <<setting, action, sources, outcome, toc, lines, chain, done, runs>>

-----------------------------------------------------------------------------
(* Starting and stopping it *)

\* Only the output of the last item is read; stderr always is.
MayOpen(o) == "err" \in o /\ (role = "first" => o = {"err"})

\* rejilla_process_start: the program runs
Spawned(o, act) ==
    /\ MayOpen(o)
    /\ pid' = TRUE /\ open' = o
    /\ process_finished' = FALSE /\ return_status' = 0
    /\ lines' = NoLines /\ held' = o /\ ended' = "no" /\ done' = FALSE
    /\ toc' = (post = "toc" /\ act = "image" /\ ~toc)

\* rejilla_process_add_automatic_track, with the values it finds
TrackIsEarned(finished, status, act) ==
    finished /\ status = 0 /\ role # "first" /\ act = "image"
KeptTracks(finished, status) ==
    IF TrackIsEarned(finished, status, action) THEN 1 ELSE stored

\* rejilla_process_stop: no source and no pipe survives, nobody waits for the program
ForgottenButWatched ==          \* Fault: the timeout goes on polling
    /\ pid' = FALSE /\ open' = {} /\ deferred' = FALSE
    /\ lines' = NoLines /\ held' = {} /\ UNCHANGED <<watch, ended>>
Forgotten ==
    /\ pid' = FALSE /\ open' = {} /\ watch' = FALSE /\ deferred' = FALSE
    /\ lines' = NoLines /\ held' = {} /\ UNCHANGED ended

\* rejilla_process_stop gives the plugin the lines that were read ahead, ls.  An error
\* among them stops the task a second time, from inside: what the inner stop stored is
\* overwritten by the outer one, which then goes on with rejilla_job_disconnect.  That of
\* the first item reads the pipe to the next one, gone by then.
PipeIsGone(ls) ==
    /\ LateErrors /\ active /\ role = "first"
    /\ \E c \in open : \E i \in 1 .. Len(ls[c]) : ls[c][i] = "error"

\* Every item is stopped and the loop of the task is left.
ItemsStopped(ls) ==
    /\ IF active THEN Forgotten ELSE UNCHANGED <<sources, deferred, program>>
    /\ active' = FALSE
    /\ task' \in (IF PipeIsGone(ls) THEN {"idle", "broken"} ELSE {"idle"})

\* rejilla_task_stop: the stop may leave a track in the ctx
TaskStopped(ret, err, kept, ls) ==
    /\ ItemsStopped(ls)
    /\ result' = ret /\ error' = err /\ stored' = kept
    /\ UNCHANGED pushed

\* rejilla_task_ctx_finished: the task stops, then the session gets the tracks
CtxFinishedEarly(kept, ls) ==   \* Fault: the session gets them before the last one is there
    /\ ItemsStopped(ls)
    /\ result' = "OK" /\ error' = "none"
    /\ pushed' = (stored > 0) /\ stored' = 0
    /\ UNCHANGED left
CtxFinished(kept, ls) ==
    /\ ItemsStopped(ls)
    /\ result' = "OK" /\ error' = "none"
    /\ pushed' = (kept > 0) /\ stored' = 0
    /\ UNCHANGED left

KeptAtStop == IF active THEN KeptTracks(process_finished, return_status) ELSE stored

-----------------------------------------------------------------------------
(* The task *)

Actions == IF role = "first" THEN {"image"}
           ELSE IF post = "toc" THEN {"image", "record"}
           ELSE {"image", "record", "size"}

StartTask ==
    /\ task = "idle" /\ runs < MaxRuns
    /\ runs' = runs + 1 /\ left' = NumTracks - 1
    /\ action' \in Actions
    /\ pushed' = FALSE
    /\ UNCHANGED setting

StartProgram ==
    /\ StartTask
    /\ \E o \in SUBSET Pipes : Spawned(o, action')
    /\ task' = "loop" /\ active' = TRUE /\ stored' = 0
    /\ result' = "none" /\ error' = "none"
    /\ UNCHANGED <<watch, deferred>>

\* The arguments cannot be had, or the program does not run: the task stops its items
\* and returns.  Without arguments the flags of the last program are still there.
StartNothing ==
    /\ StartTask
    /\ \E argv \in BOOLEAN :
          /\ process_finished' = (process_finished /\ ~argv)
          /\ return_status' = IF argv THEN 0 ELSE return_status
          /\ toc' = IF argv THEN post = "toc" /\ action' = "image" /\ ~toc ELSE toc
    /\ stored' = IF TrackIsEarned(process_finished', return_status', action') THEN 1 ELSE 0
    /\ task' = "idle" /\ active' = FALSE /\ result' = "ERR" /\ error' = "start"
    /\ UNCHANGED <<sources, deferred, program, done>>

Cancel ==
    /\ task = "loop"
    /\ TaskStopped("CANCEL", "none", KeptAtStop, lines)
    /\ UNCHANGED <<setting, action, process_finished, return_status, toc, left, done, runs>>

\* The other item of the chain reports an error, or that it is done if it is the leader.
PeerFails ==
    /\ task = "loop" /\ role # "alone"
    /\ TaskStopped("ERR", "peer", KeptAtStop, lines)
    /\ UNCHANGED <<setting, action, process_finished, return_status, toc, left, done, runs>>
PeerFinishes ==
    /\ task = "loop" /\ role = "first"
    /\ CtxFinished(KeptAtStop, lines)
    /\ UNCHANGED <<setting, action, process_finished, return_status, toc, done, runs>>

-----------------------------------------------------------------------------
(* The pipes *)

Unread(c) == [lines EXCEPT ![c] = Tail(@)]

\* rejilla_process_read: one line for stdout_func or stderr_func
ReadLine(c) ==
    /\ c \in open /\ lines[c] # <<>>
    /\ \/ /\ Head(lines[c]) \in {"info", "deferred"}
          /\ lines' = Unread(c)
          /\ deferred' = (deferred \/ Head(lines[c]) = "deferred")
          /\ UNCHANGED <<sources, held, ended, chain, done>>
       \/ /\ Head(lines[c]) = "error"
          /\ TaskStopped("ERR", "child", KeptAtStop, Unread(c))
          /\ UNCHANGED <<left, done>>
       \/ /\ Head(lines[c]) = "done"
          /\ CtxFinished(KeptAtStop, Unread(c))
          /\ done' = TRUE
    /\ UNCHANGED <<setting, action, process_finished, return_status, toc, runs>>

EndOfPipeUnwatched(c) ==        \* Fault: only the end of stderr has the program polled
    /\ c \in open /\ lines[c] = <<>> /\ c \notin held
    /\ open' = open \ {c}
    /\ watch' = (watch \/ (c = "err" /\ open' = {}))
    /\ UNCHANGED <<setting, action, pid, outcome, toc, program, chain, done, runs>>

\* rejilla_process_read_stdout and _stderr at the end: with the last pipe gone the
\* program is polled.
EndOfPipe(c) ==
    /\ c \in open /\ lines[c] = <<>> /\ c \notin held
    /\ open' = open \ {c}
    /\ watch' = (watch \/ (pid /\ open' = {}))
    /\ UNCHANGED <<setting, action, pid, outcome, toc, program, chain, done, runs>>

-----------------------------------------------------------------------------
(* The end of the program: rejilla_process_watch_child, rejilla_process_finished *)

\* WEXITSTATUS of a program that was killed reads 0
ExitStatus(how) == IF how = "bad" THEN 1 ELSE 0

\* A bad status is an error of the job.  The test on the deferred error is the wrong way
\* round: it is replaced, and without one there is no error to hand over.
Failed ==
    /\ process_finished' = TRUE /\ return_status' = 1
    /\ TaskStopped("ERR", IF deferred THEN "general" ELSE "none", KeptTracks(TRUE, 1), lines)
    /\ UNCHANGED <<toc, left, done>>

\* The item is stopped and starts another program in the place of the one that ended, or
\* fails to, before or after it has the arguments: finished is the flag it finds.
Respawned(finished, kept) ==
    \/ /\ \E o \in SUBSET Pipes : Spawned(o, action)
       /\ watch' = FALSE /\ deferred' = FALSE /\ stored' = kept
       /\ UNCHANGED <<task, active, pushed, result, error>>
    \/ /\ process_finished' \in {finished, FALSE} /\ return_status' = 0
       /\ toc' = FALSE
       /\ TaskStopped("ERR", "start", kept, lines)
       /\ UNCHANGED done

\* ::post asks for another program (RETRY)
PostAgain ==
    /\ toc
    /\ Respawned(FALSE, stored) /\ UNCHANGED left

NextTrackForever ==             \* Fault: there is always a next track
    /\ ~toc /\ post = "track" /\ role # "last"
    /\ Respawned(TRUE, KeptTracks(TRUE, 0)) /\ left' = left - 1

\* rejilla_job_finished_track, with a track to go
NextTrack ==
    /\ ~toc /\ post = "track" /\ role # "last" /\ left > 0
    /\ Respawned(TRUE, KeptTracks(TRUE, 0)) /\ left' = left - 1

Finished ==
    /\ process_finished' = TRUE /\ return_status' = 0
    /\ UNCHANGED <<toc, done>>

\* rejilla_job_finished_track and _session of the first of two items: it is closed
CloseItem ==
    /\ ~toc /\ role = "first" /\ (post = "track" => left = 0)
    /\ Finished /\ Forgotten /\ active' = FALSE
    /\ UNCHANGED <<task, left, stored, pushed, result, error>>

\* and of the leader
FinishTask ==
    /\ ~toc /\ role # "first" /\ (post = "track" /\ role = "alone" => left = 0)
    /\ Finished
    /\ CtxFinished(KeptTracks(TRUE, 0), lines)

Reap ==
    /\ watch /\ ended # "no"
    /\ IF ExitStatus(ended) # 0 THEN Failed
       ELSE PostAgain \/ NextTrack \/ CloseItem \/ FinishTask
    /\ UNCHANGED <<setting, action, runs>>

-----------------------------------------------------------------------------
\* No run is left, or the program is gone.
Rest ==
    /\ task = "broken" \/ (task = "idle" /\ runs = MaxRuns)
    /\ UNCHANGED vars

EndAnyhow == \E how \in Ends : EndProgram(how)
ReadSome == \E c \in Pipes : ReadLine(c)
CloseSome == \E c \in Pipes : EndOfPipe(c)

Next ==
    \/ StartProgram \/ StartNothing
    \/ Cancel \/ PeerFails \/ PeerFinishes
    \/ \E c \in Pipes, l \in Lines : Write(c, l)
    \/ \E c \in Pipes : CloseOutput(c)
    \/ EndAnyhow \/ ReadSome \/ CloseSome \/ Reap
    \/ Rest

\* The main loop goes on, a program comes to its end; nobody has to stop anything.
Fairness == WF_vars(EndAnyhow) /\ WF_vars(ReadSome) /\ WF_vars(CloseSome) /\ WF_vars(Reap)
Spec == Init /\ [][Next]_vars /\ Fairness

-----------------------------------------------------------------------------
(* Properties *)

\* An item at work knows its program and waits for it in exactly one way: through the
\* pipes while one is open, through the polling after that ("setup a child watch callback
\* to be warned when it finishes", rejilla_process_read_stderr).  An item that stopped,
\* whatever stopped it, has left no source that could call it back.
SourcesServeTheProgram ==
    /\ pid = (task = "loop" /\ active)
    /\ watch = (pid /\ open = {})
    /\ held \subseteq open /\ (~pid => open = {} /\ ~deferred)

\* A run of the task in which the program is the leader succeeds only if the program
\* exited with 0 or its plugin took its word for it; the image of such a run has reached
\* the session ("See if we need to automatically add a track", rejilla_process_stop).
SuccessIsEarned ==
    task = "idle" /\ result = "OK" /\ role # "first" =>
        (done \/ ended = "ok") /\ (action = "image" => pushed)

\* An item at work comes to an end by itself, as the task that waits in its loop expects:
\* the end of the program is noticed whatever pipe is closed first.
ProgramIsReaped == pid ~> ~pid
=============================================================================
