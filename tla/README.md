# Rejilla in TLA+

A TLA+ development kept beside *rejilla*, a disc burning application written in C, and its three libraries
`librejilla-utils`, `librejilla-media` and `librejilla-burn`. It models the parts of the program where things happen
concurrently, are retried, undone or shared between owners, checks them with TLC on small instances and proves the
most important invariants with TLAPS for every value of the parameters.

Contents: [inventory](#1-inventory), [modules and code](#2-modules-and-code), [runs](#3-runs), [proofs](#4-proofs),
[where code and documentation disagree](#5-where-code-and-documentation-disagree),
[not modelled](#6-not-modelled-and-known-limits), [plan](#7-plan).

## 1. Inventory

### How the parts fit together

```
 src/ (GTK application, CLI)           caja/ (file manager extension)
   |  asks, dialogs                      |
 librejilla-burn
   RejillaBurn  ---- session (settings, tracks) ---- session-cfg, session-span
     |  locks, ejects       | data, audio, image, disc tracks
     |                      data-project <- data-vfs <- RejillaIO (librejilla-utils)
     |  caps + plugin graph        ^ file-monitor         |
   RejillaTask (ctx, items) -> RejillaJob (plugins/ ...) -> async task manager (threads)
     |                              `-> RejillaProcess (child processes, pipes)
 librejilla-media: medium monitor -> RejillaDrive -> RejillaMedium -> SCSI
```

Almost everything runs in the main thread, but it runs *nested main loops*: a dialog, a sleep, a task, an ejection and a
mount each iterate the main loop, so any idle call, timeout or signal may be handled in the middle of a function.
Worker threads exist in three places: the task manager's pool, the probing threads of drives and media, and the threads of the libburn, transcode and checksum plugins. They come back to the main thread through
idle calls and conditions.

### Components

| component | state it keeps | operations | what is hard | what makes it correct | module |
|---|---|---|---|---|---|
| asynchronous task manager (`rejilla-async-task-manager.c`) | waiting and active tasks, two thread counters, three conditions | queue, find_urgent, foreach_active_remove, foreach_unprocessed_remove, finalize, the thread function | lost wake-ups; idle threads that time out together; a cancellation crossing the end of a task; two blocking waits of the main thread | exact counters; one thread ready; no task without a thread; one owner of each ctx; main loop never blocked for good | `AsyncTaskManager`, `TaskPool` |
| RejillaIO delivery (`rejilla-io.c`) | results, idle source, `in_use` of methods, reference counts of callback data, bases of the objects | push of a job, return_result, the idle call, find_urgent, cancel_by_base, the end of an object | results delivered inside callbacks of other results; cancellation against late results; two locks; objects that end in their own callback | counts equal holders; no stranded result; no re-entry; nothing left of a freed base; every request ends | `RejillaIO` |
| burning task (`burn-task.c`, `burn-job.c`, `burn-task-ctx.c`) | the chain of items, pipes, current track, loop, error, tracks made | start, check, cancel, the reports of the items | items report while others are being started; stop in the middle; restart for the next track; several runs of one task | an item at work as long as the loop runs; errors handed over once; all tracks or none; nothing at work afterwards | `BurnTask` |
| burning session run (`rejilla-burn.c`) | drives held, disc found, pile of settings and of tracks, task list, simulation | record (with copy in one drive), blank, check, cancel | discs refused, reloaded and swapped while dialogs run; erase and record of a disc that was not agreed on; nested real session after a simulation | drives locked while used, released at the end; loss of data agreed to; session given back untouched; the run ends | `RejillaBurn` |
| drive and medium probing (`rejilla-drive.c`) | probing thread, flags, idle call, medium, locks | probes, changes, lock, unlock, reprobe, eject, finalize | changes crossing probes, locks and ejections; cancelled threads; orphaned idle calls | one probing thread; door free; no change forgotten; main thread never blocked for good | `RejillaDrive` |
| session and tracks (`rejilla-session.c`, `rejilla-track*.c`) | settings and tracks, their piles, output and tags | add, remove, push, pop, set | lists put away and taken back by different owners; signals to owners in the middle of changes | pushes and pops balance | piles: of settings in `RejillaBurn`, of tracks in `SessionSpan` |
| session configuration (`rejilla-session-cfg.c`, `rejilla-drive-settings.c`, `rejilla-drive-properties.c`) | validity, flags of the session, those supported and compulsory, autoconfiguration on or off | handlers of tracks, output, plugins and imported sessions; add and remove flags; the settings of a drive | each change recomputes flags one by one, each of which changes what the next may be; the burn does the same again in its own order | what is shown is true of the session as it is; flags survive the burn's own check; an imported session is merged | `SessionCfg` |
| spanning (`rejilla-session-span.c`) | what is left to span | check of the size on each change, span_start, possible, next, again, stop, max_space | discs of any size inserted between batches; what is left remembered in two places; spanning given up half way | every item burnt on one disc; a dialog that says success has burnt all | `SessionSpan` |
| burn options, project window, burn dialog (`rejilla-burn-options.c`, `rejilla-project.c`, `rejilla-burn-dialog.c`) | the session they edit, number of copies, answer of the last dialog | span on request, burn, insert the next disc, another copy, give up, close | the session belongs to the window, its batches to the dialog | the window has its session back however burning ended; the dialog ends | what they do to the session, in `SessionSpan` |
| capabilities (`burn-caps.c`, `rejilla-caps-*.c`, `burn-plugin.c`, what the plugins declare) | graph of plugins, their flags for each medium | find links, create a task chain, supported and compulsory flags, blanking flags | three searches of one graph that must agree; plugins of a link taken together by one and alone by another | what may be burnt, with the flags it may have, finds its plugins | `BurnCaps` |
| data project (`rejilla-data-project.c`, `rejilla-file-node.c`, parts of `rejilla-track-data-cfg.c`) | node tree, grafts, table of URIs, joliet entries, sectors, files above 2 GiB | add, remove, rename, move, new folder, restore, save and open | stale grafts and references, name collisions, the same URI in several places, files that turn out to be something else | tree and table agree, names unique, sums exact, what is exported for burning is what is shown | `RejillaDataProject`, `RejillaDataVfs` |
| data loader (`rejilla-data-vfs.c`, `rejilla-filtered-uri.c`) | loading and directory tables with their references, filters | loads, listings, results, cancellation | results for nodes that were removed, moved or replaced while the job ran | no reference left to a removed node, a node that is loading is waited for by somebody | `RejillaDataVfs` |
| file monitor (`rejilla-file-monitor.c`) | inotify watches, moves waiting for their second half | events | events of the same file racing | | not modelled |
| child processes (`burn-process.c`) | pid, two pipes with their sources, watch of the exit, code returned | set_argv, start, read, finished, stop | exit of the child against end of its output, stop within a reading callback, errors put off | output not lost, sources gone when the process is, success only if the program succeeded | `BurnProcess` |
| metadata and mounts (`rejilla-metadata.c`, mounting in `rejilla-io.c`) | two pipelines, cache, mount operations | get_uri, cancel, mount | cancelled jobs answered late; cache that is stale | answers belong to the file as it is | planned |
| medium monitor, volumes, GIO operations | drives and volumes, nested loops for mount and eject | mount, unmount, eject, cancel | cancellation of nested operations | operation ends once | not modelled |
| progress, the other dialogs, application, plugins, SCSI, image formats, D-Bus | | | | | not modelled, see 6 |

`PROJECT.json` lists every component with its sources, and every hazard at its line.

## 2. Modules and code

Each definition names the C function it stands for, `PROJECT.json` ("map") gives its lines. Definitions whose comment
starts with `Fault:` are plausible mistakes in the definition after them: put in its place, they violate the property
that `PROJECT.json` ("mutants") names with them. Variables keep the names of the fields.

### AsyncTaskManager, TaskPool

An action of `AsyncTaskManager` is one critical section of `manager->priv->lock`: what a thread does between taking
it and releasing it or blocking on a condition. Worker threads move through `created`, `sleeping` (untimed wait),
`dozing` (timed wait), `woken`, `expired` and `running`; the main thread is `idle` or in one of the two blocking calls.
A condition is the set of threads that wait on it; a signal wakes one of them, or nobody. Spurious wake-ups of both waits
are steps. `g_thread_create` may fail. The task function is arbitrary: it ends, or asks to be rescheduled.

`TaskPool` is what callers of the manager may rely on: a task is queued, run by at most one thread with at most
`MaxThread` at once, and one being cancelled leaves only when the canceller has seen it. `AsyncTaskManager` implements it
(`ImplementsPool`, a refinement mapping), and `RejillaIO` is built on it (`UsesPool` says that RejillaIO drives its
jobs only as the pool allows). Both refinements are proved for any number of tasks and threads (section 4).

### RejillaIO

The main thread is the stack `frames` of results being delivered. In the callback of a result it may run a main loop, in
which the idle call delivers further results; `in_use` of the methods keeps a callback from being re-entered. Jobs go
through `waiting`, `running`, `reporting` (in `rejilla_io_return_result`), `left` and `destroying` (in `job_free`, with
the manager's lock). `ref` is the atomic count of the callback data. `cancel_by_base` is the passes it makes - the waiting
jobs (`CancelUnprocessed`), the active ones (`CancelActive`), each wake-up of the wait for them (`CancelWaited`), the
results - since each takes a lock of its own and threads go on in between; `call.tasks` is the list of active tasks that
is waited for. The pool underneath is that of `TaskPool`, its cancelling wait included. A directory is put back in the
waiting list while it is read; `PutBack` says whether that may fall between the first two passes (section 5).
`PushRefused` is a request that the manager refuses because no thread can be created for it: `rejilla_io_push_job` does not look
at what `queue` returns, and the job is `lost` with its callback data (section 5).

### BurnTask

`pc` is where `rejilla_task_start` is: starting an item, in the pause before another attempt, or in the loop. An item
is active (has a ctx), busy, has a pipe to the next one and remembers the item it was `linked` to. Item behaviour is
constrained by constants (who may decline, ask for another attempt, refuse). The reports (`FinishTrack`,
`FinishSession`, `JobError`) and the user's `Cancel` are possible whenever the main loop runs. All the work `Stop` does -
every active item stopped, pipes closed, loop quit - is one action.

### RejillaBurn

`pc` names the function that runs, `caller` the place to return to from what makes it wait: a disc that is asked for, a question,
a sleep. Sessions are of seven kinds: five recordings (`file`, files or an image to an image file; `rip`, a disc to an image file;
`disc`; `clone`, from one drive to another; `copy`, in one drive), `rejilla_burn_blank` and `rejilla_burn_check` of a disc.
`LockRewritable` waits for nobody, whatever the comment above its call says ("we wait for the insertion of a media and lock
it"): a missing disc, or one that cannot be rewritten, is an error, and the code behind `can_be_rewritten` that would ask for
another is never reached. `BlankReal` asks for one when the plugin reports a disc that is not rewritable, which no plugin of the
repository does. `media` is what is in the drives; `Swap` lets the user change the disc of any drive that is not locked at any
time. Discs are told apart by what the code asks of them: can be written, is blank, has data that can be appended to or
not. `Checked` stands for `rejilla_burn_check_session_consistency`: supported flags kept, compulsory ones added.

What a task reports is arbitrary, and what `run_imager` and `run_recorder` answer is theirs: a disc without data makes the
imager eject the source, ask for another and lock it in the middle of the tasks (`ImagerAsksSrc`; no plugin of the repository
reports it, and the model asks only where there is a drive); Joliet and a place for the image are questions (`AskToCarryOn`);
the recorder waits for a drive that others use (`Claim`) and rests when it was too slow (`TooSlow`), any number of times.
The tasks are first run in fake mode, which starts again in the same ways. An imager reads a disc only where there is one
with data in its drive (`CanRead`).

Settings are pushed on `pile` by `run_tasks` and popped by `end_tasks`. `pushed` is what lies over the session's own tracks: the
images an imager leaves there for the recorder (`rejilla_task_ctx_finished`), which nobody pops, and the track a check is about.
`rejilla_burn_session_get_src_drive` looks at the top: once a disc is imaged, the session has no source drive any more.

### RejillaDrive

The threads of `rejilla_drive_probe_thread` and `rejilla_drive_probe_inside_thread` are one machine (`start`, `open`,
`test`, `wait`, `caps`, `end`) since they differ in where they start and what they do at the end. The queue `idles` holds
the callbacks that wait for the main loop: `tracked` is the one `priv->probe_id` names, an `orphan` is one whose id was
overwritten. `cond_probe` is left out: it only shortens a wait that may end at any time. The main thread is blocked in
`cancel` and `join...`; in `eject_...` it runs the nested main loop of the GIO operation.
The medium's own thread is one step: what it finds is what is in the drive at its end.

### BurnProcess

One `RejillaProcess` and what its task makes of it, over several runs. `lines` is what the program has written and nobody has
read, `held` the pipes it still holds, `ended` how it ended. `open` is the pipes that the main loop watches, `pid` whether
there is a program and `watch` the timeout that polls it. The item is `alone`, the `first` of two or the `last` (`role`): the first
one hands its output to a program of the next item and does not read it. `post` says what the plugin does at the end of its
program: a track or a session is finished, or another program is started (cdrdao, which converts its table of contents
afterwards, `toc`). `return_status`, `deferred` and `process_finished` are what the plugin remembers; `stored`, `result` and `error`
what the task does. `TaskStopped` stops every item, which is `rejilla_process_stop` with the lines it drains of the
pipes: a track that the stop leaves in the task is `KeptAtStop`, and an error among the drained lines stops the item
again, inside the stop (`PipeIsGone`).

### RejillaDataProject, RejillaDataVfs

`RejillaDataProject` has no variables: a project is a record (nodes with parents, names, URIs and kinds; the table
`grafts` from URIs to nodes; `joliet`; sectors; the references of `RejillaFileNode`), and each C function is an operator
from project to project, so that one request of the user is the composition its C function is. `Contents` is what
`rejilla_data_project_get_contents` gives to the burning backend: grafts and excluded URIs. `Shown` is the tree as the
user sees it. `Image` is the external part: what mkisofs or libburn make of the grafts on the disc's files.

`RejillaDataVfs` has the requests (add, new folder, rename, move, remove, restore, save, open) and the
answers of RejillaIO (`NodeResult`, `DirResult` for an entry, `NodeEnd`, `DirEnd`), interleaved in any order. Inputs
which are known to go wrong have names in `Inputs`; a request or an answer of such a kind is taken only if the constant
lists it (section 5). Without that, none of the properties would hold for longer than a few steps.

### SessionSpan

What is burnt are items: the songs of a session (`stream`, a track for each), or the files and folders at the top of a data
project (`data`, one track for all). `session` is the `RejillaSessionCfg`: its tracks and the pile `rejilla_burn_session_push_tracks`
makes, `track_list` and `last_track` of the spanning, the nodes the data project remembers as `spanned`, and what the last
check of the size came to: `is_valid`, and `offered` for whether the windows propose several discs. The functions of
`rejilla-session-span.c` are operators from session to session; the pointers `track_list` and `last_track` are a list and
a position in it. `window` is where the session is edited: the options start the spanning and take the first batch,
the main window starts it only. `pc` is what the user sees: the window, the recording, the question for the next disc, or the
end. `space` is the room on the disc; any disc may be inserted. `burnt` is a ghost: the batches burnt for this copy. As in
`RejillaDataVfs`, what is known to go wrong is named in `Inputs` (section 5).

### BurnCaps, SessionCfg

`BurnCaps` has no variables. `PluginFlags`, `Takes` and `BlankFlags` are what the `export_caps` functions of the plugins
declare for five kinds of discs in each status; a pair is the structure of `rejilla_plugin_set_flags`, supported and
compulsory flags. Three questions are asked of it: `CanBurn` (`rejilla_burn_session_can_burn`), `BurnFlags`
(`rejilla_burn_session_get_burn_flags`, for the disc as it is and for the disc blanked first) and `NewTask`
(`rejilla_burn_caps_new_task`). The recursion of the searches is two steps deep, a recorder and what makes its input.
The tables are functions of a plugin and a medium (`PluginFlags[p][m]`). That a disc is one the tables know, with no more free
room than room, that plugins are those of the table and that stored settings are what the dialog can store, are assumptions
of `SessionCfg`.

`SessionCfg` is a session under the eyes of its window: `given` is what others change (disc, tracks, plugins), `cfg` the
flags of the session with the `supported` and `compulsory` of `RejillaSessionCfgPrivate`, `imported` how much of the
disc's last session the tracks have. Each handler of `rejilla-session-cfg.c` is an action with the recomputation it ends
with. The loop over the bits of the flags asks again after each addition: `EachFlag` is its nine rounds, one call of
the same step for each flag modelled, in the order of the bits. `OpenProperties` is the Burn button with the drive settings it binds (`Bound`), `AddFlags` and `RemoveFlags` are
the boxes of the dialog, and `Burn` goes as far as the first task: `Consistent` is
`rejilla_burn_check_session_consistency` (its loop `KeepEach`, then what is compulsory), `Outcome` the early returns of `rejilla_burn_run_tasks`. `chain` keeps what
came of it.

## 3. Runs

Deadlock is checked except in `cfg`, where the window closes after a recording. Type invariants that are proved (section 4:
`BurnTask`, `RejillaBurn`, `RejillaDrive`, `BurnProcess`) are not run.

| run | instance | distinct states | shows |
|---|---|---|---|
| `pool` | 3 tasks, 2 threads | 119,299 | exact counters, one thread ready and no lost wake-up (`ThreadsServeTheQueue`); one owner of each ctx, and cancellations that hit their target (`CtxHasOneOwner`); `TaskPool` implemented; blocking calls return and each task settles (`EverythingSettles`) |
| `io` | 2 jobs of 2 objects with shared methods, 2 results each, 1 result per idle call, requests refused or not | 35,459 | no stranded result and exclusive methods (`DeliveryIsOrderly`), counts equal holders and freed bases forgotten (`NothingDangles`), pool used as it allows, requests that the pool takes end |
| `task` | 3 items, 2 tracks, 2 runs, no attempts repeated | 1,788 | loop served; errors handed over, failures explained, tracks all or none (`RunIsAnsweredFor`); cancellation final; the task returns |
| `task_retry` | the same with two items that ask for another attempt | 6,272 | pipes ended by their writers and kept between tracks (`PipesFollowWriters`), nothing at work afterwards |
| `burn` | all seven kinds, one imager, reload asked by the recorder of copies between drives only | 164,900 | drives locked while used, erasing agreed to, session untouched but for images and what a cancelled erasing leaves, and drives released (`RecordLeavesNothing`), record returns |
| `drive` | one disc that comes and goes, 2 thread identities, 4 moves | 46,758 | one probe, and the door free when nobody needs it shut (`DeviceHasOneUser`), no change forgotten, main thread goes on |
| `data` | 6 files on disk, 3 requests, 1 saved project | 103,633 | tree and table agree and sums are exact (`BooksAgree`), export equals tree, a project opened again is the one saved, and what is loading is waited for and ends (`LoadingEnds`) |
| `process` | item alone, first or last, 2 runs, 2 lines of output | 156,688 | sources serve the program, success only of programs that succeeded, programs reaped |
| `span` | 4 items of 1 or 2 sectors, discs of 0, 2, 3, 5 and 10 sectors, two copies, both windows | 22,121 | each item burnt on one disc, songs in their order, and nothing missing when the dialog says success (`EachItemOnce`); the window has its session back (`SessionIsGivenBack`); the dialog ends |
| `cfg` | 3 inputs of 0 to 2 units, 5 discs or none or an image file, 3 sets of plugins, 2 stored settings | 37,460 | validity is that of the session as it is; flags survive the check of the burn; what is offered finds its plugins; an imported session is merged and its disc not blanked |
| `burn_agreed`, `span_small` | small | | the disagreements of section 5 |

### Bounds, and why they are enough

* `pool`: two threads are what the lost wake-up and the "all time out" scenarios take; three tasks let one be queued while
  both threads are busy and one more be cancelled. `MANAGER_MAX_THREAD` is 2 in the code. The depth of the graph is small
  because tasks are few; the properties about counters and readiness are proved for any number.
* `io`: results of two jobs suffice for nesting, for a result that arrives between the passes of `cancel_by_base`, and
  for the limit of results per idle call (1 here, 25 in the code: only reaching the limit matters). Methods are shared,
  as those of all tracks of a kind are. Objects end outside their own callbacks in this run, or in the delivery of the very
  last result (`Drops = "last"`), and a directory is not put back between the passes (`PutBack = "outside"`); what happens
  otherwise is in section 5. Two jobs of one base are not in this run: the proofs are about any number.
* `task`: three items are first, middle and leader; two tracks are the last and one that is not; two runs are a check
  followed by a run. `MaxAttempts` is 1 instead of 5: a pause happens, and so does giving up.
* `burn`: one imaging task precedes the recording or none does; the number of discs refused, of questions and of sleeps is not
  bounded. Images that several imagers push count for one (nobody pops them one by one).
* `drive`: a thread is created only when the one before has ended, so that two identities suffice to see a third be
  wrong; four moves let a disc come, be locked or ejected, go and come again while one probe is late. `EarlyMoves` keeps discs
  still during the initial probing, where a change is known to be dropped (section 6).
* `data`: on disk, a folder with a hidden file, a file that cannot be read, and a subfolder with a file above 2 GiB, to
  which a path through a symbolic link leads as well. The subfolder and the big file have long names that are cut to the
  same joliet name. Three requests let something be added, changed and removed while its loads are on the way; `MaxSaves` 1
  lets a project be saved and opened. `NewNames` has one name, enough for a rename, for a new folder and for the collision of
  the two. `MaxNode` (20) is never reached.
* `process`: two lines on each pipe are one that is read and one that is still there at the end; a second run finds what the
  first one has left in the structure. `NumTracks` 2 lets the program be restarted for the next track.

* `span`: four items make three batches, so that there is one that is neither first nor last; of the discs one is none, one is
  smaller than two items, one has exactly the size of an item and the overhead, two take several and one takes all. `MaxCopies` 2
  lets a copy be followed by another.

* `cfg`: the discs differ in what decides a branch: rewritable or not, appendable, blanked quickly (written at once only), never
  blank (DVD+RW, for which a drive reports no modes). The plugins are all, those left without libburn and
  growisofs, and growisofs alone but not installed. A disc has 2 units free and 3 in all, so that a track of 2 fits only
  after blanking. Stored settings are those nobody changed and one that has several sessions simulated. `Reuse` is FALSE:
  a window is used for one recording, after which nothing is configured (section 5).

### Fairness, and why the code justifies it

* Programs started by `BurnProcess` end and their output is read (weak fairness): the kernel, and the main loop that
  has nothing of higher priority.
* Jobs of RejillaIO end and their results are delivered (weak fairness of the four answers in `RejillaDataVfs`): what
  `EveryRequestEnds` shows of the module underneath.
* Threads of the pool, of drives, and the main thread when it is not blocked go on (weak fairness): the scheduler.
* A task that is rescheduled eventually ends (strong fairness on its ending): a directory has finitely many entries.
* Idle calls are served although cancellations happen again and again (strong fairness on the idle call and on the end of
  callbacks): the main loop returns to them, dialogs are closed.
* An item at work reports in the end (weak fairness on the reports): without it nothing but the user could end a task.
* A user who is asked for a disc again and again, or watches a drive that is busy or too slow, gives up in the end (strong
  fairness on `GiveUp`); nothing in `rejilla-burn.c` limits how often a disc is refused or a recorder sleeps.
* A recording ends (what `EveryRecordReturns` shows of `RejillaBurn`); a user who is asked for discs that will not do gives up, and
  the dialog that reports success is closed (weak fairness in `SessionSpan`).
* A drive that is tested again and again answers in the end (strong fairness on `Test`): the loop of `NOT_READY` answers
  has no limit of its own.

## 4. Proofs

Assumptions are those stated by `ASSUME` in the modules: bounds are naturals, sets of threads finite, chains not
empty, and those on discs, plugins and settings of section 2. Eight proof modules; each inductive invariant is explained
where it is defined. Where the code does not keep a property, the theorem has the hypothesis under which it does, and section 5 says what happens without it:

* `MayRetry = {}` (tasks): no plugin of the repository asks for another attempt.
* `HeadStays` (tasks): the first item of a chain declines only where it is alone, and reports its tracks wherever an item
  does and there are several. For the next track `rejilla_task_finished` (burn-task.c:413-417) starts the first item of the chain
  although it may not be active; the chains that rejilla-caps-burn.c builds are of that kind.
* `PutBack = "outside"` (RejillaIO), `EarlyMoves = FALSE` (drives), `"killed" \notin Ends` (processes), `Inputs` (spanning).
* `MergeableDiscs` (session configuration): an appendable disc that can be written in SAO (the flag DAO) can be in TAO.
  Without it a CD-R makes DAO compulsory, which no plugin does together with MERGE, and MERGE is dropped from a session
  that was imported a moment ago. rejilla-medium.c comes to such a disc only when the drive reports SAO as current and
  its answer about TAO fails (915-945, 1110-1125); discs whose drive reports no modes at all (1060-1100) are not excluded.

| theorem | says | argument |
|---|---|---|
| `ThreadsAlwaysServe` | the pool's counters, readiness and service, any number of threads and tasks | readiness and service are not inductive: a signal that meets no waiter is harmless only because somebody else is ready, and a thread waits with a timeout only when the exact counters say that another is busy; the invariant joins the three |
| `PoolIsTyped`, `EachCtxHasOneOwner` | the same | a ctx that is held is in the list, with a thread or with its canceller, and only one of them; there are never more active ctx than counted threads |
| `ThePoolIsImplemented` | `AsyncTaskManager` implements `TaskPool`, any number of tasks and threads | under that invariant each critical section is one operation of the pool or leaves the mapped state alone |
| `DeliveriesAreOrderly` | deliveries, any nesting, sharing and number of results, owners dropping objects anywhere | `in_use` is exactly what the outer deliveries hold, so that an idle call that gives up leaves somebody who will look again |
| `IOIsTyped`, `ReferencesAreExact` | the same, directories put back at any time | the references of a callback data are its results not yet consumed (positions of the list and deliveries on the stack), plus one while its job waits, runs, is left by its thread or was refused by the pool, two while the thread reports; the data is destroyed exactly when the job is gone and none is left (`RefInv`). For the types: an urgent job waits, at most `MaxThread` jobs are active, and a job its thread has left has a canceller (`CallInv`) |
| `NothingIsLeftDangling` | the same, with directories not put back between the passes (`PutBack = "outside"`) | after each pass of `cancel_by_base` a kind of holder of the base is gone and cannot come back (`ForgetInv`): waiting jobs after the first, active ones that are not in `call.tasks` after the second, all jobs after the wait, results after the last |
| `ThePoolIsUsed` | `RejillaIO` moves its jobs only as `TaskPool` lets it | what is waited for in `call.tasks` is exactly what the pool has as being cancelled (`CallInv`) |
| `TaskIsTyped`, `NothingIsLeftBehind` | tasks with chains of any length | whatever is at work or has a pipe is active, and a loop that was quit has no active item left |
| `ErrorsAreHandedOver`, `AllTracksOrNone`, `CancellingIsFinal` | the same, for chains in which no item asks for another attempt (`MayRetry = {}`) | the pause neither hands the error over nor respects a cancellation, hence the hypothesis; no plugin of the repository asks for another attempt |
| `RunsAreAnsweredFor` | the same, and the first item is not one that refuses the session (`MayRetry = {}`, `1 \notin MayRefuse`) | a run that fails has an error or an item that declined; the leader alone ends the loop with OK |
| `PipesAlwaysFollowWriters` | tasks with chains of any length, any answers of their items, attempts included, for chains that begin well (`HeadStays`) | while a chain is started it is laid from the leader down: the items after the current one are at work and linked to the next active one, and a pipe without a writer is the one that waits for the current item |
| `LoopsAreServed` | the same, with `MayRetry = {}` | while items are started, one after the current item is active; while the loop is unfinished some item is active: the item that is closed is never the last active one without ending the loop |
| `BurnIsTyped`, `TasksAlwaysRunLocked`, `DrivesAreAlwaysReleased`, `SessionStaysUntainted`, `RecordsLeaveNothing` | every kind of record, any number of imaging tasks, any disc swapped, any recorder that asks for the source | five invariants: who may be waiting for a disc, an answer or some time; what lies over the tracks, which is an image whenever the source of a copy has been ejected (`PushedInv`: an image hides the source, and what was locked must still be unlocked); the list ends with the last task; a locked drive is one `priv->src` or `priv->dest` will unlock, and what a run needs is locked except what is being asked for; one copy of the settings is on the pile exactly inside `run_tasks`, or after an erasing that was cut |
| `ErasingIsAlwaysAgreed` | the same | the user agrees between the check of the flags and the tasks, with the burner locked: the invariant follows the disc, the flags and the list of tasks from there to the erasing, and says that importing the last session brings back no BLANK that the check would have kept |
| `DriveIsTyped`, `OneUserOfTheDevice` | any number of discs, threads, moves, during the initial probing too | a thread is started only with `priv->probe` unset, which means there is none |
| `NothingIsEverForgotten` | any number of discs, threads and moves, for discs that keep still during the first probe (`EarlyMoves = FALSE`) | a drive either will be looked at again (a signal, `probe_waiting`, a thread that has not tested yet) or was looked at since the last change; then `has_medium` is right, and a thread that ends, a queued callback or the medium itself says the same (`SightInv`) |
| `ProcessTypes`, `ProgramIsServed` | a program in any role, any number of runs, tracks and lines, late errors included | the sources and the watch of a program are there exactly as long as the process has not been stopped; lines in a pipe have somebody to read them |
| `SuccessIsAlwaysEarned` | the same, for programs that are not killed by a signal (`"killed" \notin Ends`) | the code kept from `process_finished` is that of the program of this run; a killed program reads as success, hence the hypothesis |
| `SessionsAreGivenBack` | any number of items, sizes, discs and copies, every input of `Inputs` included | the list the pops come to is the one the session was made with: a batch pushes the list it replaces and nothing else touches the pile |
| `SpanIsTyped`, `ItemsAreBurntOnce` | any number of items, sizes, discs and copies, without the inputs of section 5 that are known to lose items (`Inputs \subseteq {"project"}`) | a session of the options is whole, or its songs are spanned from the first one on, or its files are, or all of it is burnt (`FromOptions`), each with what has been burnt so far; that a session is offered to be spanned means that a first batch fits and that not everything does; in the main window the first disc is the whole session |
| `CfgIsTyped`, `WhatIsShownIsTrue` | any discs, sizes, stored settings and sets of plugins, broken ones included | only the binding of stored settings is not followed by a look at the session. It happens to a session that can be burnt, it brings toggles only, and of those only MULTI, beside FAST_BLANK, counts for the validity: what is shown is then that of the session without MULTI (`ShowsInv`), and whatever can be burnt with MULTI can be without |
| `MergeIsKept` | the same, for discs of `MergeableDiscs` | an imported session is of a disc that a plugin can follow, and while it is loaded the flag MERGE is there only if one still can (`MergeInv`). On the tables: what is offered for such a disc keeps offering MERGE after each flag of the loop, whose first round sets it, and with MERGE nothing blanks (`MergeStays`); the burn keeps what is supported, and no chain that blanks first can record with MERGE (`RunMerges`) |

Only model-checked:

* Liveness: it rests on ENABLED and fairness, which the prover does not reason about.
* The data project (`BooksAgree`, `ExportIsTheTree`, `LoadingEnds`, `ReopenedAsSaved`): its sums are folds over sets and
  its paths follow parents, and what they compute for every tree is an induction over data. Theorems of induction take an
  operator, which no prover here instantiates. Where a recursive function over naturals was needed (`WithoutIs` of the pool,
  `DataBatchIs` of the spanning), its existence and what it holds were shown on the least argument where they would
  fail; trees have no such short way.
* `SettingsSurvive` and `ReadyIsRecordable` of `SessionCfg`: they are not true of every disc and every set of plugins, and
  the run has the discs and sets an installation meets. A blank DVD-R whose drive reports SAO and no TAO, with
  growisofs alone, makes DAO compulsory, which growisofs does not declare: the window offers the recording, the
  burn finds no plugin. A CD-R with a session, the same modes and libburn alone ends the same way with an image; a CD-RW of
  that kind, with libburn and libisofs, loses settings at the burn. TLC found no such disc among those with TAO, for any of
  the 64 sets of plugins; a proof would have to compare the tables of six plugins set by set.

## 5. Where code and documentation disagree

Each has a run whose counterexample shows it, and an entry in `PROJECT.json` with the quotation.

* `burn_agreed`: the disc loaded when the recorder refused the first one is recorded over without a warning.
* `span_small`: a disc too small for the next song makes the spanning forget how far it was, and one too small for every
  file left of a data project ends it: the dialog says that everything was burnt.

Nine more are stated in the modules as properties that do not hold of the code, without a run of their own:

* `DeliveryKeepsItsBase` (RejillaIO, with `Drops = "anywhere"`): an object whose last reference goes in its own callback is
  finalized, and its base freed with `priv->lock` held, before its delivery is done with it (rejilla-io.c:371-398).
* `FreedBaseIsForgotten` (RejillaIO, with `PutBack = "anytime"`, 8 states): a directory that is put back in the waiting list
  (rejilla-io.c:1810, 1843, 2023, 2143) after `cancel_by_base` has looked there and before it looks at the active tasks
  (2214-2228) is in neither pass. It goes on after its base is freed, against "do it afterwards in case some results slipped
  through" (2232).
* `ImportedIsKept` (SessionCfg): when a folder of an imported session cannot be read, `rejilla_data_session_load_dir_result`
  (rejilla-data-session.c:285) says that the session is not loaded and keeps the files it read. The flag MERGE goes, the
  default flags bring BLANK, and the recording blanks the disc whose files are in the selection, where the window says
  "That way, old files from previous sessions will be usable after burning." (rejilla-data-disc.c:1110).
* `ConfiguresAgain` (SessionCfg, with `Reuse = TRUE`): "re-enable autoconfiguration" (rejilla-burn-dialog.c:2421) is done to
  `priv->session` three lines after it was set to NULL: after the first recording no change is followed.
* `NoRequestIsLost` (RejillaIO): a request for which no thread can be created (rejilla-async-task-manager.c:351-360) is refused, and
  `rejilla_io_push_job` (478-500) ignores it. The job and its callback data are never freed, no result and no end is ever
  delivered: the owner waits for good. `EveryRequestEnds` is about all other requests.
* `UrgentIsForItsOwner` (RejillaIO): `find_urgent` never finds the caller's jobs, because its comparison of bases is the
  wrong way round.
* `DisconnectFindsThePipe` (BurnTask): an item stopped before it was linked in this run follows the link of an earlier one
  into a pipe that is not there.
* `SourceAskedHasDrive` (RejillaBurn): a recorder that wants its disc reloaded makes the session ask for a source it does
  not have.
* `MediumIsCurrent` (RejillaDrive): a disc exchanged while probes are late or cancelled is taken for the one before.

### Inputs of the data project that are kept out

`Inputs` of `RejillaDataVfs` names them; with a name in the set the run `data` fails. Lines are of `rejilla-data-project.c`
unless another file is named.

* `replace`: `remove_sibling` (1393) tests the wrong way round, so that a move onto an existing name leaves two siblings of
  the same name.
* `alias`: a URI known under two paths; `update_uri` has `&&` for `||`, and `uri_add_graft` overwrites the entry in the table.
* `orphan`: restoring a file whose folder is gone; `filtered_uri_remove_with_children` never removes, and
  `uri_is_graft_needed` loops for good.
* `race`: a row from elsewhere in a folder that is still being listed is grafted by its name.
* `skip`: `add_node_real` takes any URI with the prefix for that of the rightful parent.
* `overlap`: a second load of a URI that is being loaded joins it and misses the results before.
* `tmp`: `is_tmp_parent` is never reset, so that a parent made to hold a deeper file stays temporary.
* `folder`: the first folder created inside a folder that was added is shown but not exported.
* `deep`: a file taken out of a subfolder of an added folder is excluded without its parents; saved and opened, it is back.
* `ignore`: removing a URI that is shown in a second place drops the other copy.
* `twice`: a project with a folder in it twice, whose copies differ, is not opened as it was saved.

### Inputs of the spanning that are kept out

* `small`: the run `span_small`. `span_next` resets `last_track` before it knows that a track fits (rejilla-session-span.c), so
  that the next disc starts with the first song again; `rejilla_track_data_cfg_span` answers OK when no file fits.
* `reoffer`: spanning asked for twice in the options starts with the first batch as if it were the session, the rest is lost.
  `rejilla_session_span_possible` empties `track_list` while `last_track` is still set, whose next use is of NULL.
* `copies`: further copies burn the last batch only.
* `project` is allowed: the main window calls `span_start` and never `span_next`, so that the "first disc" is the whole session and the
  recording fails or, with a disc that is large enough, all is burnt at once and the spanning goes on. Hence `BatchesFollow` is
  about the options.

### Others seen while modelling, without a run

* rejilla-caps-session.c: `get_flags` takes the flags of several plugins of a link together where `find_plugin`
  (rejilla-caps-burn.c) wants one plugin that has them all; and a plugin whose application is missing counts for the first
  and not for the second. `ReadyIsRecordable` therefore assumes that no plugin is broken: with growisofs missing, several
  sessions on a DVD look possible and the recording ends with an internal error. It also assumes that the library does
  not refuse the flags: when a DVD-R is exchanged for a DVD+RW while APPEND is set, `get_burn_flags` fails, the cfg keeps the
  flags with nothing supported, and the recording ends the same way.
* rejilla-drive-settings.c: stored settings are bound to the session unchecked, no handler of the cfg sees it. Several sessions
  with a quick blanking of a DVD-RW make the validity stale (excepted in `ValidityIsCurrent`); what is not supported is
  dropped at the burn without a word (excepted in `SettingsSurvive`); BURNPROOF, the default, on a drive that has none
  makes `get_burn_flags` fail, and the properties show no option.
* rejilla-session-cfg.c: compulsory flags are added only when there is a flag to add after them; MERGE of an imported session is
  dropped for good when the plugin that does it is switched off for a moment; MERGE stays when the imported disc has
  gone, since the setter returns without a medium; `rejilla_session_cfg_update` passes `get_has_stream` where a format is
  expected.
* rejilla-caps-session.c: `have_processing_plugin` walks with `list->data`, `is_supported_same_src_dest` sets the ctx before
  its input. rejilla-caps-burn.c: `new_checksuming_task` casts an object to another. burn-plugin.c: `set_flags_real` drops
  a pair that asks less than one set before.
* rejilla-io.c:335-337 says of a callback that blocks that "the other one will be able to deliver results": another idle
  call is scheduled only when another result is queued, those already in the list wait for the callback to end.
* rejilla-io.c: an object ending in its callback also inverts the order of the two locks (finalize holds `priv->lock` and
  waits for the manager's, a worker in `job_free` the other way round).
* burn-task.c: `rejilla_task_wakeup` overwrites the CANCEL of the user in a pause; the restart for the next track starts
  the first item even if it declined or has ended (413-417; `LoopIsServed` and `PipesFollowWriters` fail then, hence
  `HeadStays`), and does not forgive NOT_RUNNING or NOT_SUPPORTED.
* burn-process.c: an error read ahead by the first of two items while it is stopped stops the item again, inside the
  stop, and the outer `rejilla_job_disconnect` (burn-job.c:868) reads a pipe that is gone (`LateErrors`); `WEXITSTATUS` of
  a killed program reads 0, success (297, `"killed"`); the test of `priv->error` in `process_finished` (254) is inverted: an
  error put off is replaced by a general one, and without one NULL is reported; an error read while draining is
  overwritten by the code of the outer stop, against the comment at 688-692; the child has no process group of its own,
  so that the kill of the group fails (699); codes of an earlier run survive when the arguments of the next one
  fail; `tmp_toc_path` of cdrdao survives a run that failed.
* rejilla-burn-dialog.c: `rejilla_burn_dialog_run` returns TRUE for a failure (the gboolean is compared to REJILLA_BURN_OK, 0).
* rejilla-session-span.c, rejilla-data-project.c: `get_max_space` takes a folder for the size of its node instead of that of its children
  (2886); the room for a batch ignores what the file system takes; giving up leaves `track_list`, `last_track` and the
  spanned nodes, and `track_list` is the session's own list.
* rejilla-burn.c:2154: a cancelled erasing returns without popping the settings or freeing the tasks. `SessionIsUntainted` allows
  this one outcome, told by the erasing task that is left: the flags are those of the run, and the pile has the session's own.
* rejilla-burn.c:1576-1605: the recorder that was too slow sleeps and starts again, for as long as it is: `has_slept` is set and never
  tested. So does the loop on the exclusive use of the drive (1462). Only cancelling ends either.
* rejilla-burn.c, burn-task-ctx.c:378-395: tracks an imager made stay over the session's own after the record; further
  copies use them, and a source that is asked for after that is not found by `lock_src_media`.
* rejilla-burn.c: in a copy in one drive, `check_data_loss` runs while the source is imaged: it warns about the source disc
  and on a reload ejects it. `lock_src_media` only asks again for blank discs and locks an empty drive.
  `rejilla_burn_check` tests `REJILLA_IS_TRACK_IMAGE` (2590) where its comment says "if the input is a DISC": a disc is checked
  in a drive that nobody has locked (`TasksRunLocked` is about the other kinds), and for an image, which has no source drive,
  `lock_checksum_media` asks for a disc, does not look again, and fails. Early returns lose a reference to the session. A disc loaded in the real session after
  a simulation is not erased.
* rejilla-drive.c: a change during the initial probing is dropped (l. 1041); an idle call whose id was overwritten by the
  next thread is not removed by `finalize`; an idle call that runs after the next thread has reset `has_medium` reports the
  medium as removed; `eject` waits for the drive's thread but not for the medium's, which holds the device as well;
  `rejilla_drive_eject` returns an unset value for a drive with neither GDrive nor GVolume.
* rejilla-data-vfs.c (settings handler): `g_strcmp0` used as if it told equality.
* rejilla-data-project.c: `rename_node` (1648) uses `sibling->parent`, which may be NULL; the test of `size_changed` in
  `node_reloaded` is inverted; the children of a virtual sibling and imported children are iterated while they are moved;
  `convert_to_fake` counts a load down twice; the joliet part of `get_contents` is dead; the user's refusal of a file above
  2 GiB is remembered as consent.
* rejilla-track-data-cfg.c: grafts and excluded URIs given to the backend are cached and not renewed by a rename, a move or a
  new folder.

## 6. Not modelled, and known limits

* User interface, plugins, SCSI, image formats, D-Bus: pure I/O or parsing, or inputs of the models. Their reports
  are arbitrary in the models.
* Strings, names, sizes, rates, progress, logging and wording.
* Memory: bit-fields of `RejillaDrive` share a word that two threads write; each is a variable here. `g_cond_wait` of
  the drive is not in a loop; spurious wake-ups are modelled for the pool (which loops) and not for the drive.
* `RejillaBurn` leaves out the check of an image track (`lock_checksum_media`), power management and the unmounting before
  each step. A disc without data that is reported where no drive is the source is left out as well. Cancelling is a failure that may come from any step.
* `BurnTask` leaves out the computation of sizes, output files and tags: their failures are the answer `early`.
* `RejillaDrive` leaves out fake drives, a GDrive that is replaced and ejections that are not waited for.
* The data project leaves out imported sessions and virtual nodes, symbolic links inside folders, the questions about depth
  and image files, the root `/` as a URI, the order of rows, loads for the type of a file, dialogs that run the main loop
  inside a callback, the cache of grafts, and the file monitor. Folders are one level of names and one of URIs deeper than
  the added one; deeper trees are built by moves and new folders.
* `BurnProcess` leaves out the priority of the child and its environment.
* `SessionSpan` leaves out strings, tags and overburning.
* `BurnCaps` leaves out copies of discs, images as outputs, image formats other than one, CD-TEXT, DVD+R, DVD-RAM, BD and dual layers,
  RAW, OVERBURN, EJECT and CHECK_SIZE, processing plugins and groups of plugins. It is one table of the declarations of
  wodim, libburn, growisofs, dvd+rw-format, libisofs and transcode; the other plugins are as if they were not installed.
* `SessionCfg` imports the session of the disc in the drive that is chosen (the code can switch to another burner), sets back
  the import when another disc comes, and takes `rejilla_session_foreach_plugin_error` for a user who installs nothing.
  `SettingsSurvive` is about the flags the cfg gives the session, not about those added and removed in the properties dialog.
  Answers to the dialogs of `RejillaBurn` are assumed to be yes: `Burn` ends where `RejillaBurn` begins.

## 7. Plan

1. Done: `TaskPool` <- `AsyncTaskManager`; `RejillaIO` above `TaskPool`; `BurnTask`; `RejillaBurn`; `RejillaDrive`;
   `RejillaDataProject` <- `RejillaDataVfs`; `BurnProcess`; `SessionSpan`; `BurnCaps` <- `SessionCfg`.
2. `BurnCaps`: copies of discs and images as outputs; a third step of the search, for processing plugins.
3. `RejillaBurn` over `BurnCaps`: the tasks of `Burn` in `SessionCfg` as the task list of `RejillaBurn`.
4. `FileMonitor` and the second half of the data project (imported sessions), metadata and mounts.
5. Proofs: types of `RejillaDataVfs` and the references of its loading tables, which need no sums; `SettingsSurvive` and
   `ReadyIsRecordable` for discs that can be written in TAO.
