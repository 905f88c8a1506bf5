-------------------------- MODULE AsyncTaskManager --------------------------
(***************************************************************************)
(* RejillaAsyncTaskManager (librejilla-utils/rejilla-async-task-manager.c):*)
(* the pool of at most MANAGER_MAX_THREAD worker threads behind every      *)
(* asynchronous I/O of the application.                                    *)
(*                                                                         *)
(* An action is one critical section of the manager's mutex: between       *)
(* taking priv->lock and releasing it, or blocking on a condition, no      *)
(* other thread sees the private data.  The main thread is the only caller *)
(* of the public functions; `main' is its place in the blocking ones.      *)
(*                                                                         *)
(* A definition marked `Fault:' is a plausible mistake in the one below    *)
(* it, kept to see that the properties notice it.                          *)
(***************************************************************************)
EXTENDS Integers, Sequences, FiniteSets, SequencesExt

CONSTANTS
  Tasks,      \* the RejillaAsyncTaskCtx allocated during a behaviour
  Workers,    \* slots for worker threads; a slot is reused once its thread ended
  MaxThread,  \* MANAGER_MAX_THREAD
  NoTask      \* a worker that runs nothing

ASSUME MaxThreadAssumption == MaxThread \in Nat \ {0}
ASSUME WorkersAssumption   == IsFiniteSet(Workers) /\ Cardinality(Workers) >= MaxThread
ASSUME NoTaskAssumption    == NoTask \notin Tasks

VARIABLES
  waiting,         \* priv->waiting_tasks
  active,          \* priv->active_tasks (its order is never used)
  num_threads,     \* priv->num_threads
  unused_threads,  \* priv->unused_threads
  cancelled,       \* priv->cancelled, set by finalize
  priority,        \* ctx->priority
  fate,            \* what became of each ctx
  pc,              \* where each worker thread is
  ctx,             \* the ctx a worker runs
  cancel,          \* the workers whose GCancellable is cancelled
  main,            \* where the calling thread is
  tasks            \* the local list of foreach_active_remove

poolVars == <<num_threads, unused_threads, pc, ctx>>
ctxVars  == <<priority, fate>>
vars == <<waiting, active, num_threads, unused_threads, cancelled, priority,
          fate, pc, ctx, cancel, main, tasks>>

-----------------------------------------------------------------------------
IDLE   == 2
NORMAL == 4
URGENT == 8
Priorities == {IDLE, NORMAL, URGENT}

\* "created"   started by g_thread_create, has not taken the lock yet
\* "sleeping"  in g_cond_wait (new_task)       "dozing"   in g_cond_timed_wait
\* "woken"     the wait returned TRUE          "expired"  it returned FALSE;
\*             both still have to take the lock again
\* "running"   in ctx->type->thread, without the lock
WorkerStates == {"none", "created", "sleeping", "dozing", "woken", "expired", "running"}

\* "cancelling" / "finalizing": blocked on task_finished / thread_finished;
\* "recheck" / "recount": woken there, about to look at the list / the counter
MainStates == {"idle", "cancelling", "recheck", "finalizing", "recount", "gone"}

\* "held" from g_new0 until g_free; the other values say who freed the ctx
Fates == {"new", "held", "finished", "cancelled", "dropped", "refused"}

Alive    == {w \in Workers : pc[w] # "none"}
Unused   == {w \in Workers : pc[w] \in {"sleeping", "dozing", "woken", "expired"}}
Waiters  == {w \in Workers : pc[w] \in {"sleeping", "dozing"}}
Settle(S, how) == fate' = [t \in Tasks |-> IF t \in S THEN how ELSE fate[t]]

Init ==
  /\ waiting = <<>> /\ active = {} /\ tasks = {} /\ cancel = {}
  /\ num_threads = 0 /\ unused_threads = 0 /\ cancelled = FALSE
  /\ priority = [t \in Tasks |-> NORMAL] /\ fate = [t \in Tasks |-> "new"]
  /\ pc = [w \in Workers |-> "none"] /\ ctx = [w \in Workers |-> NoTask]
  /\ main = "idle"

\* insert_task: before the first ctx of a lower priority, else at the end
InsertTask(q, t) ==
  LET lower == {i \in DOMAIN q : priority[q[i]] < priority[t]}
  IN  IF lower = {} THEN Append(q, t) ELSE InsertAt(q, Min(lower), t)

\* Fault: no signal when a thread is unused
SignalNobody == UNCHANGED pc

\* g_cond_signal (new_task) wakes one thread of those blocked on it, if any
SignalNewTask ==
  \/ Waiters = {} /\ UNCHANGED pc
  \/ \E w \in Waiters : pc' = [pc EXCEPT ![w] = "woken"]

-----------------------------------------------------------------------------
(* The public functions, called by the main thread.                        *)

\* the position depends on the priority asked for
Enqueue(t, p) ==
  CASE p = IDLE   -> Append(waiting, t)
    [] p = NORMAL -> InsertTask(waiting, t)
    [] p = URGENT -> <<t>> \o waiting

Queue(t, p) ==
  /\ main = "idle" /\ fate[t] = "new"
  /\ Settle({t}, "held")
  /\ waiting' = Enqueue(t, p)
  /\ priority' = [priority EXCEPT ![t] = p]
  /\ \/ unused_threads > 0 /\ SignalNewTask /\ UNCHANGED num_threads
     \/ /\ unused_threads = 0 /\ num_threads < MaxThread
        /\ \E w \in Workers \ Alive : pc' = [pc EXCEPT ![w] = "created"]
        /\ num_threads' = num_threads + 1
     \/ /\ unused_threads = 0 /\ num_threads >= MaxThread
        /\ UNCHANGED <<pc, num_threads>>
  /\ UNCHANGED <<active, unused_threads, cancelled, ctx, cancel, main, tasks>>

\* g_thread_create failed: the ctx is taken back and FALSE returned
QueueFails(t) ==
  /\ main = "idle" /\ fate[t] = "new"
  /\ unused_threads = 0 /\ num_threads < MaxThread
  /\ Settle({t}, "refused")
  /\ UNCHANGED <<waiting, active, poolVars, cancelled, priority, cancel, main, tasks>>

\* what is left of the list q after the loop that takes out the ctx in S
Without(q, S) ==
  LET kept[i \in 0 .. Len(q)] ==
        IF i = 0 THEN <<>>
        ELSE IF q[i] \in S THEN kept[i - 1] ELSE Append(kept[i - 1], q[i])
  IN  kept[Len(q)]

\* S: the ctx for which the caller's func answers TRUE
UnprocessedRemove(S) ==
  /\ main = "idle" /\ waiting # <<>>
  /\ waiting' = Without(waiting, S)
  /\ Settle(S, "cancelled")
  /\ UNCHANGED <<active, poolVars, cancelled, priority, cancel, main, tasks>>

ActiveRemove(S) ==
  /\ main = "idle" /\ S # {}
  /\ cancel' = cancel \cup {w \in Workers : ctx[w] \in S}
  /\ tasks' = S
  /\ main' = "cancelling"
  /\ UNCHANGED <<waiting, active, poolVars, cancelled, ctxVars>>

\* Fault: the first wake-up is taken for the end of every cancelled ctx
ActiveRemoveWakesEarly ==
  /\ main = "recheck" /\ main' = "idle"
  /\ tasks' = {} /\ Settle(tasks, "cancelled")
  /\ UNCHANGED <<waiting, active, poolVars, cancelled, priority, cancel>>

\* after each wake-up: free what left active_tasks, wait again if some remain
ActiveRemoveWakes ==
  /\ main = "recheck"
  /\ tasks' = tasks \cap active
  /\ Settle(tasks \ active, "cancelled")
  /\ main' = IF tasks' # {} /\ active # {} THEN "cancelling" ELSE "idle"
  /\ UNCHANGED <<waiting, active, poolVars, cancelled, priority, cancel>>

\* i: where the first ctx is for which the caller's func answers TRUE
FindUrgent(i) ==
  /\ main = "idle"
  /\ priority' = [priority EXCEPT ![waiting[i]] = URGENT]
  /\ waiting' = <<waiting[i]>> \o RemoveAt(waiting, i)
  /\ UNCHANGED <<active, poolVars, cancelled, fate, cancel, main, tasks>>

\* the waiting ctx are g_free'd without their destroy callback
Finalize ==
  /\ main = "idle"
  /\ cancelled' = TRUE
  /\ Settle(ToSet(waiting), "dropped")
  /\ waiting' = <<>>
  /\ pc' = [w \in Workers |-> IF w \in Waiters THEN "woken" ELSE pc[w]]
  /\ main' = IF num_threads > 0 THEN "finalizing" ELSE "gone"
  /\ UNCHANGED <<active, num_threads, unused_threads, priority, ctx, cancel, tasks>>

FinalizeWakes ==
  /\ main = "recount"
  /\ main' = IF num_threads > 0 THEN "finalizing" ELSE "gone"
  /\ UNCHANGED <<waiting, active, poolVars, cancelled, ctxVars, cancel, tasks>>

-----------------------------------------------------------------------------
(* rejilla_async_task_manager_thread.                                      *)

\* Fault: task_finished is not signalled
TaskFinishedSilently(m) == m

\* g_cond_signal (task_finished) and g_cond_signal (thread_finished)
TaskFinished(m)   == IF m = "cancelling" THEN "recheck" ELSE m
ThreadFinished(m) == IF m = "finalizing" THEN "recount" ELSE m

\* Fault: the thread that leaves still counts as unused
ExitStillUnused(w, unused, m) ==
  /\ num_threads' = num_threads - 1
  /\ unused_threads' = unused
  /\ pc' = [pc EXCEPT ![w] = "none"] /\ ctx' = [ctx EXCEPT ![w] = NoTask]
  /\ main' = IF m = "finalizing" THEN "recount" ELSE m

\* label end: with `unused' threads counted as unused, w among them
Exit(w, unused, m) ==
  /\ unused_threads' = unused - 1
  /\ num_threads' = num_threads - 1
  /\ pc' = [pc EXCEPT ![w] = "none"]
  /\ ctx' = [ctx EXCEPT ![w] = NoTask]
  /\ main' = ThreadFinished(m)

\* Fault: every idle thread waits with a timeout
HowToWaitTimed(unused) == "dozing"

\* the last thread that would be left without work never waits with a timeout
HowToWait(unused) == IF num_threads - unused > 0 THEN "dozing" ELSE "sleeping"

\* The loop from its inner `while' on, with queue q and active set a: take the
\* head of the queue, or leave if the manager is being finalized, or wait.
Dispatch(w, q, a, unused, m) ==
  \/ /\ q # <<>>
     /\ waiting' = Tail(q)
     /\ active' = a \cup {Head(q)}
     /\ unused_threads' = unused - 1
     /\ pc' = [pc EXCEPT ![w] = "running"]
     /\ ctx' = [ctx EXCEPT ![w] = Head(q)]
     /\ main' = m
     /\ UNCHANGED num_threads
  \/ /\ q = <<>> /\ cancelled
     /\ waiting' = q /\ active' = a
     /\ Exit(w, unused, m)
  \/ /\ q = <<>> /\ ~cancelled
     /\ waiting' = q /\ active' = a
     /\ unused_threads' = unused
     /\ pc' = [pc EXCEPT ![w] = HowToWait(unused)]
     /\ ctx' = [ctx EXCEPT ![w] = NoTask]
     /\ main' = m
     /\ UNCHANGED num_threads

\* Fault: a new thread does not say it is unused
StartUncounted(w) ==
  /\ pc[w] = "created"
  /\ Dispatch(w, waiting, active, unused_threads, main)
  /\ UNCHANGED <<cancelled, ctxVars, cancel, tasks>>

Start(w) ==
  /\ pc[w] = "created"
  /\ Dispatch(w, waiting, active, unused_threads + 1, main)
  /\ UNCHANGED <<cancelled, ctxVars, cancel, tasks>>

Resume(w) ==
  /\ pc[w] = "woken"
  /\ Dispatch(w, waiting, active, unused_threads, main)
  /\ UNCHANGED <<cancelled, ctxVars, cancel, tasks>>

\* the timed wait failed: leave, whatever is in the queue by now
Expire(w) ==
  /\ pc[w] = "expired"
  /\ Exit(w, unused_threads, main)
  /\ UNCHANGED <<waiting, active, cancelled, ctxVars, cancel, tasks>>

\* in front of its equals, unless the first ctx has a higher priority
Reschedule(t) ==
  IF waiting # <<>> /\ priority[Head(waiting)] > priority[t]
  THEN InsertTask(waiting, t)
  ELSE <<t>> \o waiting

\* Fault: the thread also frees a cancelled ctx
ReturnFrees(w, res) ==
  /\ pc[w] = "running"
  /\ cancel' = cancel \ {w}
  /\ Settle({ctx[w]}, "finished")
  /\ Dispatch(w, waiting, active \ {ctx[w]}, unused_threads + 1, TaskFinished(main))
  /\ UNCHANGED <<cancelled, priority, tasks>>

\* Fault: the GCancellable is not reset
ReturnKeepsCancelled(w, res) ==
  /\ pc[w] = "running"
  /\ UNCHANGED cancel
  /\ IF w \in cancel THEN UNCHANGED fate ELSE Settle({ctx[w]}, "finished")
  /\ Dispatch(w, waiting, active \ {ctx[w]}, unused_threads + 1, TaskFinished(main))
  /\ UNCHANGED <<cancelled, priority, tasks>>

\* the task function returned: FINISHED or RESCHEDULE.  A cancelled ctx is
\* left to the thread that cancelled it, only the GCancellable is reset.
Return(w, res) ==
  LET t == ctx[w] IN
  /\ pc[w] = "running"
  /\ \/ /\ w \in cancel
        /\ cancel' = cancel \ {w}
        /\ UNCHANGED fate
        /\ Dispatch(w, waiting, active \ {t}, unused_threads + 1, TaskFinished(main))
     \/ /\ w \notin cancel /\ res = "reschedule"
        /\ UNCHANGED <<cancel, fate>>
        /\ Dispatch(w, Reschedule(t), active \ {t}, unused_threads + 1, TaskFinished(main))
     \/ /\ w \notin cancel /\ res = "finished"
        /\ UNCHANGED cancel
        /\ Settle({t}, "finished")
        /\ Dispatch(w, waiting, active \ {t}, unused_threads + 1, TaskFinished(main))
  /\ UNCHANGED <<cancelled, priority, tasks>>

-----------------------------------------------------------------------------
(* What the threading library may do to a blocked thread at any time.      *)

Timeout(w) ==
  /\ pc[w] = "dozing"
  /\ pc' = [pc EXCEPT ![w] = "expired"]
  /\ UNCHANGED <<waiting, active, num_threads, unused_threads, cancelled, ctxVars, ctx, cancel, main, tasks>>

SpuriousWakeup(w) ==
  /\ w \in Waiters
  /\ pc' = [pc EXCEPT ![w] = "woken"]
  /\ UNCHANGED <<waiting, active, num_threads, unused_threads, cancelled, ctxVars, ctx, cancel, main, tasks>>

SpuriousWakeupOfMain ==
  /\ main \in {"cancelling", "finalizing"}
  /\ main' = ThreadFinished(TaskFinished(main))
  /\ UNCHANGED <<waiting, active, poolVars, cancelled, ctxVars, cancel, tasks>>

\* nothing is left to do once the object is gone
Gone == main = "gone" /\ UNCHANGED vars

Next ==
  \/ \E t \in Tasks, p \in Priorities : Queue(t, p)
  \/ \E t \in Tasks : QueueFails(t)
  \/ \E S \in SUBSET ToSet(waiting) : UnprocessedRemove(S)
  \/ \E S \in SUBSET active : ActiveRemove(S)
  \/ ActiveRemoveWakes
  \/ \E i \in DOMAIN waiting : FindUrgent(i)
  \/ Finalize
  \/ FinalizeWakes
  \/ \E w \in Workers : Start(w) \/ Resume(w) \/ Expire(w)
  \/ \E w \in Workers, res \in {"finished", "reschedule"} : Return(w, res)
  \/ \E w \in Workers : Timeout(w) \/ SpuriousWakeup(w)
  \/ SpuriousWakeupOfMain
  \/ Gone

Spec == Init /\ [][Next]_vars

\* A thread that can take the mutex eventually does, and a task that is run
\* again and again by rescheduling eventually has nothing left to do.
Fairness ==
  /\ \A w \in Workers : WF_vars(Start(w) \/ Resume(w) \/ Expire(w))
  /\ \A w \in Workers : WF_vars(Return(w, "reschedule") \/ Return(w, "finished"))
  /\ \A t \in Tasks : SF_vars(\E w \in Workers : ctx[w] = t /\ Return(w, "finished"))
  /\ WF_vars(ActiveRemoveWakes) /\ WF_vars(FinalizeWakes)

FairSpec == Spec /\ Fairness
-----------------------------------------------------------------------------
(* Type invariant: the private data, the threads and the caller.           *)
TypeOK ==
  /\ waiting \in Seq(Tasks) /\ active \subseteq Tasks /\ tasks \subseteq Tasks
  /\ num_threads \in 0 .. MaxThread /\ unused_threads \in 0 .. MaxThread
  /\ cancelled \in BOOLEAN /\ main \in MainStates
  /\ priority \in [Tasks -> Priorities] /\ fate \in [Tasks -> Fates]
  /\ pc \in [Workers -> WorkerStates] /\ ctx \in [Workers -> Tasks \cup {NoTask}]
  /\ cancel \subseteq Workers

\* The two counters the manager decides with are exact whenever the lock is
\* free: threads that exist, and threads that are not running a task (the
\* ones just created have not counted themselves yet).
ThreadAccounting ==
  /\ num_threads = Cardinality(Alive)
  /\ unused_threads = Cardinality(Unused)

\* "we always keep one thread ready": until finalize, the timeouts of the idle
\* threads never leave the pool with nobody but threads about to exit.
AlwaysOneReady ==
  ~cancelled /\ Alive # {} =>
    \E w \in Workers : pc[w] \in {"created", "sleeping", "woken", "running"}

\* No lost wake-up: a queued ctx always has a thread that will look at the
\* queue without another call of the public functions, even when the signal
\* of queue went to nobody because the unused thread had just timed out.
WorkIsServed ==
  waiting # <<>> => \E w \in Workers : pc[w] \in {"created", "woken", "running"}

\* Whatever the timeouts, the calls and the signals meet, the manager knows its
\* threads, the idle ones leave somebody behind and the queue has somebody that
\* comes to it.
ThreadsServeTheQueue == ThreadAccounting /\ AlwaysOneReady /\ WorkIsServed

\* Every allocated ctx is in exactly one place, and what is in a list is
\* allocated: no leak, no use after free, no double free between the thread
\* that runs a ctx and the one that cancelled it.
CtxOwnership ==
  LET held == {t \in Tasks : fate[t] = "held"} IN
  /\ IsInjective(waiting)
  /\ ToSet(waiting) \cap (active \cup tasks) = {}
  /\ held = ToSet(waiting) \cup active \cup tasks
  /\ active = {ctx[w] : w \in {v \in Workers : pc[v] = "running"}}
  /\ \A v, w \in Workers : ctx[v] = ctx[w] /\ v # w => ctx[v] = NoTask

\* The GCancellable belongs to the thread, not to the ctx: it is cancelled
\* only while that thread runs a ctx somebody is waiting for, so that a
\* cancellation never hits the next ctx the thread takes.
CancelHitsItsTarget ==
  \A w \in cancel : pc[w] = "running" /\ ctx[w] \in tasks

\* Two threads share a ctx while it is being cancelled: it is freed once, and
\* what is cancelled is that ctx and never the next one.
CtxHasOneOwner == CtxOwnership /\ CancelHitsItsTarget

\* The main loop is not blocked for good: foreach_active_remove comes back once the
\* tasks it removes have ended, finalize once every thread has.
MainLoopReturns ==
  /\ main = "cancelling" ~> main = "idle"
  /\ main = "finalizing" ~> main = "gone"

\* Every ctx that was accepted is run to its end or cancelled, and freed.
EveryTaskSettles == \A t \in Tasks : fate[t] = "held" ~> fate[t] # "held"

\* Nobody waits for ever: neither the main loop in a call, nor a ctx in a list.
EverythingSettles == MainLoopReturns /\ EveryTaskSettles

\* What the callers rely on: TaskPool.
Stage ==
  [t \in Tasks |-> CASE fate[t] = "new" -> "new"
                     [] t \in ToSet(waiting) -> "queued"
                     [] t \in active -> "running"
                     [] t \in tasks \ active -> "left"
                     [] OTHER -> "over"]

Pool == INSTANCE TaskPool WITH stage <- Stage, doomed <- tasks

\* The critical sections implement the pool its callers see: a ctx is run by
\* one thread at a time, at most MaxThread at once, and a ctx being cancelled
\* leaves only through the caller of foreach_active_remove.
ImplementsPool == Pool!Spec
=============================================================================
