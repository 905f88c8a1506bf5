----------------------------- MODULE RejillaIO -----------------------------
(***************************************************************************)
(* RejillaIO (librejilla-utils/rejilla-io.c): jobs are run by the pool of  *)
(* RejillaAsyncTaskManager, their results are handed to the objects that   *)
(* asked for them by an idle function of the main loop.                    *)
(*                                                                         *)
(* The main thread is a stack of deliveries: the callback of a result may  *)
(* run a main loop of its own (a dialog), which delivers other results.    *)
(* The pool is the one of TaskPool.  Two locks matter: priv->lock, which   *)
(* is only ever kept across steps by the main thread (lock_held), and the  *)
(* manager's, kept by a thread that destroys a job (job "destroying").     *)
(* Every job carries a RejillaIOResultCallbackData of its own.             *)
(***************************************************************************)
EXTENDS Integers, Sequences, SequencesExt

CONSTANTS
  Jobs,            \* the RejillaIOJob pushed during a behaviour
  Bases,           \* the RejillaIOJobBase, one per object that registers
  BaseOf,          \* job->base
  MethodsOf,       \* base->methods, that several bases may share
  MaxThread,       \* MANAGER_MAX_THREAD
  NumberOfResults, \* NUMBER_OF_RESULTS, delivered by one idle call
  ResultsPerJob,   \* bound: results a job returns over its runs
  Drops,           \* when an owner drops its object: never in its object's own
                   \* deliveries ("outside"), also in the delivery of the very last result
                   \* of all ("last"), or "anywhere"
  PutBack          \* when a directory is put back in the queue: never between the two
                   \* passes of the cancellation of its base ("outside"), or "anytime"

ASSUME JobsAssumption == BaseOf \in [Jobs -> Bases]
ASSUME BoundsAssumption ==
  MaxThread \in Nat \ {0} /\ NumberOfResults \in Nat \ {0} /\ ResultsPerJob \in Nat
ASSUME OwnersAssumption == Drops \in {"outside", "last", "anywhere"}
ASSUME PutBackAssumption == PutBack \in {"outside", "anytime"}

VARIABLES
  job,        \* where each job is
  produced,   \* results returned so far
  ref,        \* callback_data->ref
  data,       \* callback_data: "held" or "destroyed"
  urgent,     \* waiting jobs moved to the front by find_urgent
  results,    \* priv->results: the jobs they come from
  results_id, \* priv->results_id # 0: an idle call is scheduled
  in_use,     \* the methods with in_use set
  frames,     \* the results being delivered, the innermost last
  lock_held,  \* the main thread keeps priv->lock while it finalizes an object
  base,       \* "live" or "freed"
  owned,      \* the bases whose object still has a reference of its owner
  call        \* the cancel_by_base the main thread is in

jobVars    == <<job, produced, ref, data, urgent>>
resultVars == <<results, results_id, in_use, frames>>
ownerVars  == <<base, owned>>
vars == <<jobVars, resultVars, lock_held, ownerVars, call>>

-----------------------------------------------------------------------------
\* "left": a cancelled job its thread is done with, not yet freed
\* "lost": a job the pool refused; nobody has it, nor frees it
\* "destroying": in job_free under the manager's lock, about to send a dummy result
JobStates == {"new", "waiting", "running", "reporting", "left", "destroying", "gone",
              "lost"}

NoCall == [at |-> "none"]
Calls  == {NoCall} \cup
          [at : {"unprocessed", "active", "waiting", "results"}, of : Bases, free : BOOLEAN,
           tasks : SUBSET Jobs]

\* a call of cancel_by_base (b); `tasks' is for those it waits for
CallOf(b, free) == [at |-> "unprocessed", of |-> b, free |-> free, tasks |-> {}]

CallGoesOn(at, T) == call' = [at |-> at, of |-> call.of, free |-> call.free, tasks |-> T]

JobsOf(b)      == {j \in Jobs : BaseOf[j] = b}
In(S)          == {j \in Jobs : job[j] \in S}
Active         == In({"running", "reporting"})
Cancelled(j)   == call.at = "waiting" /\ j \in call.tasks
ManagerFree    == In({"destroying"}) = {}
Methods(j)     == MethodsOf[BaseOf[j]]
FramesOf(b)    == {k \in DOMAIN frames : BaseOf[frames[k].job] = b}
MainRuns       == call.at = "none" /\ (frames # <<>> => Last(frames).at = "callback")

Init ==
  /\ job = [j \in Jobs |-> "new"] /\ produced = [j \in Jobs |-> 0]
  /\ ref = [j \in Jobs |-> 0] /\ data = [j \in Jobs |-> "held"] /\ urgent = {}
  /\ results = <<>> /\ results_id = FALSE /\ in_use = {} /\ frames = <<>>
  /\ lock_held = FALSE
  /\ base = [b \in Bases |-> "live"] /\ owned = Bases
  /\ call = NoCall

-----------------------------------------------------------------------------
(* The worker threads.                                                     *)

\* the manager takes an urgent job before the others
Run(j) ==
  /\ job[j] = "waiting" /\ ManagerFree
  /\ Cardinality(Active) < MaxThread
  /\ urgent # {} => j \in urgent
  /\ job' = [job EXCEPT ![j] = "running"] /\ urgent' = urgent \ {j}
  /\ UNCHANGED <<produced, ref, data, resultVars, lock_held, ownerVars, call>>

\* Fault: a result does not count as a reference
ReturnResultUncounted(j) ==
  /\ job[j] = "running" /\ produced[j] < ResultsPerJob
  /\ job' = [job EXCEPT ![j] = "reporting"]
  /\ produced' = [produced EXCEPT ![j] = @ + 1]
  /\ UNCHANGED <<ref, data, urgent, resultVars, lock_held, ownerVars, call>>

\* rejilla_io_return_result: one more reference ...
ReturnResult(j) ==
  /\ job[j] = "running" /\ produced[j] < ResultsPerJob
  /\ job' = [job EXCEPT ![j] = "reporting"]
  /\ produced' = [produced EXCEPT ![j] = @ + 1]
  /\ ref' = [ref EXCEPT ![j] = @ + 1]
  /\ UNCHANGED <<data, urgent, resultVars, lock_held, ownerVars, call>>

\* ... then rejilla_io_queue_result, under priv->lock
AppendResult(j) == results' = Append(results, j) /\ results_id' = TRUE

QueueResult(j) ==
  /\ job[j] = "reporting" /\ ~lock_held
  /\ job' = [job EXCEPT ![j] = "running"]
  /\ AppendResult(j)
  /\ UNCHANGED <<produced, ref, data, urgent, in_use, frames, lock_held, ownerVars, call>>

\* the thread function has returned: a cancelled job is left to its canceller,
\* another one loses the job's reference on the callback_data (job_free)
End(j) ==
  /\ job[j] = "running" /\ ManagerFree
  /\ IF Cancelled(j)
       THEN job' = [job EXCEPT ![j] = "left"] /\ UNCHANGED ref
       ELSE /\ ref' = [ref EXCEPT ![j] = @ - 1]
            /\ job' = [job EXCEPT ![j] = IF ref[j] = 1 THEN "destroying" ELSE "gone"]
  /\ UNCHANGED <<produced, data, urgent, resultVars, lock_held, ownerVars, call>>

\* Fault: the job whose data nobody else holds is freed without a dummy result
SendNoDummy(j) ==
  /\ job[j] = "destroying" /\ ~lock_held
  /\ job' = [job EXCEPT ![j] = "gone"]
  /\ UNCHANGED <<produced, ref, data, urgent, resultVars, lock_held, ownerVars, call>>

\* the last reference is given back by the main loop, with a dummy result
SendDummy(j) ==
  /\ job[j] = "destroying" /\ ~lock_held
  /\ job' = [job EXCEPT ![j] = "gone"]
  /\ ref' = [ref EXCEPT ![j] = @ + 1]
  /\ AppendResult(j)
  /\ UNCHANGED <<produced, data, urgent, in_use, frames, lock_held, ownerVars, call>>

\* Fault: a cancelled directory is put back
RescheduleCancelled(j) ==
  /\ job[j] = "running" /\ ManagerFree
  /\ job' = [job EXCEPT ![j] = "waiting"]
  /\ UNCHANGED <<produced, ref, data, urgent, resultVars, lock_held, ownerVars, call>>

\* a directory with children left is put back
Reschedule(j) ==
  /\ job[j] = "running" /\ ManagerFree /\ ~Cancelled(j)
  /\ call.at = "active" /\ call.of = BaseOf[j] => PutBack = "anytime"
  /\ job' = [job EXCEPT ![j] = "waiting"]
  /\ UNCHANGED <<produced, ref, data, urgent, resultVars, lock_held, ownerVars, call>>

-----------------------------------------------------------------------------
(* The main thread.                                                        *)

\* get_file_info, load_directory, parse_playlist, get_file_count: set_job, push_job
Push(j) ==
  /\ MainRuns /\ ManagerFree /\ job[j] = "new"
  /\ BaseOf[j] \in owned /\ base[BaseOf[j]] = "live"
  /\ job' = [job EXCEPT ![j] = "waiting"] /\ ref' = [ref EXCEPT ![j] = 1]
  /\ UNCHANGED <<produced, data, urgent, resultVars, lock_held, ownerVars, call>>

\* the same when the manager cannot create the thread it needs and refuses the
\* task: push_job does not look, and the job keeps its callback_data for ever
PushRefused(j) ==
  /\ MainRuns /\ ManagerFree /\ job[j] = "new"
  /\ BaseOf[j] \in owned /\ base[BaseOf[j]] = "live"
  /\ Cardinality(Active) < MaxThread
  /\ job' = [job EXCEPT ![j] = "lost"] /\ ref' = [ref EXCEPT ![j] = 1]
  /\ UNCHANGED <<produced, data, urgent, resultVars, lock_held, ownerVars, call>>

\* Drop n[j] references of each j; the last one destroys the callback_data.
Unref(n) ==
  /\ ref' = [j \in Jobs |-> ref[j] - n[j]]
  /\ data' = [j \in Jobs |-> IF n[j] > 0 /\ ref[j] = n[j] THEN "destroyed" ELSE data[j]]

Ones(S)  == [j \in Jobs |-> IF j \in S THEN 1 ELSE 0]
Count(q) == [j \in Jobs |-> Cardinality({k \in DOMAIN q : q[k] = j})]

\* rejilla_io_compare_unprocessed_task and find_urgent_task, for base b: the
\* jobs of b are passed over, one the caller's function accepts is moved
FindUrgent(b) ==
  /\ MainRuns /\ ManagerFree /\ base[b] = "live"
  /\ \E j \in In({"waiting"}) : BaseOf[j] # b /\ urgent' = urgent \cup {j}
  /\ UNCHANGED <<job, produced, ref, data, resultVars, lock_held, ownerVars, call>>

\* rejilla_io_cancel_by_base (b), by an object that goes on living
Cancel(b) ==
  /\ MainRuns /\ base[b] = "live"
  /\ call' = CallOf(b, FALSE)
  /\ UNCHANGED <<jobVars, resultVars, lock_held, ownerVars>>

\* foreach_unprocessed_remove, in one section of the manager's lock
CancelUnprocessed ==
  LET S == JobsOf(call.of) \cap In({"waiting"}) IN
  /\ call.at = "unprocessed" /\ ManagerFree
  /\ job' = [j \in Jobs |-> IF j \in S THEN "gone" ELSE job[j]]
  /\ urgent' = urgent \ S
  /\ Unref(Ones(S))
  /\ CallGoesOn("active", {})
  /\ UNCHANGED <<produced, resultVars, lock_held, ownerVars>>

\* foreach_active_remove, in another: the tasks to cancel are put in a list
CancelActive ==
  LET S == JobsOf(call.of) \cap Active IN
  /\ call.at = "active" /\ ManagerFree
  /\ CallGoesOn(IF S = {} THEN "results" ELSE "waiting", S)
  /\ UNCHANGED <<jobVars, resultVars, lock_held, ownerVars>>

\* Fault: the active tasks are not waited for
CancelUnwaited ==
  /\ call.at = "waiting" /\ ManagerFree
  /\ CallGoesOn("results", {})
  /\ UNCHANGED <<jobVars, resultVars, lock_held, ownerVars>>

\* ... task_finished wakes it, and those which are not active any more are freed
CancelWaited ==
  LET S == call.tasks \cap In({"left"})  more == call.tasks \ S IN
  /\ call.at = "waiting" /\ ManagerFree /\ S # {}
  /\ job' = [j \in Jobs |-> IF j \in S THEN "gone" ELSE job[j]]
  /\ Unref(Ones(S))
  /\ CallGoesOn(IF more = {} THEN "results" ELSE "waiting", more)
  /\ UNCHANGED <<produced, urgent, resultVars, lock_held, ownerVars>>

\* "some results slipped through": cancel_result takes priv->lock for each of
\* them, which a main thread that already has it never gets
Slipped == {k \in DOMAIN results : BaseOf[results[k]] = call.of}

CancelResult ==
  /\ call.at = "results" /\ Slipped # {} /\ ~lock_held
  /\ results' = RemoveAt(results, Min(Slipped))
  /\ Unref(Ones({results[Min(Slipped)]}))
  /\ UNCHANGED <<job, produced, urgent, results_id, in_use, frames, lock_held, ownerVars, call>>

\* the call returns; finalize goes on with rejilla_io_job_base_free
CancelReturns ==
  /\ call.at = "results" /\ Slipped = {}
  /\ base' = IF call.free THEN [base EXCEPT ![call.of] = "freed"] ELSE base
  /\ call' = NoCall
  /\ UNCHANGED <<jobVars, resultVars, lock_held, owned>>

\* the owner of an object drops it: finalize, unless a delivery still refers to it
Release(b) ==
  /\ MainRuns /\ b \in owned
  /\ \/ FramesOf(b) = {} \/ Drops = "anywhere"
     \/ Drops = "last" /\ In({"gone", "lost"}) = Jobs /\ results = <<>>
  /\ owned' = owned \ {b}
  /\ call' = IF FramesOf(b) = {} THEN CallOf(b, TRUE) ELSE NoCall
  /\ UNCHANGED <<jobVars, resultVars, lock_held, base>>

-----------------------------------------------------------------------------
(* rejilla_io_return_result_idle.                                          *)

\* Fault: in_use is not looked at
DeliverableAny(busy) == DOMAIN results

\* the first result whose methods are not in use, of those not in `busy'
Deliverable(busy) == {k \in DOMAIN results : Methods(results[k]) \notin busy}

\* Fault: an idle call never restarts itself
AgainNever(i, id) == FALSE

\* whether the idle call asks to be run again
Again(i, id) == ~id /\ results # <<>> /\ i >= NumberOfResults

\* The head of the loop, after i results, above the deliveries `below'.
Loop(i, below, busy, id) ==
  IF Deliverable(busy) # {} /\ i < NumberOfResults
    THEN LET k == Min(Deliverable(busy)) IN
         /\ results' = RemoveAt(results, k)
         /\ frames' = Append(below, [job |-> results[k], i |-> i, at |-> "callback"])
         /\ in_use' = busy \cup {Methods(results[k])}
         /\ results_id' = id
    ELSE /\ frames' = below /\ in_use' = busy
         /\ results_id' = (id \/ Again(i, id))
         /\ UNCHANGED results

\* an idle call, from the main loop or one nested in a callback
RunIdle ==
  /\ MainRuns /\ results_id
  /\ Loop(0, frames, in_use, FALSE)
  /\ UNCHANGED <<jobVars, lock_held, ownerVars, call>>

\* The callback returned: the result's reference is dropped, priv->lock taken
\* and the object unref'd; if that was the last reference, it is finalized
\* before the lock is released.
EndCallback ==
  LET f == Last(frames)  b == BaseOf[f.job] IN
  /\ frames # <<>> /\ MainRuns
  /\ Unref(Ones({f.job}))
  /\ IF b \notin owned /\ FramesOf(b) = {Len(frames)}
       THEN /\ frames' = [frames EXCEPT ![Len(frames)].at = "clearing"]
            /\ lock_held' = TRUE
            /\ call' = CallOf(b, TRUE)
            /\ UNCHANGED <<results, results_id, in_use>>
       ELSE /\ Loop(f.i + 1, Front(frames), in_use \ {Methods(f.job)}, results_id)
            /\ UNCHANGED <<lock_held, call>>
  /\ UNCHANGED <<job, produced, urgent, ownerVars>>

\* base->methods->in_use = FALSE after that finalization
ClearInUse ==
  LET f == Last(frames) IN
  /\ frames # <<>> /\ f.at = "clearing" /\ call.at = "none"
  /\ lock_held' = FALSE
  /\ Loop(f.i + 1, Front(frames), in_use \ {Methods(f.job)}, results_id)
  /\ UNCHANGED <<jobVars, ownerVars, call>>

\* every job is over and nothing is left to deliver
Rest ==
  /\ In({"new", "gone", "lost"}) = Jobs /\ results = <<>> /\ ~results_id
  /\ frames = <<>> /\ call = NoCall
  /\ UNCHANGED vars

Next ==
  \/ \E j \in Jobs : \/ Run(j) \/ ReturnResult(j) \/ QueueResult(j) \/ End(j)
                     \/ SendDummy(j) \/ Reschedule(j) \/ Push(j) \/ PushRefused(j)
  \/ \E b \in Bases : FindUrgent(b) \/ Cancel(b) \/ Release(b)
  \/ CancelUnprocessed \/ CancelActive \/ CancelWaited \/ CancelResult \/ CancelReturns
  \/ RunIdle \/ EndCallback \/ ClearInUse
  \/ Rest

Spec == Init /\ [][Next]_vars

\* A thread that can go on does, a directory has finitely many children, a
\* callback returns, and the main loop is not kept from its idle calls for ever
\* by cancellations.
Fairness ==
  /\ \A j \in Jobs : /\ WF_vars(Run(j)) /\ SF_vars(End(j))
                     /\ WF_vars(QueueResult(j)) /\ WF_vars(SendDummy(j))
  /\ WF_vars(CancelUnprocessed) /\ WF_vars(CancelActive) /\ WF_vars(CancelWaited)
  /\ WF_vars(CancelResult) /\ WF_vars(CancelReturns)
  /\ SF_vars(RunIdle) /\ SF_vars(EndCallback) /\ WF_vars(ClearInUse)

FairSpec == Spec /\ Fairness

-----------------------------------------------------------------------------
(* Type invariant.                                                         *)
TypeOK ==
  /\ job \in [Jobs -> JobStates] /\ produced \in [Jobs -> 0 .. ResultsPerJob]
  /\ ref \in [Jobs -> 0 .. 2 + ResultsPerJob] /\ data \in [Jobs -> {"held", "destroyed"}]
  /\ urgent \subseteq In({"waiting"})
  /\ results \in Seq(Jobs) /\ results_id \in BOOLEAN
  /\ in_use \subseteq {MethodsOf[b] : b \in Bases}
  /\ frames \in Seq([job : Jobs, i : 0 .. NumberOfResults, at : {"callback", "clearing"}])
  /\ lock_held \in BOOLEAN
  /\ base \in [Bases -> {"live", "freed"}] /\ owned \subseteq Bases /\ call \in Calls

\* The atomic counter of a callback_data is the number of those that still
\* carry it - the job, its results in the list or in a delivery - and the
\* destroy callback has run exactly when nobody does.
RefsAreHolders ==
  \A j \in Jobs :
    LET carriers ==
          (IF job[j] \in {"waiting", "running", "reporting", "left", "lost"} THEN 1 ELSE 0)
          + (IF job[j] = "reporting" THEN 1 ELSE 0)
          + Count(results)[j]
          + Cardinality({k \in DOMAIN frames : frames[k].job = j /\ frames[k].at = "callback"})
    IN  /\ ref[j] = carriers
        /\ data[j] = "destroyed" <=> job[j] = "gone" /\ carriers = 0

\* A result in the list has an idle call to come or a delivery under way that
\* will look at the list again, whatever the nesting and the limit of results
\* per call.
NoResultStranded == results # <<>> => results_id \/ frames # <<>>

\* "Make sure another result is not returned for this base": deliveries that
\* are nested in each other never share their methods.
OneDeliveryPerMethods ==
  /\ in_use = {Methods(frames[k].job) : k \in DOMAIN frames}
  /\ \A k, l \in DOMAIN frames : k # l => Methods(frames[k].job) # Methods(frames[l].job)

\* Results are delivered without re-entering the callbacks, and without leaving
\* any of them behind for that.
DeliveryIsOrderly == NoResultStranded /\ OneDeliveryPerMethods

\* When cancel_by_base has come back and the base is freed, no thread and no
\* list has anything left that points to it: nothing slipped through.
FreedBaseIsForgotten ==
  \A j \in Jobs : base[BaseOf[j]] = "freed" =>
    job[j] \in {"new", "gone", "lost"} /\ Count(results)[j] = 0

\* What a callback_data or a base is freed for, nobody has any more: neither
\* the threads, nor the list, nor the deliveries under way.
NothingDangles == RefsAreHolders /\ FreedBaseIsForgotten

\* "This is to make sure the object lives as long as we need it": the base of
\* a result is there until its delivery is done with it.  Objects that end in
\* their own callback (Drops) do not keep this.
DeliveryKeepsItsBase == \A k \in DOMAIN frames : base[BaseOf[frames[k].job]] = "live"

\* "Ask for a higher priority": find_urgent called for a base moves forward one
\* of that base's own jobs.
UrgentIsForItsOwner ==
  [][\A b \in Bases : FindUrgent(b) => \A j \in urgent' \ urgent : BaseOf[j] = b]_vars

\* Every request the pool takes ends with its callback_data destroyed, in the
\* main thread, through a last result, a dummy one or a cancellation.
EveryRequestEnds == \A j \in Jobs : job[j] \notin {"new", "lost"} ~> data[j] = "destroyed"

\* No request is dropped without its owner hearing of it.  Not so: one the pool
\* refuses has no result, and its destroy callback is never called.
NoRequestIsLost == In({"lost"}) = {}

\* The pool below, as TaskPool describes it.
StageOf(s) == CASE s = "new" -> "new"
                [] s = "waiting" -> "queued"
                [] s \in {"running", "reporting"} -> "running"
                [] s = "left" -> "left"
                [] OTHER -> "over"

Stage  == [j \in Jobs |-> StageOf(job[j])]
Doomed == IF call.at = "waiting" THEN call.tasks ELSE {}

Pool == INSTANCE TaskPool WITH Tasks <- Jobs, stage <- Stage, doomed <- Doomed

\* RejillaIO drives its jobs as the pool lets it.
UsesPool == Pool!Spec
=============================================================================
