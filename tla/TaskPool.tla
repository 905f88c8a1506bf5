------------------------------ MODULE TaskPool ------------------------------
(***************************************************************************)
(* What RejillaAsyncTaskManager promises to RejillaIO and the other users  *)
(* of its public functions: tasks go through a pool that runs at most      *)
(* MaxThread of them, a cancelled task is handed back to its canceller.    *)
(***************************************************************************)
EXTENDS Integers, FiniteSets

CONSTANTS Tasks, MaxThread

VARIABLES
  stage,   \* where each task is
  doomed   \* the running or left tasks a caller is cancelling

vars == <<stage, doomed>>

\* "left": a cancelled task whose thread is done with it
Stages == {"new", "queued", "running", "left", "over"}

At(s)      == {t \in Tasks : stage[t] = s}
Move(S, s) == stage' = [t \in Tasks |-> IF t \in S THEN s ELSE stage[t]]

Init == stage = [t \in Tasks |-> "new"] /\ doomed = {}

Submit(t) == t \in At("new") /\ Move({t}, "queued") /\ UNCHANGED doomed
Refuse(t) == t \in At("new") /\ Move({t}, "over") /\ UNCHANGED doomed

\* unprocessed tasks are withdrawn at once
Withdraw(S) == S \subseteq At("queued") /\ Move(S, "over") /\ UNCHANGED doomed

\* In one step a thread leaves the tasks D (at most one) and takes the tasks N.
Turn(D, N) ==
  /\ D \subseteq At("running") /\ Cardinality(D) <= 1
  /\ N \subseteq At("queued") /\ Cardinality(N) <= 1
  /\ Cardinality((At("running") \ D) \cup N) <= MaxThread
  /\ \E s \in IF D \cap doomed # {} THEN {"left"} ELSE {"queued", "over"} :
       stage' = [t \in Tasks |-> CASE t \in D -> s
                                   [] t \in N -> "running"
                                   [] OTHER   -> stage[t]]
  /\ UNCHANGED doomed

\* One caller cancels at a time; it comes back when all its tasks are over.
Doom(S) == doomed = {} /\ S \subseteq At("running") /\ doomed' = S /\ UNCHANGED stage

Collect(S) ==
  /\ S \subseteq At("left")
  /\ Move(S, "over")
  /\ doomed' = doomed \ S

Next ==
  \/ \E t \in Tasks : Submit(t) \/ Refuse(t)
  \/ \E S \in SUBSET At("queued") : Withdraw(S)
  \/ \E D \in SUBSET At("running"), N \in SUBSET At("queued") : Turn(D, N)
  \/ \E S \in SUBSET At("running") : Doom(S)
  \/ \E S \in SUBSET At("left") : Collect(S)

Spec == Init /\ [][Next]_vars
=============================================================================
