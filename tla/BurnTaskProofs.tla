--------------------------- MODULE BurnTaskProofs ---------------------------
(***************************************************************************)
(* For chains and sessions of any length, whatever the items answer: a     *)
(* task that has returned has left no item at work and no pipe open.  The  *)
(* invariant behind it is that whatever is at work or has a pipe is active *)
(* (rejilla_task_send_stop_signal only looks at active items), and that a  *)
(* loop that was quit has no active item left.                             *)
(*                                                                         *)
(* The other theorems hold for chains in which no item asks for another    *)
(* attempt (MayRetry = {}): the pause of rejilla_task_sleep neither hands  *)
(* the error over nor respects a cancellation.                             *)
(***************************************************************************)
EXTENDS BurnTask, WellFoundedInduction, TLAPS

Still(j, i) == ~j[i].busy /\ j[i].input = "none"
Sound(j) ==
    /\ j \in [Items -> Jobs]
    /\ \A i \in Items : ~j[i].active => Still(j, i)
Dead(j) == Sound(j) /\ \A i \in Items : ~j[i].active

IInv ==
    /\ TypeOK
    /\ Sound(job)
    /\ pc = "idle" => \A i \in Items : Still(job, i)
    /\ pc = "loop" /\ quit => Dead(job)
    /\ pc = "sleep" => attempts < MaxAttempts

LEMMA SmallestIsMember ==
  ASSUME NEW S \in SUBSET Nat, S # {}
  PROVE  \E x \in S : \A y \in S : ~ (y < x)
<1> DEFINE Below == OpToRel(<, Nat)
<1>1. IsWellFoundedOn(Below, Nat)
  BY NatLessThanWellFounded
<1>2. \A y \in Nat, z \in Nat : y < z => <<y, z>> \in Below
  BY SMT DEF OpToRel
<1> HIDE DEF Below
<1>3. PICK x \in S : \A y \in S : <<y, x>> \notin Below
  BY <1>1, WFMin
<1>4. \A y \in S : ~ (y < x)
  <2> TAKE y \in S
  <2>1. x \in Nat /\ y \in Nat
    OBVIOUS
  <2> QED
    BY <1>2, <1>3, <2>1
<1> QED
  BY <1>4

\* NextActive is the closest active item after i, 0 when there is none.
LEMMA NextActiveIs ==
  ASSUME NEW j, NEW i \in Items
  PROVE  \/ NextActive(j, i) = 0 /\ \A k \in Items : k > i => ~j[k].active
         \/ /\ NextActive(j, i) \in Items /\ NextActive(j, i) > i /\ j[NextActive(j, i)].active
            /\ \A l \in Items : i < l /\ l < NextActive(j, i) => ~j[l].active
<1>1. CASE \A k \in Items : k > i => ~j[k].active
  BY <1>1 DEF NextActive
<1>2. CASE \E k \in Items : k > i /\ j[k].active
  <2> DEFINE After == {k \in Items : k > i /\ j[k].active}
  <2>1. After \in SUBSET Nat /\ After # {}
    BY <1>2, ChainAssumption DEF Items
  <2>2. PICK k \in After : \A l \in After : ~ (l < k)
    BY <2>1, SmallestIsMember
  <2>3. /\ k \in Items /\ k > i /\ j[k].active
        /\ \A l \in Items : i < l /\ l < k => ~j[l].active
    BY <2>2, ChainAssumption DEF Items
  <2> QED
    BY <1>2, <2>3 DEF NextActive
<1> QED
  BY <1>1, <1>2

LEMMA NextActiveType ==
  ASSUME NEW j \in [Items -> Jobs], NEW i \in Items
  PROVE  NextActive(j, i) \in 0 .. NumItems
BY NextActiveIs, ChainAssumption DEF Items

LEMMA StoppedIsDead ==
  ASSUME NEW j, Sound(j)
  PROVE  Dead(Stopped(j)) /\ \A i \in Items : Still(Stopped(j), i)
BY DEF Sound, Dead, Still, Stopped, Jobs

LEMMA StopJobSound ==
  ASSUME NEW j, Sound(j), NEW i \in Items
  PROVE  Sound(StopJob(j, i))
BY DEF Sound, Still, StopJob, Jobs

LEMMA DeactivateSound ==
  ASSUME NEW j, Sound(j), NEW i \in Items
  PROVE  Sound(Deactivate(j, i))
<1>1. Unused \in Jobs
  BY ChainAssumption DEF Unused, Jobs
<1> QED
  BY <1>1 DEF Sound, Still, Deactivate, Unused

LEMMA DisconnectSound ==
  ASSUME NEW j, Sound(j), NEW i \in Items
  PROVE  Sound(Disconnect(j, i))
BY DEF Sound, Still, Disconnect, Jobs

\* A started item was active, and is the only one that changes.
LEMMA StartedSound ==
  ASSUME NEW j, Sound(j), NEW i \in Items, NEW a \in Answers
  PROVE  Sound(Started(j, i, a))
<1>0. j \in [Items -> Jobs]
  BY DEF Sound
<1>1. CASE ~j[i].active
  BY <1>1 DEF Started
<1>2. CASE j[i].active
  <2>1. Sound(WithLink(j, i)) /\ WithLink(j, i)[i].active
    BY <1>0, <1>2, NextActiveType DEF Sound, Still, WithLink, Jobs
  <2>2. Sound(WithPipe(j, i)) /\ WithPipe(j, i)[i].active
    <3> DEFINE w == WithLink(j, i)
    <3>1. Sound(w) /\ w[i].active
      BY <2>1
    <3> HIDE DEF w
    <3>2. Sound([w EXCEPT ![i].input = "open"]) /\ [w EXCEPT ![i].input = "open"][i].active
      BY <3>1 DEF Sound, Still, Jobs
    <3> QED
      BY <3>1, <3>2 DEF WithPipe, w
  <2> DEFINE p == WithPipe(j, i)
  <2>3. Sound(p) /\ p[i].active
    BY <2>2
  <2>4. Sound(Deactivate(p, i))
    BY <2>3, DeactivateSound
  <2> HIDE DEF p
  <2>5. Sound([p EXCEPT ![i].busy = TRUE])
    <3> DEFINE q == [p EXCEPT ![i].busy = TRUE]
    <3>1. p \in [Items -> Jobs] /\ p[i] \in Jobs
      BY <2>3 DEF Sound
    <3>2. [p[i] EXCEPT !.busy = TRUE] \in Jobs
      BY <3>1 DEF Jobs
    <3>3. q = [p EXCEPT ![i] = [p[i] EXCEPT !.busy = TRUE]]
      BY <3>1
    <3>4. q \in [Items -> Jobs]
      BY <3>1, <3>2, <3>3
    <3>5. q[i].active
      BY <2>3, <3>1 DEF Jobs
    <3>6. \A k \in Items : k # i => q[k] = p[k]
      BY <3>1
    <3> HIDE DEF q
    <3>7. Sound(q)
      BY <2>3, <3>4, <3>5, <3>6 DEF Sound, Still
    <3> QED
      BY <3>7 DEF q
  <2>6. Started(j, i, a) \in {WithLink(j, i), p, Deactivate(p, i), [p EXCEPT ![i].busy = TRUE]}
    BY <1>2 DEF Started, p
  <2> QED
    BY <2>1, <2>3, <2>4, <2>5, <2>6
<1> QED
  BY <1>1, <1>2

LEMMA StopKeeps ==
  ASSUME NEW j, Sound(j), NEW ret \in Results, NEW err \in BOOLEAN, TypeOK, Stop(j, ret, err), pc # "idle"
  PROVE  /\ Sound(job') /\ pc' \in {pc, "broken"} /\ (pc' = "loop" => Dead(job'))
         /\ retval' \in Results /\ error' \in BOOLEAN /\ quit' \in BOOLEAN
BY StoppedIsDead DEF Stop, TypeOK, Dead

LEMMA ReturnKeeps ==
  ASSUME NEW j, Sound(j), NEW res \in Results, NEW err \in BOOLEAN, TypeOK, StopAndReturn(j, res, err)
  PROVE  /\ Sound(job') /\ pc' \in {"idle", "broken"}
         /\ (pc' = "idle" => \A i \in Items : Still(job', i))
         /\ result' \in Results /\ raised' \in BOOLEAN /\ runs' \in 0 .. MaxRuns
<1>1. CASE PipesAreThere(j)
  <2>1. job' = Stopped(j) /\ pc' = "idle" /\ result' = res /\ raised' = err /\ runs' = runs
    BY <1>1 DEF StopAndReturn, Return
  <2> QED
    BY <2>1, StoppedIsDead DEF TypeOK, Dead
<1>2. CASE ~PipesAreThere(j)
  <2>1. job' = j /\ pc' = "broken" /\ result' = result /\ raised' = raised /\ runs' = runs
    BY <1>2 DEF StopAndReturn, outcome
  <2> QED
    BY <2>1 DEF TypeOK
<1> QED
  BY <1>1, <1>2

LEMMA NextTrackKeeps ==
  ASSUME NEW j, Sound(j), TypeOK, NextTrackOrReturn(j)
  PROVE  /\ Sound(job') /\ pc' \in {"idle", "broken", "starting"}
         /\ (pc' = "idle" => \A i \in Items : Still(job', i))
         /\ track' \in Tracks /\ cur' \in 0 .. NumItems /\ some' \in BOOLEAN /\ attempts' \in 0 .. MaxAttempts
         /\ result' \in Results /\ raised' \in BOOLEAN /\ runs' \in 0 .. MaxRuns
<1>1. CASE track < NumTracks
  <2>1. /\ track' = track + 1 /\ job' = j /\ cur' = NumItems /\ some' = FALSE /\ attempts' = 0
        /\ pc' = "starting" /\ result' = result /\ raised' = raised /\ runs' = runs
    BY <1>1 DEF NextTrackOrReturn, outcome
  <2>2. track' \in Tracks /\ cur' \in 0 .. NumItems /\ attempts' \in 0 .. MaxAttempts
    BY <1>1, <2>1, ChainAssumption DEF TypeOK, Tracks
  <2> QED
    BY <2>1, <2>2 DEF TypeOK
<1>2. CASE ~ (track < NumTracks)
  <2>1. StopAndReturn(j, "OK", FALSE) /\ UNCHANGED <<track, cur, some, attempts>>
    BY <1>2 DEF NextTrackOrReturn
  <2> QED
    BY <2>1, ReturnKeeps DEF TypeOK, Results
<1> QED
  BY <1>1, <1>2

LEMMA InitIInv == Init => IInv
<1> SUFFICES ASSUME Init PROVE IInv
  OBVIOUS
<1>1. Unused \in Jobs
  BY ChainAssumption DEF Unused, Jobs
<1>2. job \in [Items -> Jobs] /\ \A i \in Items : Still(job, i)
  BY <1>1 DEF Init, Still, Unused
<1>3. 0 \in 0 .. NumItems /\ 0 \in 0 .. MaxAttempts /\ 1 \in Tracks /\ 0 \in 0 .. MaxStored /\ 0 \in 0 .. MaxRuns
  BY ChainAssumption DEF Tracks
<1>4. TypeOK
  BY <1>2, <1>3 DEF Init, TypeOK, Results
<1> QED
  BY <1>2, <1>4 DEF Init, IInv, Sound

\* A report ends in one of these ways: the task stops, or goes on with the jobs j.
LEMMA StoppedStep ==
  ASSUME NEW j, Sound(j), NEW ret \in Results, NEW err \in BOOLEAN, IInv, Running, Stop(j, ret, err),
         UNCHANGED <<cur, some, attempts, fake, outcome>>,
         track' \in Tracks, stored' \in 0 .. MaxStored, pushed' \in BOOLEAN, cancelled' \in BOOLEAN
  PROVE  IInv'
<1>1. pc \in {"sleep", "loop"} /\ TypeOK
  BY DEF Running, IInv
<1>2. /\ Sound(job') /\ pc' \in {pc, "broken"} /\ (pc' = "loop" => Dead(job'))
      /\ retval' \in Results /\ error' \in BOOLEAN /\ quit' \in BOOLEAN
  BY <1>1, StopKeeps
<1>3. TypeOK'
  BY <1>1, <1>2 DEF TypeOK, Sound, outcome
<1> QED
  BY <1>1, <1>2, <1>3 DEF IInv, Running

LEMMA GoingOnStep ==
  ASSUME IInv, Running, Sound(job'), pc' \in {pc, "broken"},
         UNCHANGED <<quit, retval, error>>, UNCHANGED <<cur, some, attempts, fake, outcome>>,
         track' \in Tracks, stored' \in 0 .. MaxStored, pushed' \in BOOLEAN, cancelled' \in BOOLEAN
  PROVE  IInv'
<1>1. pc \in {"sleep", "loop"} /\ ~quit /\ TypeOK
  BY DEF Running, IInv
<1>2. TypeOK'
  BY <1>1 DEF TypeOK, Sound, outcome
<1> QED
  BY <1>1, <1>2 DEF IInv

LEMMA CtxFinishedStep ==
  ASSUME NEW j, Sound(j), IInv, Running, CtxFinished(j), UNCHANGED Unaffected
  PROVE  IInv'
<1>1. /\ Stop(j, "OK", FALSE) /\ UNCHANGED <<cur, some, attempts, fake, outcome>>
      /\ track' \in Tracks /\ stored' \in 0 .. MaxStored /\ pushed' \in BOOLEAN /\ cancelled' \in BOOLEAN
  <2>1. /\ Stop(j, "OK", FALSE) /\ UNCHANGED Unaffected
        /\ pushed' = (stored > 0) /\ stored' = 0 /\ track' = track
    BY DEF CtxFinished
  <2>2. pushed' \in BOOLEAN /\ 0 \in 0 .. MaxStored
    BY <2>1, ChainAssumption
  <2> QED
    BY <2>1, <2>2 DEF Unaffected, IInv, TypeOK
<1> QED
  BY <1>1, StoppedStep DEF Results

LEMMA CtxErrorStep ==
  ASSUME NEW j, Sound(j), IInv, Running, CtxError(j), UNCHANGED Unaffected
  PROVE  IInv'
<1>1. /\ Stop(j, "ERR", TRUE) /\ UNCHANGED <<cur, some, attempts, fake, outcome>>
      /\ track' \in Tracks /\ stored' \in 0 .. MaxStored /\ pushed' \in BOOLEAN /\ cancelled' \in BOOLEAN
  BY DEF CtxError, Unaffected, IInv, TypeOK
<1> QED
  BY <1>1, StoppedStep DEF Results

LEMMA RestartStep ==
  ASSUME NEW j, Sound(j), NEW a \in Answers, IInv, Running, track < NumTracks,
         Restart(j, a), UNCHANGED Unaffected
  PROVE  IInv'
<1>1. 1 \in Items
  BY ChainAssumption DEF Items
<1>2. /\ UNCHANGED <<cur, some, attempts, fake, outcome>>
      /\ stored' \in 0 .. MaxStored /\ pushed' \in BOOLEAN /\ cancelled' \in BOOLEAN
  BY DEF Restart, Unaffected, IInv, TypeOK
<1>3. track' \in Tracks
  BY ChainAssumption DEF Restart, IInv, TypeOK, Tracks
<1>4. Sound(Started(j, 1, a))
  BY <1>1, StartedSound
<1>5. CASE StartResult(j, 1, a) = "OK"
  <2>1. job' = Started(j, 1, a) /\ UNCHANGED <<pc, quit, retval, error>>
    BY <1>5 DEF Restart
  <2> QED
    BY <1>2, <1>3, <1>4, <2>1, GoingOnStep
<1>6. CASE StartResult(j, 1, a) # "OK"
  <2> DEFINE err == a \in {"ERR", "early"} \/ StartResult(j, 1, a) # a
  <2>1. Stop(Started(j, 1, a), "ERR", err) /\ err \in BOOLEAN
    BY <1>6 DEF Restart
  <2> HIDE DEF err
  <2> QED
    BY <1>2, <1>3, <1>4, <2>1, StoppedStep DEF Results
<1> QED
  BY <1>5, <1>6

LEMMA CloseFirstStep ==
  ASSUME NEW i \in Items, NEW j, Sound(j), IInv, Running, CloseFirst(j, i), UNCHANGED Unaffected
  PROVE  IInv'
<1>1. Sound(Deactivate(Disconnect(j, i), i))
  BY DisconnectSound, DeactivateSound
<1>2. Sound(job') /\ pc' \in {pc, "broken"} /\ UNCHANGED <<quit, retval, error, pushed, stored, track>>
  BY <1>1 DEF CloseFirst
<1>3. /\ UNCHANGED <<cur, some, attempts, fake, outcome>>
      /\ track' \in Tracks /\ stored' \in 0 .. MaxStored /\ pushed' \in BOOLEAN /\ cancelled' \in BOOLEAN
  BY <1>2 DEF Unaffected, IInv, TypeOK
<1> QED
  BY <1>2, <1>3, GoingOnStep

LEMMA ReportStep ==
  ASSUME IInv, NEW i \in Items,
         FinishTrack(i) \/ FinishTrackLater(i) \/ FinishSession(i) \/ JobError(i)
  PROVE  IInv'
<1>1. Sound(job) /\ TypeOK /\ Sound(StopJob(job, i))
  BY StopJobSound DEF IInv
<1>2. CASE FinishTrack(i)
  <2> DEFINE j == StopJob(job, i)
  <2>1. Running /\ UNCHANGED Unaffected
    BY <1>2 DEF FinishTrack, Report
  <2>2. \/ track < NumTracks /\ \E a \in Answers : Restart(j, a)
        \/ CloseFirst(j, i)
        \/ CtxFinished(j)
    BY <1>2 DEF FinishTrack
  <2> HIDE DEF j
  <2> QED
    BY <1>1, <2>1, <2>2, RestartStep, CloseFirstStep, CtxFinishedStep DEF j
<1>3. CASE FinishTrackLater(i)
  BY <1>1, <1>3, CtxFinishedStep, CtxErrorStep DEF FinishTrackLater, Report
<1>4. CASE FinishSession(i)
  <2>1. Running /\ UNCHANGED Unaffected
    BY <1>4 DEF FinishSession, Report
  <2>2. CASE CtxFinished(job) \/ CtxError(job)
    BY <1>1, <2>1, <2>2, CtxFinishedStep, CtxErrorStep
  <2>3. CASE /\ job' = job /\ pc' = "broken"
             /\ UNCHANGED <<quit, retval, error, pushed, stored, track>>
    <3>1. /\ UNCHANGED <<cur, some, attempts, fake, outcome>>
          /\ track' \in Tracks /\ stored' \in 0 .. MaxStored /\ pushed' \in BOOLEAN /\ cancelled' \in BOOLEAN
      BY <2>1, <2>3 DEF Unaffected, IInv, TypeOK
    <3> QED
      BY <1>1, <2>1, <2>3, <3>1, GoingOnStep
  <2>4. CASE /\ job' = [Disconnect(StopJob(job, i), i) EXCEPT ![i].active = FALSE]
             /\ UNCHANGED <<pc, quit, retval, error, pushed, stored, track>>
    <3>1. Sound(job')
      <4> DEFINE d == Disconnect(StopJob(job, i), i)
      <4>1. Sound(d)
        BY <1>1, DisconnectSound
      <4>2. Still(d, i)
        BY <1>1, ZenonT(40) DEF Sound, Still, Disconnect, StopJob, Jobs
      <4> HIDE DEF d
      <4>3. Sound([d EXCEPT ![i].active = FALSE])
        BY <4>1, <4>2 DEF Sound, Still, Jobs
      <4> QED
        BY <2>4, <4>3 DEF d
    <3>2. /\ UNCHANGED <<cur, some, attempts, fake, outcome>>
          /\ track' \in Tracks /\ stored' \in 0 .. MaxStored /\ pushed' \in BOOLEAN /\ cancelled' \in BOOLEAN
      BY <2>1, <2>4 DEF Unaffected, IInv, TypeOK
    <3> QED
      BY <2>1, <2>4, <3>1, <3>2, GoingOnStep
  <2> QED
    BY <1>4, <2>2, <2>3, <2>4 DEF FinishSession
<1>5. CASE JobError(i)
  BY <1>1, <1>5, CtxErrorStep DEF JobError, Report
<1> QED
  BY <1>2, <1>3, <1>4, <1>5

LEMMA StartStep == ASSUME IInv, Start PROVE IInv'
<1>1. /\ TypeOK /\ \A i \in Items : Still(job, i)
      /\ quit' = FALSE /\ retval' = retval /\ error' = error
      /\ fake' \in BOOLEAN /\ track' = 1 /\ stored' = 0 /\ pushed' = FALSE /\ cancelled' = FALSE
      /\ runs < MaxRuns
  BY DEF Start, IInv
<1>2. PICK declined \in SUBSET MayDecline, failed \in 0 .. NumItems :
          /\ job' = [i \in Items |->
                        IF failed # 0 /\ i > failed THEN job[i]
                        ELSE [job[i] EXCEPT !.active = i # failed /\ i \notin declined]]
          /\ runs' = runs + 1
          /\ IF failed # 0 THEN pc' = "idle" /\ result' = "ERR" /\ raised' = TRUE /\ UNCHANGED starting
             ELSE IF declined = Items THEN pc' = "idle" /\ result' = "OK" /\ raised' = FALSE /\ UNCHANGED starting
             ELSE /\ pc' = "starting" /\ cur' = NumItems /\ some' = FALSE /\ attempts' = 0
                  /\ UNCHANGED <<result, raised>>
  BY DEF Start
<1>3. Sound(job') /\ \A i \in Items : Still(job', i)
  BY <1>1, <1>2, ZenonT(40) DEF TypeOK, Sound, Still, Jobs
<1>4. /\ pc' \in {"idle", "starting"} /\ result' \in Results /\ raised' \in BOOLEAN
      /\ cur' \in 0 .. NumItems /\ some' \in BOOLEAN /\ attempts' \in 0 .. MaxAttempts
  <2>1. CASE failed # 0
    BY <1>1, <1>2, <2>1 DEF TypeOK, Results, starting
  <2>2. CASE failed = 0 /\ declined = Items
    BY <1>1, <1>2, <2>2 DEF TypeOK, Results, starting
  <2>3. CASE failed = 0 /\ declined # Items
    <3>1. /\ pc' = "starting" /\ cur' = NumItems /\ some' = FALSE /\ attempts' = 0
          /\ result' = result /\ raised' = raised
      BY <1>2, <2>3
    <3>2. NumItems \in 0 .. NumItems /\ 0 \in 0 .. MaxAttempts
      BY ChainAssumption
    <3> QED
      BY <1>1, <3>1, <3>2 DEF TypeOK
  <2> QED
    BY <2>1, <2>2, <2>3
<1>5. track' \in Tracks /\ stored' \in 0 .. MaxStored /\ runs' \in 0 .. MaxRuns
  BY <1>1, <1>2, ChainAssumption DEF TypeOK, Tracks
<1>6. TypeOK'
  BY <1>1, <1>3, <1>4, <1>5 DEF TypeOK, Sound
<1> QED
  BY <1>3, <1>4, <1>6 DEF IInv

\* What rejilla_task_start does outside of its loops.
StartingType ==
    /\ pc' \in {"idle", "broken", "starting", "sleep"}
    /\ track' \in Tracks /\ cur' \in 0 .. NumItems /\ some' \in BOOLEAN /\ attempts' \in 0 .. MaxAttempts
    /\ result' \in Results /\ raised' \in BOOLEAN /\ runs' \in 0 .. MaxRuns
    /\ pc' = "sleep" => attempts' < MaxAttempts

LEMMA StartingStep ==
  ASSUME IInv, Sound(job'), StartingType, pc' = "idle" => \A i \in Items : Still(job', i),
         quit' = FALSE, UNCHANGED <<fake, retval, error, stored, pushed, cancelled>>
  PROVE  IInv'
<1>1. TypeOK
  BY DEF IInv
<1>2. TypeOK'
  BY <1>1 DEF TypeOK, Sound, StartingType
<1> QED
  BY <1>2 DEF IInv, StartingType

LEMMA StartItemStep == ASSUME IInv, NEW a \in Answers, StartItem(a) PROVE IInv'
<1> DEFINE res == StartResult(job, cur, a)
           j == Started(job, cur, a)
           called == job[cur].active \/ attempts > 0
<1>1. /\ TypeOK /\ quit' = FALSE /\ UNCHANGED <<fake, retval, error, stored, pushed, cancelled>>
      /\ cur \in Items
  <2>1. cur # 0 /\ quit' = FALSE /\ UNCHANGED <<fake, retval, error, stored, pushed, cancelled>>
    BY DEF StartItem
  <2> QED
    BY <2>1, ChainAssumption DEF IInv, TypeOK, Items
<1>2. Sound(j)
  BY <1>1, StartedSound DEF IInv
<1>3. \/ /\ res \in {"OK", "NOT_SUPPORTED"}
         /\ job' = j /\ cur' = cur - 1 /\ attempts' = 0
         /\ some' = (some \/ (called /\ res = "OK"))
         /\ UNCHANGED <<pc, track, outcome>>
      \/ NextTrackOrReturn(j)
      \/ /\ attempts < MaxAttempts
         /\ job' = j /\ pc' = "sleep"
         /\ UNCHANGED <<track, starting, outcome>>
      \/ /\ StopAndReturn(j, "ERR", TRUE)
         /\ UNCHANGED <<track, starting>>
  BY DEF StartItem
<1>4. pc = "starting"
  BY DEF StartItem
<1> HIDE DEF res, j, called
<1>5. CASE /\ job' = j /\ cur' = cur - 1 /\ attempts' = 0
           /\ some' = (some \/ (called /\ res = "OK"))
           /\ UNCHANGED <<pc, track, outcome>>
  <2>1. cur' \in 0 .. NumItems /\ attempts' \in 0 .. MaxAttempts
    BY <1>1, <1>5, ChainAssumption DEF Items
  <2>2. some' \in BOOLEAN
    BY <1>5
  <2>3. StartingType
    BY <1>1, <1>4, <1>5, <2>1, <2>2 DEF StartingType, TypeOK, outcome
  <2> QED
    BY <1>1, <1>2, <1>4, <1>5, <2>3, StartingStep
<1>6. CASE NextTrackOrReturn(j)
  BY <1>1, <1>2, <1>6, NextTrackKeeps, StartingStep DEF StartingType
<1>7. CASE /\ attempts < MaxAttempts
           /\ job' = j /\ pc' = "sleep"
           /\ UNCHANGED <<track, starting, outcome>>
  <2>1. StartingType
    BY <1>1, <1>7 DEF StartingType, TypeOK, starting, outcome
  <2> QED
    BY <1>1, <1>2, <1>7, <2>1, StartingStep
<1>8. CASE /\ StopAndReturn(j, "ERR", TRUE)
           /\ UNCHANGED <<track, starting>>
  <2>1. /\ Sound(job') /\ pc' \in {"idle", "broken"}
        /\ (pc' = "idle" => \A i \in Items : Still(job', i))
        /\ result' \in Results /\ raised' \in BOOLEAN /\ runs' \in 0 .. MaxRuns
    BY <1>1, <1>2, <1>8, ReturnKeeps DEF Results
  <2>2. StartingType
    BY <1>1, <1>8, <2>1 DEF StartingType, TypeOK, starting
  <2> QED
    BY <1>1, <2>1, <2>2, StartingStep
<1> QED
  BY <1>3, <1>5, <1>6, <1>7, <1>8

LEMMA EnterLoopStep == ASSUME IInv, EnterLoop PROVE IInv'
<1>1. /\ TypeOK /\ Sound(job) /\ quit' = FALSE
      /\ UNCHANGED <<fake, retval, error, stored, pushed, cancelled>>
  BY DEF EnterLoop, IInv
<1>2. CASE pc' = "loop" /\ UNCHANGED <<job, track, starting, outcome>>
  <2>1. TypeOK'
    BY <1>1, <1>2 DEF TypeOK, starting, outcome
  <2> QED
    BY <1>1, <1>2, <2>1 DEF IInv
<1>3. CASE NextTrackOrReturn(job)
  BY <1>1, <1>3, NextTrackKeeps, StartingStep DEF StartingType
<1> QED
  BY <1>2, <1>3 DEF EnterLoop

LEMMA EndSleepStep == ASSUME IInv, EndSleep PROVE IInv'
<1>1. /\ TypeOK /\ Sound(job) /\ pc = "sleep" /\ quit' = FALSE
      /\ UNCHANGED <<cur, some, track, fake, retval, error, stored, pushed, cancelled>>
  BY DEF EndSleep, IInv
<1>2. CASE retval = "OK"
  <2>1. attempts' = attempts + 1 /\ pc' = "starting" /\ UNCHANGED <<job, outcome>>
    BY <1>2 DEF EndSleep
  <2>2. attempts' \in 0 .. MaxAttempts
    BY <1>1, <2>1, ChainAssumption DEF IInv, TypeOK
  <2>3. StartingType
    BY <1>1, <2>1, <2>2 DEF StartingType, TypeOK, outcome
  <2> QED
    BY <1>1, <2>1, <2>3, StartingStep
<1>3. CASE retval # "OK"
  <2>1. StopAndReturn(job, retval, FALSE) /\ UNCHANGED attempts
    BY <1>3 DEF EndSleep
  <2>2. /\ Sound(job') /\ pc' \in {"idle", "broken"}
        /\ (pc' = "idle" => \A i \in Items : Still(job', i))
        /\ result' \in Results /\ raised' \in BOOLEAN /\ runs' \in 0 .. MaxRuns
    BY <1>1, <2>1, ReturnKeeps DEF TypeOK
  <2>3. StartingType
    BY <1>1, <2>1, <2>2 DEF StartingType, TypeOK
  <2> QED
    BY <1>1, <2>2, <2>3, StartingStep
<1> QED
  BY <1>2, <1>3

LEMMA NextIInv == IInv /\ [Next]_vars => IInv'
<1> SUFFICES ASSUME IInv, [Next]_vars PROVE IInv'
  OBVIOUS
<1>0. TypeOK /\ Sound(job)
  BY DEF IInv
<1>1. CASE Start
  BY <1>1, StartStep
<1>2. CASE StartAnyItem
  BY <1>2, StartItemStep DEF StartAnyItem
<1>3. CASE EnterLoop
  BY <1>3, EnterLoopStep
<1>4. CASE Reports
  BY <1>4, ReportStep DEF Reports
<1>5. ASSUME NEW i \in Items, AddTrack(i) PROVE IInv'
  <2>1. /\ Running /\ UNCHANGED <<job, pc, track, quit, retval, error, pushed, Unaffected>>
        /\ stored' = stored + 1 /\ stored < MaxStored
    BY <1>5 DEF AddTrack, Report
  <2>2. stored' \in 0 .. MaxStored
    BY <1>0, <2>1, ChainAssumption DEF TypeOK
  <2>3. /\ UNCHANGED <<cur, some, attempts, fake, outcome>>
        /\ track' \in Tracks /\ pushed' \in BOOLEAN /\ cancelled' \in BOOLEAN
    BY <1>0, <2>1 DEF TypeOK, Unaffected
  <2> QED
    BY <1>0, <2>1, <2>2, <2>3, GoingOnStep
<1>6. CASE Cancel
  <2>1. /\ Running /\ Stop(job, "CANCEL", FALSE) /\ cancelled' = TRUE
        /\ UNCHANGED <<cur, some, attempts, fake, outcome, pushed, stored, track>>
    BY <1>6 DEF Cancel
  <2> QED
    BY <1>0, <2>1, StoppedStep DEF Results, TypeOK
<1>7. CASE Wakeup
  <2>1. TypeOK'
    BY <1>0, <1>7 DEF Wakeup, TypeOK, Results, starting, outcome
  <2> QED
    BY <1>7, <2>1 DEF Wakeup, IInv, Sound, starting
<1>8. CASE EndSleep
  BY <1>8, EndSleepStep
<1>9. CASE EndLoop
  <2>1. /\ pc = "loop" /\ quit /\ quit' = FALSE /\ error' = FALSE
        /\ pc' = "idle" /\ result' = retval /\ raised' = error /\ runs' = runs
        /\ UNCHANGED <<job, starting, track, fake, retval, stored, pushed, cancelled>>
    BY <1>9 DEF EndLoop, Return
  <2>2. TypeOK'
    BY <1>0, <2>1 DEF TypeOK, starting
  <2>3. \A i \in Items : Still(job', i)
    BY <2>1 DEF IInv, Dead, Sound
  <2> QED
    BY <1>0, <2>1, <2>2, <2>3 DEF IInv
<1>10. CASE Rest \/ UNCHANGED vars
  <2>1. UNCHANGED vars
    BY <1>10 DEF Rest
  <2>2. TypeOK'
    BY <1>0, <2>1 DEF TypeOK, vars
  <2> QED
    BY <2>1, <2>2 DEF IInv, Sound, Dead, Still, vars
<1> QED
  BY <1>1, <1>2, <1>3, <1>4, <1>5, <1>6, <1>7, <1>8, <1>9, <1>10 DEF Next

LEMMA InvariantOfTask == Spec => []IInv
BY InitIInv, NextIInv, PTL DEF Spec

\* The state of a task, its items and its ctx keep their types for any chain.
THEOREM TaskIsTyped == Spec => []TypeOK
<1>1. IInv => TypeOK
  BY DEF IInv
<1> QED
  BY <1>1, InvariantOfTask, PTL

\* However a run ends, no item is left at work and no pipe is left open.
THEOREM NothingIsLeftBehind == Spec => []QuietWhenIdle
<1>1. IInv => QuietWhenIdle
  BY DEF IInv, QuietWhenIdle, Still
<1> QED
  BY <1>1, InvariantOfTask, PTL

-----------------------------------------------------------------------------
(* Chains in which no item asks for another attempt: rejilla_task_sleep is   *)
(* never reached, and the loop of the task is the only place it waits in.    *)

RInv ==
    /\ pc # "sleep"
    /\ pc \in {"idle", "starting"} \/ (pc = "loop" /\ ~quit) => ~error
    /\ pc = "starting" \/ (pc = "loop" /\ ~quit) => ~pushed /\ ~cancelled
    /\ pc = "starting" => stored = 0
    /\ pc = "loop" /\ quit => (retval = "OK" => stored = 0) /\ (pushed => retval = "OK")
    /\ pc = "idle" /\ runs > 0 => (result = "OK" => stored = 0) /\ (pushed => result = "OK")

\* The task stops with ret: it gave its tracks to the session or none.
LEMMA StoppedHandsOver ==
  ASSUME RInv, Running, NEW j, NEW ret \in Results, NEW err, Stop(j, ret, err),
         ret = "OK" => stored' = 0, pushed' => ret = "OK"
  PROVE  RInv'
BY DEF RInv, Running, Stop

LEMMA StartingHandsOver ==
  ASSUME RInv, pc = "starting", NEW j, StopAndReturn(j, "OK", FALSE) \/ StopAndReturn(j, "ERR", TRUE),
         UNCHANGED <<error, stored, pushed>>
  PROVE  RInv'
BY DEF RInv, StopAndReturn, Return

LEMMA NextTrackHandsOver ==
  ASSUME RInv, pc = "starting", NEW j, NextTrackOrReturn(j), UNCHANGED <<error, stored, pushed, cancelled>>
  PROVE  RInv'
<1>1. CASE StopAndReturn(j, "OK", FALSE)
  BY <1>1, StartingHandsOver
<1>2. CASE pc' = "starting"
  BY <1>2 DEF RInv
<1> QED
  BY <1>1, <1>2 DEF NextTrackOrReturn

LEMMA ReportHandsOver ==
  ASSUME RInv, NEW i \in Items,
         FinishTrack(i) \/ FinishTrackLater(i) \/ FinishSession(i) \/ JobError(i)
  PROVE  RInv'
<1>1. Running /\ pc = "loop" /\ ~quit /\ ~pushed /\ cancelled' = cancelled
  BY DEF FinishTrack, FinishTrackLater, FinishSession, JobError, Report, Running, RInv, Unaffected
<1>2. ASSUME NEW j, CtxFinished(j) PROVE RInv'
  <2>1. Stop(j, "OK", FALSE) /\ stored' = 0
    BY <1>2 DEF CtxFinished
  <2> QED
    BY <1>1, <2>1, StoppedHandsOver DEF Results
<1>3. ASSUME NEW j, CtxError(j) PROVE RInv'
  <2>1. Stop(j, "ERR", TRUE) /\ pushed' = pushed
    BY <1>3 DEF CtxError
  <2> QED
    BY <1>1, <2>1, StoppedHandsOver DEF Results
<1>4. ASSUME UNCHANGED <<quit, retval, error, pushed, stored>>, pc' \in {pc, "broken"} PROVE RInv'
  BY <1>1, <1>4 DEF RInv
<1>5. ASSUME NEW j, NEW a \in Answers, Restart(j, a) PROVE RInv'
  <2>1. UNCHANGED <<pushed, stored>>
    BY <1>5 DEF Restart
  <2>2. CASE UNCHANGED <<pc, quit, retval, error>>
    BY <1>4, <2>1, <2>2
  <2>3. ASSUME NEW s, NEW err, Stop(s, "ERR", err) PROVE RInv'
    BY <1>1, <2>1, <2>3, StoppedHandsOver DEF Results
  <2> QED
    BY <1>5, <2>2, <2>3 DEF Restart
<1>6. ASSUME NEW j, CloseFirst(j, i) PROVE RInv'
  BY <1>4, <1>6 DEF CloseFirst
<1>7. CASE FinishTrack(i)
  <2>1. \/ \E a \in Answers : Restart(StopJob(job, i), a)
        \/ CloseFirst(StopJob(job, i), i)
        \/ CtxFinished(StopJob(job, i))
    BY <1>7 DEF FinishTrack
  <2> QED
    BY <1>2, <1>5, <1>6, <2>1
<1>8. CASE FinishTrackLater(i)
  BY <1>2, <1>3, <1>8 DEF FinishTrackLater
<1>9. CASE FinishSession(i)
  BY <1>2, <1>3, <1>4, <1>9 DEF FinishSession
<1>10. CASE JobError(i)
  BY <1>3, <1>10 DEF JobError
<1> QED
  BY <1>7, <1>8, <1>9, <1>10

LEMMA StartItemHandsOver ==
  ASSUME MayRetry = {}, RInv, NEW a \in Answers, StartItem(a)
  PROVE  RInv'
<1> DEFINE res == StartResult(job, cur, a)
           j == Started(job, cur, a)
<1>1. pc = "starting" /\ UNCHANGED <<error, stored, pushed, cancelled>>
  BY DEF StartItem
<1>2. res # "RETRY"
  BY DEF StartItem, MayAnswer, StartResult
<1>3. \/ UNCHANGED <<pc, outcome>>
      \/ NextTrackOrReturn(j)
      \/ StopAndReturn(j, "ERR", TRUE)
  BY <1>2 DEF StartItem
<1> HIDE DEF res, j
<1>4. CASE UNCHANGED <<pc, outcome>>
  BY <1>1, <1>4 DEF RInv
<1>5. CASE NextTrackOrReturn(j)
  BY <1>1, <1>5, NextTrackHandsOver
<1>6. CASE StopAndReturn(j, "ERR", TRUE)
  BY <1>1, <1>6, StartingHandsOver
<1> QED
  BY <1>3, <1>4, <1>5, <1>6

LEMMA InitRInv == Init => RInv
BY DEF Init, RInv

LEMMA NextRInv ==
  ASSUME MayRetry = {}
  PROVE  RInv /\ [Next]_vars => RInv'
<1> SUFFICES ASSUME RInv, [Next]_vars PROVE RInv'
  OBVIOUS
<1>1. CASE Start
  <2>1. /\ pc = "idle" /\ stored' = 0 /\ ~pushed' /\ ~cancelled' /\ ~quit' /\ error' = error
        /\ pc' \in {"idle", "starting"}
    BY <1>1 DEF Start
  <2> QED
    BY <2>1 DEF RInv
<1>2. CASE StartAnyItem
  BY <1>2, StartItemHandsOver DEF StartAnyItem
<1>3. CASE EnterLoop
  <2>1. pc = "starting" /\ ~quit' /\ UNCHANGED <<error, stored, pushed, cancelled>>
    BY <1>3 DEF EnterLoop
  <2>2. CASE pc' = "loop"
    BY <2>1, <2>2 DEF RInv
  <2>3. CASE NextTrackOrReturn(job)
    BY <2>1, <2>3, NextTrackHandsOver
  <2> QED
    BY <1>3, <2>2, <2>3 DEF EnterLoop
<1>4. CASE Reports
  BY <1>4, ReportHandsOver DEF Reports
<1>5. ASSUME NEW i \in Items, AddTrack(i) PROVE RInv'
  <2>1. Running /\ UNCHANGED <<pc, quit, retval, error, pushed, cancelled>>
    BY <1>5 DEF AddTrack, Report, Unaffected
  <2> QED
    BY <2>1 DEF RInv, Running
<1>6. CASE Cancel
  <2>1. Running /\ Stop(job, "CANCEL", FALSE) /\ pushed' = pushed
    BY <1>6 DEF Cancel
  <2>2. ~pushed
    BY <2>1 DEF RInv, Running
  <2> QED
    BY <2>1, <2>2, StoppedHandsOver DEF Results
<1>7. CASE Wakeup \/ EndSleep
  BY <1>7 DEF Wakeup, EndSleep, RInv
<1>8. CASE EndLoop
  BY <1>8 DEF EndLoop, Return, RInv
<1>9. CASE Rest \/ UNCHANGED vars
  BY <1>9 DEF Rest, vars, RInv
<1> QED
  BY <1>1, <1>2, <1>3, <1>4, <1>5, <1>6, <1>7, <1>8, <1>9 DEF Next

LEMMA InvariantWithoutRetry ==
  ASSUME MayRetry = {}
  PROVE  Spec => []RInv
BY InitRInv, NextRInv, PTL DEF Spec

\* When no item asks for another attempt, the error of a run is returned by that run.
THEOREM ErrorsAreHandedOver ==
  ASSUME MayRetry = {}
  PROVE  Spec => []ErrorIsHandedOver
<1>1. RInv => ErrorIsHandedOver
  BY DEF RInv, ErrorIsHandedOver
<1> QED
  BY <1>1, InvariantWithoutRetry, PTL

\* When no item asks for another attempt, the session gets all the tracks of a successful
\* run and none of another.
THEOREM AllTracksOrNone ==
  ASSUME MayRetry = {}
  PROVE  Spec => []TracksAreHandedOver
<1>1. RInv => TracksAreHandedOver
  BY DEF RInv, TracksAreHandedOver
<1> QED
  BY <1>1, InvariantWithoutRetry, PTL

-----------------------------------------------------------------------------
(* Failures are explained: an item that is asked for another track answers OK *)
(* or fails with an error, unless it is the first of the chain and refuses.   *)

EInv ==
    /\ pc = "loop" /\ quit /\ retval = "ERR" => error
    /\ FailureIsExplained

LEMMA StopExplains ==
  ASSUME EInv, pc = "loop", NEW j, NEW ret, NEW err, Stop(j, ret, err), ret = "ERR" => err
  PROVE  EInv'
BY DEF EInv, Stop, FailureIsExplained

LEMMA ReturnExplains ==
  ASSUME EInv, NEW j, NEW res, NEW err, StopAndReturn(j, res, err), res = "ERR" => err,
         pc # "loop"
  PROVE  EInv'
BY DEF EInv, StopAndReturn, Return, FailureIsExplained

LEMMA NextTrackExplains ==
  ASSUME EInv, pc = "starting", NEW j, NextTrackOrReturn(j)
  PROVE  EInv'
<1>1. CASE StopAndReturn(j, "OK", FALSE)
  BY <1>1, ReturnExplains
<1>2. CASE pc' = "starting"
  BY <1>2 DEF EInv, FailureIsExplained
<1> QED
  BY <1>1, <1>2 DEF NextTrackOrReturn

\* The first item of the chain, started for the next track, answers OK or with an error.
LEMMA RestartExplains ==
  ASSUME MayRetry = {}, 1 \notin MayRefuse, EInv, pc = "loop", ~quit,
         NEW j, NEW a \in Answers, Restart(j, a), outcome' = outcome
  PROVE  EInv'
<1>1. a \in {"OK", "ERR", "early"}
  BY DEF Restart, MayAnswer, Answers
<1>2. CASE UNCHANGED <<pc, quit, retval, error>>
  BY <1>2 DEF EInv, FailureIsExplained
<1>3. CASE Stop(Started(j, 1, a), "ERR", a \in {"ERR", "early"} \/ StartResult(j, 1, a) # a)
           /\ StartResult(j, 1, a) # "OK"
  <2>1. a \in {"ERR", "early"} \/ StartResult(j, 1, a) # a
    BY <1>1, <1>3
  <2> QED
    BY <1>3, <2>1, StopExplains
<1> QED
  BY <1>2, <1>3 DEF Restart

LEMMA ReportExplains ==
  ASSUME MayRetry = {}, 1 \notin MayRefuse, RInv, EInv, NEW i \in Items,
         FinishTrack(i) \/ FinishTrackLater(i) \/ FinishSession(i) \/ JobError(i)
  PROVE  EInv'
<1>1. pc = "loop" /\ ~quit /\ outcome' = outcome
  BY DEF FinishTrack, FinishTrackLater, FinishSession, JobError, Report, Running, RInv, Unaffected
<1>2. ASSUME NEW j, CtxFinished(j) \/ CtxError(j) PROVE EInv'
  BY <1>1, <1>2, StopExplains DEF CtxFinished, CtxError
<1>3. ASSUME UNCHANGED <<quit, retval, error>>, pc' \in {pc, "broken"} PROVE EInv'
  BY <1>1, <1>3 DEF EInv, FailureIsExplained
<1>4. CASE FinishTrack(i)
  <2>1. \/ \E a \in Answers : Restart(StopJob(job, i), a)
        \/ CloseFirst(StopJob(job, i), i)
        \/ CtxFinished(StopJob(job, i))
    BY <1>4 DEF FinishTrack
  <2>2. CASE CloseFirst(StopJob(job, i), i)
    BY <1>3, <2>2 DEF CloseFirst
  <2> QED
    BY <1>1, <1>2, <2>1, <2>2, RestartExplains
<1>5. CASE FinishTrackLater(i)
  BY <1>2, <1>5 DEF FinishTrackLater
<1>6. CASE FinishSession(i)
  BY <1>2, <1>3, <1>6 DEF FinishSession
<1>7. CASE JobError(i)
  BY <1>2, <1>7 DEF JobError
<1> QED
  BY <1>4, <1>5, <1>6, <1>7

LEMMA StartItemExplains ==
  ASSUME MayRetry = {}, RInv, EInv, NEW a \in Answers, StartItem(a)
  PROVE  EInv'
<1> DEFINE res == StartResult(job, cur, a)
           j == Started(job, cur, a)
<1>1. pc = "starting"
  BY DEF StartItem
<1>2. res # "RETRY"
  BY DEF StartItem, MayAnswer, StartResult
<1>3. \/ UNCHANGED <<pc, outcome>>
      \/ NextTrackOrReturn(j)
      \/ StopAndReturn(j, "ERR", TRUE)
  BY <1>2 DEF StartItem
<1> HIDE DEF res, j
<1>4. CASE UNCHANGED <<pc, outcome>>
  BY <1>1, <1>4 DEF EInv, FailureIsExplained, outcome
<1>5. CASE NextTrackOrReturn(j)
  BY <1>1, <1>5, NextTrackExplains
<1>6. CASE StopAndReturn(j, "ERR", TRUE)
  BY <1>1, <1>6, ReturnExplains
<1> QED
  BY <1>3, <1>4, <1>5, <1>6

LEMMA NextEInv ==
  ASSUME MayRetry = {}, 1 \notin MayRefuse
  PROVE  RInv /\ EInv /\ [Next]_vars => EInv'
<1> SUFFICES ASSUME RInv, EInv, [Next]_vars PROVE EInv'
  OBVIOUS
<1>1. CASE Start
  <2>1. \/ pc' = "idle" /\ (result' = "ERR" => raised')
        \/ pc' = "starting"
    BY <1>1 DEF Start
  <2> QED
    BY <2>1 DEF EInv, FailureIsExplained
<1>2. CASE StartAnyItem
  BY <1>2, StartItemExplains DEF StartAnyItem
<1>3. CASE EnterLoop
  <2>1. pc = "starting" /\ ~quit'
    BY <1>3 DEF EnterLoop
  <2>2. CASE pc' = "loop"
    BY <2>1, <2>2 DEF EInv, FailureIsExplained
  <2>3. CASE NextTrackOrReturn(job)
    BY <2>1, <2>3, NextTrackExplains
  <2> QED
    BY <1>3, <2>2, <2>3 DEF EnterLoop
<1>4. CASE Reports
  BY <1>4, ReportExplains DEF Reports
<1>5. ASSUME NEW i \in Items, AddTrack(i) PROVE EInv'
  BY <1>5 DEF AddTrack, Report, Unaffected, outcome, EInv, FailureIsExplained
<1>6. CASE Cancel
  <2>1. pc = "loop" /\ Stop(job, "CANCEL", FALSE)
    BY <1>6 DEF Cancel, Running, RInv
  <2> QED
    BY <2>1, StopExplains
<1>7. CASE Wakeup \/ EndSleep
  BY <1>7 DEF Wakeup, EndSleep, RInv
<1>8. CASE EndLoop
  BY <1>8 DEF EndLoop, Return, EInv, FailureIsExplained
<1>9. CASE Rest \/ UNCHANGED vars
  BY <1>9 DEF Rest, vars, outcome, EInv, FailureIsExplained
<1> QED
  BY <1>1, <1>2, <1>3, <1>4, <1>5, <1>6, <1>7, <1>8, <1>9 DEF Next

\* When no item asks for another attempt and the first one refuses no track, what a run
\* returns is the whole truth about it.
THEOREM RunsAreAnsweredFor ==
  ASSUME MayRetry = {}, 1 \notin MayRefuse
  PROVE  Spec => []RunIsAnsweredFor
<1>1. Init => EInv
  BY DEF Init, EInv, FailureIsExplained
<1>2. RInv /\ EInv => RunIsAnsweredFor
  BY DEF RInv, EInv, RunIsAnsweredFor, ErrorIsHandedOver, TracksAreHandedOver
<1> QED
  BY <1>1, <1>2, InitRInv, NextRInv, NextEInv, PTL DEF Spec

\* When no item asks for another attempt, a cancelled task waits for nothing more.
THEOREM CancellingIsFinal ==
  ASSUME MayRetry = {}
  PROVE  Spec => []CancelIsFinal
<1>1. RInv => CancelIsFinal
  BY DEF RInv, CancelIsFinal
<1> QED
  BY <1>1, InvariantWithoutRetry, PTL

-----------------------------------------------------------------------------
(* Pipes and their writers, whatever the items answer.  Items are started     *)
(* from the leader down to the first: those after c are at work and linked,   *)
(* those up to c have yet to be, and a pipe without a writer is the one that  *)
(* waits for the next item to start.                                          *)

Laid(j, c) ==
    /\ \A i \in Items : i > c /\ j[i].active => j[i].busy /\ j[i].linked = NextActive(j, i)
    /\ \A i \in Items : i <= c => ~j[i].busy
    /\ \A i \in Items : FirstActive(j, i) => j[i].input # "open"
    /\ \A k \in Items : k > c /\ j[k].input = "open" =>
          \/ \E i \in Items : j[i].busy /\ j[i].linked = k
          \/ \A l \in Items : c < l /\ l < k => ~j[l].active
NoneActive(j) == \A i \in Items : ~j[i].active
Headed(j) == j[1].active \/ NoneActive(j)

PInv ==
    /\ pc \in {"starting", "sleep"} =>
          Laid(job, cur) /\ ((\E i \in Items : job[i].busy) => some) /\ Headed(job)
    /\ pc = "sleep" /\ ~quit => cur \in Items /\ job[cur].active
    /\ pc = "loop" /\ ~quit =>
          Laid(job, 0) /\ (Headed(job) \/ track = NumTracks \/ 1 \notin ByTrack)

\* rejilla_task_finished starts the first item of the chain for the next track, be it
\* active or not: the chains of rejilla-caps-burn.c begin with an item that declines only
\* when it is alone, and one that reports its session is followed by others that do so.
HeadStays ==
    /\ 1 \in MayDecline => NumItems = 1
    /\ 1 \in ByTrack \/ NumTracks = 1 \/ ByTrack = {}

LEMMA OneIsAnItem == 1 \in Items /\ Items \subseteq Nat /\ \A i \in Items : i > 0 /\ i <= NumItems
BY ChainAssumption DEF Items

LEMMA SameNextActive ==
  ASSUME NEW j, NEW s, NEW i \in Items, \A k \in Items : k > i => s[k].active = j[k].active
  PROVE  NextActive(s, i) = NextActive(j, i)
<1> DEFINE n == NextActive(j, i)
           m == NextActive(s, i)
<1>1. \/ n = 0 /\ \A k \in Items : k > i => ~j[k].active
      \/ n \in Items /\ n > i /\ j[n].active /\ \A l \in Items : i < l /\ l < n => ~j[l].active
  BY NextActiveIs
<1>2. \/ m = 0 /\ \A k \in Items : k > i => ~s[k].active
      \/ m \in Items /\ m > i /\ s[m].active /\ \A l \in Items : i < l /\ l < m => ~s[l].active
  BY NextActiveIs
<1> HIDE DEF n, m
<1>3. n = m
  BY <1>1, <1>2, OneIsAnItem
<1> QED
  BY <1>3 DEF n, m

LEMMA DeadIsLaid ==
  ASSUME NEW j, Dead(j), NEW c
  PROVE  Laid(j, c) /\ Headed(j) /\ \A i \in Items : ~j[i].busy
BY DEF Dead, Sound, Still, Laid, FirstActive, Headed, NoneActive

\* A round that has put nobody to work leaves the chain as it has to be at the start.
LEMMA IdleIsLaid ==
  ASSUME NEW j, NEW c, Laid(j, c), \A i \in Items : ~j[i].busy
  PROVE  Laid(j, NumItems)
<1>1. \A i \in Items : ~ (i > NumItems)
  BY OneIsAnItem, ChainAssumption
<1> QED
  BY <1>1 DEF Laid

\* The item c is started in a chain laid up to it: it writes to the pipe that waits.
LEMMA ChangedIsLaid ==
  ASSUME NEW j, Sound(j), NEW c \in Items, Laid(j, c), j[c].active,
         NEW x \in Jobs, x.active, x.linked = NextActive(j, c),
         FirstActive(j, c) => x.input = j[c].input,
         NEW s, s = [j EXCEPT ![c] = x]
  PROVE  /\ Sound(s)
         /\ x.busy => Laid(s, c - 1)
         /\ ~x.busy => Laid(s, c)
<1>1. j \in [Items -> Jobs] /\ s \in [Items -> Jobs] /\ s[c] = x /\ \A i \in Items : i # c => s[i] = j[i]
  BY DEF Sound
<1>2. \A i \in Items : s[i].active = j[i].active
  BY <1>1
<1>3. \A i \in Items : NextActive(s, i) = NextActive(j, i)
  BY <1>2, SameNextActive
<1>4. \A i \in Items : FirstActive(s, i) <=> FirstActive(j, i)
  BY <1>2 DEF FirstActive
<1>5. Sound(s)
  BY <1>1 DEF Sound, Still
<1>6. \A i \in Items : FirstActive(s, i) => s[i].input # "open"
  BY <1>1, <1>4 DEF Laid
<1>7. ASSUME ~x.busy PROVE Laid(s, c)
  <2>1. \A i \in Items : i > c => i # c
    BY OneIsAnItem
  <2>2. \A i \in Items : i > c /\ s[i].active => s[i].busy /\ s[i].linked = NextActive(s, i)
    BY <1>1, <1>3, <2>1 DEF Laid
  <2>3. \A i \in Items : i <= c => ~s[i].busy
    BY <1>1, <1>7 DEF Laid
  <2>4. ASSUME NEW k \in Items, k > c, s[k].input = "open"
        PROVE  \/ \E i \in Items : s[i].busy /\ s[i].linked = k
               \/ \A l \in Items : c < l /\ l < k => ~s[l].active
    <3>1. s[k] = j[k]
      BY <1>1, <2>1, <2>4
    <3>2. CASE \E i \in Items : j[i].busy /\ j[i].linked = k
      <4>1. PICK i \in Items : j[i].busy /\ j[i].linked = k
        BY <3>2
      <4>2. i # c
        BY <4>1, OneIsAnItem DEF Laid
      <4> QED
        BY <1>1, <4>1, <4>2
    <3>3. CASE \A l \in Items : c < l /\ l < k => ~j[l].active
      BY <1>2, <3>3
    <3> QED
      BY <2>4, <3>1, <3>2, <3>3 DEF Laid
  <2> QED
    BY <1>6, <2>2, <2>3, <2>4 DEF Laid
<1>8. ASSUME x.busy PROVE Laid(s, c - 1)
  <2>1. \A i \in Items : /\ i > c - 1 => i = c \/ i > c
                         /\ i <= c - 1 => i <= c /\ i # c
                         /\ i > c => i # c
    BY OneIsAnItem
  <2>2. \A i \in Items : i > c - 1 /\ s[i].active => s[i].busy /\ s[i].linked = NextActive(s, i)
    BY <1>1, <1>3, <1>8, <2>1, ZenonT(40) DEF Laid
  <2>3. \A i \in Items : i <= c - 1 => ~s[i].busy
    BY <1>1, <2>1 DEF Laid
  <2>4. ASSUME NEW k \in Items, k > c - 1, s[k].input = "open"
        PROVE  \/ \E i \in Items : s[i].busy /\ s[i].linked = k
               \/ \A l \in Items : c - 1 < l /\ l < k => ~s[l].active
    <3>1. CASE k = c
      <4>1. \A l \in Items : ~ (c - 1 < l /\ l < k)
        BY <3>1, OneIsAnItem
      <4> QED
        BY <4>1
    <3>2. CASE k > c
      <4>1. s[k] = j[k] /\ j[k].active
        BY <1>1, <2>1, <2>4, <3>2 DEF Sound, Still
      <4>2. CASE \E i \in Items : j[i].busy /\ j[i].linked = k
        <5>1. PICK i \in Items : j[i].busy /\ j[i].linked = k
          BY <4>2
        <5>2. i # c
          BY <5>1, OneIsAnItem DEF Laid
        <5> QED
          BY <1>1, <5>1, <5>2
      <4>3. CASE \A l \in Items : c < l /\ l < k => ~j[l].active
        <5> DEFINE n == NextActive(j, c)
        <5>1. \/ n = 0 /\ \A l \in Items : l > c => ~j[l].active
              \/ n \in Items /\ n > c /\ j[n].active /\ \A l \in Items : c < l /\ l < n => ~j[l].active
          BY NextActiveIs
        <5>2. x.linked = n
          OBVIOUS
        <5> HIDE DEF n
        <5>3. n \in Items /\ n > c /\ j[n].active /\ ~ (c < k /\ k < n)
          BY <3>2, <4>1, <5>1
        <5>4. ~ (c < n /\ n < k)
          BY <4>3, <5>3
        <5>5. n = k
          BY <3>2, <5>3, <5>4, OneIsAnItem
        <5> QED
          BY <1>1, <1>8, <5>2, <5>5
      <4> QED
        BY <2>4, <3>2, <4>1, <4>2, <4>3 DEF Laid
    <3> QED
      BY <2>1, <2>4, <3>1, <3>2
  <2> QED
    BY <1>6, <2>2, <2>3, <2>4 DEF Laid
<1> QED
  BY <1>5, <1>7, <1>8

\* The last active item of a chain goes: what is left is as it was.
LEMMA GoneIsLaid ==
  ASSUME NEW j, Sound(j), NEW c \in Items, Laid(j, c), LastActive(j, c),
         NEW s, s = [j EXCEPT ![c] = Unused]
  PROVE  Sound(s) /\ Laid(s, c - 1)
<1>1. Unused \in Jobs /\ ~Unused.active /\ ~Unused.busy /\ Unused.input = "none"
  BY ChainAssumption DEF Unused, Jobs
<1>2. /\ s \in [Items -> Jobs] /\ s[c] = Unused /\ \A i \in Items : i # c => s[i] = j[i]
  BY <1>1 DEF Sound
<1>3. Sound(s)
  BY <1>1, <1>2 DEF Sound, Still
<1>4. \A i \in Items : i > c - 1 => ~s[i].active
  <2>1. \A i \in Items : i > c - 1 => i = c \/ (i > c /\ i # c)
    BY OneIsAnItem
  <2> QED
    BY <1>1, <1>2, <2>1 DEF LastActive
<1>5. \A i \in Items : i > c - 1 => s[i].input = "none"
  BY <1>3, <1>4 DEF Sound, Still
<1>6. \A i \in Items : i <= c - 1 => ~s[i].busy
  <2>1. \A i \in Items : i <= c - 1 => i <= c /\ i # c
    BY OneIsAnItem
  <2> QED
    BY <1>2, <2>1 DEF Laid
<1>7. ASSUME NEW i \in Items, FirstActive(s, i) PROVE s[i].input # "open"
  <2>1. i # c /\ s[i].active /\ ~ (i > c - 1)
    BY <1>1, <1>2, <1>4, <1>7 DEF FirstActive
  <2>2. \A k \in Items : k < i => k # c
    BY <2>1, OneIsAnItem
  <2>3. FirstActive(j, i)
    BY <1>2, <1>7, <2>1, <2>2 DEF FirstActive
  <2> QED
    BY <1>2, <2>1, <2>3 DEF Laid
<1> QED
  BY <1>3, <1>4, <1>5, <1>6, <1>7 DEF Laid

\* What starting the item c with the answer a makes of the chain.
LEMMA StartedIs ==
  ASSUME NEW j, Sound(j), NEW c \in Items, NEW a \in Answers
  PROVE  \/ ~j[c].active /\ Started(j, c, a) = j /\ StartResult(j, c, a) = "OK"
         \/ /\ j[c].active /\ LastActive(j, c)
            /\ Started(j, c, a) = [j EXCEPT ![c] = Unused] /\ StartResult(j, c, a) = "NOT_SUPPORTED"
         \/ /\ j[c].active
            /\ \E x \in Jobs :
                  /\ Started(j, c, a) = [j EXCEPT ![c] = x]
                  /\ x.active /\ x.linked = NextActive(j, c)
                  /\ FirstActive(j, c) => x.input = j[c].input
                  /\ x.input \in {j[c].input, "open"}
                  /\ IF a = "OK" THEN x.busy ELSE x.busy = j[c].busy
            /\ StartResult(j, c, a) = "OK" <=> a = "OK"
            /\ StartResult(j, c, a) # "NOT_SUPPORTED"
            /\ StartResult(j, c, a) = "NOT_RUNNING" => NextActive(j, c) = 0
<1>0. j \in [Items -> Jobs] /\ j[c] \in Jobs /\ NextActive(j, c) \in 0 .. NumItems
  BY NextActiveType DEF Sound
<1>1. CASE ~j[c].active
  BY <1>1 DEF Started, StartResult
<1>2. CASE j[c].active
  <2> DEFINE n == NextActive(j, c)
             y == [j[c] EXCEPT !.linked = n]
             z == [y EXCEPT !.input = "open"]
             w == IF FirstActive(j, c) THEN y ELSE z
             b == [w EXCEPT !.busy = TRUE]
  <2>1. WithLink(j, c) = [j EXCEPT ![c] = y]
    BY <1>0 DEF WithLink
  <2>2. /\ y \in Jobs /\ y.active /\ y.linked = n /\ y.input = j[c].input /\ y.busy = j[c].busy
        /\ z \in Jobs /\ z.active /\ z.linked = n /\ z.input = "open" /\ z.busy = j[c].busy
    BY <1>0, <1>2 DEF Jobs
  <2> HIDE DEF y
  <2>3. WithPipe(j, c) = [j EXCEPT ![c] = w]
    BY <1>0, <2>1 DEF WithPipe
  <2>4. /\ w \in Jobs /\ w.active /\ w.linked = n /\ w.busy = j[c].busy
        /\ FirstActive(j, c) => w.input = j[c].input
        /\ w.input \in {j[c].input, "open"}
    BY <2>2
  <2> HIDE DEF z, w
  <2>5. /\ b \in Jobs /\ b.active /\ b.linked = n /\ b.busy
        /\ FirstActive(j, c) => b.input = j[c].input
        /\ b.input \in {j[c].input, "open"}
    BY <2>4 DEF Jobs
  <2>6. [WithPipe(j, c) EXCEPT ![c].busy = TRUE] = [j EXCEPT ![c] = b]
    BY <1>0, <2>3
  <2> HIDE DEF b, n
  <2>7. CASE a = "early"
    BY <1>2, <2>1, <2>2, <2>7 DEF Started, StartResult, n
  <2>8. CASE a = "OK"
    BY <1>2, <2>5, <2>6, <2>8 DEF Started, StartResult, n
  <2>9. CASE a = "NOT_SUPPORTED" /\ Sizing(j, c)
    <3>1. Deactivate(WithPipe(j, c), c) = [j EXCEPT ![c] = Unused]
      BY <1>0, <2>3 DEF Deactivate
    <3> QED
      BY <1>2, <2>9, <3>1 DEF Started, StartResult, Sizing
  <2>10. CASE a \notin {"early", "OK"} /\ ~ (a = "NOT_SUPPORTED" /\ Sizing(j, c))
    <3>1. Started(j, c, a) = WithPipe(j, c)
      BY <1>2, <2>10 DEF Started
    <3>2. /\ StartResult(j, c, a) # "OK" /\ StartResult(j, c, a) # "NOT_SUPPORTED"
          /\ StartResult(j, c, a) = "NOT_RUNNING" => NextActive(j, c) = 0
      BY <1>2, <2>10 DEF StartResult
    <3> QED
      BY <1>2, <2>3, <2>4, <2>10, <3>1, <3>2 DEF n
  <2> QED
    BY <2>7, <2>8, <2>9, <2>10
<1> QED
  BY <1>1, <1>2

\* The head of a chain stays active as long as anything is.
LEMMA StartedIsHeaded ==
  ASSUME NEW j, Sound(j), NEW c \in Items, NEW a \in Answers, Headed(j)
  PROVE  Headed(Started(j, c, a))
<1> DEFINE s == Started(j, c, a)
<1>0. j \in [Items -> Jobs] /\ 1 \in Items /\ \A k \in Items : k # 1 => k > 1
  BY OneIsAnItem DEF Sound
<1>1. CASE s = j
  BY <1>1
<1>2. CASE LastActive(j, c) /\ s = [j EXCEPT ![c] = Unused]
  <2>1. ~Unused.active
    BY DEF Unused
  <2>2. CASE c = 1
    <3>1. \A k \in Items : ~s[k].active
      BY <1>0, <1>2, <2>1, <2>2 DEF LastActive
    <3> QED
      BY <3>1 DEF Headed, NoneActive
  <2>3. CASE c # 1
    BY <1>0, <1>2, <2>3 DEF Headed, NoneActive, LastActive
  <2> QED
    BY <2>2, <2>3
<1>3. ASSUME NEW x \in Jobs, x.active, j[c].active, s = [j EXCEPT ![c] = x] PROVE Headed(s)
  BY <1>0, <1>3 DEF Headed, NoneActive
<1> HIDE DEF s
<1>4. Headed(s)
  BY <1>1, <1>2, <1>3, StartedIs DEF s
<1> QED
  BY <1>4 DEF s

\* One turn of rejilla_task_start_items: the chain is laid one item further, or as far as
\* before when the item has to be started again, or not at all when the track is skipped.
LEMMA StartedIsLaid ==
  ASSUME NEW j, Sound(j), NEW c \in Items, NEW a \in Answers, Laid(j, c)
  PROVE  LET s == Started(j, c, a)
             r == StartResult(j, c, a)
         IN  /\ r \in {"OK", "NOT_SUPPORTED"} => Laid(s, c - 1)
             /\ r = "RETRY" => Laid(s, c) /\ s[c].active
             /\ r = "NOT_RUNNING" => Laid(s, NumItems) /\ \A i \in Items : ~s[i].busy
             /\ (\E i \in Items : s[i].busy) => (\E i \in Items : j[i].busy) \/ (j[c].active /\ r = "OK")
<1> DEFINE s == Started(j, c, a)
           r == StartResult(j, c, a)
<1>0. j \in [Items -> Jobs] /\ ~j[c].busy
  BY OneIsAnItem DEF Sound, Laid
<1>1. ASSUME ~j[c].active PROVE Laid(j, c - 1)
  <2>1. \A i \in Items : /\ i > c - 1 => i = c \/ i > c
                         /\ i <= c - 1 => i <= c
    BY OneIsAnItem
  <2>2. j[c].input = "none"
    BY <1>1 DEF Sound, Still
  <2>3. ASSUME NEW k \in Items, k > c - 1, j[k].input = "open"
        PROVE  \/ \E i \in Items : j[i].busy /\ j[i].linked = k
               \/ \A l \in Items : c - 1 < l /\ l < k => ~j[l].active
    <3>1. k > c
      BY <2>1, <2>2, <2>3
    <3>2. \/ \E i \in Items : j[i].busy /\ j[i].linked = k
          \/ \A l \in Items : c < l /\ l < k => ~j[l].active
      BY <2>3, <3>1 DEF Laid
    <3>3. ASSUME \A l \in Items : c < l /\ l < k => ~j[l].active, NEW l \in Items, c - 1 < l, l < k
          PROVE  ~j[l].active
      <4>1. l = c \/ c < l
        BY <3>3, OneIsAnItem
      <4> QED
        BY <1>1, <3>3, <4>1
    <3> QED
      BY <3>2, <3>3
  <2>4. \A i \in Items : i > c - 1 /\ j[i].active => j[i].busy /\ j[i].linked = NextActive(j, i)
    BY <1>1, <2>1 DEF Laid
  <2>5. \A i \in Items : i <= c - 1 => ~j[i].busy
    BY <2>1 DEF Laid
  <2> QED
    BY <2>3, <2>4, <2>5 DEF Laid
<1>2. CASE ~j[c].active /\ s = j /\ r = "OK"
  BY <1>1, <1>2
<1>3. CASE LastActive(j, c) /\ s = [j EXCEPT ![c] = Unused] /\ r = "NOT_SUPPORTED"
  <2>1. Laid(s, c - 1)
    BY <1>3, GoneIsLaid
  <2>2. \A i \in Items : s[i].busy => j[i].busy
    BY <1>0, <1>3 DEF Unused
  <2> QED
    BY <1>3, <2>1, <2>2
<1>4. ASSUME j[c].active, NEW x \in Jobs, s = [j EXCEPT ![c] = x],
             x.active, x.linked = NextActive(j, c),
             FirstActive(j, c) => x.input = j[c].input,
             IF a = "OK" THEN x.busy ELSE x.busy = j[c].busy,
             r = "OK" <=> a = "OK", r # "NOT_SUPPORTED", r = "NOT_RUNNING" => NextActive(j, c) = 0
      PROVE  /\ r \in {"OK", "NOT_SUPPORTED"} => Laid(s, c - 1)
             /\ r = "RETRY" => Laid(s, c) /\ s[c].active
             /\ r = "NOT_RUNNING" => Laid(s, NumItems) /\ \A i \in Items : ~s[i].busy
             /\ (\E i \in Items : s[i].busy) => (\E i \in Items : j[i].busy) \/ (j[c].active /\ r = "OK")
  <2> HIDE DEF s, r
  <2>1. (x.busy => Laid(s, c - 1)) /\ (~x.busy => Laid(s, c))
    BY <1>4, ChangedIsLaid
  <2>2. x.busy <=> r = "OK"
    BY <1>0, <1>4
  <2>3. s[c] = x /\ \A i \in Items : i # c => s[i] = j[i]
    BY <1>0, <1>4
  <2>4. ASSUME r = "NOT_RUNNING" PROVE Laid(s, NumItems) /\ \A i \in Items : ~s[i].busy
    <3>1. \A i \in Items : i > c => ~j[i].active
      BY <1>4, <2>4, NextActiveIs, OneIsAnItem
    <3>2. \A i \in Items : i > c => ~j[i].busy
      BY <3>1 DEF Sound, Still
    <3>3. \A i \in Items : i <= c => ~j[i].busy
      BY DEF Laid
    <3>4. \A i \in Items : ~j[i].busy
      BY <3>2, <3>3, OneIsAnItem
    <3>5. \A i \in Items : ~s[i].busy
      BY <2>2, <2>3, <2>4, <3>4
    <3> QED
      BY <2>1, <2>2, <2>4, <3>5, IdleIsLaid
  <2>5. (\E i \in Items : s[i].busy) => (\E i \in Items : j[i].busy) \/ (j[c].active /\ r = "OK")
    BY <1>4, <2>2, <2>3
  <2> QED
    BY <1>4, <2>1, <2>2, <2>3, <2>4, <2>5
<1> HIDE DEF s, r
<1> QED
  BY <1>2, <1>3, <1>4, StartedIs DEF s, r

LEMMA StoppedFollows ==
  ASSUME PInv, Running, NEW j, Sound(j), NEW ret, NEW err, Stop(j, ret, err)
  PROVE  PInv'
<1>1. \/ pc' = "broken"
      \/ pc' = pc /\ pc \in {"sleep", "loop"} /\ quit' = TRUE /\ job' = Stopped(j)
  BY DEF Stop, Running
<1>2. CASE pc' = "broken"
  BY <1>2 DEF PInv
<1>3. CASE pc' = pc /\ pc \in {"sleep", "loop"} /\ quit' = TRUE /\ job' = Stopped(j)
  <2>1. Dead(job')
    BY <1>3, StoppedIsDead
  <2>2. Laid(job', cur') /\ Headed(job') /\ \A i \in Items : ~job'[i].busy
    BY <2>1, DeadIsLaid
  <2> QED
    BY <1>3, <2>2 DEF PInv
<1> QED
  BY <1>1, <1>2, <1>3

LEMMA NextTrackFollows ==
  ASSUME NEW j, Laid(j, NumItems), \A i \in Items : ~j[i].busy, Headed(j), NextTrackOrReturn(j)
  PROVE  PInv'
<1>1. CASE pc' = "starting" /\ job' = j /\ cur' = NumItems
  BY <1>1 DEF PInv
<1>2. CASE pc' \in {"idle", "broken"}
  BY <1>2 DEF PInv
<1> QED
  BY <1>1, <1>2 DEF NextTrackOrReturn, StopAndReturn, Return

LEMMA StartFollows ==
  ASSUME HeadStays, IInv, Start
  PROVE  PInv'
<1>1. pc = "idle" /\ TypeOK /\ \A i \in Items : Still(job, i)
  BY DEF Start, IInv
<1>2. PICK declined \in SUBSET MayDecline, failed \in 0 .. NumItems :
          /\ job' = [i \in Items |->
                        IF failed # 0 /\ i > failed THEN job[i]
                        ELSE [job[i] EXCEPT !.active = i # failed /\ i \notin declined]]
          /\ IF failed # 0 THEN pc' = "idle"
             ELSE IF declined = Items THEN pc' = "idle"
             ELSE pc' = "starting" /\ cur' = NumItems
  BY DEF Start
<1>3. CASE failed = 0 /\ declined # Items
  <2>1. pc' = "starting" /\ cur' = NumItems
        /\ job' = [i \in Items |-> [job[i] EXCEPT !.active = i # failed /\ i \notin declined]]
    BY <1>2, <1>3
  <2>2. \A i \in Items : ~job'[i].busy /\ job'[i].input = "none" /\ job'[i].active = (i # failed /\ i \notin declined)
    BY <1>1, <2>1 DEF Still, TypeOK, Jobs
  <2>3. \A i \in Items : ~ (i > NumItems)
    BY OneIsAnItem, ChainAssumption
  <2>4. Laid(job', NumItems)
    BY <2>2, <2>3 DEF Laid
  <2>5. 1 \notin declined
    <3>1. SUFFICES ASSUME 1 \in declined PROVE FALSE
      OBVIOUS
    <3>2. NumItems = 1
      BY <3>1 DEF HeadStays
    <3>3. Items = {1}
      BY <3>2 DEF Items
    <3>4. declined \subseteq {1}
      BY <3>3, ChainAssumption
    <3>5. declined = {1}
      BY <3>1, <3>4
    <3> QED
      BY <1>3, <3>3, <3>5
  <2>6. Headed(job')
    <3>1. 1 \in Items /\ 1 # failed
      BY <1>3, OneIsAnItem
    <3>2. job'[1].active = (1 # failed /\ 1 \notin declined)
      BY <2>2, <3>1
    <3> QED
      BY <2>5, <3>1, <3>2 DEF Headed
  <2> QED
    BY <2>1, <2>2, <2>4, <2>6 DEF PInv
<1>4. CASE pc' = "idle"
  BY <1>4 DEF PInv
<1> QED
  BY <1>2, <1>3, <1>4

LEMMA StartItemFollows ==
  ASSUME IInv, PInv, NEW a \in Answers, StartItem(a)
  PROVE  PInv'
<1> DEFINE res == StartResult(job, cur, a)
           j == Started(job, cur, a)
           called == job[cur].active \/ attempts > 0
<1>1. /\ pc = "starting" /\ cur # 0 /\ quit' = FALSE
      /\ \/ /\ res \in {"OK", "NOT_SUPPORTED"}
            /\ job' = j /\ cur' = cur - 1
            /\ some' = (some \/ (called /\ res = "OK"))
            /\ pc' = pc
         \/ res = "NOT_RUNNING" /\ NextTrackOrReturn(j)
         \/ res = "RETRY" /\ job' = j /\ pc' = "sleep" /\ cur' = cur /\ some' = some
         \/ StopAndReturn(j, "ERR", TRUE)
  BY DEF StartItem, starting
<1>2. Sound(job) /\ cur \in Items /\ some \in BOOLEAN
  BY <1>1, ChainAssumption DEF IInv, TypeOK, Items
<1>3. Laid(job, cur) /\ ((\E i \in Items : job[i].busy) => some) /\ Headed(job)
  BY <1>1 DEF PInv
<1>4. /\ res \in {"OK", "NOT_SUPPORTED"} => Laid(j, cur - 1)
      /\ res = "RETRY" => Laid(j, cur) /\ j[cur].active
      /\ res = "NOT_RUNNING" => Laid(j, NumItems) /\ \A i \in Items : ~j[i].busy
      /\ (\E i \in Items : j[i].busy) => (\E i \in Items : job[i].busy) \/ (job[cur].active /\ res = "OK")
  BY <1>2, <1>3, StartedIsLaid
<1>5. Headed(j)
  BY <1>2, <1>3, StartedIsHeaded
<1>6. called = (job[cur].active \/ attempts > 0)
  OBVIOUS
<1>7. res = "RETRY" => ((\E i \in Items : j[i].busy) => some)
  BY <1>3, <1>4
<1> HIDE DEF res, j, called
<1>8. CASE /\ res \in {"OK", "NOT_SUPPORTED"}
           /\ job' = j /\ cur' = cur - 1
           /\ some' = (some \/ (called /\ res = "OK"))
           /\ pc' = pc
  <2>1. (\E i \in Items : job'[i].busy) => some'
    BY <1>3, <1>4, <1>6, <1>8
  <2> QED
    BY <1>1, <1>4, <1>5, <1>8, <2>1 DEF PInv
<1>9. CASE res = "NOT_RUNNING" /\ NextTrackOrReturn(j)
  BY <1>4, <1>5, <1>9, NextTrackFollows
<1>10. CASE res = "RETRY" /\ job' = j /\ pc' = "sleep" /\ cur' = cur /\ some' = some
  BY <1>2, <1>4, <1>5, <1>7, <1>10 DEF PInv
<1>11. CASE StopAndReturn(j, "ERR", TRUE)
  BY <1>11 DEF PInv, StopAndReturn, Return
<1> QED
  BY <1>1, <1>8, <1>9, <1>10, <1>11

LEMMA EnterLoopFollows ==
  ASSUME PInv, EnterLoop
  PROVE  PInv'
<1>1. pc = "starting" /\ cur = 0 /\ Laid(job, 0) /\ ((\E i \in Items : job[i].busy) => some) /\ Headed(job)
  BY DEF EnterLoop, PInv
<1>2. CASE some /\ pc' = "loop" /\ job' = job
  BY <1>1, <1>2 DEF PInv
<1>3. CASE ~some /\ NextTrackOrReturn(job)
  <2>1. \A i \in Items : ~job[i].busy
    BY <1>1, <1>3
  <2> QED
    BY <1>1, <1>3, <2>1, IdleIsLaid, NextTrackFollows
<1> QED
  BY <1>2, <1>3 DEF EnterLoop

\* The first active item leaves the chain: the pipe it wrote to has come to its end.
LEMMA ClosedIsLaid ==
  ASSUME NEW j, Sound(j), Laid(j, 0), NEW i \in Items, FirstActive(j, i),
         NEW s, ~s[i].active, ~s[i].busy, s[i].input = "none",
         \A k \in Items : k # i =>
            /\ s[k].active = j[k].active /\ s[k].busy = j[k].busy /\ s[k].linked = j[k].linked
            /\ s[k].input = IF k = j[i].linked /\ j[k].input = "open" THEN "eof" ELSE j[k].input
  PROVE  Laid(s, 0)
<1>1. j[i].active /\ j[i].linked = NextActive(j, i)
  BY OneIsAnItem DEF Laid, FirstActive
<1>2. \A k \in Items : j[k].active /\ k # i => k > i
  BY OneIsAnItem DEF FirstActive
<1>3. ASSUME NEW k \in Items, s[k].active
      PROVE  s[k].busy /\ s[k].linked = NextActive(s, k)
  <2>1. k # i /\ k > i /\ j[k].active
    BY <1>2, <1>3
  <2>2. \A l \in Items : l > k => l # i
    BY <2>1, OneIsAnItem
  <2>3. NextActive(s, k) = NextActive(j, k)
    BY <2>2, SameNextActive
  <2> QED
    BY <2>1, <2>3, OneIsAnItem DEF Laid
<1>4. \A k \in Items : k <= 0 => ~s[k].busy
  BY OneIsAnItem
<1>5. ASSUME NEW k \in Items, FirstActive(s, k) PROVE s[k].input # "open"
  <2> DEFINE n == NextActive(j, i)
  <2>1. k # i /\ j[k].active /\ k > i
    BY <1>2, <1>5 DEF FirstActive
  <2>2. \/ n = 0 /\ \A l \in Items : l > i => ~j[l].active
        \/ n \in Items /\ n > i /\ j[n].active /\ \A l \in Items : i < l /\ l < n => ~j[l].active
    BY NextActiveIs
  <2>3. j[i].linked = n
    BY <1>1
  <2> HIDE DEF n
  <2>4. n \in Items /\ n > i /\ j[n].active /\ ~ (i < k /\ k < n)
    BY <2>1, <2>2
  <2>5. ~ (n < k)
    <3>1. n # i
      BY <2>4, OneIsAnItem
    <3> QED
      BY <1>5, <2>4, <3>1 DEF FirstActive
  <2>6. n = k
    BY <2>1, <2>4, <2>5, OneIsAnItem
  <2> QED
    BY <2>1, <2>3, <2>6
<1>6. ASSUME NEW k \in Items, s[k].input = "open"
      PROVE  \E l \in Items : s[l].busy /\ s[l].linked = k
  <2>1. k # i /\ k # j[i].linked /\ j[k].input = "open"
    BY <1>6
  <2>2. j[k].active /\ k > i
    BY <1>2, <2>1 DEF Sound, Still
  <2>3. ~ \A l \in Items : 0 < l /\ l < k => ~j[l].active
    BY <1>1, <2>2, OneIsAnItem
  <2>4. k > 0
    BY OneIsAnItem
  <2>5. PICK l \in Items : j[l].busy /\ j[l].linked = k
    BY <2>1, <2>3, <2>4 DEF Laid
  <2>6. l # i
    BY <2>1, <2>5
  <2> QED
    BY <2>5, <2>6
<1> QED
  BY <1>3, <1>4, <1>5, <1>6 DEF Laid

\* Between two tracks the pipe of the first item waits for it to be started again.
LEMMA BetweenTracksIsLaid ==
  ASSUME NEW j, Sound(j), Laid(j, 0), j[1].active
  PROVE  Laid(StopJob(j, 1), 1)
<1> DEFINE s == StopJob(j, 1)
<1>0. 1 \in Items /\ j \in [Items -> Jobs]
  BY OneIsAnItem DEF Sound
<1>1. /\ s[1].active = j[1].active /\ s[1].linked = j[1].linked /\ s[1].input = j[1].input /\ ~s[1].busy
      /\ \A k \in Items : k # 1 => s[k] = j[k]
  BY <1>0 DEF StopJob, Jobs
<1> HIDE DEF s
<1>2. \A k \in Items : NextActive(s, k) = NextActive(j, k)
  BY <1>1, SameNextActive
<1>3. \A k \in Items : FirstActive(s, k) <=> FirstActive(j, k)
  BY <1>1 DEF FirstActive
<1>4. \A k \in Items : k > 1 /\ s[k].active => s[k].busy /\ s[k].linked = NextActive(s, k)
  BY <1>1, <1>2, OneIsAnItem DEF Laid
<1>5. \A k \in Items : k <= 1 => ~s[k].busy
  BY <1>1, OneIsAnItem
<1>6. \A k \in Items : FirstActive(s, k) => s[k].input # "open"
  BY <1>1, <1>3 DEF Laid
<1>7. ASSUME NEW k \in Items, k > 1, s[k].input = "open"
      PROVE  \/ \E l \in Items : s[l].busy /\ s[l].linked = k
             \/ \A l \in Items : 1 < l /\ l < k => ~s[l].active
  <2>1. k # 1 /\ k > 0 /\ j[k].input = "open"
    BY <1>1, <1>7, OneIsAnItem
  <2>2. CASE \A l \in Items : 0 < l /\ l < k => ~j[l].active
    BY <1>0, <1>7, <2>2
  <2>3. CASE \E l \in Items : j[l].busy /\ j[l].linked = k
    <3>1. PICK l \in Items : j[l].busy /\ j[l].linked = k
      BY <2>3
    <3>2. CASE l = 1
      <4>1. NextActive(j, 1) = k
        BY <1>0, <3>1, <3>2, OneIsAnItem DEF Laid
      <4>2. \A m \in Items : 1 < m /\ m < k => ~j[m].active
        BY <1>0, <4>1, NextActiveIs, OneIsAnItem
      <4> QED
        BY <1>1, <4>2, OneIsAnItem
    <3>3. CASE l # 1
      BY <1>1, <3>1, <3>3
    <3> QED
      BY <3>2, <3>3
  <2> QED
    BY <2>1, <2>2, <2>3 DEF Laid
<1>8. Laid(s, 1)
  BY <1>4, <1>5, <1>6, <1>7 DEF Laid
<1> QED
  BY <1>8 DEF s

\* During the pause nobody but the leader can end anything, and it ends the task.
LEMMA PauseFollows ==
  ASSUME IInv, PInv, pc = "sleep", NEW i \in Items,
         FinishTrack(i) \/ FinishTrackLater(i) \/ FinishSession(i) \/ JobError(i)
  PROVE  PInv'
<1>1. Running /\ job[i].active /\ job[i].busy /\ Sound(job) /\ ~quit
  BY DEF FinishTrack, FinishTrackLater, FinishSession, JobError, Report, Running, IInv
<1>2. cur \in Items /\ job[cur].active /\ cur < i
  <2>1. Laid(job, cur) /\ cur \in Items /\ job[cur].active
    BY <1>1 DEF PInv
  <2>2. ~ (i <= cur)
    BY <1>1, <2>1 DEF Laid
  <2> QED
    BY <2>1, <2>2, OneIsAnItem
<1>3. ~FirstActive(job, i)
  BY <1>2 DEF FirstActive
<1>4. ~FirstActive(StopJob(job, i), i)
  <2>1. StopJob(job, i)[cur] = job[cur]
    BY <1>1, <1>2, OneIsAnItem DEF StopJob, Sound
  <2> QED
    BY <1>2, <2>1 DEF FirstActive
<1>5. CtxFinished(job) \/ CtxError(job)
  BY <1>3, <1>4 DEF FinishTrack, FinishTrackLater, FinishSession, JobError
<1> QED
  BY <1>1, <1>5, StoppedFollows DEF CtxFinished, CtxError

\* The first item goes on with the next track, and its pipe with it.
LEMMA RestartFollows ==
  ASSUME HeadStays, IInv, PInv, pc = "loop", NEW i \in Items, Report(i), i \in ByTrack,
         FirstActive(StopJob(job, i), i), track < NumTracks,
         NEW a \in Answers, Restart(StopJob(job, i), a)
  PROVE  PInv'
<1> DEFINE j == StopJob(job, i)
           s == Started(j, 1, a)
<1>1. Running /\ job[i].active /\ Sound(job) /\ ~quit /\ TypeOK
  BY DEF Report, Running, IInv
<1>2. Sound(j) /\ 1 \in Items
  BY <1>1, StopJobSound, OneIsAnItem
<1>3. Laid(job, 0) /\ (Headed(job) \/ track = NumTracks \/ 1 \notin ByTrack)
  BY <1>1 DEF PInv
<1>4. track # NumTracks
  BY <1>1, ChainAssumption DEF TypeOK, Tracks
<1>5. NumTracks # 1
  BY <1>1, ChainAssumption DEF TypeOK, Tracks
<1>6. job[1].active
  BY <1>1, <1>3, <1>4, <1>5 DEF HeadStays, Headed, NoneActive
<1>7. i = 1
  <2>1. SUFFICES ASSUME i # 1 PROVE FALSE
    OBVIOUS
  <2>2. j[1] = job[1] /\ 1 < i
    BY <1>1, <1>2, <2>1, OneIsAnItem DEF StopJob, Sound
  <2> QED
    BY <1>2, <1>6, <2>2 DEF FirstActive
<1>8. Laid(j, 1) /\ Headed(j)
  <2>1. Laid(j, 1)
    BY <1>1, <1>3, <1>6, <1>7, BetweenTracksIsLaid
  <2>2. j[1].active
    BY <1>7 DEF FirstActive
  <2> QED
    BY <2>1, <2>2 DEF Headed
<1>9. StartResult(j, 1, a) = "OK" => Laid(s, 1 - 1)
  BY <1>2, <1>8, StartedIsLaid
<1>10. Headed(s) /\ Sound(s)
  BY <1>2, <1>8, StartedIsHeaded, StartedSound
<1>11. \/ StartResult(j, 1, a) = "OK" /\ job' = s /\ UNCHANGED <<pc, quit, retval, error>>
       \/ \E err \in BOOLEAN : Stop(s, "ERR", err)
  BY DEF Restart
<1> HIDE DEF s, j
<1>12. CASE StartResult(j, 1, a) = "OK" /\ job' = s /\ UNCHANGED <<pc, quit, retval, error>>
  <2>1. Laid(job', 0) /\ Headed(job')
    BY <1>9, <1>10, <1>12
  <2> QED
    BY <1>12, <2>1 DEF PInv
<1>13. CASE \E err \in BOOLEAN : Stop(s, "ERR", err)
  BY <1>1, <1>10, <1>13, StoppedFollows
<1> QED
  BY <1>11, <1>12, <1>13

\* The first item leaves the chain while the task goes on.
LEMMA LeavingFollows ==
  ASSUME IInv, PInv, pc = "loop", NEW i \in Items, Report(i), FirstActive(job, i),
         track = NumTracks \/ i \notin ByTrack,
         UNCHANGED <<pc, quit, track>>,
         ~job'[i].active, ~job'[i].busy, job'[i].input = "none",
         \A k \in Items : k # i =>
            /\ job'[k].active = job[k].active /\ job'[k].busy = job[k].busy
            /\ job'[k].linked = job[k].linked
            /\ job'[k].input = IF k = job[i].linked /\ job[k].input = "open" THEN "eof" ELSE job[k].input
  PROVE  PInv'
<1>1. job[i].active /\ Sound(job) /\ ~quit /\ Laid(job, 0)
      /\ (Headed(job) \/ track = NumTracks \/ 1 \notin ByTrack)
  BY DEF Report, Running, IInv, PInv
<1>2. Laid(job', 0)
  BY <1>1, ClosedIsLaid
<1>3. Headed(job) => i = 1
  BY <1>1, OneIsAnItem DEF Headed, NoneActive, FirstActive
<1>4. track = NumTracks \/ 1 \notin ByTrack
  BY <1>1, <1>3
<1> QED
  BY <1>2, <1>4 DEF PInv

LEMMA ReportFollows ==
  ASSUME HeadStays, IInv, PInv, NEW i \in Items,
         FinishTrack(i) \/ FinishTrackLater(i) \/ FinishSession(i) \/ JobError(i)
  PROVE  PInv'
<1>1. /\ Running /\ Report(i) /\ job[i].active /\ Sound(job) /\ TypeOK
  BY DEF FinishTrack, FinishTrackLater, FinishSession, JobError, Report, IInv
<1>2. CASE pc = "sleep"
  BY <1>2, PauseFollows
<1>3. CASE pc = "loop"
  <2> DEFINE j == StopJob(job, i)
  <2>1. ASSUME CtxFinished(job) \/ CtxError(job) \/ CtxFinished(j) PROVE PInv'
    <3>1. Sound(j)
      BY <1>1, StopJobSound
    <3> HIDE DEF j
    <3> QED
      BY <1>1, <2>1, <3>1, StoppedFollows DEF CtxFinished, CtxError
  <2>2. FirstActive(j, i) => FirstActive(job, i)
    BY <1>1, OneIsAnItem DEF FirstActive, StopJob, Sound
  <2>3. job \in [Items -> Jobs] /\ job[i] \in Jobs
    BY <1>1 DEF Sound
  <2>4. /\ j \in [Items -> Jobs] /\ ~j[i].busy /\ j[i].linked = job[i].linked
        /\ \A k \in Items : k # i => j[k] = job[k]
    BY <2>3 DEF StopJob, Jobs
  <2> DEFINE d == Disconnect(j, i)
  <2>5. /\ d[i].input = "none" /\ d \in [Items -> Jobs] /\ ~d[i].busy
        /\ \A k \in Items : k # i =>
            /\ d[k].active = job[k].active /\ d[k].busy = job[k].busy /\ d[k].linked = job[k].linked
            /\ d[k].input = IF k = job[i].linked /\ job[k].input = "open" THEN "eof" ELSE job[k].input
    BY <2>3, <2>4 DEF Disconnect, Jobs
  <2> HIDE DEF d
  <2>6. CASE FinishTrack(i)
    <3>1. \/ /\ FirstActive(j, i) /\ track < NumTracks /\ i \in ByTrack
             /\ \E a \in Answers : Restart(j, a)
          \/ FirstActive(j, i) /\ track = NumTracks /\ CloseFirst(j, i)
          \/ CtxFinished(j)
      BY <2>6 DEF FinishTrack
    <3>2. CASE FirstActive(j, i) /\ track = NumTracks /\ CloseFirst(j, i)
      <4>1. CASE pc' = "broken"
        BY <4>1 DEF PInv
      <4>2. CASE job' = Deactivate(d, i) /\ pc' = pc
        <5>1. ~Unused.active /\ ~Unused.busy /\ Unused.input = "none"
          BY DEF Unused
        <5>2. job'[i] = Unused /\ \A k \in Items : k # i => job'[k] = d[k]
          BY <2>5, <4>2 DEF Deactivate
        <5>3. ~job'[i].active /\ ~job'[i].busy /\ job'[i].input = "none"
          BY <5>1, <5>2
        <5>4. UNCHANGED <<pc, quit, track>> /\ FirstActive(job, i)
          BY <2>2, <3>2, <4>2 DEF CloseFirst
        <5>5. \A k \in Items : k # i =>
                 /\ job'[k].active = job[k].active /\ job'[k].busy = job[k].busy
                 /\ job'[k].linked = job[k].linked
                 /\ job'[k].input = IF k = job[i].linked /\ job[k].input = "open" THEN "eof" ELSE job[k].input
          BY <2>5, <5>2
        <5> QED
          BY <1>1, <1>3, <3>2, <5>3, <5>4, <5>5, LeavingFollows
      <4> QED
        BY <3>2, <4>1, <4>2 DEF CloseFirst, d
    <3>3. CASE /\ FirstActive(j, i) /\ track < NumTracks /\ i \in ByTrack
               /\ \E a \in Answers : Restart(j, a)
      BY <1>1, <1>3, <3>3, RestartFollows
    <3> QED
      BY <2>1, <3>1, <3>2, <3>3
  <2>7. CASE FinishTrackLater(i)
    BY <2>1, <2>7 DEF FinishTrackLater
  <2>8. CASE FinishSession(i)
    <3>1. CASE pc' = "broken"
      BY <3>1 DEF PInv
    <3>2. CASE /\ FirstActive(job, i) /\ i \notin ByTrack
               /\ job' = [d EXCEPT ![i].active = FALSE] /\ UNCHANGED <<pc, quit, track>>
      <4>1. /\ job'[i] = [d[i] EXCEPT !.active = FALSE]
            /\ \A k \in Items : k # i => job'[k] = d[k]
        BY <2>5, <3>2
      <4>2. ~job'[i].active /\ ~job'[i].busy /\ job'[i].input = "none"
        BY <2>5, <4>1 DEF Jobs
      <4>3. \A k \in Items : k # i =>
               /\ job'[k].active = job[k].active /\ job'[k].busy = job[k].busy
               /\ job'[k].linked = job[k].linked
               /\ job'[k].input = IF k = job[i].linked /\ job[k].input = "open" THEN "eof" ELSE job[k].input
        BY <2>5, <4>1
      <4> QED
        BY <1>1, <1>3, <3>2, <4>2, <4>3, LeavingFollows
    <3> QED
      BY <2>1, <2>8, <3>1, <3>2 DEF FinishSession, d
  <2>9. CASE JobError(i)
    BY <2>1, <2>9 DEF JobError
  <2> QED
    BY <2>6, <2>7, <2>8, <2>9
<1> QED
  BY <1>1, <1>2, <1>3 DEF Running

LEMMA NextPInv ==
  ASSUME HeadStays
  PROVE  IInv /\ PInv /\ [Next]_vars => PInv'
<1> SUFFICES ASSUME IInv, PInv, [Next]_vars PROVE PInv'
  OBVIOUS
<1>0. Sound(job)
  BY DEF IInv
<1>1. CASE Start
  BY <1>1, StartFollows
<1>2. CASE StartAnyItem
  BY <1>2, StartItemFollows DEF StartAnyItem
<1>3. CASE EnterLoop
  BY <1>3, EnterLoopFollows
<1>4. CASE Reports
  BY <1>4, ReportFollows DEF Reports
<1>5. ASSUME NEW i \in Items, AddTrack(i) PROVE PInv'
  BY <1>5 DEF AddTrack, Unaffected, PInv
<1>6. CASE Cancel
  BY <1>0, <1>6, StoppedFollows DEF Cancel
<1>7. CASE Wakeup
  BY <1>7 DEF Wakeup, starting, PInv
<1>8. CASE EndSleep
  <2>1. pc = "sleep" /\ cur' = cur /\ some' = some
    BY <1>8 DEF EndSleep
  <2>2. CASE pc' = "starting" /\ job' = job
    BY <2>1, <2>2 DEF PInv
  <2>3. CASE pc' \in {"idle", "broken"}
    BY <2>3 DEF PInv
  <2> QED
    BY <1>8, <2>2, <2>3 DEF EndSleep, StopAndReturn, Return
<1>9. CASE EndLoop
  BY <1>9 DEF EndLoop, Return, PInv
<1>10. CASE Rest \/ UNCHANGED vars
  BY <1>10 DEF Rest, vars, PInv
<1> QED
  BY <1>1, <1>2, <1>3, <1>4, <1>5, <1>6, <1>7, <1>8, <1>9, <1>10 DEF Next

LEMMA WritersAreThere ==
  ASSUME IInv, PInv
  PROVE  EofWhenWriterIsDone
<1> SUFFICES ASSUME pc = "loop", ~quit, NEW k \in Items, job[k].input = "open"
             PROVE  \E i \in Items : job[i].busy /\ job[i].linked = k
  BY DEF EofWhenWriterIsDone
<1>1. Laid(job, 0) /\ job[k].active /\ k > 0
  BY OneIsAnItem DEF PInv, IInv, Sound, Still
<1>2. ~FirstActive(job, k)
  BY <1>1 DEF Laid
<1>3. \E l \in Items : l < k /\ job[l].active
  BY <1>1, <1>2 DEF FirstActive
<1>4. ~ \A l \in Items : 0 < l /\ l < k => ~job[l].active
  BY <1>3, OneIsAnItem
<1> QED
  BY <1>1, <1>4 DEF Laid

LEMMA TracksKeepPipes ==
  ASSUME IInv, [Next]_vars, pc = "loop", track' # track, ~quit', pc' = "loop",
         NEW k \in Items, job[k].input = "open"
  PROVE  job'[k].input = "open"
<1>1. PICK i \in Items : FinishTrack(i)
  BY DEF Next, vars, Rest, Start, StartAnyItem, StartItem, EnterLoop, Reports, FinishTrackLater, FinishSession,
         JobError, CtxFinished, CtxError, AddTrack, Cancel, Wakeup, EndSleep, EndLoop
<1> DEFINE j == StopJob(job, i)
<1>2. PICK a \in Answers : Restart(j, a)
  BY <1>1 DEF FinishTrack, CloseFirst, CtxFinished
<1>3. Sound(j) /\ j[k].input = "open" /\ 1 \in Items
  <2>1. Sound(job) /\ job \in [Items -> Jobs] /\ job[k] \in Jobs
    BY DEF IInv, Sound
  <2>2. j[k].input = job[k].input
    BY <2>1 DEF StopJob, Jobs
  <2> QED
    BY <2>1, <2>2, StopJobSound, OneIsAnItem
<1>4. StartResult(j, 1, a) = "OK" /\ job' = Started(j, 1, a)
  BY <1>2 DEF Restart, Stop
<1> HIDE DEF j
<1>5. \/ Started(j, 1, a) = j
      \/ \E x \in Jobs : Started(j, 1, a) = [j EXCEPT ![1] = x] /\ x.input \in {j[1].input, "open"}
  BY <1>3, <1>4, StartedIs
<1>6. CASE job' = j
  BY <1>3, <1>6
<1>7. ASSUME NEW x \in Jobs, job' = [j EXCEPT ![1] = x], x.input \in {j[1].input, "open"}
      PROVE  job'[k].input = "open"
  <2>1. j \in [Items -> Jobs]
    BY <1>3 DEF Sound
  <2>2. CASE k = 1
    BY <1>3, <1>7, <2>1, <2>2
  <2>3. CASE k # 1
    BY <1>3, <1>7, <2>1, <2>3
  <2> QED
    BY <2>2, <2>3
<1> QED
  BY <1>4, <1>5, <1>6, <1>7

LEMMA InitPInv == Init => PInv
BY DEF Init, PInv

\* In chains that keep their head, whatever the items answer and however often they ask
\* for another attempt, a pipe is open as long as its writer works and no longer.
THEOREM PipesAlwaysFollowWriters ==
  ASSUME HeadStays
  PROVE  Spec => PipesFollowWriters
<1>1. IInv /\ PInv => EofWhenWriterIsDone
  BY WritersAreThere
<1>2. IInv /\ [Next]_vars =>
        [pc = "loop" /\ track' # track /\ ~quit' /\ pc' = "loop" =>
            \A k \in Items : job[k].input = "open" => job'[k].input = "open"]_vars
  BY TracksKeepPipes
<1> QED
  BY <1>1, <1>2, InitIInv, NextIInv, InitPInv, NextPInv, PTL DEF Spec, PipesFollowWriters, PipesOutliveTracks

-----------------------------------------------------------------------------
(* Without another attempt, a round that counts an item has one at work.      *)

SInv ==
    /\ attempts = 0
    /\ pc = "starting" /\ some => \E i \in Items : i > cur /\ job[i].active
    /\ pc = "loop" /\ ~quit => ~NoneActive(job)

\* An item that is closed is not the last active one.
LEMMA ReportServes ==
  ASSUME HeadStays, MayRetry = {}, IInv, PInv, RInv, SInv, NEW i \in Items,
         FinishTrack(i) \/ FinishTrackLater(i) \/ FinishSession(i) \/ JobError(i)
  PROVE  SInv'
<1>1. pc = "loop" /\ ~quit /\ attempts' = attempts /\ Sound(job) /\ job \in [Items -> Jobs] /\ job[i].active
  BY DEF FinishTrack, FinishTrackLater, FinishSession, JobError, Report, Running, RInv, Unaffected, IInv, Sound
<1>2. ASSUME NEW j, NEW ret, NEW err, Stop(j, ret, err) PROVE SInv'
  BY <1>1, <1>2 DEF SInv, Stop
<1>3. ASSUME pc' = pc, NEW k \in Items, job'[k].active PROVE SInv'
  BY <1>1, <1>3 DEF SInv, NoneActive
<1>4. CASE pc' = "broken"
  BY <1>1, <1>4 DEF SInv
<1> DEFINE j == StopJob(job, i)
<1>5. /\ j \in [Items -> Jobs] /\ \A k \in Items : j[k].active = job[k].active
  BY <1>1 DEF StopJob, Jobs
<1>6. CASE FinishTrack(i)
  <2>1. CASE \E a \in Answers : Restart(j, a)
    <3>1. PICK a \in Answers : Restart(j, a)
      BY <2>1
    <3>2. Sound(j) /\ 1 \in Items
      BY <1>1, StopJobSound, OneIsAnItem
    <3>3. CASE StartResult(j, 1, a) = "OK"
      <4>1. job' = Started(j, 1, a) /\ pc' = pc
        BY <3>1, <3>3 DEF Restart
      <4>2. job'[i].active
        <5>1. \/ job' = j
              \/ \E x \in Jobs : job' = [j EXCEPT ![1] = x] /\ x.active
          BY <3>2, <3>3, <4>1, StartedIs
        <5> HIDE DEF j
        <5> QED
          BY <1>1, <1>5, <5>1
      <4> QED
        BY <1>3, <4>1, <4>2
    <3>4. CASE StartResult(j, 1, a) # "OK"
      BY <1>2, <3>1, <3>4 DEF Restart
    <3> QED
      BY <3>3, <3>4
  <2>2. CASE ~LastActive(j, i) /\ FirstActive(j, i) /\ CloseFirst(j, i)
    <3>1. PICK k \in Items : k > i /\ job[k].active
      BY <1>5, <2>2 DEF LastActive, FirstActive
    <3>2. CASE job' = Deactivate(Disconnect(j, i), i) /\ pc' = pc
      <4>1. k # i
        BY <3>1, OneIsAnItem
      <4>2. Disconnect(j, i)[k].active
        BY <1>5, <3>1, <4>1 DEF Disconnect, Jobs
      <4>3. job'[k] = Disconnect(j, i)[k]
        BY <3>2, <4>1 DEF Deactivate, Disconnect
      <4> QED
        BY <1>3, <3>2, <4>2, <4>3
    <3> QED
      BY <1>4, <2>2, <3>2 DEF CloseFirst
  <2>3. CASE CtxFinished(j)
    BY <1>2, <2>3 DEF CtxFinished
  <2> QED
    BY <1>6, <2>1, <2>2, <2>3 DEF FinishTrack
<1>7. CASE FinishTrackLater(i)
  BY <1>2, <1>7 DEF FinishTrackLater, CtxFinished, CtxError
<1>8. CASE FinishSession(i)
  <2>1. CASE CtxFinished(job) \/ CtxError(job)
    BY <1>2, <2>1 DEF CtxFinished, CtxError
  <2>2. CASE ~LastActive(job, i) /\ job' = [Disconnect(j, i) EXCEPT ![i].active = FALSE] /\ pc' = pc
    <3>1. PICK k \in Items : k > i /\ job[k].active
      BY <1>1, <2>2 DEF LastActive
    <3>2. k # i
      BY <3>1, OneIsAnItem
    <3>3. Disconnect(j, i)[k].active
      BY <1>5, <3>1, <3>2 DEF Disconnect, Jobs
    <3>4. job'[k] = Disconnect(j, i)[k]
      BY <2>2, <3>2 DEF Disconnect
    <3> QED
      BY <1>3, <2>2, <3>3, <3>4
  <2> QED
    BY <1>4, <1>8, <2>1, <2>2 DEF FinishSession
<1>9. CASE JobError(i)
  BY <1>2, <1>9 DEF JobError, CtxError
<1> QED
  BY <1>6, <1>7, <1>8, <1>9

LEMMA NextTrackServes ==
  ASSUME SInv, NEW j, NextTrackOrReturn(j)
  PROVE  SInv'
<1>1. CASE pc' = "starting" /\ ~some' /\ attempts' = 0
  BY <1>1 DEF SInv
<1>2. CASE pc' \in {"idle", "broken"} /\ attempts' = attempts
  BY <1>2 DEF SInv
<1> QED
  BY <1>1, <1>2 DEF NextTrackOrReturn, StopAndReturn, Return

LEMMA StartItemServes ==
  ASSUME MayRetry = {}, IInv, PInv, SInv, NEW a \in Answers, StartItem(a)
  PROVE  SInv'
<1> DEFINE res == StartResult(job, cur, a)
           j == Started(job, cur, a)
<1>1. /\ pc = "starting" /\ cur # 0
      /\ \/ /\ res \in {"OK", "NOT_SUPPORTED"}
            /\ job' = j /\ cur' = cur - 1 /\ attempts' = 0
            /\ some' = (some \/ ((job[cur].active \/ attempts > 0) /\ res = "OK"))
            /\ pc' = pc
         \/ NextTrackOrReturn(j)
         \/ StopAndReturn(j, "ERR", TRUE) /\ attempts' = attempts
  BY DEF StartItem, starting, MayAnswer, StartResult
<1>2. Sound(job) /\ job \in [Items -> Jobs] /\ cur \in Items
  BY <1>1, ChainAssumption DEF IInv, TypeOK, Items, Sound
<1>3. CASE /\ res \in {"OK", "NOT_SUPPORTED"}
           /\ job' = j /\ cur' = cur - 1 /\ attempts' = 0
           /\ some' = (some \/ ((job[cur].active \/ attempts > 0) /\ res = "OK"))
           /\ pc' = pc
  <2>1. ASSUME some' PROVE \E i \in Items : i > cur - 1 /\ j[i].active
    <3>1. ~ (attempts > 0)
      BY DEF SInv
    <3>2. some \/ (job[cur].active /\ res = "OK")
      BY <1>3, <2>1, <3>1
    <3>3. \/ ~job[cur].active /\ j = job
          \/ LastActive(job, cur) /\ res = "NOT_SUPPORTED"
          \/ \E x \in Jobs : j = [job EXCEPT ![cur] = x] /\ x.active
      BY <1>2, StartedIs
    <3> HIDE DEF j, res
    <3>4. CASE some
      <4>1. PICK i \in Items : i > cur /\ job[i].active
        BY <1>1, <3>4 DEF SInv
      <4>2. i > cur - 1 /\ i # cur /\ ~LastActive(job, cur)
        BY <1>2, <4>1, OneIsAnItem DEF LastActive
      <4> QED
        BY <1>2, <3>3, <4>1, <4>2
    <3>5. CASE job[cur].active /\ res = "OK"
      <4>1. j[cur].active /\ cur > cur - 1
        BY <1>2, <3>3, <3>5, OneIsAnItem
      <4> QED
        BY <1>2, <4>1
    <3> QED
      BY <3>2, <3>4, <3>5
  <2> HIDE DEF j, res
  <2> QED
    BY <1>1, <1>3, <2>1 DEF SInv
<1> HIDE DEF j, res
<1>4. CASE NextTrackOrReturn(j)
  BY <1>4, NextTrackServes
<1>5. CASE StopAndReturn(j, "ERR", TRUE) /\ attempts' = attempts
  BY <1>5 DEF SInv, StopAndReturn, Return
<1> QED
  BY <1>1, <1>3, <1>4, <1>5

LEMMA NextSInv ==
  ASSUME HeadStays, MayRetry = {}
  PROVE  IInv /\ PInv /\ RInv /\ SInv /\ [Next]_vars => SInv'
<1> SUFFICES ASSUME IInv, PInv, RInv, SInv, [Next]_vars PROVE SInv'
  OBVIOUS
<1>1. CASE Start
  <2>1. attempts' = 0 /\ (pc' = "idle" \/ (pc' = "starting" /\ ~some'))
    BY <1>1 DEF Start, starting, SInv
  <2> QED
    BY <2>1 DEF SInv
<1>2. CASE StartAnyItem
  BY <1>2, StartItemServes DEF StartAnyItem
<1>3. CASE EnterLoop
  <2>1. CASE NextTrackOrReturn(job)
    BY <2>1, NextTrackServes
  <2>2. CASE pc = "starting" /\ some /\ pc' = "loop" /\ job' = job /\ attempts' = attempts
    BY <2>2 DEF SInv, NoneActive
  <2> QED
    BY <1>3, <2>1, <2>2 DEF EnterLoop, starting
<1>4. CASE Reports
  BY <1>4, ReportServes DEF Reports
<1>5. ASSUME NEW i \in Items, AddTrack(i) PROVE SInv'
  BY <1>5 DEF AddTrack, Unaffected, SInv, NoneActive
<1>6. CASE Cancel
  BY <1>6 DEF Cancel, Stop, Running, RInv, SInv
<1>7. CASE Wakeup \/ EndSleep
  BY <1>7 DEF Wakeup, EndSleep, RInv
<1>8. CASE EndLoop
  BY <1>8 DEF EndLoop, Return, starting, SInv
<1>9. CASE Rest \/ UNCHANGED vars
  BY <1>9 DEF Rest, vars, SInv, NoneActive
<1> QED
  BY <1>1, <1>2, <1>3, <1>4, <1>5, <1>6, <1>7, <1>8, <1>9 DEF Next

\* In chains that keep their head and in which no item asks for another attempt, a task
\* never waits for nobody.
THEOREM LoopsAreServed ==
  ASSUME HeadStays, MayRetry = {}
  PROVE  Spec => []LoopIsServed
<1>1. Init => SInv
  BY DEF Init, SInv
<1>2. PInv /\ SInv => LoopIsServed
  <2> SUFFICES ASSUME PInv, SInv, pc = "loop", ~quit PROVE \E i \in Items : job[i].busy
    BY DEF LoopIsServed
  <2>1. PICK i \in Items : job[i].active
    BY DEF SInv, NoneActive
  <2>2. Laid(job, 0) /\ i > 0
    BY OneIsAnItem DEF PInv
  <2> QED
    BY <2>1, <2>2 DEF Laid
<1> QED
  BY <1>1, <1>2, InitIInv, NextIInv, InitPInv, NextPInv, InitRInv, NextRInv, NextSInv, PTL DEF Spec
=============================================================================
