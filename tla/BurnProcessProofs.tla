-------------------------- MODULE BurnProcessProofs --------------------------
(***************************************************************************)
(* Proofs about BurnProcess, for every place of the item, every ::post and *)
(* any number of tracks, lines and runs.                                   *)
(***************************************************************************)
EXTENDS BurnProcess, TLAPS

\* What a stopped item does not read any more is gone, and no plugin takes a line for the
\* end of an image: that is what its exit status is for.
LinesInv ==
    /\ ~pid => lines = NoLines
    /\ \A c \in Pipes : \A i \in 1 .. Len(lines[c]) : lines[c][i] = "done" => action # "image"

\* TypeOK and SourcesServeTheProgram are inductive only together: a polled program is one
\* that is known, and an item that was closed has no program to forget.
ProgramInv == TypeOK /\ SourcesServeTheProgram /\ LinesInv

-----------------------------------------------------------------------------
(* Lines in a pipe *)

LEMMA NoLinesAreLines ==
  /\ NoLines \in [Pipes -> Seq(Lines)]
  /\ \A c \in Pipes : Len(NoLines[c]) = 0
<1>1. <<>> \in Seq(Lines) /\ Len(<<>>) = 0
  OBVIOUS
<1> QED
  BY <1>1 DEF NoLines, Pipes

\* A line is appended, or the first one taken: what is there was there or is the new one.
LEMMA LinesAfterWrite ==
  ASSUME lines \in [Pipes -> Seq(Lines)], NEW c \in Pipes, NEW l \in Lines,
         NEW new, new = [lines EXCEPT ![c] = Append(@, l)]
  PROVE  /\ new \in [Pipes -> Seq(Lines)]
         /\ \A d \in Pipes : \A i \in 1 .. Len(new[d]) :
               \/ new[d][i] = l
               \/ i \in 1 .. Len(lines[d]) /\ new[d][i] = lines[d][i]
<1>1. lines[c] \in Seq(Lines)
  OBVIOUS
<1>2. /\ Append(lines[c], l) \in Seq(Lines)
      /\ Len(Append(lines[c], l)) = Len(lines[c]) + 1 /\ Len(lines[c]) \in Nat
      /\ \A i \in 1 .. Len(lines[c]) + 1 :
            Append(lines[c], l)[i] = (IF i = Len(lines[c]) + 1 THEN l ELSE lines[c][i])
  BY <1>1
<1>3. new \in [Pipes -> Seq(Lines)]
  BY <1>2
<1>4. ASSUME NEW d \in Pipes, NEW i \in 1 .. Len(new[d])
      PROVE  \/ new[d][i] = l
             \/ i \in 1 .. Len(lines[d]) /\ new[d][i] = lines[d][i]
  <2>1. CASE d = c
    <3>1. new[d] = Append(lines[c], l)
      BY <2>1
    <3> QED
      BY <2>1, <3>1, <1>2
  <2>2. CASE d # c
    BY <2>2
  <2> QED
    BY <2>1, <2>2
<1> QED
  BY <1>3, <1>4

LEMMA LinesAfterRead ==
  ASSUME lines \in [Pipes -> Seq(Lines)], NEW c \in Pipes, lines[c] # <<>>
  PROVE  /\ Unread(c) \in [Pipes -> Seq(Lines)]
         /\ \A d \in Pipes : \A i \in 1 .. Len(Unread(c)[d]) :
               \E j \in 1 .. Len(lines[d]) : Unread(c)[d][i] = lines[d][j]
         /\ Head(lines[c]) = lines[c][1] /\ 1 \in 1 .. Len(lines[c])
<1>1. lines[c] \in Seq(Lines)
  OBVIOUS
<1>2. /\ Tail(lines[c]) \in Seq(Lines)
      /\ Len(Tail(lines[c])) = Len(lines[c]) - 1 /\ Len(lines[c]) \in Nat \ {0}
      /\ \A i \in 1 .. Len(lines[c]) - 1 : Tail(lines[c])[i] = lines[c][i + 1]
      /\ Head(lines[c]) = lines[c][1]
  BY <1>1
<1>3. Unread(c) \in [Pipes -> Seq(Lines)]
  BY <1>2 DEF Unread
<1>4. ASSUME NEW d \in Pipes, NEW i \in 1 .. Len(Unread(c)[d])
      PROVE  \E j \in 1 .. Len(lines[d]) : Unread(c)[d][i] = lines[d][j]
  <2>1. CASE d = c
    <3>1. Unread(c)[d] = Tail(lines[c])
      BY <2>1 DEF Unread
    <3>2. i + 1 \in 1 .. Len(lines[c]) /\ Unread(c)[d][i] = lines[c][i + 1]
      BY <2>1, <3>1, <1>2
    <3> QED
      BY <2>1, <3>2
  <2>2. CASE d # c
    BY <2>2 DEF Unread
  <2> QED
    BY <2>1, <2>2
<1> QED
  BY <1>2, <1>3, <1>4

-----------------------------------------------------------------------------
(* What a stop leaves *)

Nothing ==
    /\ pid' = FALSE /\ open' = {} /\ watch' = FALSE /\ deferred' = FALSE
    /\ lines' = NoLines /\ held' = {} /\ ended' = ended

LEMMA StopLeavesNothing ==
  ASSUME ProgramInv, NEW ls, ItemsStopped(ls)
  PROVE  /\ Nothing /\ active' = FALSE
         /\ task' \in {"idle", "broken"}
<1>1. Nothing
  <2>1. CASE active
    BY <2>1 DEF ItemsStopped, Forgotten, Nothing
  <2>2. CASE ~active
    <3>1. pid = FALSE /\ open = {} /\ watch = FALSE /\ deferred = FALSE
      BY <2>2 DEF ProgramInv, SourcesServeTheProgram, TypeOK
    <3>2. lines = NoLines /\ held = {}
      BY <3>1 DEF ProgramInv, SourcesServeTheProgram, LinesInv
    <3> QED
      BY <2>2, <3>1, <3>2 DEF ItemsStopped, Nothing, sources, program
  <2> QED
    BY <2>1, <2>2
<1>2. active' = FALSE /\ task' \in {"idle", "broken"}
  BY DEF ItemsStopped, ProgramInv, TypeOK
<1> QED
  BY <1>1, <1>2

LEMMA StartLeavesAProgram ==
  ASSUME ProgramInv, NEW o \in SUBSET Pipes, NEW act, Spawned(o, act)
  PROVE  /\ pid' = TRUE /\ open' \subseteq Pipes /\ open' # {} /\ held' = open'
         /\ lines' = NoLines /\ ended' = "no" /\ done' = FALSE
         /\ process_finished' = FALSE /\ return_status' = 0 /\ toc' \in BOOLEAN
  BY DEF Spawned, MayOpen

LEMMA KeptIsATrack ==
  ASSUME ProgramInv, NEW finished \in BOOLEAN, NEW status \in {0, 1}
  PROVE  KeptTracks(finished, status) \in {0, 1} /\ KeptAtStop \in {0, 1}
  BY DEF KeptTracks, KeptAtStop, TrackIsEarned, ProgramInv, TypeOK

\* The invariant of an item that has stopped, and of one that has just started.
LEMMA NoLineIsDone ==
  ASSUME lines' = NoLines
  PROVE  LinesInv'
<1>1. \A c \in Pipes : 1 .. Len(lines'[c]) = {}
  BY NoLinesAreLines
<1> QED
  BY <1>1 DEF LinesInv

LEMMA InvWithNothing ==
  ASSUME Nothing, active' = FALSE \/ task' # "loop"
  PROVE  SourcesServeTheProgram' /\ LinesInv'
<1>1. LinesInv'
  BY NoLineIsDone DEF Nothing
<1>2. SourcesServeTheProgram'
  BY DEF Nothing, SourcesServeTheProgram
<1> QED
  BY <1>1, <1>2

LEMMA InvWithProgram ==
  ASSUME pid' = TRUE, open' # {}, held' = open', lines' = NoLines, watch' = FALSE,
         task' = "loop", active' = TRUE
  PROVE  SourcesServeTheProgram' /\ LinesInv'
<1>1. LinesInv'
  BY NoLineIsDone
<1>2. SourcesServeTheProgram'
  BY DEF SourcesServeTheProgram
<1> QED
  BY <1>1, <1>2

-----------------------------------------------------------------------------
(* Types *)

\* The types of the variables a stop does not decide.
RestType ==
    /\ role \in Roles /\ post \in Posts
    /\ action \in {"image", "record", "size"}
    /\ process_finished \in BOOLEAN /\ return_status \in {0, 1}
    /\ toc \in BOOLEAN
    /\ left \in 0 .. NumTracks /\ stored \in {0, 1} /\ pushed \in BOOLEAN
    /\ result \in {"none", "OK", "ERR", "CANCEL"}
    /\ error \in {"none", "start", "child", "general", "deferred", "peer"}
    /\ done \in BOOLEAN /\ runs \in 0 .. MaxRuns

LEMMA StoppedType ==
  ASSUME ProgramInv, NEW ls, ItemsStopped(ls), RestType'
  PROVE  ProgramInv'
<1>1. /\ Nothing /\ active' = FALSE
      /\ task' \in {"idle", "broken"}
  BY StopLeavesNothing
<1>2. TypeOK'
  BY <1>1, NoLinesAreLines DEF TypeOK, RestType, Nothing, ProgramInv
<1> QED
  BY <1>1, <1>2, InvWithNothing DEF ProgramInv

LEMMA StartedType ==
  ASSUME ProgramInv, NEW o \in SUBSET Pipes, NEW act, Spawned(o, act), RestType',
         watch' = FALSE, deferred' = FALSE, task' = "loop", active' = TRUE
  PROVE  ProgramInv'
<1>1. /\ pid' = TRUE /\ open' \subseteq Pipes /\ open' # {} /\ held' = open'
      /\ lines' = NoLines /\ ended' = "no"
  BY StartLeavesAProgram
<1>2. TypeOK'
  BY <1>1, NoLinesAreLines DEF TypeOK, RestType
<1> QED
  BY <1>1, <1>2, InvWithProgram DEF ProgramInv

LEMMA RestHasType == ProgramInv => RestType
  BY DEF ProgramInv, TypeOK, RestType

\* What the end of the task decides of them.
LEMMA TaskStoppedType ==
  ASSUME ProgramInv, NEW ret \in {"OK", "ERR", "CANCEL"},
         NEW err \in {"none", "start", "child", "general", "deferred", "peer"},
         NEW kept \in {0, 1}, NEW ls, TaskStopped(ret, err, kept, ls),
         UNCHANGED <<setting, action, runs>>, left' \in 0 .. NumTracks,
         process_finished' \in BOOLEAN, return_status' \in {0, 1}, toc' \in BOOLEAN,
         done' \in BOOLEAN
  PROVE  ProgramInv'
<1>1. RestType'
  BY RestHasType DEF RestType, TaskStopped, setting
<1>2. ItemsStopped(ls)
  BY DEF TaskStopped
<1> QED
  BY <1>1, <1>2, StoppedType

LEMMA CtxFinishedType ==
  ASSUME ProgramInv, NEW kept \in {0, 1}, NEW ls, CtxFinished(kept, ls),
         UNCHANGED <<setting, action, runs>>,
         process_finished' \in BOOLEAN, return_status' \in {0, 1}, toc' \in BOOLEAN,
         done' \in BOOLEAN
  PROVE  ProgramInv'
<1>1. RestType'
  BY RestHasType DEF RestType, CtxFinished, setting
<1>2. ItemsStopped(ls)
  BY DEF CtxFinished
<1> QED
  BY <1>1, <1>2, StoppedType

-----------------------------------------------------------------------------
(* The steps *)

LEMMA TheProgramKeeps ==
  ASSUME ProgramInv,
         \/ \E c \in Pipes, l \in Lines : Write(c, l)
         \/ \E c \in Pipes : CloseOutput(c)
         \/ EndAnyhow
  PROVE  ProgramInv'
<1>1. ASSUME NEW c \in Pipes, NEW l \in Lines, Write(c, l)
      PROVE  ProgramInv'
  <2> DEFINE new == [lines EXCEPT ![c] = Append(@, l)]
  <2>1. /\ lines' = new /\ pid /\ pid' = pid
        /\ UNCHANGED <<setting, action, sources, outcome, toc, held, ended, chain, done, runs>>
    BY <1>1 DEF Write, sources
  <2>2. /\ new \in [Pipes -> Seq(Lines)]
        /\ \A d \in Pipes : \A i \in 1 .. Len(new[d]) :
               \/ new[d][i] = l
               \/ i \in 1 .. Len(lines[d]) /\ new[d][i] = lines[d][i]
    <3>1. lines \in [Pipes -> Seq(Lines)]
      BY DEF ProgramInv, TypeOK
    <3> QED
      BY <3>1, LinesAfterWrite
  <2> HIDE DEF new
  <2>3. TypeOK'
    BY <2>1, <2>2 DEF ProgramInv, TypeOK, setting, sources, outcome, chain
  <2>4. SourcesServeTheProgram'
    BY <2>1 DEF ProgramInv, SourcesServeTheProgram, sources, outcome, chain
  <2>5. LinesInv'
    BY <2>1, <2>2, <1>1 DEF ProgramInv, LinesInv, Write
  <2> QED
    BY <2>3, <2>4, <2>5 DEF ProgramInv
<1>2. ASSUME NEW c \in Pipes, CloseOutput(c)
      PROVE  ProgramInv'
  <2>1. TypeOK'
    BY <1>2 DEF CloseOutput, ProgramInv, TypeOK, setting, sources, outcome, chain
  <2>2. SourcesServeTheProgram'
    BY <1>2 DEF CloseOutput, ProgramInv, SourcesServeTheProgram, sources, outcome, chain
  <2>3. LinesInv'
    BY <1>2 DEF CloseOutput, ProgramInv, LinesInv, sources
  <2> QED
    BY <2>1, <2>2, <2>3 DEF ProgramInv
<1>3. ASSUME NEW how \in Ends, EndProgram(how)
      PROVE  ProgramInv'
  <2>1. TypeOK'
    BY <1>3 DEF EndProgram, ProgramInv, TypeOK, setting, sources, outcome, chain
  <2>2. SourcesServeTheProgram'
    BY <1>3 DEF EndProgram, ProgramInv, SourcesServeTheProgram, sources, outcome, chain
  <2>3. LinesInv'
    BY <1>3 DEF EndProgram, ProgramInv, LinesInv, sources
  <2> QED
    BY <2>1, <2>2, <2>3 DEF ProgramInv
<1> QED
  BY <1>1, <1>2, <1>3 DEF EndAnyhow

LEMMA StartingKeeps ==
  ASSUME ProgramInv, StartProgram \/ StartNothing
  PROVE  ProgramInv'
<1>1. /\ role' = role /\ post' = post /\ action' \in {"image", "record", "size"}
      /\ left' \in 0 .. NumTracks /\ runs' \in 0 .. MaxRuns
      /\ pushed' = FALSE /\ task = "idle"
  <2>1. NumTracks \in Nat \ {0} /\ MaxRuns \in Nat /\ runs \in 0 .. MaxRuns
    BY ProcessAssumption DEF ProgramInv, TypeOK
  <2>2. StartTask
    BY DEF StartProgram, StartNothing
  <2> QED
    BY <2>1, <2>2 DEF StartTask, Actions, setting
<1>2. /\ pid = FALSE /\ open = {} /\ watch = FALSE /\ deferred = FALSE /\ held = {}
      /\ lines = NoLines
  BY <1>1 DEF ProgramInv, TypeOK, SourcesServeTheProgram, LinesInv
<1>3. CASE StartProgram
  <2>1. PICK o \in SUBSET Pipes : Spawned(o, action')
    BY <1>3 DEF StartProgram
  <2>2. /\ process_finished' = FALSE /\ return_status' = 0 /\ toc' \in BOOLEAN
        /\ done' = FALSE
    BY <2>1, StartLeavesAProgram
  <2>3. RestType'
    BY <1>1, <1>3, <2>2, RestHasType DEF StartProgram, RestType
  <2>4. watch' = FALSE /\ deferred' = FALSE /\ task' = "loop" /\ active' = TRUE
    BY <1>2, <1>3 DEF StartProgram
  <2> QED
    BY <1>1, <2>1, <2>3, <2>4, StartedType
<1>4. CASE StartNothing
  <2>1. process_finished' \in BOOLEAN /\ return_status' \in {0, 1} /\ toc' \in BOOLEAN
    BY <1>4, RestHasType DEF StartNothing, RestType
  <2>2. TypeOK'
    BY <1>1, <1>4, <2>1 DEF StartNothing, ProgramInv, TypeOK, sources, program
  <2>3. SourcesServeTheProgram'
    BY <1>2, <1>4 DEF StartNothing, SourcesServeTheProgram, sources, program
  <2>4. LinesInv'
    BY <1>2, <1>4, NoLineIsDone DEF StartNothing, program
  <2> QED
    BY <2>2, <2>3, <2>4 DEF ProgramInv
<1> QED
  BY <1>3, <1>4

LEMMA StoppingKeeps ==
  ASSUME ProgramInv, Cancel \/ PeerFails \/ PeerFinishes
  PROVE  ProgramInv'
<1>1. /\ process_finished \in BOOLEAN /\ return_status \in {0, 1} /\ toc \in BOOLEAN
      /\ done \in BOOLEAN /\ left \in 0 .. NumTracks
  BY RestHasType DEF RestType
<1>2. KeptAtStop \in {0, 1}
  BY <1>1, KeptIsATrack
<1>3. CASE Cancel
  BY <1>1, <1>2, <1>3, TaskStoppedType DEF Cancel
<1>4. CASE PeerFails
  BY <1>1, <1>2, <1>4, TaskStoppedType DEF PeerFails
<1>5. CASE PeerFinishes
  BY <1>1, <1>2, <1>5, CtxFinishedType DEF PeerFinishes
<1> QED
  BY <1>3, <1>4, <1>5

LEMMA ReadingKeeps ==
  ASSUME ProgramInv, NEW c \in Pipes, ReadLine(c) \/ EndOfPipe(c)
  PROVE  ProgramInv'
<1>1. /\ process_finished \in BOOLEAN /\ return_status \in {0, 1} /\ toc \in BOOLEAN
      /\ done \in BOOLEAN /\ left \in 0 .. NumTracks
  BY RestHasType DEF RestType
<1>2. KeptAtStop \in {0, 1}
  BY <1>1, KeptIsATrack
<1>3. CASE EndOfPipe(c)
  <2>1. pid
    BY <1>3 DEF EndOfPipe, ProgramInv, SourcesServeTheProgram
  <2>2. TypeOK'
    BY <1>3 DEF EndOfPipe, ProgramInv, TypeOK, setting, outcome, program, chain
  <2>3. SourcesServeTheProgram'
    BY <1>3, <2>1 DEF EndOfPipe, ProgramInv, TypeOK, SourcesServeTheProgram, outcome, program, chain
  <2>4. LinesInv'
    BY <1>3 DEF EndOfPipe, ProgramInv, LinesInv, program
  <2> QED
    BY <2>2, <2>3, <2>4 DEF ProgramInv
<1>4. CASE ReadLine(c)
  <2>1. CASE Head(lines[c]) \in {"info", "deferred"}
    <3>1. /\ lines' = Unread(c) /\ deferred' = (deferred \/ Head(lines[c]) = "deferred")
          /\ UNCHANGED <<setting, action, process_finished, return_status, toc, runs>>
          /\ UNCHANGED <<sources, held, ended, chain, done>>
          /\ c \in open /\ lines[c] # <<>>
      BY <1>4, <2>1 DEF ReadLine
    <3>2. pid /\ lines \in [Pipes -> Seq(Lines)] /\ deferred \in BOOLEAN
      BY <3>1 DEF ProgramInv, TypeOK, SourcesServeTheProgram
    <3>3. /\ Unread(c) \in [Pipes -> Seq(Lines)]
          /\ \A d \in Pipes : \A i \in 1 .. Len(Unread(c)[d]) :
                \E j \in 1 .. Len(lines[d]) : Unread(c)[d][i] = lines[d][j]
      BY <3>1, <3>2, LinesAfterRead
    <3>4. TypeOK'
      BY <3>1, <3>2, <3>3 DEF ProgramInv, TypeOK, setting, sources, chain
    <3>5. SourcesServeTheProgram'
      BY <3>1, <3>2 DEF ProgramInv, SourcesServeTheProgram, sources, chain
    <3>6. LinesInv'
      BY <3>1, <3>2, <3>3, ZenonT(40) DEF ProgramInv, LinesInv, sources
    <3> QED
      BY <3>4, <3>5, <3>6 DEF ProgramInv
  <2>2. CASE Head(lines[c]) = "error"
    <3>1. /\ TaskStopped("ERR", "child", KeptAtStop, Unread(c))
          /\ UNCHANGED <<left, done>>
          /\ UNCHANGED <<setting, action, process_finished, return_status, toc, runs>>
      BY <1>4, <2>2 DEF ReadLine
    <3> QED
      BY <1>1, <1>2, <3>1, TaskStoppedType
  <2>3. CASE Head(lines[c]) = "done"
    <3>1. /\ CtxFinished(KeptAtStop, Unread(c)) /\ done' = TRUE
          /\ UNCHANGED <<setting, action, process_finished, return_status, toc, runs>>
      BY <1>4, <2>3 DEF ReadLine
    <3> QED
      BY <1>1, <1>2, <3>1, CtxFinishedType
  <2> QED
    BY <1>4, <2>1, <2>2, <2>3 DEF ReadLine
<1> QED
  BY <1>3, <1>4

\* The step that starts another program, or fails to.
LEMMA RespawnKeeps ==
  ASSUME ProgramInv, watch, NEW finished \in BOOLEAN, NEW kept \in {0, 1},
         Respawned(finished, kept), UNCHANGED <<setting, action, runs>>, left' \in 0 .. NumTracks
  PROVE  ProgramInv'
<1>1. task = "loop" /\ active = TRUE
  BY DEF ProgramInv, SourcesServeTheProgram, TypeOK
<1>2. ASSUME NEW o \in SUBSET Pipes, Spawned(o, action), watch' = FALSE, deferred' = FALSE,
             stored' = kept, UNCHANGED <<task, active, pushed, result, error>>
      PROVE  ProgramInv'
  <2>1. /\ process_finished' = FALSE /\ return_status' = 0 /\ toc' \in BOOLEAN /\ done' = FALSE
    BY <1>2, StartLeavesAProgram
  <2>2. RestType'
    BY <1>2, <2>1, RestHasType DEF RestType, setting, ProgramInv, TypeOK
  <2>3. task' = "loop" /\ active' = TRUE
    BY <1>1, <1>2
  <2> QED
    BY <1>2, <2>2, <2>3, StartedType
<1>3. ASSUME process_finished' \in {finished, FALSE}, return_status' = 0, toc' = FALSE,
             TaskStopped("ERR", "start", kept, lines), UNCHANGED done
      PROVE  ProgramInv'
  <2>1. done' \in BOOLEAN
    BY <1>3, RestHasType DEF RestType
  <2> QED
    BY <1>3, <2>1, TaskStoppedType
<1> QED
  BY <1>2, <1>3 DEF Respawned

LEMMA ReapKeeps ==
  ASSUME ProgramInv, Reap
  PROVE  ProgramInv'
<1>1. /\ watch /\ UNCHANGED <<setting, action, runs>>
      /\ done \in BOOLEAN /\ toc \in BOOLEAN /\ stored \in {0, 1} /\ left \in 0 .. NumTracks
  BY RestHasType DEF Reap, RestType
<1>2. KeptTracks(TRUE, 0) \in {0, 1} /\ KeptTracks(TRUE, 1) \in {0, 1}
  BY KeptIsATrack
<1>3. CASE Failed
  <2>1. /\ process_finished' = TRUE /\ return_status' = 1 /\ UNCHANGED <<toc, left, done>>
        /\ TaskStopped("ERR", IF deferred THEN "general" ELSE "none", KeptTracks(TRUE, 1), lines)
    BY <1>3 DEF Failed
  <2>2. (IF deferred THEN "general" ELSE "none")
            \in {"none", "start", "child", "general", "deferred", "peer"}
    OBVIOUS
  <2> QED
    BY <1>1, <1>2, <2>1, <2>2, TaskStoppedType
<1>4. CASE PostAgain
  BY <1>1, <1>4, RespawnKeeps DEF PostAgain
<1>5. CASE NextTrack
  <2>1. left' \in 0 .. NumTracks
    BY <1>1, <1>5, ProcessAssumption DEF NextTrack
  <2> QED
    BY <1>1, <1>2, <1>5, <2>1, RespawnKeeps DEF NextTrack
<1>6. CASE CloseItem
  <2>1. Nothing /\ active' = FALSE
    BY <1>6 DEF CloseItem, Forgotten, Nothing
  <2>2. /\ process_finished' = TRUE /\ return_status' = 0 /\ UNCHANGED <<toc, done>>
        /\ UNCHANGED <<task, left, stored, pushed, result, error>>
    BY <1>6 DEF CloseItem, Finished
  <2>3. RestType'
    BY <1>1, <2>2, RestHasType DEF RestType, setting
  <2>4. TypeOK'
    BY <2>1, <2>2, <2>3, NoLinesAreLines DEF TypeOK, RestType, Nothing, ProgramInv
  <2> QED
    BY <2>1, <2>4, InvWithNothing DEF ProgramInv
<1>7. CASE FinishTask
  <2>1. /\ process_finished' = TRUE /\ return_status' = 0 /\ UNCHANGED <<toc, done>>
        /\ CtxFinished(KeptTracks(TRUE, 0), lines)
    BY <1>7 DEF FinishTask, Finished
  <2> QED
    BY <1>1, <1>2, <2>1, CtxFinishedType
<1> QED
  BY <1>3, <1>4, <1>5, <1>6, <1>7 DEF Reap

LEMMA InitHasProgramInv == Init => ProgramInv
<1> SUFFICES ASSUME Init
             PROVE  ProgramInv
  OBVIOUS
<1>1. TypeOK
  <2>1. left \in 0 .. NumTracks /\ runs \in 0 .. MaxRuns
    BY ProcessAssumption DEF Init
  <2>2. lines \in [Pipes -> Seq(Lines)]
    BY NoLinesAreLines DEF Init
  <2> QED
    BY <2>1, <2>2 DEF Init, TypeOK
<1>2. SourcesServeTheProgram
  BY DEF Init, SourcesServeTheProgram
<1>3. LinesInv
  <2>1. \A c \in Pipes : 1 .. Len(lines[c]) = {}
    BY NoLinesAreLines DEF Init
  <2> QED
    BY <2>1 DEF Init, LinesInv
<1> QED
  BY <1>1, <1>2, <1>3 DEF ProgramInv

LEMMA StutterKeeps ==
  ASSUME ProgramInv, UNCHANGED vars
  PROVE  ProgramInv'
<1>1. TypeOK'
  BY DEF ProgramInv, TypeOK, vars, setting, sources, outcome, program, chain
<1>2. SourcesServeTheProgram'
  BY DEF ProgramInv, SourcesServeTheProgram, vars, sources, outcome, program, chain
<1>3. LinesInv'
  BY DEF ProgramInv, LinesInv, vars, sources, program
<1> QED
  BY <1>1, <1>2, <1>3 DEF ProgramInv

LEMMA NextKeepsProgramInv == ProgramInv /\ [Next]_vars => ProgramInv'
<1> SUFFICES ASSUME ProgramInv, [Next]_vars
             PROVE  ProgramInv'
  OBVIOUS
<1>1. CASE StartProgram \/ StartNothing
  BY <1>1, StartingKeeps
<1>2. CASE Cancel \/ PeerFails \/ PeerFinishes
  BY <1>2, StoppingKeeps
<1>3. CASE \/ \E c \in Pipes, l \in Lines : Write(c, l)
           \/ \E c \in Pipes : CloseOutput(c)
           \/ EndAnyhow
  BY <1>3, TheProgramKeeps
<1>4. CASE ReadSome \/ CloseSome
  BY <1>4, ReadingKeeps DEF ReadSome, CloseSome
<1>5. CASE Reap
  BY <1>5, ReapKeeps
<1>6. CASE Rest \/ UNCHANGED vars
  BY <1>6, StutterKeeps DEF Rest
<1> QED
  BY <1>1, <1>2, <1>3, <1>4, <1>5, <1>6 DEF Next

LEMMA SpecHasProgramInv == Spec => []ProgramInv
BY InitHasProgramInv, NextKeepsProgramInv, PTL DEF Spec

\* Every variable of the plugin, its program and its task has its type.
THEOREM ProcessTypes == Spec => []TypeOK
<1>1. ProgramInv => TypeOK
  BY DEF ProgramInv
<1> QED
  BY <1>1, SpecHasProgramInv, PTL

\* An item at work waits for its program in exactly one way, a stopped one in none.
THEOREM ProgramIsServed == Spec => []SourcesServeTheProgram
<1>1. ProgramInv => SourcesServeTheProgram
  BY DEF ProgramInv
<1> QED
  BY <1>1, SpecHasProgramInv, PTL

-----------------------------------------------------------------------------
(* Success *)

LEMMA SuccessKept ==
  ASSUME "killed" \notin Ends, ProgramInv, SuccessIsEarned, [Next]_vars
  PROVE  SuccessIsEarned'
<1> USE DEF SuccessIsEarned
<1>1. CASE StartProgram \/ StartNothing
  BY <1>1 DEF StartProgram, StartNothing
<1>2. CASE Cancel \/ PeerFails \/ PeerFinishes
  BY <1>2 DEF Cancel, PeerFails, PeerFinishes, TaskStopped, setting
<1>3. CASE \/ \E c \in Pipes, l \in Lines : Write(c, l)
           \/ \E c \in Pipes : CloseOutput(c)
           \/ EndAnyhow
  <2>1. task = "loop"
    BY <1>3 DEF Write, CloseOutput, EndAnyhow, EndProgram, ProgramInv, SourcesServeTheProgram
  <2>2. task' = task
    BY <1>3 DEF Write, CloseOutput, EndAnyhow, EndProgram, chain
  <2> QED
    BY <2>1, <2>2
<1>4. ASSUME NEW c \in Pipes, EndOfPipe(c)
      PROVE  SuccessIsEarned'
  BY <1>4 DEF EndOfPipe, setting, program, chain
<1>5. ASSUME NEW c \in Pipes, ReadLine(c)
      PROVE  SuccessIsEarned'
  <2>1. c \in open /\ lines[c] # <<>> /\ role' = role /\ action' = action
    BY <1>5 DEF ReadLine, setting
  <2>2. task = "loop"
    BY <2>1 DEF ProgramInv, SourcesServeTheProgram
  <2>3. CASE Head(lines[c]) \in {"info", "deferred"}
    BY <1>5, <2>2, <2>3 DEF ReadLine, chain
  <2>4. CASE Head(lines[c]) = "error"
    BY <1>5, <2>4 DEF ReadLine, TaskStopped
  <2>5. CASE Head(lines[c]) = "done"
    <3>1. done' = TRUE
      BY <1>5, <2>5 DEF ReadLine
    <3>2. lines \in [Pipes -> Seq(Lines)]
      BY DEF ProgramInv, TypeOK
    <3>3. lines[c][1] = "done" /\ 1 \in 1 .. Len(lines[c])
      BY <2>1, <2>5, <3>2, LinesAfterRead
    <3>4. action # "image"
      BY <3>3 DEF ProgramInv, LinesInv
    <3> QED
      BY <2>1, <3>1, <3>4
  <2> QED
    BY <1>5, <2>3, <2>4, <2>5 DEF ReadLine
<1>6. CASE Reap
  <2>1. watch /\ ended # "no" /\ role' = role /\ action' = action
    BY <1>6 DEF Reap, setting
  <2>2. task = "loop" /\ ended \in Ends
    BY <2>1 DEF ProgramInv, SourcesServeTheProgram, TypeOK
  <2>3. CASE Failed
    BY <2>3 DEF Failed, TaskStopped
  <2>4. CASE PostAgain \/ NextTrack
    BY <2>2, <2>4 DEF PostAgain, NextTrack, Respawned, TaskStopped
  <2>5. CASE CloseItem
    BY <2>2, <2>5 DEF CloseItem
  <2>6. CASE ExitStatus(ended) = 0 /\ FinishTask
    <3>1. ended = "ok"
      <4>1. Ends \subseteq {"ok", "bad", "killed"}
        BY ProcessAssumption
      <4> QED
        BY <2>2, <2>6, <4>1 DEF ExitStatus
    <3>2. ended' = ended
      <4>1. ItemsStopped(lines)
        BY <2>6 DEF FinishTask, CtxFinished
      <4> QED
        BY <4>1, StopLeavesNothing DEF Nothing
    <3>3. role # "first" /\ pushed' = (KeptTracks(TRUE, 0) > 0)
      BY <2>6 DEF FinishTask, CtxFinished
    <3>4. action = "image" => KeptTracks(TRUE, 0) = 1
      BY <3>3 DEF KeptTracks, TrackIsEarned
    <3>5. action = "image" => pushed' = TRUE
      BY <3>3, <3>4, 1 > 0
    <3>6. action' = "image" => pushed'
      BY <2>1, <3>5, Zenon
    <3> QED
      BY <3>1, <3>2, <3>6
  <2> QED
    BY <1>6, <2>3, <2>4, <2>5, <2>6 DEF Reap
<1>7. CASE Rest \/ UNCHANGED vars
  BY <1>7 DEF Rest, vars, setting, program, chain
<1> QED
  BY <1>1, <1>2, <1>3, <1>4, <1>5, <1>6, <1>7 DEF Next, ReadSome, CloseSome

\* A task whose leader is a program succeeds by the exit status of that program or by the
\* word of its plugin, and an image that was made has reached the session.  The exit
\* status of a program that was killed reads as a success, hence the assumption.
THEOREM SuccessIsAlwaysEarned ==
  ASSUME "killed" \notin Ends
  PROVE  Spec => []SuccessIsEarned
<1>1. Init => SuccessIsEarned
  BY DEF Init, SuccessIsEarned
<1>2. ProgramInv /\ SuccessIsEarned /\ [Next]_vars => SuccessIsEarned'
  BY SuccessKept
<1> QED
  BY <1>1, <1>2, SpecHasProgramInv, PTL DEF Spec
=============================================================================
