------------------------- MODULE RejillaDriveProofs -------------------------
(***************************************************************************)
(* Proofs about RejillaDrive, for any discs, any number of threads and     *)
(* discs moved at any time, except where a theorem says otherwise.         *)
(***************************************************************************)
EXTENDS RejillaDrive, SequenceTheorems, WellFoundedInduction, TLAPS

-----------------------------------------------------------------------------
(* The callbacks that are queued remain callbacks.                         *)

LEMMA MinIsMember ==
  ASSUME NEW I \in SUBSET Nat, I # {}
  PROVE  Min(I) \in I
<1> DEFINE Below == OpToRel(<, Nat)
<1>1. IsWellFoundedOn(Below, Nat)
  BY NatLessThanWellFounded
<1>2. \A y \in Nat, z \in Nat : y < z => <<y, z>> \in Below
  BY SMT DEF OpToRel
<1> HIDE DEF Below
<1>3. PICK x \in I : \A y \in I : <<y, x>> \notin Below
  BY <1>1, WFMin
<1>4. \A y \in I : x =< y
  <2> TAKE y \in I
  <2>1. x \in Nat /\ y \in Nat
    OBVIOUS
  <2>2. ~ (y < x)
    BY <1>2, <1>3, <2>1
  <2> QED
    BY <2>1, <2>2
<1> QED
  BY <1>4 DEF Min

LEMMA RemoveFirstType ==
  ASSUME NEW S, NEW s \in Seq(S), NEW e
  PROVE  RemoveFirst(s, e) \in Seq(S)
<1>1. CASE ~ \E i \in 1 .. Len(s) : s[i] = e
  BY <1>1 DEF RemoveFirst
<1>2. CASE \E i \in 1 .. Len(s) : s[i] = e
  <2> DEFINE I == {i \in 1 .. Len(s) : s[i] = e}
             k == Min(I)
  <2>1. I \in SUBSET Nat /\ I # {}
    BY <1>2
  <2>2. k \in I
    BY <2>1, MinIsMember
  <2>3. RemoveFirst(s, e) = RemoveAt(s, k)
    BY <1>2, <2>1 DEF RemoveFirst, SelectInSeq
  <2>4. k \in 1 .. Len(s)
    BY <2>2
  <2>5. SubSeq(s, 1, k - 1) \in Seq(S)
    <3>1. \A i \in 1 .. k - 1 : s[i] \in S
      BY <2>4
    <3> QED
      BY <2>4, <3>1, SubSeqProperties
  <2>6. SubSeq(s, k + 1, Len(s)) \in Seq(S)
    <3>1. \A i \in k + 1 .. Len(s) : s[i] \in S
      BY <2>4
    <3> QED
      BY <2>4, <3>1, SubSeqProperties
  <2> HIDE DEF k, I
  <2>7. RemoveAt(s, k) \in Seq(S)
    BY <2>5, <2>6 DEF RemoveAt
  <2> QED
    BY <2>3, <2>7
<1> QED
  BY <1>1, <1>2

-----------------------------------------------------------------------------
(* The type invariant.                                                     *)

LEMMA OrphanedType ==
  ASSUME NEW s \in Seq(Callbacks)
  PROVE  Orphaned(s) \in Seq(Callbacks)
<1>1. \A i \in 1 .. Len(s) : Orphaned(s)[i] \in Callbacks
  BY DEF Orphaned, Callbacks
<1>2. Orphaned(s) \in [1 .. Len(s) -> Callbacks]
  BY <1>1 DEF Orphaned
<1> QED
  BY <1>2

LEMMA UpdateMediumType ==
  ASSUME TypeOK, NEW queue \in Seq(Callbacks), UpdateMedium(queue)
  PROVE  /\ medium' \in {"none", "probing", "probed", "known"}
         /\ holds' \in Contents \cup {"busy"}
         /\ idles' \in Seq(Callbacks)
BY RemoveFirstType DEF TypeOK, UpdateMedium, Contents

LEMMA ProbeInsideType ==
  ASSUME TypeOK, NEW to \in {"loop", "join_volume"}, NEW w \in BOOLEAN, ProbeInside(to, w)
  PROVE  /\ pc' \in {"loop", "gone"} \cup Blocked \cup Ejecting
         /\ next' \in {"loop", "join_volume", "gone"}
         /\ at' \in [Threads -> Stages]
         /\ probe' \in BOOLEAN /\ cancelled' \in BOOLEAN /\ waiting' \in BOOLEAN
BY DEF TypeOK, ProbeInside, StartThread, Goes, Stages, Blocked, Ejecting

LEMMA TypeStep ==
  ASSUME DriveAssumption, TypeOK, [Next]_vars
  PROVE  TypeOK'
<1> USE DEF TypeOK, threads, Contents, Callbacks, Ejecting, Blocked, Stages, Goes, Move
<1>0. CASE UNCHANGED vars
  BY <1>0 DEF vars
<1>1. ASSUME NEW t \in Threads, ThreadStep(t)
      PROVE  TypeOK'
  <2>1. CASE Begin(t)
    <3>1. at' \in [Threads -> Stages]
      BY <2>1 DEF Begin
    <3>2. has' \in BOOLEAN /\ gaveUp' \in BOOLEAN
      BY <2>1 DEF Begin
    <3> QED
      BY <2>1, <3>1, <3>2 DEF Begin
  <2>2. CASE Open(t)
    <3>1. at' \in [Threads -> Stages]
      BY <2>2 DEF Open
    <3>2. has' \in BOOLEAN /\ gaveUp' \in BOOLEAN
      BY <2>2 DEF Open
    <3> QED
      BY <2>2, <3>1, <3>2 DEF Open
  <2>3. CASE Test(t)
    <3>1. at' \in [Threads -> Stages]
      BY <2>3 DEF Test
    <3>2. has' \in BOOLEAN /\ gaveUp' \in BOOLEAN
      BY <2>3 DEF Test
    <3> QED
      BY <2>3, <3>1, <3>2 DEF Test
  <2>4. CASE NotReady(t)
    BY <2>4 DEF NotReady
  <2>5. CASE Retry(t)
    BY <2>5 DEF Retry
  <2>6. CASE Caps(t)
    BY <2>6 DEF Caps
  <2>7. CASE End(t)
    <3>1. Append(Orphaned(idles), "tracked") \in Seq(Callbacks)
      BY OrphanedType
    <3>2. /\ medium' \in {"none", "probing", "probed", "known"}
          /\ holds' \in Contents \cup {"busy"}
          /\ idles' \in Seq(Callbacks)
      BY <2>7, <3>1, UpdateMediumType DEF End
    <3> QED
      BY <2>7, <3>2, ZenonT(40) DEF End
  <2> QED
    BY <1>1, <2>1, <2>2, <2>3, <2>4, <2>5, <2>6, <2>7 DEF ThreadStep
<1>2. CASE MediumThread
  BY <1>2 DEF MediumThread
<1>3. CASE Changed
  <2>1. CASE locked \/ pc \in Ejecting
    <3>1. changes' \in Nat
      BY <1>3 DEF Changed
    <3>2. waiting' \in BOOLEAN /\ UNCHANGED <<pc, next, at, probe, cancelled>>
      BY <1>3, <2>1 DEF Changed
    <3> QED
      BY <1>3, <3>1, <3>2 DEF Changed
  <2>2. CASE ~ (locked \/ pc \in Ejecting)
    <3>1. ProbeInside("loop", waiting)
      BY <1>3, <2>2 DEF Changed
    <3> QED
      BY <1>3, <3>1, ProbeInsideType DEF Changed
  <2> QED
    BY <2>1, <2>2
<1>4. CASE ProbedInside
  <2>1. Orphaned(Tail(idles)) \in Seq(Callbacks)
    <3>1. Tail(idles) \in Seq(Callbacks)
      BY <1>4 DEF ProbedInside
    <3> QED
      BY <3>1, OrphanedType
  <2> QED
    BY <1>4, <2>1, UpdateMediumType DEF ProbedInside
<1>5. CASE MediumProbed
  <2>1. Tail(idles) \in Seq(Callbacks)
    BY <1>5 DEF MediumProbed
  <2> QED
    BY <1>5, <2>1 DEF MediumProbed
<1>6. CASE CancelProbing
  BY <1>6 DEF CancelProbing
<1>7. CASE Join
  <2>1. RemoveFirst(idles, "tracked") \in Seq(Callbacks)
    BY RemoveFirstType
  <2> QED
    BY <1>7, <2>1 DEF Join, StartThread
<1>8. CASE Free
  <2>1. RemoveFirst(RemoveFirst(idles, "tracked"), "medium") \in Seq(Callbacks)
    BY RemoveFirstType
  <2> QED
    BY <1>8, <2>1 DEF Free
<1>9. CASE Finalize
  BY <1>9, ZenonT(40) DEF Finalize
<1>10. CASE Lock
  BY <1>10 DEF Lock, DriveAssumption
<1>11. CASE Unlock
  <2>1. CASE waiting
    <3>1. ProbeInside("loop", waiting)
      BY <1>11, <2>1 DEF Unlock
    <3> QED
      BY <1>11, <3>1, ProbeInsideType DEF Unlock
  <2>2. CASE ~waiting
    BY <1>11, <2>2, ZenonT(40) DEF Unlock
  <2> QED
    BY <2>1, <2>2
<1>12. CASE Reprobe
  <2>1. RemoveFirst(idles, "medium") \in Seq(Callbacks)
    BY RemoveFirstType
  <2>2. ProbeInside("loop", FALSE)
    BY <1>12 DEF Reprobe
  <2>3. /\ pc' \in {"loop", "gone"} \cup Blocked \cup Ejecting
        /\ next' \in {"loop", "join_volume", "gone"}
        /\ at' \in [Threads -> Stages]
        /\ probe' \in BOOLEAN /\ cancelled' \in BOOLEAN /\ waiting' \in BOOLEAN
    BY <2>2, ProbeInsideType
  <2>4. moves' \in 0 .. MaxMoves
    BY <1>12 DEF Reprobe, DriveAssumption
  <2> QED
    BY <1>12, <2>1, <2>3, <2>4 DEF Reprobe
<1>13. CASE Eject
  BY <1>13 DEF Eject, DriveAssumption
<1>14. CASE WaitProbing
  BY <1>14 DEF WaitProbing
<1>15. CASE EjectEnds
  <2>1. PICK ok \in BOOLEAN, to \in {"loop", "join_volume"} :
          /\ disc' = IF ok THEN "none" ELSE disc
          /\ changes' = IF disc' # disc THEN changes + 1 ELSE changes
          /\ IF waiting THEN ProbeInside(to, waiting)
                        ELSE pc' = to /\ UNCHANGED <<next, at, probe, cancelled, waiting>>
    BY <1>15 DEF EjectEnds
  <2>2. /\ pc' \in {"loop", "gone"} \cup Blocked \cup Ejecting
        /\ next' \in {"loop", "join_volume", "gone"}
        /\ at' \in [Threads -> Stages]
        /\ probe' \in BOOLEAN /\ cancelled' \in BOOLEAN /\ waiting' \in BOOLEAN
    BY <2>1, ProbeInsideType
  <2> QED
    BY <1>15, <2>1, <2>2 DEF EjectEnds
<1>16. CASE Gone
  BY <1>16 DEF Gone, vars
<1>17. ASSUME NEW d \in Contents, MoveDisc(d)
      PROVE  TypeOK'
  BY <1>17 DEF MoveDisc, DriveAssumption
<1> QED
  BY <1>0, <1>1, <1>2, <1>3, <1>4, <1>5, <1>6, <1>7, <1>8, <1>9, <1>10, <1>11, <1>12, <1>13, <1>14, <1>15, <1>16, <1>17 DEF Next

-----------------------------------------------------------------------------
(* One thread at a time, none when the door opens.                         *)

LEMMA StartOne ==
  ASSUME TypeOK, OneProbe, ~probe, NEW to, to \notin Ejecting \cup {"gone"}, StartThread(to)
  PROVE  OneProbe' /\ DoorIsFree'
<1>1. PICK t \in Threads : at[t] = "none" /\ at' = [at EXCEPT ![t] = "start"]
  BY DEF StartThread, Goes
<1>2. \A u \in Threads : at[u] = "none"
  BY DEF OneProbe
<1>3. \A u \in Threads : at'[u] # "none" <=> u = t
  BY <1>1, <1>2 DEF TypeOK
<1>4. probe' = TRUE /\ pc' = to
  BY DEF StartThread
<1> QED
  BY <1>1, <1>3, <1>4 DEF OneProbe, DoorIsFree

LEMMA ProbeInsideOne ==
  ASSUME TypeOK, OneProbe, NEW to \in {"loop", "join_volume"}, NEW w, ProbeInside(to, w)
  PROVE  OneProbe' /\ DoorIsFree'
<1>1. CASE initial
  BY <1>1 DEF ProbeInside, OneProbe, DoorIsFree, Ejecting
<1>2. CASE ~initial /\ ~probe
  <2>1. StartThread(to)
    BY <1>2 DEF ProbeInside
  <2> QED
    BY <1>2, <2>1, StartOne DEF Ejecting
<1>3. CASE ~initial /\ probe
  BY <1>3 DEF ProbeInside, OneProbe, DoorIsFree, Ejecting
<1> QED
  BY <1>1, <1>2, <1>3 DEF TypeOK

LEMMA ProbeStep ==
  ASSUME DriveAssumption, TypeOK, OneProbe, DoorIsFree, [Next]_vars
  PROVE  OneProbe' /\ DoorIsFree'
<1> USE DEF threads
<1>0. CASE UNCHANGED vars
  BY <1>0 DEF vars, OneProbe, DoorIsFree
<1>1. ASSUME NEW t \in Threads, ThreadStep(t)
      PROVE  OneProbe' /\ DoorIsFree'
  <2>1. at[t] # "none" /\ \A u \in Threads : at[u] # "none" => u = t
    BY <1>1 DEF ThreadStep, Begin, Open, Test, NotReady, Retry, Caps, End, OneProbe
  <2>2. PICK stage \in Stages : at' = [at EXCEPT ![t] = stage] /\ (stage = "none" <=> End(t))
    BY <1>1 DEF ThreadStep, Begin, Open, Test, NotReady, Retry, Caps, End, Goes, Stages
  <2>3. pc' = pc /\ probe' = (IF End(t) THEN FALSE ELSE probe)
    BY <1>1 DEF ThreadStep, Begin, Open, Test, NotReady, Retry, Caps, End
  <2>4. \A u \in Threads : at'[u] = IF u = t THEN stage ELSE "none"
    BY <2>1, <2>2 DEF TypeOK
  <2> QED
    BY <2>1, <2>2, <2>3, <2>4 DEF OneProbe, DoorIsFree
<1>2. CASE MediumThread
  BY <1>2 DEF MediumThread, OneProbe, DoorIsFree, Ejecting
<1>3. CASE Changed
  <2>1. CASE locked \/ pc \in Ejecting
    BY <1>3, <2>1 DEF Changed, OneProbe, DoorIsFree
  <2>2. CASE ~ (locked \/ pc \in Ejecting)
    <3>1. ProbeInside("loop", waiting)
      BY <1>3, <2>2 DEF Changed
    <3> QED
      BY <3>1, ProbeInsideOne
  <2> QED
    BY <2>1, <2>2
<1>4. CASE ProbedInside
  BY <1>4 DEF ProbedInside, OneProbe, DoorIsFree, Ejecting
<1>5. CASE MediumProbed
  BY <1>5 DEF MediumProbed, OneProbe, DoorIsFree, Ejecting
<1>6. CASE CancelProbing
  BY <1>6 DEF CancelProbing, OneProbe, DoorIsFree, Ejecting
<1>7. CASE Join
  <2>1. StartThread(next) /\ ~probe
    BY <1>7 DEF Join
  <2>2. next \notin Ejecting \cup {"gone"}
    BY <1>7 DEF Join, TypeOK, Ejecting
  <2> QED
    BY <2>1, <2>2, StartOne
<1>8. CASE Free
  BY <1>8 DEF Free, OneProbe, DoorIsFree, Ejecting
<1>9. CASE Finalize
  BY <1>9 DEF Finalize, OneProbe, DoorIsFree, Ejecting
<1>10. CASE Lock
  BY <1>10 DEF Lock, OneProbe, DoorIsFree, Ejecting
<1>11. CASE Unlock
  <2>1. CASE waiting
    <3>1. ProbeInside("loop", waiting)
      BY <1>11, <2>1 DEF Unlock
    <3> QED
      BY <3>1, ProbeInsideOne
  <2>2. CASE ~waiting
    BY <1>11, <2>2 DEF Unlock, OneProbe, DoorIsFree
  <2> QED
    BY <2>1, <2>2
<1>12. CASE Reprobe
  <2>1. ProbeInside("loop", FALSE)
    BY <1>12 DEF Reprobe
  <2> QED
    BY <2>1, ProbeInsideOne
<1>13. CASE Eject
  BY <1>13 DEF Eject, OneProbe, DoorIsFree, Ejecting
<1>14. CASE WaitProbing
  BY <1>14 DEF WaitProbing, OneProbe, DoorIsFree, Ejecting
<1>15. CASE EjectEnds
  <2>1. PICK to \in {"loop", "join_volume"} :
          IF waiting THEN ProbeInside(to, waiting)
                     ELSE pc' = to /\ UNCHANGED <<next, at, probe, cancelled, waiting>>
    BY <1>15 DEF EjectEnds
  <2>2. CASE waiting
    BY <2>1, <2>2, ProbeInsideOne
  <2>3. CASE ~waiting
    BY <2>1, <2>3 DEF OneProbe, DoorIsFree, Ejecting
  <2> QED
    BY <2>2, <2>3
<1>16. CASE Gone
  BY <1>16 DEF Gone, OneProbe, DoorIsFree, Ejecting, vars
<1>17. ASSUME NEW d \in Contents, MoveDisc(d)
      PROVE  OneProbe' /\ DoorIsFree'
  BY <1>17 DEF MoveDisc, OneProbe, DoorIsFree, Ejecting
<1> QED
  BY <1>0, <1>1, <1>2, <1>3, <1>4, <1>5, <1>6, <1>7, <1>8, <1>9, <1>10, <1>11, <1>12, <1>13, <1>14, <1>15, <1>16, <1>17 DEF Next

-----------------------------------------------------------------------------
(* No change of the disc is forgotten.                                     *)

Early == {"start", "open", "test", "wait"}

HasMedium(queue) == \E i \in 1 .. Len(queue) : queue[i] = "medium"
OneMedium(queue) ==
    \A i, j \in 1 .. Len(queue) : queue[i] = "medium" /\ queue[j] = "medium" => i = j

\* The initial probe sees a drive nobody has touched, a probe waits only where
\* somebody will ask for it, a thread is told to stop only by somebody who
\* waits for it, and starts without a disc.
WaitsInv ==
    /\ initial => probe /\ changes = 0 /\ ~waiting /\ medium = "none" /\ idles = <<>>
    /\ waiting => locked \/ pc \in Ejecting
    /\ cancelled => pc \in {"join", "gone"}
    /\ \A t \in Threads : at[t] \in {"open", "test", "wait"} => ~has

\* A medium whose thread has ended has one callback queued, no other has any.
MediumInv == OneMedium(idles) /\ (HasMedium(idles) <=> medium = "probed")

\* The drive will be looked at again, or did not answer.
ToCome ==
    \/ changes > 0 \/ waiting \/ gaveUp \/ pc \in {"cancel", "join", "gone"}
    \/ \E t \in Threads : at[t] \in Early

\* The medium is right, and its own callback will not make it wrong.
Settled ==
    IF disc = "none" THEN medium = "none"
    ELSE medium \in {"probing", "known"} \/ (medium = "probed" /\ holds # "none")

\* A callback will set the medium right, after the one that drops a medium that
\* was probed without its disc.
Updating(i) ==
    /\ i \in 1 .. Len(idles) /\ idles[i] \in {"tracked", "orphan"}
    /\ disc # "none" /\ medium = "probed" /\ holds = "none" =>
         \A j \in i + 1 .. Len(idles) : idles[j] # "medium"

\* A drive that will not be looked at again was looked at after the last
\* change, and what was seen is, or will be, what the medium says.
Seen ==
    /\ has <=> disc # "none"
    /\ (\E t \in Threads : at[t] # "none") \/ (\E i \in Nat : Updating(i)) \/ Settled

SeenInv == ~ToCome => Seen

SightInv == WaitsInv /\ MediumInv /\ SeenInv

LEMMA RemoveFirstIs ==
  ASSUME NEW S, NEW s \in Seq(S), NEW e, NEW n \in 1 .. Len(s), s[n] = e
  PROVE  \E k \in 1 .. Len(s) :
           /\ s[k] = e
           /\ Len(RemoveFirst(s, e)) = Len(s) - 1
           /\ \A i \in 1 .. Len(s) - 1 :
                RemoveFirst(s, e)[i] = IF i < k THEN s[i] ELSE s[i + 1]
<1> DEFINE I == {i \in 1 .. Len(s) : s[i] = e}
           k == Min(I)
           a == SubSeq(s, 1, k - 1)
           b == SubSeq(s, k + 1, Len(s))
<1>1. k \in I
  <2>1. I \in SUBSET Nat /\ I # {}
    OBVIOUS
  <2> QED
    BY <2>1, MinIsMember
<1>2. RemoveFirst(s, e) = a \o b
  <2>1. I # {} /\ \E i \in 1 .. Len(s) : s[i] = e
    OBVIOUS
  <2>2. RemoveFirst(s, e) = RemoveAt(s, k)
    BY <2>1 DEF RemoveFirst, SelectInSeq
  <2> QED
    BY <2>2 DEF RemoveAt
<1>3. k \in 1 .. Len(s) /\ s[k] = e /\ Len(s) \in Nat
  BY <1>1
<1> HIDE DEF k, I
<1>4. a \in Seq(S) /\ Len(a) = k - 1 /\ \A i \in 1 .. k - 1 : a[i] = s[i]
  <2>1. \A i \in 1 .. k - 1 : s[i] \in S
    BY <1>3
  <2> QED
    BY <1>3, <2>1, SubSeqProperties
<1>5. b \in Seq(S) /\ Len(b) = Len(s) - k /\ \A i \in 1 .. Len(s) - k : b[i] = s[k + i]
  <2>1. \A i \in k + 1 .. Len(s) : s[i] \in S
    BY <1>3
  <2> QED
    BY <1>3, <2>1, SubSeqProperties
<1> HIDE DEF a, b
<1>6. Len(a \o b) = Len(s) - 1
  BY <1>3, <1>4, <1>5
<1>7. ASSUME NEW i \in 1 .. Len(s) - 1
      PROVE  (a \o b)[i] = IF i < k THEN s[i] ELSE s[i + 1]
  <2>1. CASE i < k
    BY <1>3, <1>4, <1>5, <2>1
  <2>2. CASE ~(i < k)
    <3>1. i - (k - 1) \in 1 .. Len(s) - k /\ k + (i - (k - 1)) = i + 1
      BY <1>3, <2>2
    <3>2. (a \o b)[i] = b[i - (k - 1)]
      BY <1>3, <1>4, <1>5, <2>2
    <3>3. b[i - (k - 1)] = s[k + (i - (k - 1))]
      BY <1>5, <3>1
    <3> QED
      BY <2>2, <3>1, <3>2, <3>3
  <2> QED
    BY <2>1, <2>2
<1> QED
  BY <1>2, <1>3, <1>6, <1>7

LEMMA DropMedium ==
  ASSUME NEW queue \in Seq(Callbacks), OneMedium(queue)
  PROVE  ~HasMedium(RemoveFirst(queue, "medium"))
<1>1. CASE ~HasMedium(queue)
  BY <1>1 DEF HasMedium, RemoveFirst
<1>2. CASE HasMedium(queue)
  <2>1. PICK k \in 1 .. Len(queue) :
          /\ queue[k] = "medium"
          /\ Len(RemoveFirst(queue, "medium")) = Len(queue) - 1
          /\ \A i \in 1 .. Len(queue) - 1 :
               RemoveFirst(queue, "medium")[i] = IF i < k THEN queue[i] ELSE queue[i + 1]
    BY <1>2, RemoveFirstIs DEF HasMedium
  <2>2. \A j \in 1 .. Len(queue) : queue[j] = "medium" => j = k
    BY <2>1 DEF OneMedium
  <2> QED
    BY <2>1, <2>2 DEF HasMedium
<1> QED
  BY <1>1, <1>2

LEMMA DropTracked ==
  ASSUME NEW queue \in Seq(Callbacks), OneMedium(queue)
  PROVE  /\ OneMedium(RemoveFirst(queue, "tracked"))
         /\ HasMedium(RemoveFirst(queue, "tracked")) <=> HasMedium(queue)
<1>1. CASE ~\E n \in 1 .. Len(queue) : queue[n] = "tracked"
  BY <1>1 DEF RemoveFirst
<1>2. CASE \E n \in 1 .. Len(queue) : queue[n] = "tracked"
  <2> DEFINE r == RemoveFirst(queue, "tracked")
  <2>1. PICK k \in 1 .. Len(queue) :
          /\ queue[k] = "tracked" /\ Len(r) = Len(queue) - 1
          /\ \A i \in 1 .. Len(queue) - 1 : r[i] = IF i < k THEN queue[i] ELSE queue[i + 1]
    BY <1>2, RemoveFirstIs
  <2> HIDE DEF r
  <2>2. OneMedium(r)
    BY <2>1 DEF OneMedium
  <2>3. HasMedium(r) => HasMedium(queue)
    BY <2>1 DEF HasMedium
  <2>4. HasMedium(queue) => HasMedium(r)
    <3> SUFFICES ASSUME NEW i \in 1 .. Len(queue), queue[i] = "medium"
                 PROVE  \E j \in 1 .. Len(r) : r[j] = "medium"
      BY DEF HasMedium
    <3>1. i # k
      BY <2>1
    <3>2. CASE i < k
      <4>1. i \in 1 .. Len(r) /\ r[i] = "medium"
        BY <2>1, <3>2
      <4> QED
        BY <4>1
    <3>3. CASE i > k
      <4>1. i - 1 \in 1 .. Len(queue) - 1 /\ ~(i - 1 < k) /\ (i - 1) + 1 = i
        BY <3>3
      <4>2. i - 1 \in 1 .. Len(r) /\ r[i - 1] = "medium"
        BY <2>1, <4>1
      <4> QED
        BY <4>2
    <3> QED
      BY <3>1, <3>2, <3>3
  <2> QED
    BY <2>2, <2>3, <2>4 DEF r
<1> QED
  BY <1>1, <1>2

LEMMA OrphanedIs ==
  ASSUME NEW queue \in Seq(Callbacks)
  PROVE  /\ Orphaned(queue) \in Seq(Callbacks) /\ Len(Orphaned(queue)) = Len(queue)
         /\ \A i \in 1 .. Len(queue) :
              /\ Orphaned(queue)[i] = "medium" <=> queue[i] = "medium"
              /\ Orphaned(queue)[i] \in {"tracked", "orphan"} <=> queue[i] \in {"tracked", "orphan"}
<1>1. \A i \in 1 .. Len(queue) : Orphaned(queue)[i] = IF queue[i] = "tracked" THEN "orphan" ELSE queue[i]
  BY DEF Orphaned
<1>2. Len(Orphaned(queue)) = Len(queue)
  BY DEF Orphaned
<1> QED
  BY <1>1, <1>2, OrphanedType

LEMMA TailIs ==
  ASSUME NEW queue \in Seq(Callbacks), queue # <<>>
  PROVE  /\ Tail(queue) \in Seq(Callbacks) /\ Len(Tail(queue)) = Len(queue) - 1
         /\ Head(queue) = queue[1] /\ Len(queue) \in Nat \ {0}
         /\ \A i \in 1 .. Len(queue) - 1 : Tail(queue)[i] = queue[i + 1]
OBVIOUS

\* what is left of the queue when its first callback is not the medium's
LEMMA RestIs ==
  ASSUME NEW queue \in Seq(Callbacks), queue # <<>>, Head(queue) # "medium", OneMedium(queue)
  PROVE  /\ OneMedium(Orphaned(Tail(queue)))
         /\ HasMedium(Orphaned(Tail(queue))) <=> HasMedium(queue)
<1> DEFINE rest == Orphaned(Tail(queue))
<1>1. /\ Len(rest) = Len(queue) - 1 /\ Len(queue) \in Nat \ {0} /\ queue[1] # "medium"
      /\ \A i \in 1 .. Len(queue) - 1 : rest[i] = "medium" <=> queue[i + 1] = "medium"
  <2>1. /\ Tail(queue) \in Seq(Callbacks) /\ Len(Tail(queue)) = Len(queue) - 1
        /\ Head(queue) = queue[1] /\ Len(queue) \in Nat \ {0}
        /\ \A i \in 1 .. Len(queue) - 1 : Tail(queue)[i] = queue[i + 1]
    BY TailIs
  <2>2. /\ Len(rest) = Len(Tail(queue))
        /\ \A i \in 1 .. Len(Tail(queue)) : rest[i] = "medium" <=> Tail(queue)[i] = "medium"
    BY <2>1, OrphanedIs
  <2> HIDE DEF rest
  <2> QED
    BY <2>1, <2>2
<1> HIDE DEF rest
<1>2. OneMedium(rest)
  BY <1>1 DEF OneMedium
<1>3. HasMedium(rest) => HasMedium(queue)
  BY <1>1 DEF HasMedium
<1>4. ASSUME NEW i \in 1 .. Len(queue), queue[i] = "medium"
      PROVE  HasMedium(rest)
  <2>1. i - 1 \in 1 .. Len(queue) - 1 /\ (i - 1) + 1 = i
    BY <1>1, <1>4
  <2> QED
    BY <1>1, <1>4, <2>1 DEF HasMedium
<1> QED
  BY <1>2, <1>3, <1>4 DEF HasMedium, rest

LEMMA UpdateMediumKeeps ==
  ASSUME TypeOK, NEW queue \in Seq(Callbacks), OneMedium(queue),
         HasMedium(queue) <=> medium = "probed", UpdateMedium(queue)
  PROVE  MediumInv'
<1>1. CASE has
  BY <1>1 DEF UpdateMedium, MediumInv, OneMedium, HasMedium
<1>2. CASE ~has
  <2>1. idles' = RemoveFirst(queue, "medium") /\ medium' = "none"
    BY <1>2 DEF UpdateMedium
  <2>2. ~HasMedium(idles')
    BY <2>1, DropMedium
  <2> QED
    BY <2>1, <2>2 DEF MediumInv, HasMedium, OneMedium
<1> QED
  BY <1>1, <1>2

LEMMA ProbeInsideWaits ==
  ASSUME TypeOK, WaitsInv, ~initial, pc \notin {"join", "gone"}, NEW to, NEW w, ProbeInside(to, w),
         UNCHANGED <<initial, has>>
  PROVE  WaitsInv' /\ ToCome'
<1>1. CASE probe
  <2>1. pc' = "cancel" /\ waiting' = FALSE /\ UNCHANGED <<at, probe, cancelled>>
    BY <1>1 DEF ProbeInside
  <2> QED
    BY <2>1 DEF WaitsInv, ToCome
<1>2. CASE ~probe
  <2>1. StartThread(to)
    BY <1>2 DEF ProbeInside
  <2>2. PICK t \in Threads : at' = [at EXCEPT ![t] = "start"]
    BY <2>1 DEF StartThread, Goes
  <2>3. cancelled' = FALSE /\ waiting' = FALSE
    BY <2>1 DEF StartThread
  <2>4. at'[t] = "start" /\ \A u \in Threads : u # t => at'[u] = at[u]
    BY <2>2 DEF TypeOK
  <2> QED
    BY <2>3, <2>4 DEF WaitsInv, ToCome, Early
<1> QED
  BY <1>1, <1>2

LEMMA WaitsStep ==
  ASSUME EarlyMoves = FALSE, TypeOK, OneProbe, DoorIsFree, WaitsInv, [Next]_vars
  PROVE  WaitsInv'
<1> USE DEF threads
<1>0. CASE UNCHANGED vars
  BY <1>0 DEF vars, WaitsInv
<1>1. ASSUME NEW t \in Threads, ThreadStep(t)
      PROVE  WaitsInv'
  <2>1. at[t] # "none" /\ \A u \in Threads : at[u] # "none" => u = t
    BY <1>1 DEF ThreadStep, Begin, Open, Test, NotReady, Retry, Caps, End, OneProbe
  <2>2. UNCHANGED <<waiting, locked, pc, cancelled, changes>>
    BY <1>1 DEF ThreadStep, Begin, Open, Test, NotReady, Retry, Caps, End
  <2>3. \A u \in Threads : u # t => at'[u] = "none"
    BY <1>1, <2>1 DEF ThreadStep, Begin, Open, Test, NotReady, Retry, Caps, End, Goes, TypeOK
  <2>4. at'[t] \in {"open", "test", "wait"} => ~has'
    BY <1>1 DEF ThreadStep, Begin, Open, Test, NotReady, Retry, Caps, End, Goes, TypeOK, WaitsInv
  <2>5. CASE End(t)
    BY <2>2, <2>3, <2>4, <2>5 DEF End, WaitsInv
  <2>6. CASE ~End(t)
    <3>1. UNCHANGED <<probe, initial, medium, idles>>
      BY <1>1, <2>6 DEF ThreadStep, Begin, Open, Test, NotReady, Retry, Caps
    <3> QED
      BY <2>2, <2>3, <2>4, <3>1 DEF WaitsInv
  <2> QED
    BY <2>5, <2>6
<1>2. CASE MediumThread
  BY <1>2 DEF MediumThread, WaitsInv
<1>3. CASE Changed
  <2>1. ~initial /\ pc \notin {"join", "gone"}
    BY <1>3 DEF Changed, WaitsInv, TypeOK, InLoop, Ejecting
  <2>2. CASE locked \/ pc \in Ejecting
    BY <1>3, <2>1, <2>2 DEF Changed, WaitsInv
  <2>3. CASE ~ (locked \/ pc \in Ejecting)
    <3>1. ProbeInside("loop", waiting) /\ UNCHANGED <<initial, has>>
      BY <1>3, <2>3 DEF Changed
    <3> QED
      BY <2>1, <3>1, ProbeInsideWaits
  <2> QED
    BY <2>2, <2>3
<1>4. CASE ProbedInside
  BY <1>4 DEF ProbedInside, WaitsInv
<1>5. CASE MediumProbed
  BY <1>5 DEF MediumProbed, WaitsInv
<1>6. CASE CancelProbing
  BY <1>6 DEF CancelProbing, WaitsInv, Ejecting
<1>7. CASE Join
  <2>1. PICK t \in Threads : at' = [at EXCEPT ![t] = "start"]
    BY <1>7 DEF Join, StartThread, Goes
  <2>2. at'[t] = "start" /\ \A u \in Threads : u # t => at'[u] = at[u]
    BY <2>1 DEF TypeOK
  <2>3. cancelled' = FALSE /\ waiting' = FALSE /\ ~initial' /\ has' = has
    BY <1>7 DEF Join, StartThread, WaitsInv
  <2> QED
    BY <2>2, <2>3 DEF WaitsInv
<1>8. CASE Free
  BY <1>8 DEF Free, WaitsInv, Ejecting
<1>9. CASE Finalize
  BY <1>9 DEF Finalize, WaitsInv
<1>10. CASE Lock
  BY <1>10 DEF Lock, WaitsInv
<1>11. CASE Unlock
  <2>1. CASE waiting
    <3>1. ProbeInside("loop", waiting) /\ UNCHANGED <<initial, has>> /\ pc = "loop" /\ ~initial
      BY <1>11, <2>1 DEF Unlock, WaitsInv
    <3> QED
      BY <3>1, ProbeInsideWaits
  <2>2. CASE ~waiting
    BY <1>11, <2>2 DEF Unlock, WaitsInv
  <2> QED
    BY <2>1, <2>2
<1>12. CASE Reprobe
  <2>1. ProbeInside("loop", FALSE) /\ UNCHANGED <<initial, has>> /\ pc = "loop" /\ ~initial
    BY <1>12 DEF Reprobe
  <2> QED
    BY <2>1, ProbeInsideWaits
<1>13. CASE Eject
  BY <1>13 DEF Eject, WaitsInv, Ejecting
<1>14. CASE WaitProbing
  BY <1>14 DEF WaitProbing, WaitsInv, Ejecting
<1>15. CASE EjectEnds
  <2>1. PICK to \in {"loop", "join_volume"} :
          IF waiting THEN ProbeInside(to, waiting)
                     ELSE pc' = to /\ UNCHANGED <<next, at, probe, cancelled, waiting>>
    BY <1>15 DEF EjectEnds
  <2>2. ~initial /\ pc \notin {"join", "gone"} /\ UNCHANGED <<initial, has>>
    BY <1>15 DEF EjectEnds, WaitsInv, OneProbe, DoorIsFree, Ejecting
  <2>3. CASE waiting
    BY <2>1, <2>2, <2>3, ProbeInsideWaits
  <2>4. CASE ~waiting
    BY <2>1, <2>2, <2>4 DEF WaitsInv
  <2> QED
    BY <2>3, <2>4
<1>16. CASE Gone
  BY <1>16 DEF Gone, vars, WaitsInv
<1>17. ASSUME NEW d \in Contents, MoveDisc(d)
       PROVE  WaitsInv'
  BY <1>17 DEF MoveDisc, WaitsInv
<1> QED
  BY <1>0, <1>1, <1>2, <1>3, <1>4, <1>5, <1>6, <1>7, <1>8, <1>9, <1>10, <1>11, <1>12, <1>13, <1>14, <1>15, <1>16, <1>17 DEF Next

LEMMA MediumStep ==
  ASSUME TypeOK, MediumInv, [Next]_vars
  PROVE  MediumInv'
<1> USE DEF threads
<1>1. CASE UNCHANGED <<idles, medium>>
  BY <1>1 DEF MediumInv, OneMedium, HasMedium
<1>2. ASSUME NEW t \in Threads, End(t)
      PROVE  MediumInv'
  <2>1. CASE initial
    BY <1>2, <2>1, UpdateMediumKeeps DEF End, TypeOK, MediumInv
  <2>2. CASE ~initial /\ cancelled
    BY <1>1, <1>2, <2>2 DEF End
  <2>3. CASE ~initial /\ ~cancelled
    <3>1. /\ Orphaned(idles) \in Seq(Callbacks) /\ Len(Orphaned(idles)) = Len(idles)
          /\ \A i \in 1 .. Len(idles) : Orphaned(idles)[i] = "medium" <=> idles[i] = "medium"
      BY OrphanedIs DEF TypeOK
    <3>2. idles' = Append(Orphaned(idles), "tracked") /\ medium' = medium
      BY <1>2, <2>3 DEF End
    <3>3. /\ Len(idles') = Len(idles) + 1 /\ idles'[Len(idles) + 1] = "tracked"
          /\ \A i \in 1 .. Len(idles) : idles'[i] = Orphaned(idles)[i]
      BY <3>1, <3>2
    <3>4. Len(idles) \in Nat
      BY DEF TypeOK
    <3>5. \A i \in 1 .. Len(idles') : idles'[i] = "medium" => i \in 1 .. Len(idles) /\ idles[i] = "medium"
      BY <3>1, <3>3, <3>4
    <3>6. \A i \in 1 .. Len(idles) : idles[i] = "medium" => i \in 1 .. Len(idles') /\ idles'[i] = "medium"
      BY <3>1, <3>3, <3>4
    <3> QED
      BY <3>2, <3>5, <3>6 DEF MediumInv, OneMedium, HasMedium
  <2> QED
    BY <2>1, <2>2, <2>3 DEF TypeOK
<1>3. CASE MediumThread
  <2>1. Len(idles) \in Nat /\ idles' = Append(idles, "medium") /\ medium = "probing" /\ medium' = "probed"
    BY <1>3 DEF MediumThread, TypeOK
  <2>2. /\ Len(idles') = Len(idles) + 1 /\ idles'[Len(idles) + 1] = "medium"
        /\ \A i \in 1 .. Len(idles) : idles'[i] = idles[i]
    BY <2>1 DEF TypeOK
  <2>3. \A i \in 1 .. Len(idles) : idles[i] # "medium"
    BY <2>1 DEF MediumInv, HasMedium
  <2> QED
    BY <2>1, <2>2, <2>3 DEF MediumInv, OneMedium, HasMedium
<1>4. CASE ProbedInside
  <2>1. /\ OneMedium(Orphaned(Tail(idles)))
        /\ HasMedium(Orphaned(Tail(idles))) <=> HasMedium(idles)
    BY <1>4, RestIs DEF ProbedInside, TypeOK, MediumInv
  <2>2. Orphaned(Tail(idles)) \in Seq(Callbacks)
    BY <1>4, TailIs, OrphanedIs DEF ProbedInside, TypeOK
  <2> QED
    BY <1>4, <2>1, <2>2, UpdateMediumKeeps DEF ProbedInside, MediumInv
<1>5. CASE MediumProbed
  <2>1. /\ idles' = Tail(idles) /\ medium' \in {"none", "known"} /\ idles[1] = "medium"
        /\ Len(idles) \in Nat \ {0} /\ Len(idles') = Len(idles) - 1
        /\ \A i \in 1 .. Len(idles) - 1 : idles'[i] = idles[i + 1]
    BY <1>5, TailIs DEF MediumProbed, TypeOK
  <2>2. \A i \in 1 .. Len(idles') : idles'[i] # "medium"
    BY <2>1 DEF MediumInv, OneMedium
  <2> QED
    BY <2>1, <2>2 DEF MediumInv, OneMedium, HasMedium
<1>6. CASE Join
  BY <1>6, DropTracked DEF Join, TypeOK, MediumInv
<1>7. CASE Free
  <2>1. OneMedium(RemoveFirst(idles, "tracked")) /\ RemoveFirst(idles, "tracked") \in Seq(Callbacks)
    BY DropTracked, RemoveFirstType DEF MediumInv, TypeOK
  <2>2. ~HasMedium(idles') /\ medium' = "none"
    BY <1>7, <2>1, DropMedium DEF Free
  <2> QED
    BY <2>2 DEF MediumInv, HasMedium, OneMedium
<1>8. CASE Reprobe
  <2>1. ~HasMedium(idles') /\ medium' = "none"
    BY <1>8, DropMedium DEF Reprobe, MediumInv, TypeOK
  <2> QED
    BY <2>1 DEF MediumInv, HasMedium, OneMedium
<1>9. ASSUME NEW t \in Threads, ThreadStep(t) PROVE UNCHANGED <<idles, medium>> \/ End(t)
  BY <1>9 DEF ThreadStep, Begin, Open, Test, NotReady, Retry, Caps
<1>10. CASE Changed \/ CancelProbing \/ Finalize \/ Lock \/ Unlock \/ Eject \/ WaitProbing \/ EjectEnds
  <2>1. UNCHANGED <<idles, medium>>
    BY <1>10 DEF Changed, CancelProbing, Finalize, Lock, Unlock, Eject, WaitProbing, EjectEnds
  <2> QED
    BY <1>1, <2>1
<1>11. ASSUME NEW d \in Contents, MoveDisc(d)
       PROVE  MediumInv'
  BY <1>1, <1>11 DEF MoveDisc
<1>12. CASE UNCHANGED vars \/ Gone
  BY <1>1, <1>12 DEF vars, Gone
<1> QED
  BY <1>1, <1>2, <1>3, <1>4, <1>5, <1>6, <1>7, <1>8, <1>9, <1>10, <1>11, <1>12 DEF Next

LEMMA SameSeen ==
  ASSUME SeenInv, pc \notin {"cancel", "join", "gone"},
         UNCHANGED <<disc, changes, at, has, gaveUp, idles, waiting, medium, holds>>
  PROVE  SeenInv'
<1>1. ToCome => ToCome'
  BY DEF ToCome
<1>2. Seen => Seen'
  BY DEF Seen, Updating, Settled
<1> QED
  BY <1>1, <1>2 DEF SeenInv

\* A callback that is not the first of the queue moves one place up.
LEMMA NextUpdates ==
  ASSUME TypeOK, idles # <<>>, NEW i \in Nat, i # 1, Updating(i),
         idles' \in {Tail(idles), Orphaned(Tail(idles))},
         UNCHANGED <<disc, holds>>, medium' = "probed" => medium = "probed"
  PROVE  Updating(i - 1)'
<1>1. /\ Tail(idles) \in Seq(Callbacks) /\ Len(Tail(idles)) = Len(idles) - 1
      /\ Len(idles) \in Nat \ {0}
      /\ \A j \in 1 .. Len(idles) - 1 : Tail(idles)[j] = idles[j + 1]
  BY TailIs DEF TypeOK
<1>2. /\ Len(idles') = Len(idles) - 1
      /\ \A j \in 1 .. Len(idles) - 1 :
           /\ idles'[j] = "medium" <=> idles[j + 1] = "medium"
           /\ idles'[j] \in {"tracked", "orphan"} <=> idles[j + 1] \in {"tracked", "orphan"}
  <2>1. CASE idles' = Tail(idles)
    BY <1>1, <2>1
  <2>2. CASE idles' = Orphaned(Tail(idles))
    <3>1. /\ Len(idles') = Len(Tail(idles))
          /\ \A j \in 1 .. Len(Tail(idles)) :
               /\ idles'[j] = "medium" <=> Tail(idles)[j] = "medium"
               /\ idles'[j] \in {"tracked", "orphan"} <=> Tail(idles)[j] \in {"tracked", "orphan"}
      BY <1>1, <2>2, OrphanedIs
    <3> QED
      BY <1>1, <3>1
  <2> QED
    BY <2>1, <2>2
<1>3. i - 1 \in 1 .. Len(idles) - 1 /\ (i - 1) + 1 = i
  BY <1>1 DEF Updating
<1>4. idles'[i - 1] \in {"tracked", "orphan"}
  BY <1>2, <1>3 DEF Updating
<1>5. ASSUME disc # "none", medium = "probed", holds = "none", NEW j \in i .. Len(idles) - 1
      PROVE  idles'[j] # "medium"
  <2>1. j \in 1 .. Len(idles) - 1 /\ j + 1 \in i + 1 .. Len(idles)
    BY <1>1, <1>3
  <2>2. idles[j + 1] # "medium"
    BY <1>5, <2>1 DEF Updating
  <2> QED
    BY <1>2, <2>1, <2>2
<1> QED
  BY <1>2, <1>3, <1>4, <1>5 DEF Updating

LEMMA EndSeen ==
  ASSUME TypeOK, OneProbe, WaitsInv, MediumInv, SeenInv, NEW t \in Threads, End(t), ~ToCome'
  PROVE  Seen'
<1> USE DEF threads
<1>1. /\ at[t] = "end" /\ \A u \in Threads : at[u] # "none" => u = t
  BY DEF End, OneProbe
<1>2. UNCHANGED <<disc, changes, waiting, gaveUp, pc, has, cancelled>>
  BY DEF End
<1>3. ~ToCome
  BY <1>1, <1>2 DEF ToCome, Early
<1>4. has <=> disc # "none"
  BY <1>3 DEF SeenInv, Seen
<1>5. CASE initial
  <2>1. medium = "none" /\ UpdateMedium(idles)
    BY <1>5 DEF End, WaitsInv
  <2>2. IF has THEN medium' = "probing" ELSE medium' = "none"
    BY <2>1 DEF UpdateMedium
  <2> QED
    BY <1>2, <1>4, <2>2 DEF Seen, Settled
<1>6. CASE ~initial
  <2>1. ~cancelled
    BY <1>3 DEF WaitsInv, ToCome
  <2>2. idles' = Append(Orphaned(idles), "tracked")
    BY <1>6, <2>1 DEF End
  <2>3. Orphaned(idles) \in Seq(Callbacks)
    BY OrphanedType DEF TypeOK
  <2>4. PICK n \in Nat : n = Len(idles') /\ n >= 1 /\ idles'[n] = "tracked"
    <3>1. /\ Len(idles') \in Nat /\ Len(idles') >= 1 /\ idles'[Len(idles')] = "tracked"
      BY <2>2, <2>3
    <3> QED
      BY <3>1
  <2>5. Updating(n)'
    BY <2>4 DEF Updating
  <2> QED
    BY <1>2, <1>4, <2>4, <2>5 DEF Seen
<1> QED
  BY <1>5, <1>6 DEF TypeOK

LEMMA ThreadSeen ==
  ASSUME TypeOK, OneProbe, WaitsInv, MediumInv, SeenInv, NEW t \in Threads, ThreadStep(t), ~ToCome'
  PROVE  Seen'
<1> USE DEF threads
<1>1. at[t] # "none" /\ \A u \in Threads : at[u] # "none" => u = t
  BY DEF ThreadStep, Begin, Open, Test, NotReady, Retry, Caps, End, OneProbe
<1>2. at'[t] \notin Early /\ ~gaveUp' /\ pc' \notin {"cancel", "join", "gone"}
  BY DEF ToCome
<1>3. CASE Begin(t) \/ NotReady(t) \/ Open(t)
  BY <1>2, <1>3 DEF Begin, NotReady, Open, Goes, Early, TypeOK
<1>4. CASE Retry(t)
  <2>1. cancelled => pc \in {"join", "gone"}
    BY DEF WaitsInv
  <2> QED
    BY <1>2, <1>4, <2>1 DEF Retry, Goes, Early, TypeOK
<1>5. CASE Test(t)
  <2>1. ~has /\ at[t] = "test"
    BY <1>5 DEF Test, WaitsInv
  <2>2. has' = (has \/ disc # "none") /\ disc' = disc
    BY <1>2, <1>5 DEF Test
  <2>3. at'[t] # "none"
    BY <1>5 DEF Test, Goes, TypeOK
  <2> QED
    BY <2>1, <2>2, <2>3 DEF Seen, TypeOK
<1>6. CASE Caps(t)
  <2>1. UNCHANGED <<disc, changes, waiting, gaveUp, pc, has>> /\ at[t] = "caps" /\ at'[t] = "end"
    BY <1>6 DEF Caps, Goes, TypeOK
  <2>2. ~ToCome
    BY <1>1, <2>1 DEF ToCome, Early
  <2> QED
    BY <2>1, <2>2 DEF SeenInv, Seen
<1>7. CASE End(t)
  BY <1>7, EndSeen
<1> QED
  BY <1>3, <1>4, <1>5, <1>6, <1>7 DEF ThreadStep

LEMMA SeenStep ==
  ASSUME DriveAssumption, EarlyMoves = FALSE, TypeOK, OneProbe, DoorIsFree, WaitsInv, MediumInv,
         SeenInv, [Next]_vars
  PROVE  SeenInv'
<1> USE DEF threads
<1> SUFFICES ASSUME ~ToCome' PROVE Seen'
  BY DEF SeenInv
<1>a. pc' \notin {"cancel", "join", "gone"} /\ waiting' = FALSE /\ changes' = 0
  BY TypeStep DEF ToCome, TypeOK
<1>b. CASE /\ UNCHANGED <<disc, changes, at, has, gaveUp, idles, waiting, medium, holds>>
           /\ pc \notin {"cancel", "join", "gone"}
  BY <1>b, SameSeen DEF SeenInv
<1>0. CASE UNCHANGED vars \/ Gone
  BY <1>0, <1>a, <1>b DEF vars, Gone
<1>1. ASSUME NEW t \in Threads, ThreadStep(t)
      PROVE  Seen'
  BY <1>1, ThreadSeen
<1>2. CASE MediumThread
  <2>1. /\ medium = "probing" /\ medium' = "probed" /\ holds' \in {disc, "busy"}
        /\ idles' = Append(idles, "medium")
        /\ UNCHANGED <<disc, changes, waiting, gaveUp, pc, has, at>>
    BY <1>2 DEF MediumThread
  <2>2. Seen
    BY <2>1 DEF ToCome, SeenInv
  <2>3. CASE Settled
    BY <2>1, <2>2, <2>3 DEF Seen, Settled
  <2>4. ASSUME NEW i \in Nat, Updating(i)
        PROVE  Updating(i)'
    <3>1. /\ Len(idles') = Len(idles) + 1 /\ Len(idles) \in Nat
          /\ \A j \in 1 .. Len(idles) : idles'[j] = idles[j]
      BY <2>1 DEF TypeOK
    <3>2. disc # "none" => holds' # "none"
      BY <2>1
    <3> QED
      BY <2>1, <2>4, <3>1, <3>2 DEF Updating
  <2>5. CASE \E t \in Threads : at[t] # "none"
    BY <2>1, <2>2, <2>5 DEF Seen
  <2> QED
    BY <2>1, <2>2, <2>3, <2>4, <2>5 DEF Seen
<1>3. CASE Changed
  <2>1. ~initial /\ pc \notin {"join", "gone"}
    BY <1>3 DEF Changed, WaitsInv, TypeOK, InLoop, Ejecting
  <2>2. ProbeInside("loop", waiting) /\ UNCHANGED <<initial, has>>
    BY <1>3, <1>a DEF Changed
  <2> QED
    BY <2>1, <2>2, ProbeInsideWaits
<1>4. CASE ProbedInside
  <2>1. /\ idles # <<>> /\ Head(idles) \in {"tracked", "orphan"}
        /\ UpdateMedium(Orphaned(Tail(idles)))
        /\ UNCHANGED <<disc, changes, waiting, gaveUp, pc, has, at>>
    BY <1>4 DEF ProbedInside
  <2>2. Seen
    BY <2>1 DEF ToCome, SeenInv
  <2>3. CASE disc = "none"
    BY <2>1, <2>2, <2>3 DEF Seen, Settled, UpdateMedium
  <2>4. CASE disc # "none" /\ medium = "none"
    BY <2>1, <2>2, <2>4 DEF Seen, Settled, UpdateMedium
  <2>5. CASE disc # "none" /\ medium # "none"
    <3>1. UNCHANGED <<medium, holds>> /\ idles' = Orphaned(Tail(idles))
      BY <2>1, <2>2, <2>5 DEF Seen, UpdateMedium
    <3>2. CASE (\E t \in Threads : at[t] # "none") \/ Settled
      BY <2>1, <2>2, <3>1, <3>2 DEF Seen, Settled
    <3>3. ASSUME NEW i \in Nat, i # 1, Updating(i)
          PROVE  Seen'
      <4>1. Updating(i - 1)'
        BY <2>1, <3>1, <3>3, NextUpdates
      <4>2. i - 1 \in Nat
        BY <3>3 DEF Updating
      <4> QED
        BY <2>1, <2>2, <4>1, <4>2 DEF Seen
    <3>4. CASE Updating(1) /\ ~Settled
      <4>1. medium = "probed" /\ holds = "none"
        BY <2>5, <3>4 DEF Settled, TypeOK
      <4>2. \A j \in 2 .. Len(idles) : idles[j] # "medium"
        BY <2>5, <3>4, <4>1 DEF Updating
      <4>3. idles[1] # "medium" /\ Len(idles) \in Nat
        BY <3>4 DEF Updating, TypeOK
      <4>4. ~HasMedium(idles)
        BY <4>2, <4>3 DEF HasMedium
      <4> QED
        BY <4>1, <4>4 DEF MediumInv
    <3> QED
      BY <2>2, <3>2, <3>3, <3>4 DEF Seen
  <2> QED
    BY <2>3, <2>4, <2>5
<1>5. CASE MediumProbed
  <2>1. /\ idles # <<>> /\ Head(idles) = "medium" /\ idles' = Tail(idles)
        /\ medium' = IF holds = "none" THEN "none" ELSE "known"
        /\ UNCHANGED <<disc, changes, waiting, gaveUp, pc, has, at, holds>>
    BY <1>5 DEF MediumProbed
  <2>2. Seen
    BY <2>1 DEF ToCome, SeenInv
  <2>3. medium = "probed" /\ idles[1] = "medium"
    <3>1. idles[1] = "medium" /\ Len(idles) \in Nat \ {0}
      BY <2>1, TailIs DEF TypeOK
    <3> QED
      BY <3>1 DEF MediumInv, HasMedium
  <2>4. CASE Settled
    BY <2>1, <2>2, <2>3, <2>4 DEF Seen, Settled
  <2>5. CASE \E t \in Threads : at[t] # "none"
    BY <2>1, <2>2, <2>5 DEF Seen
  <2>6. ASSUME NEW i \in Nat, Updating(i)
        PROVE  Seen'
    <3>1. i # 1
      BY <2>3, <2>6 DEF Updating
    <3>2. Updating(i - 1)' /\ i - 1 \in Nat
      <4>1. i - 1 \in Nat
        BY <2>6 DEF Updating
      <4> QED
        BY <2>1, <2>6, <3>1, <4>1, NextUpdates
    <3> QED
      BY <2>1, <2>2, <3>2 DEF Seen
  <2> QED
    BY <2>2, <2>4, <2>5, <2>6 DEF Seen
<1>6. CASE CancelProbing \/ Free \/ Finalize
  BY <1>6, <1>a DEF CancelProbing, Free, Finalize
<1>7. CASE Join
  <2>1. PICK t \in Threads : at' = [at EXCEPT ![t] = "start"]
    BY <1>7 DEF Join, StartThread, Goes
  <2>2. at'[t] = "start"
    BY <2>1 DEF TypeOK
  <2> QED
    BY <2>2 DEF ToCome, Early
<1>8. CASE Lock \/ Eject \/ WaitProbing
  BY <1>8, <1>b DEF Lock, Eject, WaitProbing
<1>9. CASE Unlock
  <2>1. CASE waiting
    <3>1. ProbeInside("loop", waiting) /\ UNCHANGED <<initial, has>> /\ pc = "loop" /\ ~initial
      BY <1>9, <2>1 DEF Unlock, WaitsInv
    <3> QED
      BY <3>1, ProbeInsideWaits
  <2>2. CASE ~waiting
    BY <1>9, <1>b, <2>2 DEF Unlock
  <2> QED
    BY <2>1, <2>2
<1>10. CASE Reprobe
  <2>1. ProbeInside("loop", FALSE) /\ UNCHANGED <<initial, has>> /\ pc = "loop" /\ ~initial
    BY <1>10 DEF Reprobe
  <2> QED
    BY <2>1, ProbeInsideWaits
<1>11. CASE EjectEnds
  <2>1. PICK ok \in BOOLEAN, to \in {"loop", "join_volume"} :
          /\ disc' = IF ok THEN "none" ELSE disc
          /\ changes' = IF disc' # disc THEN changes + 1 ELSE changes
          /\ IF waiting THEN ProbeInside(to, waiting)
                        ELSE pc' = to /\ UNCHANGED <<next, at, probe, cancelled, waiting>>
    BY <1>11 DEF EjectEnds
  <2>2. ~initial /\ pc \notin {"join", "gone", "cancel"} /\ UNCHANGED <<initial, has, gaveUp, idles, medium, holds>>
    BY <1>11 DEF EjectEnds, WaitsInv, OneProbe, DoorIsFree, Ejecting
  <2>3. CASE waiting
    BY <2>1, <2>2, <2>3, ProbeInsideWaits
  <2>4. CASE ~waiting
    <3>1. UNCHANGED <<disc, changes, at, waiting>>
      BY <1>a, <2>1, <2>4 DEF TypeOK
    <3> QED
      BY <1>b, <2>2, <3>1
  <2> QED
    BY <2>3, <2>4
<1>12. ASSUME NEW d \in Contents, MoveDisc(d)
       PROVE  Seen'
  BY <1>12, <1>a DEF MoveDisc, TypeOK
<1> QED
  BY <1>0, <1>1, <1>2, <1>3, <1>4, <1>5, <1>6, <1>7, <1>8, <1>9, <1>10, <1>11, <1>12 DEF Next

-----------------------------------------------------------------------------

LEMMA InitHolds ==
  ASSUME DriveAssumption, Init
  PROVE  TypeOK /\ OneProbe /\ DoorIsFree
<1>1. PICK t \in Threads : at = [u \in Threads |-> IF u = t THEN "open" ELSE "none"]
  BY DEF Init
<1>2. at \in [Threads -> Stages] /\ idles \in Seq(Callbacks)
  BY <1>1 DEF Init, Stages, Callbacks
<1>3. moves \in 0 .. MaxMoves /\ changes \in Nat
  BY DEF Init, DriveAssumption
<1>4. TypeOK
  BY <1>2, <1>3 DEF Init, TypeOK, Contents, Blocked, Ejecting
<1>5. OneProbe /\ DoorIsFree
  BY <1>1 DEF Init, OneProbe, DoorIsFree, Ejecting
<1> QED
  BY <1>4, <1>5

\* The drive keeps its types, whatever is moved and whenever.
THEOREM DriveIsTyped == Spec => []TypeOK
<1>1. Init => TypeOK
  BY InitHolds, DriveAssumption
<1>2. TypeOK /\ [Next]_vars => TypeOK'
  BY TypeStep, DriveAssumption
<1> QED
  BY <1>1, <1>2, PTL DEF Spec

\* priv->probe is set exactly as long as there is a thread, there is never a
\* second one, none survives the drive, and the door is never opened while one
\* holds the device.
THEOREM OneUserOfTheDevice == Spec => []DeviceHasOneUser
<1>1. Init => TypeOK /\ OneProbe /\ DoorIsFree
  BY InitHolds, DriveAssumption
<1>2. TypeOK /\ OneProbe /\ DoorIsFree /\ [Next]_vars => (TypeOK /\ OneProbe /\ DoorIsFree)'
  BY TypeStep, ProbeStep, DriveAssumption
<1>3. OneProbe /\ DoorIsFree => DeviceHasOneUser
  BY DEF DeviceHasOneUser
<1> QED
  BY <1>1, <1>2, <1>3, PTL DEF Spec

\* A drive whose disc is not moved during its first probe, and which answers
\* when it is asked, is right about its disc whenever nothing is left to be done: no signal,
\* lock, ejection or orphaned callback makes it forget a change.
THEOREM NothingIsEverForgotten ==
  ASSUME EarlyMoves = FALSE
  PROVE  Spec => []NothingIsForgotten
<1> DEFINE Inv == TypeOK /\ OneProbe /\ DoorIsFree /\ SightInv
<1>1. Init => Inv
  <2> SUFFICES ASSUME Init PROVE SightInv
    BY InitHolds, DriveAssumption
  <2>1. PICK t \in Threads : at = [u \in Threads |-> IF u = t THEN "open" ELSE "none"]
    BY DEF Init
  <2>2. WaitsInv
    BY <2>1 DEF Init, WaitsInv
  <2>3. MediumInv
    BY DEF Init, MediumInv, OneMedium, HasMedium
  <2>4. at[t] \in Early
    BY <2>1 DEF Early
  <2>5. SeenInv
    BY <2>4 DEF SeenInv, ToCome
  <2> QED
    BY <2>2, <2>3, <2>5 DEF SightInv
<1>2. Inv /\ [Next]_vars => Inv'
  BY TypeStep, ProbeStep, WaitsStep, MediumStep, SeenStep, DriveAssumption DEF SightInv
<1>3. Inv => NothingIsForgotten
  <2> SUFFICES ASSUME Inv, Quiet, ~gaveUp PROVE medium = "none" <=> disc = "none"
    BY DEF NothingIsForgotten
  <2>1. \A t \in Threads : at[t] = "none"
    BY DEF Quiet, OneProbe
  <2>2. pc = "loop" /\ ~locked /\ idles = <<>> /\ changes = 0
    BY DEF Quiet
  <2>3. ~ToCome
    BY <2>1, <2>2 DEF ToCome, Early, SightInv, WaitsInv, Ejecting
  <2>4. Settled
    BY <2>1, <2>2, <2>3 DEF SightInv, SeenInv, Seen, Updating
  <2> QED
    BY <2>4 DEF Settled
<1> QED
  BY <1>1, <1>2, <1>3, PTL DEF Spec
=============================================================================
