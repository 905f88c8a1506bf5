-------------------------- MODULE SessionSpanProofs --------------------------
(***************************************************************************)
(* However the burning of a spanned session ends, the main window has its  *)
(* session back, and each item is burnt on one disc, for any number of     *)
(* items, any sizes and any discs.                                         *)
(*                                                                         *)
(* The list the pops come to (Origin) is the one the session was made      *)
(* with: a batch pushes the list it replaces, and nothing else touches     *)
(* the pile.  With an empty pile it is the list of the session itself.     *)
(* What has been burnt is read off the session: the songs before those of  *)
(* the batch, or the files the project remembers as spanned.               *)
(***************************************************************************)
EXTENDS SessionSpan, SequenceTheorems, WellFoundedInduction, TLAPS

(* A session with these tracks and this pile, the other fields whatever they are. *)
Sessions(t, p, s) ==
  [tracks : {t}, pile_tracks : {p}, track_list : {s.track_list}, last_track : {s.last_track},
   spanned : {s.spanned}, disabled : {s.disabled}, is_valid : {s.is_valid}, offered : {s.offered}]

IsRecord(s) == s \in Sessions(s.tracks, s.pile_tracks, s)

IsPile(p) == p \in Seq({p[k] : k \in 1 .. Len(p)})

Formed(s) == IsRecord(s) /\ IsPile(s.pile_tracks)

(* The list under all the others. *)
Origin(s) == IF s.pile_tracks = <<>> THEN s.tracks ELSE s.pile_tracks[Len(s.pile_tracks)]

IInv ==
  /\ Formed(session)
  /\ window = "main" => Origin(session) = Whole
  /\ window = "main" /\ pc = "edit" => session.pile_tracks = <<>>

-----------------------------------------------------------------------------
LEMMA OwnRange ==
  ASSUME NEW U, NEW p \in Seq(U)
  PROVE  IsPile(p)
BY DEF IsPile

(* A list put on a pile leaves what is under it where it is. *)
LEMMA PushOnPile ==
  ASSUME NEW p, IsPile(p), NEW t
  PROVE  /\ IsPile(<< t >> \o p)
         /\ << t >> \o p # <<>>
         /\ p = <<>> => (<< t >> \o p)[Len(<< t >> \o p)] = t
         /\ p # <<>> => (<< t >> \o p)[Len(<< t >> \o p)] = p[Len(p)]
<1> DEFINE R == {p[k] : k \in 1 .. Len(p)}
           U == R \cup {t}
           q == << t >> \o p
<1>1. p \in Seq(U) /\ << t >> \in Seq(U)
  BY DEF IsPile
<1>2. q \in Seq(U) /\ Len(q) = Len(p) + 1 /\ Len(p) \in Nat
  BY <1>1
<1>3. q[1] = t /\ \A k \in 1 .. Len(p) : q[k + 1] = p[k]
  BY <1>1
<1>4. IsPile(q)
  <2> HIDE DEF q
  <2> QED
    BY <1>2, OwnRange
<1>5. p = <<>> => q[Len(q)] = t
  BY <1>2, <1>3
<1>6. ASSUME p # <<>>
      PROVE  q[Len(q)] = p[Len(p)]
  <2>1. Len(p) \in 1 .. Len(p)
    BY <1>1, <1>6
  <2>2. q[Len(p) + 1] = p[Len(p)]
    BY <1>3, <2>1
  <2> HIDE DEF q
  <2> QED
    BY <1>2, <2>2
<1>7. q # <<>>
  BY <1>2
<1> HIDE DEF q
<1>8. /\ IsPile(q) /\ q # <<>>
      /\ p = <<>> => q[Len(q)] = t
      /\ p # <<>> => q[Len(q)] = p[Len(p)]
  BY <1>4, <1>5, <1>6, <1>7
<1> USE DEF q
<1> QED
  BY <1>8

(* rejilla_burn_session_push_tracks, and the tracks added after it. *)
LEMMA BatchKeepsOrigin ==
  ASSUME NEW s, Formed(s), NEW list, NEW n,
         n \in Sessions(list, << s.tracks >> \o s.pile_tracks, n)
  PROVE  Formed(n) /\ Origin(n) = Origin(s)
<1> DEFINE p == s.pile_tracks
           q == << s.tracks >> \o p
<1>1. IsPile(p)
  BY DEF Formed
<1>2. IsRecord(n) /\ n.pile_tracks = q
  BY DEF IsRecord, Sessions
<1>3. /\ IsPile(q) /\ q # <<>>
      /\ p = <<>> => q[Len(q)] = s.tracks
      /\ p # <<>> => q[Len(q)] = p[Len(p)]
  BY <1>1, PushOnPile
<1> HIDE DEF q
<1>4. Origin(n) = Origin(s)
  BY <1>2, <1>3 DEF Origin
<1>5. Formed(n)
  BY <1>2, <1>3 DEF Formed
<1> QED
  BY <1>4, <1>5

(* What changes neither the tracks nor their pile. *)
LEMMA SameTracks ==
  ASSUME NEW s, Formed(s), NEW n, IsRecord(n),
         n.tracks = s.tracks, n.pile_tracks = s.pile_tracks
  PROVE  Formed(n) /\ Origin(n) = Origin(s)
BY DEF Formed, Origin

LEMMA CheckKeepsTracks ==
  ASSUME NEW s, Formed(s), NEW max
  PROVE  /\ Formed(Checked(s, max))
         /\ Origin(Checked(s, max)) = Origin(s)
         /\ Checked(s, max).pile_tracks = s.pile_tracks
         /\ Checked(s, max).tracks = s.tracks
<1> DEFINE n == Checked(s, max)
<1>1. IsRecord(s)
  BY DEF Formed
<1>3. IsRecord(n) /\ n.tracks = s.tracks /\ n.pile_tracks = s.pile_tracks
  BY <1>1 DEF IsRecord, Sessions, Checked
<1> QED
  BY <1>3, SameTracks

LEMMA StartKeepsTracks ==
  ASSUME NEW s, Formed(s)
  PROVE  /\ Formed(SpanStart(s))
         /\ Origin(SpanStart(s)) = Origin(s)
         /\ SpanStart(s).pile_tracks = s.pile_tracks
<1>1. IsRecord(SpanStart(s)) /\ SpanStart(s).tracks = s.tracks /\ SpanStart(s).pile_tracks = s.pile_tracks
  BY DEF Formed, IsRecord, Sessions, SpanStart
<1> QED
  BY <1>1, SameTracks

LEMMA StopKeepsTracks ==
  ASSUME NEW s, Formed(s)
  PROVE  Formed(SpanStop(s)) /\ Origin(SpanStop(s)) = Origin(s)
<1>1. IsRecord(SpanStop(s)) /\ SpanStop(s).tracks = s.tracks /\ SpanStop(s).pile_tracks = s.pile_tracks
  BY DEF Formed, IsRecord, Sessions, SpanStop
<1> QED
  BY <1>1, SameTracks
LEMMA DataKeepsOrigin ==
  ASSUME NEW s, Formed(s), NEW max
  PROVE  LET n == NextOfData(s, max).session IN Formed(n) /\ Origin(n) = Origin(s)
<1> DEFINE batch == DataBatch(s, max)
           list == << Track(FALSE, batch) >>
           n == [PushTracks(s) EXCEPT !.tracks = list, !.spanned = @ \cup batch]
<1> HIDE DEF batch
<1>1. n \in Sessions(list, << s.tracks >> \o s.pile_tracks, n)
  BY DEF Formed, IsRecord, Sessions, PushTracks
<1>2. Formed(n) /\ Origin(n) = Origin(s)
  BY <1>1, BatchKeepsOrigin
<1>3. NextOfData(s, max).session = s \/ NextOfData(s, max).session = n
  BY DEF NextOfData, batch
<1> HIDE DEF n
<1> QED
  BY <1>2, <1>3

LEMMA StreamsKeepOrigin ==
  ASSUME NEW s, Formed(s), NEW first, NEW max
  PROVE  LET n == NextOfStreams(s, first, max).session IN Formed(n) /\ Origin(n) = Origin(s)
<1> DEFINE fits == {k \in first .. Len(s.track_list) :
                      Sectors(UNION {s.track_list[m].items : m \in first .. k}) < max}
           list == SubSeq(s.track_list, first, Max(fits))
           final == Max(fits)
           n == [PushTracks(s) EXCEPT !.tracks = list, !.last_track = final]
           r == [s EXCEPT !.last_track = 0]
<1>3. NextOfStreams(s, first, max).session = r \/ NextOfStreams(s, first, max).session = n
  BY DEF NextOfStreams
<1> HIDE DEF fits, list, final
<1>1. n \in Sessions(list, << s.tracks >> \o s.pile_tracks, n)
  BY DEF Formed, IsRecord, Sessions, PushTracks
<1>2. Formed(n) /\ Origin(n) = Origin(s)
  BY <1>1, BatchKeepsOrigin
<1>4. IsRecord(r) /\ r.tracks = s.tracks /\ r.pile_tracks = s.pile_tracks
  BY DEF Formed, IsRecord, Sessions
<1>5. Formed(r) /\ Origin(r) = Origin(s)
  BY <1>4, SameTracks
<1> HIDE DEF n, r
<1> QED
  BY <1>2, <1>3, <1>5

(* Whatever comes of it, the next batch leaves the origin where it is. *)
LEMMA NextKeepsOrigin ==
  ASSUME NEW s, Formed(s), NEW max
  PROVE  LET n == SpanNext(s, max).session IN Formed(n) /\ Origin(n) = Origin(s)
<1> DEFINE n == SpanNext(s, max).session
           e == [s EXCEPT !.last_track = 0, !.track_list = <<>>]
<1>1. IsRecord(e) /\ e.tracks = s.tracks /\ e.pile_tracks = s.pile_tracks
  BY DEF Formed, IsRecord, Sessions
<1>2. Formed(e) /\ Origin(e) = Origin(s)
  BY <1>1, SameTracks
<1>3. \/ n = s
      \/ n = e
      \/ n = NextOfData(s, max).session
      \/ n = NextOfStreams(s, s.last_track + 1, max).session
  BY DEF SpanNext
<1> HIDE DEF n, e
<1>4. Formed(n) /\ Origin(n) = Origin(s)
  BY <1>2, <1>3, DataKeepsOrigin, StreamsKeepOrigin
<1> USE DEF n
<1> QED
  BY <1>4

LEMMA SpanNextAnswers ==
  ASSUME NEW s, NEW max
  PROVE  SpanNext(s, max).result \in {"OK", "RETRY", "ERR"}
BY DEF SpanNext, NextOfData, NextOfStreams

(* The loop of rejilla_project_burn comes to the origin. *)
LEMMA PopsComeToOrigin ==
  ASSUME NEW s, Formed(s)
  PROVE  /\ Formed(PopAll(s)) /\ Origin(PopAll(s)) = Origin(s)
         /\ PopAll(s).pile_tracks = <<>>
<1>1. CASE s.pile_tracks = <<>>
  BY <1>1 DEF PopAll
<1>2. CASE s.pile_tracks # <<>>
  <2> DEFINE last == s.pile_tracks[Len(s.pile_tracks)]
             n == [s EXCEPT !.tracks = last, !.pile_tracks = <<>>]
  <2>1. PopAll(s) = n
    BY <1>2 DEF PopAll
  <2>2. Origin(s) = last
    BY <1>2 DEF Origin
  <2> HIDE DEF last
  <2>3. IsRecord(n) /\ n.tracks = last /\ n.pile_tracks = <<>>
    BY DEF Formed, IsRecord, Sessions
  <2> HIDE DEF n
  <2>4. IsPile(n.pile_tracks)
    BY <2>3 DEF IsPile
  <2>5. Formed(n) /\ Origin(n) = last
    BY <2>3, <2>4 DEF Formed, Origin
  <2> QED
    BY <2>1, <2>2, <2>3, <2>5
<1> QED
  BY <1>1, <1>2

LEMMA NewSessionIsWhole ==
  ASSUME NEW max
  PROVE  /\ Formed(NewSession(max)) /\ Origin(NewSession(max)) = Whole
         /\ NewSession(max).pile_tracks = <<>>
<1> DEFINE s == [tracks |-> Whole, pile_tracks |-> <<>>, track_list |-> <<>>, last_track |-> 0,
                 spanned |-> {}, disabled |-> FALSE, is_valid |-> FALSE, offered |-> FALSE]
<1>1. IsRecord(s) /\ s.tracks = Whole /\ s.pile_tracks = <<>>
  BY DEF IsRecord, Sessions
<1>2. NewSession(max) = Checked(s, max)
  BY DEF NewSession
<1> HIDE DEF s
<1>3. Formed(s) /\ Origin(s) = Whole
  BY <1>1 DEF Formed, IsPile, Origin
<1> QED
  BY <1>1, <1>2, <1>3, CheckKeepsTracks

-----------------------------------------------------------------------------
LEMMA InitHolds == Init => IInv
BY NewSessionIsWhole DEF Init, IInv

(* A step that leaves the kind and the window, hence what the session was. *)
LEMMA FixedIsFixed ==
  ASSUME UNCHANGED fixed
  PROVE  Whole' = Whole /\ window' = window
BY DEF fixed, Whole, Track, Items

(* The end of the dialog. *)
LEMMA FinishHolds ==
  ASSUME IInv, NEW s, Formed(s), Origin(s) = Origin(session), Finish(s)
  PROVE  IInv'
<1>1. Whole' = Whole /\ window' = window
  BY FixedIsFixed DEF Finish
<1>2. CASE window = "main"
  <2>1. session' = PopAll(s)
    BY <1>2 DEF Finish
  <2> QED
    BY <1>1, <1>2, <2>1, PopsComeToOrigin DEF IInv
<1>3. CASE window # "main"
  <2>1. session' = NewSession(space')
    BY <1>3 DEF Finish
  <2>2. Formed(session')
    BY <2>1, NewSessionIsWhole
  <2> QED
    BY <1>1, <1>3, <2>2 DEF IInv
<1> QED
  BY <1>2, <1>3

LEMMA NextHolds == IInv /\ [Next]_vars => IInv'
<1> SUFFICES ASSUME IInv, [Next]_vars
             PROVE  IInv'
  OBVIOUS
<1>0. Formed(session)
  BY DEF IInv
<1>1. CASE \E room \in Spaces : ChangeDisc(room)
  <2>1. PICK room \in Spaces : ChangeDisc(room)
    BY <1>1
  <2>2. Whole' = Whole /\ window' = window
    BY <2>1, FixedIsFixed DEF ChangeDisc
  <2>3. session' = Checked(session, room) /\ pc' = pc
    BY <2>1 DEF ChangeDisc
  <2> QED
    BY <1>0, <2>2, <2>3, CheckKeepsTracks DEF IInv
<1>2. CASE SpanFromOptions
  <2>1. Whole' = Whole /\ window' = window /\ window = "options"
    BY <1>2, FixedIsFixed DEF SpanFromOptions
  <2>2. session' = Checked(SpanNext(SpanStart(session), space).session, space)
    BY <1>2 DEF SpanFromOptions
  <2>3. Formed(session')
    BY <1>0, <2>2, StartKeepsTracks, NextKeepsOrigin, CheckKeepsTracks
  <2> QED
    BY <2>1, <2>3 DEF IInv
<1>3. CASE SpanFromMain
  <2>1. Whole' = Whole /\ window' = window
    BY <1>3, FixedIsFixed DEF SpanFromMain
  <2>2. session' = SpanStart(session) /\ pc' = pc
    BY <1>3 DEF SpanFromMain
  <2> QED
    BY <1>0, <2>1, <2>2, StartKeepsTracks DEF IInv
<1>4. CASE \E multi \in BOOLEAN : Burn(multi)
  <2>1. Whole' = Whole /\ window' = window
    BY <1>4, FixedIsFixed DEF Burn
  <2>2. session' = [session EXCEPT !.disabled = TRUE] /\ pc' = "record"
    BY <1>4 DEF Burn
  <2>3. /\ IsRecord(session')
        /\ session'.tracks = session.tracks /\ session'.pile_tracks = session.pile_tracks
    BY <1>0, <2>2 DEF Formed, IsRecord, Sessions
  <2> QED
    BY <1>0, <2>1, <2>2, <2>3, SameTracks DEF IInv
<1>5. CASE RecordOk
  <2>1. Whole' = Whole /\ window' = window
    BY <1>5, FixedIsFixed DEF RecordOk
  <2>2. pc' # "edit" /\ (session' = SpanStop(session) \/ session' = session)
    BY <1>5 DEF RecordOk
  <2> QED
    BY <1>0, <2>1, <2>2, StopKeepsTracks DEF IInv
<1>6. CASE RecordFails \/ GiveUp \/ Close
  BY <1>0, <1>6, FinishHolds DEF RecordFails, GiveUp, Close
<1>7. CASE \E room \in Spaces : InsertDisc(room)
  <2>1. PICK room \in Spaces : InsertDisc(room)
    BY <1>7
  <2>2. Whole' = Whole /\ window' = window
    BY <2>1, FixedIsFixed DEF InsertDisc
  <2> DEFINE n == SpanNext(session, room)
  <2>3. session' = SpanStop(n.session) \/ session' = n.session
    BY <2>1 DEF InsertDisc
  <2>4. Formed(session') /\ Origin(session') = Origin(session)
    BY <1>0, <2>3, NextKeepsOrigin, StopKeepsTracks
  <2>5. pc' # "edit"
    BY <2>1, SpanNextAnswers DEF InsertDisc
  <2> QED
    BY <2>2, <2>4, <2>5 DEF IInv
<1>8. CASE \E room \in Spaces : AnotherCopy(room)
  <2>1. Whole' = Whole /\ window' = window
    BY <1>8, FixedIsFixed DEF AnotherCopy
  <2>2. session' = session /\ pc' = "record"
    BY <1>8 DEF AnotherCopy
  <2> QED
    BY <2>1, <2>2 DEF IInv
<1>9. CASE UNCHANGED vars
  <2>1. Whole' = Whole /\ window' = window
    BY <1>9, FixedIsFixed DEF vars, fixed
  <2> QED
    BY <1>9, <2>1 DEF IInv, vars
<1> QED
  BY <1>1, <1>2, <1>3, <1>4, <1>5, <1>6, <1>7, <1>8, <1>9 DEF Next

(* However burning ended, the window has the session it gave, with nothing of *)
(* the batches in it nor on its pile.                                         *)
THEOREM SessionsAreGivenBack == Spec => []SessionIsGivenBack
<1>1. IInv => SessionIsGivenBack
  BY DEF IInv, Origin, SessionIsGivenBack
<1> QED
  BY <1>1, InitHolds, NextHolds, PTL DEF Spec

-----------------------------------------------------------------------------
(* Each item is burnt once.  What the operators of the model give: sizes, the *)
(* batches of a data project, the list of the session and pieces of it.       *)

\* A set of naturals has a least element.
LEMMA LeastMember ==
  ASSUME NEW S \in SUBSET Nat, S # {}
  PROVE  \E x \in S : \A y \in S : x <= y
<1> DEFINE Below == OpToRel(<, Nat)
<1>1. PICK x \in S : \A y \in S : << y, x >> \notin Below
  <2>1. IsWellFoundedOn(Below, Nat)
    BY NatLessThanWellFounded
  <2> HIDE DEF Below
  <2> QED
    BY <2>1, WFMin
<1>2. \A y \in S : x <= y
  <2>1. \A y \in Nat, z \in Nat : y < z => << y, z >> \in Below
    BY SMT DEF OpToRel
  <2> HIDE DEF Below
  <2>2. TAKE y \in S
  <2>3. x \in Nat /\ y \in Nat /\ ~ (y < x)
    BY <1>1, <2>1
  <2> QED
    BY <2>3
<1> QED
  BY <1>2

LEMMA MaxIsMember ==
  ASSUME NEW N \in Nat, NEW S \in SUBSET (1 .. N), S # {}
  PROVE  Max(S) \in S
<1> DEFINE R == {N - x : x \in S}
<1>1. R \in SUBSET Nat /\ R # {}
  <2>1. \A x \in S : N - x \in Nat
    OBVIOUS
  <2> QED
    BY <2>1
<1>2. PICK r \in R : \A y \in R : r <= y
  BY <1>1, LeastMember
<1>3. PICK x \in S : r = N - x
  BY <1>2
<1>4. \A y \in S : x >= y
  <2> TAKE y \in S
  <2>1. N - x <= N - y
    BY <1>2, <1>3
  <2> QED
    BY <2>1
<1> QED
  BY <1>4 DEF Max

LEMMA NoSectors == Sectors({}) = 0
<1> DEFINE Step(f) == [s \in SUBSET {} |->
                         IF s = {} THEN 0
                         ELSE size[CHOOSE x \in s : TRUE] + f[s \ {CHOOSE x \in s : TRUE}]]
           iter == CHOOSE f : f = Step(f)
<1>1. Sectors({}) = iter[{}]
  BY DEF Sectors, MapThenSumSet, MapThenFoldSet
<1>2. \E f : f = Step(f)
  <2>1. [s \in SUBSET {} |-> 0] = Step([s \in SUBSET {} |-> 0])
    OBVIOUS
  <2> HIDE DEF Step
  <2> QED
    BY <2>1
<1>3. iter = Step(iter)
  <2> HIDE DEF Step
  <2> QED
    BY <1>2
<1>4. iter[{}] = Step(iter)[{}]
  <2> HIDE DEF Step, iter
  <2> QED
    BY <1>3
<1>5. Step(iter)[{}] = 0
  <2> HIDE DEF iter
  <2> QED
    OBVIOUS
<1> QED
  BY <1>1, <1>4, <1>5

LEMMA SectorsOfOne ==
  ASSUME size \in [Items -> Nat], NEW i \in Items
  PROVE  Sectors({i}) = size[i]
<1> DEFINE Step(f) == [s \in SUBSET {i} |->
                         IF s = {} THEN 0
                         ELSE size[CHOOSE x \in s : TRUE] + f[s \ {CHOOSE x \in s : TRUE}]]
           iter == CHOOSE f : f = Step(f)
           known == [s \in SUBSET {i} |-> IF s = {} THEN 0 ELSE size[i]]
<1>1. Sectors({i}) = iter[{i}]
  BY DEF Sectors, MapThenSumSet, MapThenFoldSet
<1>2. SUBSET {i} = {{}, {i}} /\ (CHOOSE x \in {i} : TRUE) = i /\ {i} \ {i} = {} /\ {i} # {}
  OBVIOUS
<1>3. \A f : Step(f) = [s \in {{}, {i}} |-> IF s = {} THEN 0 ELSE size[i] + f[{}]]
  <2> TAKE f
  <2>1. \A s \in {{}, {i}} : (IF s = {} THEN 0
                              ELSE size[CHOOSE x \in s : TRUE] + f[s \ {CHOOSE x \in s : TRUE}])
                           = IF s = {} THEN 0 ELSE size[i] + f[{}]
    <3>1. TAKE s \in {{}, {i}}
    <3>2. CASE s = {}
      BY <3>2
    <3>3. CASE s = {i}
      <4>1. (CHOOSE x \in s : TRUE) = i
        BY <3>3
      <4>2. s \ {i} = {} /\ s # {}
        BY <3>3
      <4> QED
        BY <4>1, <4>2
    <3> QED
      BY <3>2, <3>3
  <2> QED
    BY <1>2, <2>1
<1> HIDE DEF Step
<1>4. known = Step(known)
  <2>1. known[{}] = 0 /\ size[i] + 0 = size[i]
    BY <1>2
  <2>2. known = [s \in {{}, {i}} |-> IF s = {} THEN 0 ELSE size[i]]
    BY <1>2
  <2> HIDE DEF known
  <2> QED
    BY <1>3, <2>1, <2>2
<1>5. iter = Step(iter)
  <2> HIDE DEF known
  <2> QED
    BY <1>4
<1> HIDE DEF iter, known
<1>6. iter[{}] = 0 /\ iter[{i}] = size[i] + iter[{}]
  BY <1>2, <1>3, <1>5
<1> QED
  BY <1>1, <1>6

\* A batch of a data project is made of what is left, and is empty only when nothing of
\* that fits.  The loop over the nodes is a recursive function: that it exists, and then
\* what it holds, is shown on the least node where it would not.
LEMMA DataBatchIs ==
  ASSUME size \in [Items -> Nat], NEW s, NEW max \in Nat
  PROVE  /\ DataBatch(s, max) \subseteq LeftOver(s)
         /\ (\E i \in LeftOver(s) : size[i] <= max) => DataBatch(s, max) # {}
<1> DEFINE left == LeftOver(s)
           Step(f, i) == IF i = 0 THEN {}
                         ELSE IF i \in left /\ Sectors(f[i - 1]) + size[i] <= max
                              THEN f[i - 1] \cup {i} ELSE f[i - 1]
           Part(n) == \E f : f = [i \in 0 .. n |-> Step(f, i)]
           NoPart == {n \in 0 .. NumItems : ~ Part(n)}
           taken == CHOOSE f : f = [i \in 0 .. NumItems |-> Step(f, i)]
           Good(n) == /\ taken[n] \subseteq left
                      /\ (\E i \in left : i <= n /\ size[i] <= max) => taken[n] # {}
           NotGood == {n \in 0 .. NumItems : ~ Good(n)}
<1>0. NumItems \in Nat /\ left \subseteq 1 .. NumItems
  BY SpanAssumption DEF LeftOver, Items
<1>1. DataBatch(s, max) = taken[NumItems]
  BY DEF DataBatch
<1> HIDE DEF left
<1>2. NoPart = {}
  <2> SUFFICES ASSUME NoPart # {} PROVE FALSE
    OBVIOUS
  <2>1. PICK n \in NoPart : \A m \in NoPart : n <= m
    <3>1. NoPart \in SUBSET Nat
      BY <1>0
    <3> HIDE DEF NoPart
    <3> QED
      BY <3>1, LeastMember
  <2>2. n # 0
    <3>1. [i \in 0 .. 0 |-> {}] = [i \in 0 .. 0 |-> Step([j \in 0 .. 0 |-> {}], i)]
      OBVIOUS
    <3> HIDE DEF Step
    <3>2. Part(0)
      BY <3>1
    <3> QED
      BY <3>2
  <2>3. n \in 0 .. NumItems /\ n - 1 \in 0 .. NumItems /\ n - 1 \notin NoPart
    <3>1. n \in 0 .. NumItems
      OBVIOUS
    <3> HIDE DEF NoPart
    <3> QED
      BY <1>0, <2>1, <2>2, <3>1
  <2>4. PICK f : f = [i \in 0 .. n - 1 |-> Step(f, i)]
    <3> HIDE DEF Step
    <3> QED
      BY <2>3
  <2> DEFINE g == [i \in 0 .. n |-> IF i < n THEN f[i] ELSE Step(f, n)]
  <2>5. \A i \in 0 .. n : g[i] = Step(g, i)
    <3>1. TAKE i \in 0 .. n
    <3>2. CASE i < n
      <4>1. g[i] = f[i] /\ i \in 0 .. n - 1
        BY <2>3, <3>2
      <4>2. i # 0 => g[i - 1] = f[i - 1]
        BY <2>3, <3>2
      <4>3. f[i] = Step(f, i)
        <5> HIDE DEF Step
        <5> QED
          BY <2>4, <4>1
      <4> HIDE DEF g
      <4> QED
        BY <4>1, <4>2, <4>3
    <3>3. CASE i = n
      <4>1. g[n] = Step(f, n) /\ g[n - 1] = f[n - 1]
        <5> HIDE DEF Step
        <5> QED
          BY <2>2, <2>3
      <4> HIDE DEF g
      <4> QED
        BY <2>2, <3>3, <4>1
    <3> QED
      BY <2>3, <3>2, <3>3
  <2>6. g = [i \in 0 .. n |-> Step(g, i)]
    <3>1. g = [i \in 0 .. n |-> g[i]]
      OBVIOUS
    <3> HIDE DEF g, Step
    <3> QED
      BY <2>5, <3>1
  <2> HIDE DEF g, Step
  <2>7. Part(n)
    BY <2>6
  <2> QED
    BY <2>1, <2>7
<1>3. taken = [i \in 0 .. NumItems |-> Step(taken, i)]
  <2>1. \E f : f = [i \in 0 .. NumItems |-> Step(f, i)]
    <3> HIDE DEF Step
    <3> QED
      BY <1>0, <1>2
  <2> HIDE DEF Step
  <2> QED
    BY <2>1
<1> HIDE DEF taken
<1>4. NotGood = {}
  <2> SUFFICES ASSUME NotGood # {} PROVE FALSE
    OBVIOUS
  <2>1. PICK n \in NotGood : \A m \in NotGood : n <= m
    <3>1. NotGood \in SUBSET Nat
      BY <1>0
    <3> HIDE DEF NotGood
    <3> QED
      BY <3>1, LeastMember
  <2>2. n # 0
    <3>1. taken[0] = {}
      BY <1>0, <1>3
    <3>2. Good(0)
      BY <1>0, <3>1
    <3> QED
      BY <3>2
  <2>3. n \in 1 .. NumItems /\ Good(n - 1)
    <3>1. n \in 0 .. NumItems
      OBVIOUS
    <3>2. n \in 1 .. NumItems /\ n - 1 \in 0 .. NumItems /\ n - 1 \notin NotGood
      <4> HIDE DEF NotGood
      <4> QED
        BY <1>0, <2>1, <2>2, <3>1
    <3> HIDE DEF Good
    <3> QED
      BY <3>2
  <2>4. taken[n] = Step(taken, n)
    <3> HIDE DEF Step
    <3> QED
      BY <1>0, <1>3, <2>3
  <2>5. taken[n] \subseteq left
    BY <2>2, <2>3, <2>4
  <2>6. ASSUME NEW i \in left, i <= n, size[i] <= max PROVE taken[n] # {}
    <3>1. CASE taken[n - 1] # {}
      BY <2>2, <2>4, <3>1
    <3>2. CASE taken[n - 1] = {}
      <4>1. ~ (i <= n - 1)
        BY <2>3, <2>6, <3>2
      <4>2. i = n
        BY <1>0, <2>3, <2>6, <4>1
      <4>3. Sectors(taken[n - 1]) + size[n] <= max
        <5>1. size[n] \in Nat
          BY <2>3 DEF Items
        <5> QED
          BY <2>6, <3>2, <4>2, <5>1, NoSectors
      <4> QED
        BY <2>2, <2>4, <2>6, <4>2, <4>3
    <3> QED
      BY <3>1, <3>2
  <2> QED
    BY <2>1, <2>5, <2>6
<1>5. Good(NumItems)
  BY <1>0, <1>4
<1>6. \A i \in left : i <= NumItems
  BY <1>0
<1> QED
  BY <1>1, <1>5, <1>6 DEF left

(* The fields of a session whose types are those of TypeOK. *)
Typed(s) ==
  /\ s.tracks \in Seq(Tracks) /\ s.pile_tracks \in Seq(Seq(Tracks))
  /\ s.track_list \in {<<>>, Whole}
  /\ s.last_track \in 0 .. Len(s.track_list)
  /\ s.spanned \subseteq Items

LEMMA WholeIs ==
  ASSUME kind \in {"stream", "data"}
  PROVE  /\ Whole \in Seq(Tracks) /\ Whole # <<>> /\ DOMAIN Whole = 1 .. Len(Whole)
         /\ kind = "stream" => /\ Len(Whole) = NumItems
                               /\ \A k \in Items : Whole[k].items = {k} /\ ~Whole[k].cfg
         /\ kind = "data" => Len(Whole) = 1 /\ Whole[1].items = Items /\ Whole[1].cfg
         /\ UNION {Whole[k].items : k \in DOMAIN Whole} = Items
<1>1. CASE kind = "stream"
  <2>1. Whole = [i \in 1 .. NumItems |-> Track(FALSE, {i})]
    BY <1>1 DEF Whole, Items
  <2>2. NumItems \in Nat \ {0} /\ \A i \in 1 .. NumItems : Track(FALSE, {i}) \in Tracks
    BY SpanAssumption DEF Track, Tracks, Items
  <2>3. Whole \in Seq(Tracks) /\ Len(Whole) = NumItems /\ DOMAIN Whole = 1 .. NumItems
    <3>1. Whole \in [1 .. NumItems -> Tracks]
      BY <2>1, <2>2
    <3>2. Whole \in Seq(Tracks)
      BY <2>2, <3>1, SeqDef
    <3> QED
      BY <2>2, <3>1, <3>2
  <2>4. \A k \in Items : Whole[k].items = {k} /\ ~Whole[k].cfg
    BY <2>1 DEF Track, Items
  <2>5. UNION {Whole[k].items : k \in DOMAIN Whole} = Items
    BY <2>3, <2>4 DEF Items
  <2> QED
    BY <1>1, <2>2, <2>3, <2>4, <2>5
<1>2. CASE kind = "data"
  <2> DEFINE t == Track(TRUE, Items)
  <2>1. Whole = << t >>
    BY <1>2 DEF Whole
  <2>2. t \in Tracks /\ t.items = Items /\ t.cfg
    BY DEF Track, Tracks
  <2> HIDE DEF t
  <2>3. Whole \in Seq(Tracks) /\ Len(Whole) = 1 /\ Whole[1] = t /\ DOMAIN Whole = {1}
    BY <2>1, <2>2
  <2>4. UNION {Whole[k].items : k \in DOMAIN Whole} = Items
    BY <2>2, <2>3
  <2> QED
    BY <1>2, <2>2, <2>3, <2>4
<1> QED
  BY <1>1, <1>2

(* The songs from b to l. *)
LEMMA SongsAre ==
  ASSUME kind = "stream", NEW b \in Items, NEW l \in Items, b <= l
  PROVE  /\ SubSeq(Whole, b, l) \in Seq(Tracks)
         /\ UNION {SubSeq(Whole, b, l)[k].items : k \in DOMAIN SubSeq(Whole, b, l)} = b .. l
<1> DEFINE p == SubSeq(Whole, b, l)
<1>1. Whole \in Seq(Tracks) /\ Len(Whole) = NumItems /\ \A k \in Items : Whole[k].items = {k}
  BY WholeIs
<1>2. b \in 1 .. NumItems /\ l \in 1 .. NumItems /\ NumItems \in Nat
  BY SpanAssumption DEF Items
<1>3. /\ p \in Seq(Tracks) /\ DOMAIN p = 1 .. l - b + 1
      /\ \A k \in 1 .. l - b + 1 : p[k] = Whole[b + k - 1]
  BY <1>1, <1>2
<1> HIDE DEF p
<1>4. \A k \in 1 .. l - b + 1 : p[k].items = {b + k - 1}
  <2> TAKE k \in 1 .. l - b + 1
  <2>1. b + k - 1 \in Items
    BY <1>2 DEF Items
  <2> QED
    BY <1>1, <1>3, <2>1
<1>5. \A x \in b .. l : x - b + 1 \in 1 .. l - b + 1 /\ b + (x - b + 1) - 1 = x
  BY <1>2
<1>6. UNION {p[k].items : k \in DOMAIN p} = b .. l
  <2>1. ASSUME NEW x \in b .. l PROVE \E k \in DOMAIN p : x \in p[k].items
    BY <1>3, <1>4, <1>5
  <2>2. ASSUME NEW k \in DOMAIN p PROVE p[k].items \subseteq b .. l
    BY <1>2, <1>3, <1>4
  <2> QED
    BY <2>1, <2>2
<1> QED
  BY <1>3, <1>6 DEF p

LEMMA SameSet ==
  ASSUME NEW Q, NEW T, NEW B, Q \subseteq T \cup B, B \subseteq Q, T \subseteq Q
  PROVE  Q = T \cup B
OBVIOUS

LEMMA BurntAppend ==
  ASSUME NEW t \in Seq(SUBSET Items), NEW B \in SUBSET Items
  PROVE  /\ Append(t, B) \in Seq(SUBSET Items) /\ Append(t, B) # <<>>
         /\ DOMAIN Append(t, B) = 1 .. Len(t) + 1 /\ Len(t) \in Nat /\ DOMAIN t = 1 .. Len(t)
         /\ Append(t, B)[Len(t) + 1] = B
         /\ \A k \in 1 .. Len(t) : Append(t, B)[k] = t[k]
         /\ UNION {Append(t, B)[k] : k \in DOMAIN Append(t, B)} = (UNION {t[k] : k \in DOMAIN t}) \cup B
<1> DEFINE q == Append(t, B)
<1>1. /\ q \in Seq(SUBSET Items) /\ q # <<>> /\ DOMAIN q = 1 .. Len(t) + 1 /\ Len(t) \in Nat
      /\ DOMAIN t = 1 .. Len(t) /\ q[Len(t) + 1] = B
      /\ \A k \in 1 .. Len(t) : q[k] = t[k]
  OBVIOUS
<1> HIDE DEF q
<1>2. \A k \in DOMAIN q : k \in DOMAIN t \/ k = Len(t) + 1
  BY <1>1
<1> DEFINE T == UNION {t[k] : k \in DOMAIN t}
           Q == UNION {q[k] : k \in DOMAIN q}
<1>3. \A k \in DOMAIN t : t[k] \subseteq T
  OBVIOUS
<1>4. \A k \in DOMAIN q : q[k] \subseteq Q
  OBVIOUS
<1>5. Q \subseteq T \cup B
  <2>1. ASSUME NEW k \in DOMAIN q PROVE q[k] \subseteq T \cup B
    <3>1. q[k] = B \/ (k \in DOMAIN t /\ q[k] = t[k])
      BY <1>1, <1>2
    <3> HIDE DEF T
    <3> QED
      BY <1>3, <3>1
  <2> HIDE DEF T
  <2> QED
    BY <2>1
<1>6. B \subseteq Q
  <2>1. Len(t) + 1 \in DOMAIN q
    BY <1>1
  <2> HIDE DEF Q
  <2> QED
    BY <1>1, <1>4, <2>1
<1>7. T \subseteq Q
  <2>1. ASSUME NEW k \in DOMAIN t PROVE t[k] \subseteq Q
    <3>1. k \in DOMAIN q /\ q[k] = t[k]
      BY <1>1
    <3> HIDE DEF Q
    <3> QED
      BY <1>4, <3>1
  <2> HIDE DEF Q
  <2> QED
    BY <2>1
<1>8. Q = T \cup B
  BY <1>5, <1>6, <1>7, SameSet, Zenon
<1> QED
  BY <1>1, <1>8 DEF q

(* What is offered fits: a first batch will be taken, and it will not be all. *)
Worth(s, max) == ~ (SessionSize(s) < max) /\ SpanPossible(s, max) = "RETRY"

LEMMA SameWorth ==
  ASSUME UNCHANGED fixed, NEW s, NEW max
  PROVE  Worth(s, max)' <=> Worth(s, max)
BY DEF fixed, Worth, SessionSize, SpanPossible, DataPossible, LeftOver, Remaining,
       Sectors, MapThenSumSet, MapThenFoldSet

LEMMA CheckedIs ==
  ASSUME NEW s, IsRecord(s), Typed(s), NEW max,
         s.disabled \/ s.last_track = 0 \/ Remaining(s) # <<>>
  PROVE  LET n == Checked(s, max)
         IN  /\ Typed(n) /\ n.tracks = s.tracks /\ n.pile_tracks = s.pile_tracks
             /\ n.track_list = s.track_list /\ n.last_track = s.last_track
             /\ n.spanned = s.spanned /\ n.disabled = s.disabled
             /\ ~s.disabled /\ n.offered => Worth(n, max)
<1> DEFINE n == Checked(s, max)
           valid == SessionSize(s) < max
           asked == ~valid /\ max > MaxSpace(s)
           offer == asked /\ SpanPossible(s, max) = "RETRY"
<1>1. CASE s.disabled
  <2>1. n = s
    BY <1>1 DEF Checked
  <2> QED
    BY <1>1, <2>1
<1>2. CASE ~s.disabled
  <2>1. n = [s EXCEPT !.is_valid = valid, !.offered = offer, !.track_list = s.track_list]
    BY <1>2 DEF Checked
  <2> HIDE DEF valid, offer
  <2>2. /\ n.tracks = s.tracks /\ n.pile_tracks = s.pile_tracks /\ n.track_list = s.track_list
        /\ n.last_track = s.last_track /\ n.spanned = s.spanned /\ n.disabled = s.disabled
        /\ n.offered = offer
    BY <2>1 DEF IsRecord, Sessions
  <2> HIDE DEF n
  <2>3. SessionSize(n) = SessionSize(s)
    BY <2>2 DEF SessionSize
  <2>4. SpanPossible(n, max) = SpanPossible(s, max)
    BY <2>2 DEF SpanPossible, DataPossible, LeftOver, Remaining
  <2>5. n.offered => Worth(n, max)
    BY <2>2, <2>3, <2>4 DEF Worth, offer, valid
  <2>6. Typed(n)
    BY <2>2 DEF Typed
  <2> QED
    BY <2>2, <2>5, <2>6 DEF n
<1> QED
  BY <1>1, <1>2

(* What the operators of the spanning need to know of the variables. *)
Given == kind \in {"stream", "data"} /\ size \in [Items -> Nat]

LEMMA StartIs ==
  ASSUME Given, NEW s, IsRecord(s), Typed(s), s.tracks = Whole, NEW n, n = SpanStart(s)
  PROVE  /\ IsRecord(n) /\ Typed(n) /\ n.tracks = Whole /\ n.pile_tracks = s.pile_tracks
         /\ n.track_list = Whole /\ n.last_track = 0
         /\ n.spanned = s.spanned /\ n.disabled = s.disabled
<1>1. /\ IsRecord(n) /\ n.tracks = Whole /\ n.pile_tracks = s.pile_tracks
      /\ n.track_list = Whole /\ n.last_track = 0
      /\ n.spanned = s.spanned /\ n.disabled = s.disabled
  BY DEF IsRecord, Sessions, SpanStart
<1>2. Len(Whole) \in Nat
  BY WholeIs DEF Given
<1>3. Typed(n)
  BY <1>1, <1>2 DEF Typed
<1> QED
  BY <1>1, <1>3

LEMMA StopIs ==
  ASSUME NEW s, IsRecord(s), Typed(s), NEW n, n = SpanStop(s)
  PROVE  /\ Typed(n) /\ n.tracks = s.tracks /\ n.pile_tracks = s.pile_tracks
         /\ n.track_list = <<>> /\ n.last_track = 0 /\ n.disabled = s.disabled
         /\ s.track_list = <<>> => n.spanned = s.spanned
<1>1. /\ n.tracks = s.tracks /\ n.pile_tracks = s.pile_tracks
      /\ n.track_list = <<>> /\ n.last_track = 0 /\ n.disabled = s.disabled
      /\ n.spanned = {} \/ n.spanned = s.spanned
      /\ s.track_list = <<>> => n.spanned = s.spanned
  BY DEF IsRecord, Sessions, SpanStop
<1>2. Typed(n)
  BY <1>1 DEF Typed
<1> QED
  BY <1>1, <1>2

LEMMA PopsAre ==
  ASSUME NEW s, IsRecord(s), Typed(s), NEW n, n = PopAll(s)
  PROVE  /\ Typed(n) /\ n.pile_tracks = <<>> /\ n.track_list = s.track_list
         /\ n.last_track = s.last_track /\ n.spanned = s.spanned /\ n.disabled = s.disabled
<1>1. CASE s.pile_tracks = <<>>
  BY <1>1 DEF PopAll
<1>2. CASE s.pile_tracks # <<>>
  <2> DEFINE last == s.pile_tracks[Len(s.pile_tracks)]
  <2>1. last \in Seq(Tracks)
    <3>1. s.pile_tracks \in Seq(Seq(Tracks)) /\ Len(s.pile_tracks) \in 1 .. Len(s.pile_tracks)
      BY <1>2 DEF Typed
    <3> QED
      BY <3>1
  <2>2. n = [s EXCEPT !.tracks = last, !.pile_tracks = <<>>]
    BY <1>2 DEF PopAll
  <2> HIDE DEF last
  <2>3. /\ n.tracks = last /\ n.pile_tracks = <<>> /\ n.track_list = s.track_list
        /\ n.last_track = s.last_track /\ n.spanned = s.spanned /\ n.disabled = s.disabled
    BY <2>2 DEF IsRecord, Sessions
  <2>4. Typed(n)
    BY <2>1, <2>3 DEF Typed
  <2> QED
    BY <2>3, <2>4
<1> QED
  BY <1>1, <1>2

LEMMA PushIs ==
  ASSUME NEW s, Typed(s)
  PROVE  /\ << s.tracks >> \o s.pile_tracks \in Seq(Seq(Tracks))
         /\ << s.tracks >> \o s.pile_tracks # <<>>
<1>1. s.tracks \in Seq(Tracks) /\ s.pile_tracks \in Seq(Seq(Tracks))
  BY DEF Typed
<1>2. << s.tracks >> \in Seq(Seq(Tracks)) /\ Len(<< s.tracks >>) = 1
  BY <1>1
<1>3. Len(<< s.tracks >> \o s.pile_tracks) = 1 + Len(s.pile_tracks) /\ Len(s.pile_tracks) \in Nat
  BY <1>1, <1>2
<1> QED
  BY <1>1, <1>2, <1>3

\* A batch of files: rejilla_track_data_cfg_span and what span_next makes of it.
FilesTaken(s, max, r, B) ==
  LET n == r.session
  IN  /\ Typed(n) /\ n.track_list = s.track_list /\ n.last_track = s.last_track
      /\ n.disabled = s.disabled
      /\ B \subseteq LeftOver(s)
      /\ (\E i \in LeftOver(s) : size[i] <= max) => B # {}
      /\ B # {} => /\ r.result = "RETRY" /\ n.pile_tracks # <<>>
                   /\ n.spanned = s.spanned \cup B /\ ItemsOf(n) = B

LEMMA FilesAre ==
  ASSUME Given, NEW s, IsRecord(s), Typed(s), NEW max \in Nat,
         NEW r, r = NextOfData(s, max), NEW B, B = DataBatch(s, max)
  PROVE  FilesTaken(s, max, r, B)
<1> DEFINE list == << Track(FALSE, B) >>
           pile == << s.tracks >> \o s.pile_tracks
           span == s.spanned \cup B
           n == [s EXCEPT !.tracks = list, !.pile_tracks = pile, !.spanned = span]
<1>1. B \subseteq LeftOver(s) /\ ((\E i \in LeftOver(s) : size[i] <= max) => B # {})
  BY DataBatchIs DEF Given
<1>2. CASE B = {}
  <2>1. r.session = s
    BY <1>2 DEF NextOfData
  <2> QED
    BY <1>1, <1>2, <2>1 DEF FilesTaken
<1>3. CASE B # {}
  <2>1. r.result = "RETRY" /\ r.session = [PushTracks(s) EXCEPT !.tracks = list, !.spanned = @ \cup B]
    BY <1>3 DEF NextOfData
  <2>2. [PushTracks(s) EXCEPT !.tracks = list, !.spanned = @ \cup B] = n
    BY DEF IsRecord, Sessions, PushTracks
  <2>3. /\ pile \in Seq(Seq(Tracks)) /\ pile # <<>>
    BY PushIs
  <2>4. list \in Seq(Tracks) /\ DOMAIN list = {1} /\ list[1].items = B
    <3> DEFINE t == Track(FALSE, B)
    <3>1. t \in Tracks /\ t.items = B
      BY <1>1 DEF Track, Tracks, LeftOver
    <3> HIDE DEF t
    <3>2. << t >> \in Seq(Tracks) /\ DOMAIN << t >> = {1} /\ << t >>[1] = t
      BY <3>1
    <3> QED
      BY <3>1, <3>2 DEF t
  <2>5. UNION {list[k].items : k \in DOMAIN list} = B
    <3> HIDE DEF list
    <3> QED
      BY <2>4
  <2>6. span \subseteq Items
    BY <1>1 DEF LeftOver, Typed
  <2> HIDE DEF list, pile, span
  <2>7. /\ n.tracks = list /\ n.pile_tracks = pile /\ n.spanned = span
        /\ n.track_list = s.track_list /\ n.last_track = s.last_track /\ n.disabled = s.disabled
    BY DEF IsRecord, Sessions
  <2>8. Typed(n) /\ ItemsOf(n) = B
    <3> HIDE DEF n
    <3> QED
      BY <2>3, <2>4, <2>5, <2>6, <2>7 DEF Typed, ItemsOf
  <2> HIDE DEF n
  <2> QED
    BY <1>1, <2>1, <2>2, <2>3, <2>7, <2>8 DEF span, FilesTaken
<1> QED
  BY <1>2, <1>3

\* A batch of songs, from the one after the last one taken.
SongsTaken(s, first, max, r) ==
  LET n == r.session
  IN  /\ Typed(n) /\ n.track_list = Whole /\ n.disabled = s.disabled
      /\ Sectors({first}) < max =>
           /\ r.result = "RETRY" /\ n.pile_tracks # <<>> /\ n.spanned = s.spanned
           /\ n.last_track \in first .. NumItems
           /\ n.tracks = SubSeq(Whole, first, n.last_track)
           /\ first = 1 /\ ~ (Sectors(Items) < max) => n.last_track < NumItems

LEMMA SongsTakenAre ==
  ASSUME Given, kind = "stream", NEW s, IsRecord(s), Typed(s), s.track_list = Whole,
         NEW first \in Items, first = s.last_track + 1, NEW max \in Nat,
         NEW r, r = NextOfStreams(s, first, max)
  PROVE  SongsTaken(s, first, max, r)
<1> DEFINE list == s.track_list
           fits == {k \in first .. Len(list) : Sectors(UNION {list[m].items : m \in first .. k}) < max}
           final == Max(fits)
           reset == [s EXCEPT !.last_track = 0]
           batch == SubSeq(Whole, first, final)
           pile == << s.tracks >> \o s.pile_tracks
           next == [s EXCEPT !.tracks = batch, !.pile_tracks = pile, !.last_track = final]
<1>1. /\ Whole \in Seq(Tracks) /\ Len(Whole) = NumItems
      /\ \A k \in Items : Whole[k].items = {k}
      /\ NumItems \in Nat \ {0} /\ first \in 1 .. NumItems
  BY WholeIs, SpanAssumption DEF Given, Items
<1>2. fits \in SUBSET (first .. NumItems)
  BY <1>1
<1>3. Sectors({first}) < max => first \in fits
  <2>1. UNION {list[m].items : m \in first .. first} = {first}
    <3>1. first .. first = {first} /\ list[first].items = {first}
      BY <1>1
    <3> HIDE DEF list
    <3> QED
      BY <3>1
  <2>2. first \in first .. Len(list)
    BY <1>1
  <2> HIDE DEF list
  <2> QED
    BY <2>1, <2>2
<1>4. first = 1 /\ ~ (Sectors(Items) < max) => NumItems \notin fits
  <2>1. first = 1 => UNION {list[m].items : m \in first .. NumItems} = Items
    BY <1>1 DEF Items
  <2> QED
    BY <2>1
<1>5. fits # {} => final \in fits
  <2> HIDE DEF fits
  <2>1. fits \in SUBSET (1 .. NumItems)
    BY <1>1, <1>2
  <2> QED
    BY <1>1, <2>1, MaxIsMember
<1>6. /\ fits = {} => r.result = "ERR" /\ r.session = reset
      /\ fits # {} => /\ r.result = "RETRY"
                      /\ r.session = [PushTracks(s) EXCEPT !.tracks = SubSeq(list, first, final),
                                                           !.last_track = final]
  <2> DEFINE taken == [PushTracks(s) EXCEPT !.tracks = SubSeq(list, first, final),
                                             !.last_track = final]
  <2>1. NextOfStreams(s, first, max) = IF fits = {} THEN [result |-> "ERR", session |-> reset]
                                       ELSE [result |-> "RETRY", session |-> taken]
    BY DEF NextOfStreams
  <2> HIDE DEF fits, reset, taken
  <2>2. (fits = {} => r.result = "ERR" /\ r.session = reset)
        /\ (fits # {} => r.result = "RETRY" /\ r.session = taken)
    BY <2>1
  <2> QED
    BY <2>2 DEF taken
<1> HIDE DEF fits
<1>7. [PushTracks(s) EXCEPT !.tracks = SubSeq(list, first, final), !.last_track = final] = next
  <2> HIDE DEF final
  <2> QED
    BY DEF IsRecord, Sessions, PushTracks
<1>8. CASE fits = {}
  <2>1. /\ reset.tracks = s.tracks /\ reset.pile_tracks = s.pile_tracks
        /\ reset.track_list = s.track_list /\ reset.last_track = 0
        /\ reset.spanned = s.spanned /\ reset.disabled = s.disabled
    BY DEF IsRecord, Sessions
  <2> HIDE DEF reset
  <2>2. Typed(reset)
    BY <1>1, <2>1 DEF Typed
  <2> QED
    BY <1>3, <1>6, <1>8, <2>1, <2>2 DEF SongsTaken
<1>9. CASE fits # {}
  <2>1. final \in first .. NumItems /\ final \in fits
    BY <1>2, <1>5, <1>9
  <2>2. pile \in Seq(Seq(Tracks)) /\ pile # <<>>
    BY PushIs
  <2> HIDE DEF final
  <2>3. batch \in Seq(Tracks)
    BY <1>1, <2>1
  <2> HIDE DEF batch, pile
  <2>4. /\ next.tracks = batch /\ next.pile_tracks = pile /\ next.last_track = final
        /\ next.track_list = s.track_list /\ next.spanned = s.spanned /\ next.disabled = s.disabled
    BY DEF IsRecord, Sessions
  <2> HIDE DEF next
  <2>5. Typed(next)
    BY <1>1, <2>1, <2>2, <2>3, <2>4 DEF Typed
  <2>6. first = 1 /\ ~ (Sectors(Items) < max) => final < NumItems
    <3>1. first = 1 /\ ~ (Sectors(Items) < max) => final # NumItems
      BY <1>4, <2>1
    <3> QED
      BY <1>1, <2>1, <3>1
  <2>7. r.session = next /\ r.result = "RETRY"
    BY <1>6, <1>7, <1>9
  <2> QED
    BY <2>1, <2>2, <2>4, <2>5, <2>6, <2>7 DEF batch, SongsTaken
<1> QED
  BY <1>8, <1>9

\* rejilla_session_span_next, by what is left of the list.
LEMMA SpanNextIs ==
  ASSUME Given, NEW s, IsRecord(s), Typed(s), NEW max \in Nat, NEW r, r = SpanNext(s, max)
  PROVE  /\ Typed(r.session) /\ r.session.disabled = s.disabled
         /\ max = 0 => r.result = "ERR" /\ r.session = s
         /\ max # 0 /\ s.track_list = Whole /\ s.last_track < Len(Whole) =>
              /\ kind = "data" => r = NextOfData(s, max)
              /\ kind = "stream" => s.last_track + 1 \in Items /\ r = NextOfStreams(s, s.last_track + 1, max)
<1> DEFINE last == s.last_track
<1>1. /\ Whole \in Seq(Tracks) /\ Whole # <<>> /\ Len(Whole) \in Nat
      /\ last \in 0 .. Len(s.track_list) /\ s.track_list \in {<<>>, Whole}
  BY WholeIs DEF Given, Typed
<1>2. CASE s.track_list = <<>> \/ max = 0
  <2>1. r.result = "ERR" /\ r.session = s
    BY <1>2 DEF SpanNext
  <2>2. ~ (s.track_list = Whole /\ max # 0)
    BY <1>1, <1>2
  <2> QED
    BY <2>1, <2>2
<1>3. CASE s.track_list = Whole /\ max # 0 /\ last = Len(Whole)
  <2> DEFINE n == [s EXCEPT !.last_track = 0, !.track_list = <<>>]
  <2>1. r.session = n
    BY <1>1, <1>3 DEF SpanNext
  <2>2. /\ n.tracks = s.tracks /\ n.pile_tracks = s.pile_tracks /\ n.track_list = <<>>
        /\ n.last_track = 0 /\ n.spanned = s.spanned /\ n.disabled = s.disabled
    BY DEF IsRecord, Sessions
  <2> HIDE DEF n
  <2>3. Typed(n)
    BY <2>2 DEF Typed
  <2>4. ~ (last < Len(Whole))
    BY <1>1, <1>3
  <2> QED
    BY <1>3, <2>1, <2>2, <2>3, <2>4
<1>4. CASE s.track_list = Whole /\ max # 0 /\ last < Len(Whole)
  <2>1. r = IF Whole[last + 1].cfg THEN NextOfData(s, max) ELSE NextOfStreams(s, last + 1, max)
    BY <1>1, <1>4 DEF SpanNext
  <2>2. CASE kind = "data"
    <3>1. Len(Whole) = 1 /\ Whole[1].cfg
      BY <2>2, WholeIs DEF Given
    <3>2. last + 1 = 1
      BY <1>1, <1>4, <3>1
    <3>3. r = NextOfData(s, max)
      BY <2>1, <3>1, <3>2
    <3>4. Typed(r.session) /\ r.session.disabled = s.disabled
      <4>1. PICK B : B = DataBatch(s, max)
        OBVIOUS
      <4>2. FilesTaken(s, max, r, B)
        BY <3>3, <4>1, FilesAre
      <4> QED
        BY <4>2 DEF FilesTaken
    <3> QED
      BY <1>4, <2>2, <3>3, <3>4
  <2>3. CASE kind = "stream"
    <3>1. Len(Whole) = NumItems /\ \A k \in Items : ~Whole[k].cfg
      BY <2>3, WholeIs DEF Given
    <3>2. last + 1 \in Items
      BY <1>1, <1>4, <3>1 DEF Items
    <3>3. r = NextOfStreams(s, last + 1, max)
      BY <2>1, <3>1, <3>2
    <3>4. Typed(r.session) /\ r.session.disabled = s.disabled
      <4>1. SongsTaken(s, last + 1, max, r)
        BY <1>4, <2>3, <3>2, <3>3, SongsTakenAre
      <4> QED
        BY <4>1 DEF SongsTaken
    <3> QED
      BY <1>4, <2>3, <3>2, <3>3, <3>4
  <2> QED
    BY <2>2, <2>3 DEF Given
<1> QED
  BY <1>1, <1>2, <1>3, <1>4

LEMMA NewSessionIs ==
  ASSUME Given, NEW max, NEW n, n = NewSession(max)
  PROVE  /\ Typed(n) /\ n.tracks = Whole /\ n.pile_tracks = <<>> /\ n.track_list = <<>>
         /\ n.last_track = 0 /\ n.spanned = {} /\ ~n.disabled
         /\ n.offered => Worth(n, max)
<1> DEFINE s == [tracks |-> Whole, pile_tracks |-> <<>>, track_list |-> <<>>, last_track |-> 0,
                 spanned |-> {}, disabled |-> FALSE, is_valid |-> FALSE, offered |-> FALSE]
<1>1. n = Checked(s, max)
  BY DEF NewSession
<1>2. /\ IsRecord(s) /\ s.tracks = Whole /\ s.pile_tracks = <<>> /\ s.track_list = <<>>
      /\ s.last_track = 0 /\ s.spanned = {} /\ ~s.disabled
  BY DEF IsRecord, Sessions
<1> HIDE DEF s
<1>3. Whole \in Seq(Tracks) /\ <<>> \in Seq(Seq(Tracks)) /\ Len(<<>>) = 0
  BY WholeIs DEF Given
<1>4. Typed(s)
  BY <1>2, <1>3 DEF Typed
<1> QED
  BY <1>1, <1>2, <1>4, CheckedIs

-----------------------------------------------------------------------------
(* The invariant.  In the main window nothing is spanned before the burning:  *)
(* the whole session is burnt first, and again with every disc.  In the       *)
(* options a session is as its owner made it, or its songs are spanned from   *)
(* the first one on, or its files are, or all of it has been burnt.           *)
Burnt == UNION {burnt[k] : k \in DOMAIN burnt}

Batch == ItemsOf(session)

VarsTyped ==
  /\ kind \in {"stream", "data"} /\ size \in [Items -> 1 .. MaxSize]
  /\ window \in {"options", "main"} /\ space \in Spaces \cup {0}
  /\ pc \in {"edit", "record", "insert", "success"}
  /\ num_copies \in 0 .. MaxCopies + 1
  /\ burnt \in Seq(SUBSET Items)

FromMain ==
  /\ ~session.disabled => pc = "edit" /\ session.last_track = 0
  /\ pc = "record" /\ burnt = <<>> => Batch = Items
  /\ pc # "edit" /\ burnt # <<>> => Burnt = Items
  /\ pc \in {"insert", "success"} => burnt # <<>>

Unspanned ==
  /\ session.pile_tracks = <<>> /\ session.tracks = Whole
  /\ session.track_list = <<>> /\ session.last_track = 0 /\ session.spanned = {}
  /\ pc = "edit" => ~session.disabled /\ (session.offered => Worth(session, space))
  /\ pc = "record" => burnt = <<>>
  /\ pc = "success" => Burnt = Items
  /\ pc # "insert"

SongsSpanned ==
  /\ kind = "stream" /\ session.pile_tracks # <<>>
  /\ session.track_list = Whole /\ session.last_track \in Items
  /\ \E b \in 1 .. session.last_track :
       /\ session.tracks = SubSeq(Whole, b, session.last_track)
       /\ pc = "edit" => b = 1 /\ session.last_track < NumItems
       /\ pc = "record" => Burnt = 1 .. b - 1
       /\ pc = "insert" => Burnt = 1 .. session.last_track /\ session.last_track < NumItems
  /\ pc # "success"

FilesSpanned ==
  /\ kind = "data" /\ session.pile_tracks # <<>>
  /\ session.track_list = Whole /\ session.last_track = 0
  /\ pc = "edit" => session.spanned = Batch
  /\ pc = "record" => session.spanned = Burnt \cup Batch /\ Burnt \cap Batch = {}
  /\ pc = "insert" => session.spanned = Burnt /\ Burnt # Items
  /\ pc # "success"

AllBurnt == pc = "success" /\ session.pile_tracks # <<>> /\ Burnt = Items

FromOptions == Unspanned \/ SongsSpanned \/ FilesSpanned \/ AllBurnt

SInv ==
  /\ VarsTyped
  /\ Typed(session)
  /\ window = "main" => FromMain
  /\ window = "options" => FromOptions
  /\ BatchesFollow

LEMMA ItemsAre ==
  ASSUME Given, NEW s, Typed(s)
  PROVE  ItemsOf(s) \in SUBSET Items /\ (s.tracks = Whole => ItemsOf(s) = Items)
<1>1. \A k \in DOMAIN s.tracks : s.tracks[k].items \subseteq Items
  <2>1. \A k \in DOMAIN s.tracks : s.tracks[k] \in Tracks
    BY DEF Typed
  <2>2. \A t \in Tracks : t.items \subseteq Items
    BY DEF Tracks
  <2> QED
    BY <2>1, <2>2
<1> QED
  BY <1>1, WholeIs DEF ItemsOf, Given

LEMMA VarsGive ==
  ASSUME SInv
  PROVE  Given /\ space \in Nat /\ (\A room \in Spaces : room \in Nat) /\ Batch \in SUBSET Items
<1>1. Given
  BY SpanAssumption DEF SInv, VarsTyped, Given
<1>2. Batch \in SUBSET Items
  BY <1>1, ItemsAre DEF SInv, Batch
<1> QED
  BY <1>1, <1>2, SpanAssumption DEF SInv, VarsTyped

LEMMA FixedStay ==
  ASSUME UNCHANGED fixed
  PROVE  kind' = kind /\ size' = size /\ window' = window /\ Whole' = Whole
BY FixedIsFixed DEF fixed

LEMMA TypedStays ==
  ASSUME UNCHANGED fixed, NEW n, Typed(n), session' = n
  PROVE  Typed(session)'
BY FixedIsFixed DEF Typed

LEMMA WorthStays ==
  ASSUME UNCHANGED fixed, NEW n, NEW max, Worth(n, max), session' = n, space' = max
  PROVE  Worth(session, space)'
BY SameWorth

LEMMA BatchesStay ==
  ASSUME UNCHANGED fixed, BatchesFollow, burnt' = burnt \/ burnt' = <<>>
  PROVE  BatchesFollow'
BY DEF fixed, BatchesFollow

LEMMA BatchesGrow ==
  ASSUME UNCHANGED fixed, BatchesFollow, burnt \in Seq(SUBSET Items),
         NEW B \in SUBSET Items, burnt' = Append(burnt, B),
         window = "options" => /\ Burnt \cap B = {}
                               /\ kind = "stream" => \A i \in Burnt, j \in B : i < j
  PROVE  BatchesFollow'
<1> SUFFICES ASSUME window = "options", NEW k \in DOMAIN burnt', NEW m \in DOMAIN burnt', k < m
             PROVE  /\ burnt'[k] \cap burnt'[m] = {}
                    /\ kind = "stream" => \A i \in burnt'[k], j \in burnt'[m] : i < j
  BY DEF fixed, BatchesFollow
<1>1. /\ DOMAIN burnt' = 1 .. Len(burnt) + 1 /\ Len(burnt) \in Nat /\ DOMAIN burnt = 1 .. Len(burnt)
      /\ burnt'[Len(burnt) + 1] = B /\ \A x \in 1 .. Len(burnt) : burnt'[x] = burnt[x]
  BY BurntAppend
<1>2. k \in DOMAIN burnt /\ burnt'[k] = burnt[k]
  BY <1>1
<1>3. CASE m \in DOMAIN burnt
  <2>1. burnt'[m] = burnt[m]
    BY <1>1, <1>3
  <2> QED
    BY <1>2, <1>3, <2>1 DEF BatchesFollow
<1>4. CASE m = Len(burnt) + 1
  <2>1. burnt'[m] = B
    BY <1>1, <1>4
  <2>2. burnt[k] \subseteq Burnt
    BY <1>2 DEF Burnt
  <2> QED
    BY <1>2, <2>1, <2>2
<1> QED
  BY <1>1, <1>3, <1>4

-----------------------------------------------------------------------------
LEMMA SInitHolds == Init => SInv
<1> SUFFICES ASSUME Init PROVE SInv
  OBVIOUS
<1>1. Given
  BY SpanAssumption DEF Init, Given
<1>2. /\ Typed(session) /\ session.tracks = Whole /\ session.pile_tracks = <<>>
      /\ session.track_list = <<>> /\ session.last_track = 0 /\ session.spanned = {}
      /\ ~session.disabled /\ (session.offered => Worth(session, space))
  BY <1>1, NewSessionIs DEF Init
<1>3. VarsTyped
  BY SpanAssumption DEF Init, VarsTyped
<1>4. FromMain /\ Unspanned
  BY <1>2 DEF Init, FromMain, Unspanned
<1>5. BatchesFollow
  BY DEF Init, BatchesFollow
<1> QED
  BY <1>2, <1>3, <1>4, <1>5 DEF SInv, FromOptions

\* The dialog ends, whatever has been burnt.
LEMMA SFinishHolds ==
  ASSUME IInv, SInv, pc # "edit", Finish(session), space' = space
  PROVE  SInv'
<1>1. kind' = kind /\ size' = size /\ window' = window /\ Whole' = Whole /\ UNCHANGED fixed
  BY FixedStay DEF Finish
<1>2. pc' = "edit" /\ burnt' = burnt /\ num_copies' = num_copies
  BY DEF Finish
<1>3. VarsTyped'
  BY <1>1, <1>2 DEF SInv, VarsTyped
<1>4. BatchesFollow'
  BY <1>1, <1>2, BatchesStay DEF SInv
<1>5. CASE window = "main"
  <2>1. IsRecord(session) /\ Typed(session)
    BY DEF IInv, Formed, SInv
  <2>2. PICK n : n = PopAll(session)
    OBVIOUS
  <2>3. session' = n
    BY <1>5, <2>2 DEF Finish
  <2>4. Typed(n) /\ n.disabled = session.disabled /\ n.last_track = session.last_track
    BY <2>1, <2>2, PopsAre
  <2>5. Typed(session)'
    BY <1>1, <2>3, <2>4, TypedStays
  <2>6. FromMain'
    BY <1>2, <1>5, <2>3, <2>4 DEF FromMain, SInv
  <2> QED
    BY <1>1, <1>3, <1>4, <1>5, <2>5, <2>6 DEF SInv
<1>6. CASE window = "options"
  <2>1. PICK n : n = NewSession(space)
    OBVIOUS
  <2>2. session' = n
    BY <1>6, <2>1 DEF Finish
  <2>3. Given
    BY VarsGive
  <2>4. /\ Typed(n) /\ n.tracks = Whole /\ n.pile_tracks = <<>> /\ n.track_list = <<>>
        /\ n.last_track = 0 /\ n.spanned = {} /\ ~n.disabled
        /\ n.offered => Worth(n, space)
    BY <2>1, <2>3, NewSessionIs
  <2>5. Typed(session)'
    BY <1>1, <2>2, <2>4, TypedStays
  <2>6. session'.offered => Worth(session, space)'
    BY <1>1, <2>2, <2>4, WorthStays
  <2>7. Unspanned'
    BY <1>1, <1>2, <2>2, <2>4, <2>6 DEF Unspanned
  <2> QED
    BY <1>1, <1>3, <1>4, <1>6, <2>5, <2>7 DEF SInv, FromOptions
<1> QED
  BY <1>5, <1>6 DEF SInv, VarsTyped

\* Songs are left after one that is not the last.
LEMMA MoreSongs ==
  ASSUME NEW l \in Seq(Tracks), NEW k \in 1 .. Len(l), k < Len(l)
  PROVE  SubSeq(l, k + 1, Len(l)) # <<>>
<1> DEFINE p == SubSeq(l, k + 1, Len(l))
<1>1. Len(p) = Len(l) - k /\ Len(l) \in Nat
  OBVIOUS
<1> HIDE DEF p
<1>2. Len(p) # 0
  BY <1>1
<1>3. p # <<>>
  BY <1>2
<1> QED
  BY <1>3 DEF p

\* Another disc: what is proposed is asked for again.
LEMMA SChangeHolds ==
  ASSUME IInv, SInv, NEW room \in Spaces, ChangeDisc(room)
  PROVE  SInv'
<1>1. kind' = kind /\ size' = size /\ window' = window /\ Whole' = Whole /\ UNCHANGED fixed
  BY FixedStay DEF ChangeDisc
<1>2. pc = "edit" /\ pc' = pc /\ burnt' = burnt /\ num_copies' = num_copies /\ space' = room
  BY DEF ChangeDisc
<1>3. PICK n : n = Checked(session, room)
  OBVIOUS
<1>4. session' = n
  BY <1>3 DEF ChangeDisc
<1>5. IsRecord(session) /\ Typed(session) /\ Given
  BY VarsGive DEF IInv, Formed, SInv
<1>6. session.disabled \/ session.last_track = 0 \/ Remaining(session) # <<>>
  <2>1. CASE window = "main"
    BY <2>1 DEF SInv, FromMain
  <2>2. CASE window = "options" /\ SongsSpanned
    <3>1. /\ session.last_track \in 1 .. NumItems /\ session.last_track < NumItems
          /\ session.track_list = Whole
      BY <1>2, <2>2 DEF SongsSpanned, Items
    <3>2. Whole \in Seq(Tracks) /\ Len(Whole) = NumItems /\ NumItems \in Nat
      BY <1>5, <2>2, WholeIs, SpanAssumption DEF Given, SongsSpanned
    <3>3. SubSeq(Whole, session.last_track + 1, Len(Whole)) # <<>>
      BY <3>1, <3>2, MoreSongs
    <3> QED
      BY <3>1, <3>3 DEF Remaining
  <2>3. CASE window = "options" /\ ~SongsSpanned
    BY <1>2, <2>3 DEF SInv, FromOptions, Unspanned, FilesSpanned, AllBurnt
  <2> QED
    BY <2>1, <2>2, <2>3 DEF SInv, VarsTyped
<1>7. /\ Typed(n) /\ n.tracks = session.tracks /\ n.pile_tracks = session.pile_tracks
      /\ n.track_list = session.track_list /\ n.last_track = session.last_track
      /\ n.spanned = session.spanned /\ n.disabled = session.disabled
      /\ ~session.disabled /\ n.offered => Worth(n, room)
  BY <1>3, <1>5, <1>6, CheckedIs
<1>8. VarsTyped'
  BY <1>1, <1>2 DEF SInv, VarsTyped
<1>9. Typed(session)' /\ BatchesFollow'
  BY <1>1, <1>2, <1>4, <1>7, TypedStays, BatchesStay DEF SInv
<1>10. Burnt' = Burnt /\ Batch' = Batch
  BY <1>2, <1>4, <1>7 DEF Burnt, Batch, ItemsOf
<1>11. window = "main" => FromMain'
  BY <1>2, <1>4, <1>7, <1>10 DEF SInv, FromMain
<1>12. window = "options" => FromOptions'
  <2> SUFFICES ASSUME window = "options" PROVE FromOptions'
    OBVIOUS
  <2>1. CASE Unspanned
    <3>1. ~session.disabled
      BY <1>2, <2>1 DEF Unspanned
    <3>2. n.offered => Worth(session, space)'
      BY <1>1, <1>2, <1>4, <1>7, <3>1, WorthStays
    <3>3. Unspanned'
      BY <1>1, <1>2, <1>4, <1>7, <2>1, <3>1, <3>2 DEF Unspanned
    <3> QED
      BY <3>3 DEF FromOptions
  <2>2. CASE SongsSpanned
    <3>1. SongsSpanned'
      BY <1>1, <1>2, <1>4, <1>7, <1>10, <2>2 DEF SongsSpanned
    <3> QED
      BY <3>1 DEF FromOptions
  <2>3. CASE FilesSpanned
    <3>1. FilesSpanned'
      BY <1>1, <1>2, <1>4, <1>7, <1>10, <2>3 DEF FilesSpanned
    <3> QED
      BY <3>1 DEF FromOptions
  <2> QED
    BY <1>2, <2>1, <2>2, <2>3 DEF SInv, FromOptions, AllBurnt
<1> QED
  BY <1>1, <1>8, <1>9, <1>11, <1>12 DEF SInv

LEMMA SMainHolds ==
  ASSUME IInv, SInv, SpanFromMain
  PROVE  SInv'
<1>1. kind' = kind /\ size' = size /\ window' = window /\ Whole' = Whole /\ UNCHANGED fixed
  BY FixedStay DEF SpanFromMain
<1>2. /\ pc = "edit" /\ window = "main"
      /\ pc' = pc /\ burnt' = burnt /\ num_copies' = num_copies /\ space' = space
  BY DEF SpanFromMain
<1>3. PICK n : n = SpanStart(session)
  OBVIOUS
<1>4. session' = n
  BY <1>3 DEF SpanFromMain
<1>5. IsRecord(session) /\ Typed(session) /\ Given /\ session.tracks = Whole
  BY <1>2, VarsGive DEF IInv, Formed, Origin, SInv
<1>6. Typed(n) /\ n.last_track = 0 /\ n.disabled = session.disabled
  BY <1>3, <1>5, StartIs
<1>7. VarsTyped'
  BY <1>1, <1>2 DEF SInv, VarsTyped
<1>8. Typed(session)' /\ BatchesFollow'
  BY <1>1, <1>2, <1>4, <1>6, TypedStays, BatchesStay DEF SInv
<1>9. FromMain'
  BY <1>2, <1>4, <1>6 DEF FromMain
<1> QED
  BY <1>1, <1>2, <1>7, <1>8, <1>9 DEF SInv

LEMMA SBurnHolds ==
  ASSUME IInv, SInv, NEW multi \in BOOLEAN, Burn(multi)
  PROVE  SInv'
<1>1. kind' = kind /\ size' = size /\ window' = window /\ Whole' = Whole /\ UNCHANGED fixed
  BY FixedStay DEF Burn
<1>2. pc = "edit" /\ pc' = "record" /\ burnt' = <<>> /\ space' = space
  BY DEF Burn
<1>3. num_copies' \in 0 .. MaxCopies + 1
  BY SpanAssumption DEF Burn
<1>4. IsRecord(session) /\ Typed(session) /\ Given
  BY VarsGive DEF IInv, Formed, SInv
<1>5. /\ session'.tracks = session.tracks /\ session'.pile_tracks = session.pile_tracks
      /\ session'.track_list = session.track_list /\ session'.last_track = session.last_track
      /\ session'.spanned = session.spanned /\ session'.disabled
  BY <1>4 DEF Burn, IsRecord, Sessions
<1>6. PICK n : n = session'
  OBVIOUS
<1>7. Typed(n)
  BY <1>4, <1>5, <1>6 DEF Typed
<1>8. VarsTyped'
  <2>1. burnt' \in Seq(SUBSET Items)
    BY <1>2
  <2> QED
    BY <1>1, <1>2, <1>3, <2>1 DEF SInv, VarsTyped
<1>9. Typed(session)' /\ BatchesFollow'
  BY <1>1, <1>2, <1>6, <1>7, TypedStays, BatchesStay DEF SInv
<1>10. Burnt' = {} /\ Batch' = Batch
  BY <1>2, <1>5 DEF Burnt, Batch, ItemsOf
<1>11. window = "main" => FromMain'
  <2> SUFFICES ASSUME window = "main" PROVE FromMain'
    OBVIOUS
  <2>1. session.tracks = Whole
    BY <1>2 DEF IInv, Origin
  <2>2. Batch = Items
    BY <1>4, <2>1, ItemsAre DEF Batch
  <2> QED
    BY <1>2, <1>5, <1>10, <2>2 DEF FromMain
<1>12. window = "options" => FromOptions'
  <2> SUFFICES ASSUME window = "options" PROVE FromOptions'
    OBVIOUS
  <2>1. CASE Unspanned
    <3>1. Unspanned'
      BY <1>1, <1>2, <1>5, <2>1 DEF Unspanned
    <3> QED
      BY <3>1 DEF FromOptions
  <2>2. CASE SongsSpanned
    <3>1. /\ kind = "stream" /\ session.pile_tracks # <<>> /\ session.track_list = Whole
          /\ session.last_track \in Items /\ session.tracks = SubSeq(Whole, 1, session.last_track)
      BY <1>2, <2>2 DEF SongsSpanned
    <3>2. 1 \in 1 .. session.last_track /\ {} = 1 .. 1 - 1
      BY <3>1, SpanAssumption DEF Items
    <3>3. SongsSpanned'
      BY <1>1, <1>2, <1>5, <1>10, <3>1, <3>2 DEF SongsSpanned
    <3> QED
      BY <3>3 DEF FromOptions
  <2>3. CASE FilesSpanned
    <3>1. FilesSpanned'
      BY <1>1, <1>2, <1>5, <1>10, <2>3 DEF FilesSpanned
    <3> QED
      BY <3>1 DEF FromOptions
  <2> QED
    BY <1>2, <2>1, <2>2, <2>3 DEF SInv, FromOptions, AllBurnt
<1> QED
  BY <1>1, <1>8, <1>9, <1>11, <1>12 DEF SInv

\* "Make More Copies": not of what was spanned.
LEMMA SAnotherHolds ==
  ASSUME Inputs \subseteq {"project"}, IInv, SInv, NEW room \in Spaces, AnotherCopy(room)
  PROVE  SInv'
<1>1. kind' = kind /\ size' = size /\ window' = window /\ Whole' = Whole /\ UNCHANGED fixed
  BY FixedStay DEF AnotherCopy
<1>2. /\ pc = "success" /\ pc' = "record" /\ burnt' = <<>> /\ space' = room
      /\ session' = session /\ session.pile_tracks = <<>>
  BY DEF AnotherCopy
<1>3. num_copies' \in 0 .. MaxCopies + 1
  BY SpanAssumption DEF AnotherCopy, SInv, VarsTyped
<1>4. VarsTyped'
  <2>1. burnt' \in Seq(SUBSET Items)
    BY <1>2
  <2> QED
    BY <1>1, <1>2, <1>3, <2>1 DEF SInv, VarsTyped
<1>5. Typed(session)' /\ BatchesFollow'
  BY <1>1, <1>2, TypedStays, BatchesStay DEF SInv
<1>6. Burnt' = {} /\ Batch' = Batch
  BY <1>2 DEF Burnt, Batch
<1>7. window = "main" => FromMain'
  <2> SUFFICES ASSUME window = "main" PROVE FromMain'
    OBVIOUS
  <2>1. session.tracks = Whole
    BY <1>2 DEF IInv, Origin
  <2>2. Batch = Items
    BY <2>1, ItemsAre, VarsGive DEF Batch, SInv
  <2> QED
    BY <1>2, <1>6, <2>2 DEF FromMain, SInv
<1>8. window = "options" => FromOptions'
  BY <1>1, <1>2 DEF SInv, FromOptions, Unspanned, SongsSpanned, FilesSpanned, AllBurnt
<1> QED
  BY <1>1, <1>4, <1>5, <1>7, <1>8 DEF SInv

\* Spanning from the options: what is proposed has a first batch, and is not all in it.
LEMMA SOptionsHolds ==
  ASSUME Inputs \subseteq {"project"}, IInv, SInv, SpanFromOptions
  PROVE  SInv'
<1>1. kind' = kind /\ size' = size /\ window' = window /\ Whole' = Whole /\ UNCHANGED fixed
  BY FixedStay DEF SpanFromOptions
<1>2. /\ pc = "edit" /\ window = "options" /\ session.offered /\ session.pile_tracks = <<>>
      /\ pc' = pc /\ burnt' = burnt /\ num_copies' = num_copies /\ space' = space
  BY DEF SpanFromOptions
<1>3. IsRecord(session) /\ Typed(session) /\ Given /\ space \in Nat
  BY VarsGive DEF IInv, Formed, SInv
<1>4. /\ session.tracks = Whole /\ session.track_list = <<>> /\ session.last_track = 0
      /\ session.spanned = {} /\ ~session.disabled /\ Worth(session, space)
  BY <1>2 DEF SInv, FromOptions, Unspanned, SongsSpanned, FilesSpanned, AllBurnt
<1>5. PICK st : st = SpanStart(session)
  OBVIOUS
<1>6. PICK r : r = SpanNext(st, space)
  OBVIOUS
<1>7. PICK n : n = r.session
  OBVIOUS
<1>8. PICK c : c = Checked(n, space)
  OBVIOUS
<1>9. session' = c
  BY <1>5, <1>6, <1>7, <1>8 DEF SpanFromOptions
<1>10. /\ IsRecord(st) /\ Typed(st) /\ st.track_list = Whole /\ st.last_track = 0
       /\ st.spanned = {} /\ ~st.disabled
  BY <1>3, <1>4, <1>5, StartIs
<1>11. Whole \in Seq(Tracks) /\ Whole # <<>> /\ Len(Whole) \in Nat \ {0}
  BY <1>3, WholeIs DEF Given
<1>12. Remaining(session) = Whole
  BY <1>4 DEF Remaining
<1>13. space # 0
  BY <1>4 DEF Worth, SpanPossible
<1>14. IsRecord(n)
  BY <1>3, <1>5, <1>6, <1>7, StartKeepsTracks, NextKeepsOrigin DEF Formed, IInv
<1>15. Typed(n) /\ ~n.disabled
  BY <1>3, <1>6, <1>7, <1>10, SpanNextIs
<1>16. VarsTyped' /\ BatchesFollow'
  BY <1>1, <1>2, BatchesStay DEF SInv, VarsTyped
<1>17. CASE kind = "data"
  <2>1. Whole[1].cfg
    BY <1>17, <1>3, WholeIs DEF Given
  <2>2. DataPossible(session, space) = "RETRY"
    BY <1>4, <1>11, <1>12, <1>13, <2>1 DEF Worth, SpanPossible
  <2>3. \E i \in LeftOver(session) : size[i] < space
    BY <2>2 DEF DataPossible
  <2>4. LeftOver(st) = LeftOver(session)
    BY <1>4, <1>10 DEF LeftOver
  <2>5. \E i \in LeftOver(st) : size[i] <= space
    <3>1. PICK i \in LeftOver(st) : size[i] < space
      BY <2>3, <2>4
    <3>2. size[i] \in Nat
      BY <1>3 DEF LeftOver, Given
    <3>3. size[i] <= space
      BY <1>3, <3>1, <3>2
    <3> QED
      BY <3>3
  <2>6. PICK B : B = DataBatch(st, space)
    OBVIOUS
  <2>7. r = NextOfData(st, space)
    BY <1>3, <1>6, <1>10, <1>11, <1>13, <1>17, SpanNextIs
  <2>8. /\ n.track_list = Whole /\ n.last_track = 0 /\ n.pile_tracks # <<>>
        /\ n.spanned = {} \cup B /\ ItemsOf(n) = B
    <3>1. FilesTaken(st, space, r, B)
      BY <1>3, <1>10, <2>6, <2>7, FilesAre
    <3> QED
      BY <1>7, <1>10, <2>5, <3>1 DEF FilesTaken
  <2>9. /\ Typed(c) /\ c.tracks = n.tracks /\ c.pile_tracks = n.pile_tracks
        /\ c.track_list = n.track_list /\ c.last_track = n.last_track /\ c.spanned = n.spanned
    BY <1>8, <1>14, <1>15, <2>8, CheckedIs
  <2>10. Batch' = B
    BY <1>9, <2>8, <2>9 DEF Batch, ItemsOf
  <2>11. FilesSpanned'
    BY <1>1, <1>2, <1>9, <1>17, <2>8, <2>9, <2>10 DEF FilesSpanned
  <2>12. Typed(session)'
    BY <1>1, <1>9, <2>9, TypedStays
  <2> QED
    BY <1>1, <1>2, <1>16, <2>11, <2>12 DEF SInv, FromOptions
<1>18. CASE kind = "stream"
  <2>1. /\ Len(Whole) = NumItems /\ Whole[1].items = {1} /\ ~Whole[1].cfg
        /\ NumItems \in Nat \ {0} /\ 1 \in Items
    <3>1. NumItems \in Nat \ {0} /\ 1 \in Items
      BY SpanAssumption DEF Items
    <3> QED
      BY <1>18, <3>1, WholeIs
  <2>2. Sectors({1}) < space
    <3>1. Head(Whole) = Whole[1]
      BY <1>11
    <3>2. Sectors({1}) \in Nat
      BY <1>3, <2>1, SectorsOfOne DEF Given
    <3>3. ~ (Sectors({1}) >= space)
      BY <1>4, <1>11, <1>12, <1>13, <2>1, <3>1 DEF Worth, SpanPossible
    <3> QED
      BY <1>3, <3>2, <3>3
  <2>3. ~ (Sectors(Items) < space)
    <3>1. UNION {session.tracks[k].items : k \in DOMAIN session.tracks} = Items
      BY <1>3, <1>4, WholeIs DEF Given
    <3>2. SessionSize(session) = Sectors(Items)
      BY <1>18, <3>1 DEF SessionSize
    <3> QED
      BY <1>4, <3>2 DEF Worth
  <2>4. r = NextOfStreams(st, 1, space)
    BY <1>3, <1>6, <1>10, <1>11, <1>13, <1>18, SpanNextIs
  <2>5. SongsTaken(st, 1, space, r)
    BY <1>3, <1>10, <1>18, <2>1, <2>4, SongsTakenAre
  <2>6. /\ n.track_list = Whole /\ n.pile_tracks # <<>>
        /\ n.last_track \in 1 .. NumItems /\ n.last_track < NumItems
        /\ n.tracks = SubSeq(Whole, 1, n.last_track)
    BY <1>7, <2>2, <2>3, <2>5 DEF SongsTaken
  <2>7. Remaining(n) # <<>>
    BY <1>11, <2>1, <2>6, MoreSongs DEF Remaining
  <2>8. /\ Typed(c) /\ c.tracks = n.tracks /\ c.pile_tracks = n.pile_tracks
        /\ c.track_list = n.track_list /\ c.last_track = n.last_track
    BY <1>8, <1>14, <1>15, <2>7, CheckedIs
  <2>9. 1 \in 1 .. n.last_track
    BY <2>1, <2>6
  <2>10. SongsSpanned'
    BY <1>1, <1>2, <1>9, <1>18, <2>6, <2>8, <2>9 DEF SongsSpanned, Items
  <2>11. Typed(session)'
    BY <1>1, <1>9, <2>8, TypedStays
  <2> QED
    BY <1>1, <1>2, <1>16, <2>10, <2>11 DEF SInv, FromOptions
<1> QED
  BY <1>3, <1>17, <1>18 DEF Given

\* A recording that succeeds: the batch is burnt, and it is the end or not.
LEMMA SRecordHolds ==
  ASSUME IInv, SInv, RecordOk
  PROVE  SInv'
<1>1. kind' = kind /\ size' = size /\ window' = window /\ Whole' = Whole /\ UNCHANGED fixed
  BY FixedStay DEF RecordOk
<1>2. /\ pc = "record" /\ burnt' = Append(burnt, Batch)
      /\ num_copies' = num_copies /\ space' = space
  BY DEF RecordOk, Batch
<1>3. IsRecord(session) /\ Typed(session) /\ Given /\ Batch \in SUBSET Items
  BY VarsGive DEF IInv, Formed, SInv
<1>4. burnt \in Seq(SUBSET Items) /\ NumItems \in Nat
  BY SpanAssumption DEF SInv, VarsTyped
<1>5. burnt' \in Seq(SUBSET Items) /\ burnt' # <<>> /\ Burnt' = Burnt \cup Batch
  BY <1>2, <1>3, <1>4, BurntAppend DEF Burnt
<1>6. Burnt \subseteq Items
  BY <1>4 DEF Burnt
<1>7. \/ SpanAgain(session) = "OK" /\ session' = SpanStop(session) /\ pc' = "success"
      \/ SpanAgain(session) = "RETRY" /\ session' = session /\ pc' = "insert"
  BY DEF RecordOk
<1>8. PICK n : n = session'
  OBVIOUS
<1>9. PICK e : e = SpanStop(session)
  OBVIOUS
<1>10. /\ Typed(e) /\ e.tracks = session.tracks /\ e.pile_tracks = session.pile_tracks
       /\ e.track_list = <<>> /\ e.last_track = 0 /\ e.disabled = session.disabled
       /\ session.track_list = <<>> => e.spanned = session.spanned
  BY <1>3, <1>9, StopIs
<1>11. Typed(n) /\ n.disabled = session.disabled
  BY <1>3, <1>7, <1>8, <1>9, <1>10
<1>12. VarsTyped'
  BY <1>1, <1>2, <1>5, <1>7 DEF SInv, VarsTyped
<1>13. Typed(session)'
  BY <1>1, <1>8, <1>11, TypedStays
<1>14. window = "main" => FromMain'
  <2> SUFFICES ASSUME window = "main" PROVE FromMain'
    OBVIOUS
  <2>1. session.disabled /\ session'.disabled
    BY <1>2, <1>8, <1>11 DEF SInv, FromMain
  <2>2. Burnt' = Items
    BY <1>2, <1>3, <1>5, <1>6 DEF SInv, FromMain
  <2> QED
    BY <1>5, <1>7, <2>1, <2>2 DEF FromMain
<1>15. window = "options" =>
         /\ FromOptions'
         /\ Burnt \cap Batch = {}
         /\ kind = "stream" => \A i \in Burnt, j \in Batch : i < j
  <2> SUFFICES ASSUME window = "options"
               PROVE  /\ FromOptions'
                      /\ Burnt \cap Batch = {}
                      /\ kind = "stream" => \A i \in Burnt, j \in Batch : i < j
    OBVIOUS
  <2>1. CASE Unspanned
    <3>1. /\ session.track_list = <<>> /\ burnt = <<>> /\ session.tracks = Whole
          /\ session.pile_tracks = <<>> /\ session.spanned = {}
      BY <1>2, <2>1 DEF Unspanned
    <3>2. Burnt = {} /\ Batch = Items
      BY <1>3, <3>1, ItemsAre DEF Burnt, Batch
    <3>3. SpanAgain(session) = "OK"
      BY <3>1 DEF SpanAgain
    <3>4. session' = e /\ pc' = "success"
      BY <1>7, <1>9, <3>3
    <3>5. Unspanned'
      BY <1>1, <1>5, <1>10, <3>1, <3>2, <3>4 DEF Unspanned
    <3> QED
      BY <3>2, <3>5 DEF FromOptions
  <2>2. CASE SongsSpanned
    <3>1. /\ kind = "stream" /\ session.pile_tracks # <<>>
          /\ session.track_list = Whole /\ session.last_track \in Items
      BY <2>2 DEF SongsSpanned
    <3>2. PICK b \in 1 .. session.last_track :
            session.tracks = SubSeq(Whole, b, session.last_track) /\ Burnt = 1 .. b - 1
      BY <1>2, <2>2 DEF SongsSpanned
    <3>3. PICK l \in 1 .. NumItems : l = session.last_track /\ b \in 1 .. l
      BY <3>1, <3>2 DEF Items
    <3>4. Batch = b .. l
      <4>1. b \in Items /\ l \in Items /\ b <= l
        BY <1>4, <3>3 DEF Items
      <4>2. UNION {SubSeq(Whole, b, l)[k].items : k \in DOMAIN SubSeq(Whole, b, l)} = b .. l
        BY <3>1, <4>1, SongsAre
      <4> QED
        BY <3>2, <3>3, <4>2 DEF Batch, ItemsOf
    <3>5. Burnt \cap Batch = {} /\ \A i \in Burnt, j \in Batch : i < j
      BY <1>4, <3>2, <3>3, <3>4
    <3>6. Burnt' = 1 .. l
      BY <1>4, <1>5, <3>2, <3>3, <3>4
    <3>7. Whole # <<>> /\ Len(Whole) = NumItems
      BY <1>3, <3>1, WholeIs DEF Given
    <3>8. CASE l = NumItems
      <4>1. SpanAgain(session) = "OK"
        BY <3>1, <3>3, <3>7, <3>8 DEF SpanAgain
      <4>2. session' = e /\ pc' = "success"
        BY <1>7, <1>9, <4>1
      <4>3. AllBurnt'
        BY <1>10, <3>1, <3>6, <3>8, <4>2 DEF AllBurnt, Items
      <4> QED
        BY <3>5, <4>3 DEF FromOptions
    <3>9. CASE l # NumItems
      <4>1. SpanAgain(session) = "RETRY"
        BY <3>1, <3>3, <3>7, <3>9 DEF SpanAgain
      <4>2. session' = session /\ pc' = "insert" /\ l < NumItems
        BY <1>4, <1>7, <3>3, <3>9, <4>1
      <4>3. SongsSpanned'
        BY <1>1, <3>1, <3>2, <3>3, <3>6, <4>2 DEF SongsSpanned
      <4> QED
        BY <3>5, <4>3 DEF FromOptions
    <3> QED
      BY <3>8, <3>9
  <2>3. CASE FilesSpanned
    <3>1. /\ kind = "data" /\ session.pile_tracks # <<>>
          /\ session.track_list = Whole /\ session.last_track = 0
          /\ session.spanned = Burnt \cup Batch /\ Burnt \cap Batch = {}
      BY <1>2, <2>3 DEF FilesSpanned
    <3>2. Whole # <<>> /\ Head(Whole).cfg
      <4>1. Whole \in Seq(Tracks) /\ Whole # <<>> /\ Whole[1].cfg
        BY <1>3, <3>1, WholeIs DEF Given
      <4> QED
        BY <4>1
    <3>3. SpanAgain(session) = IF Items \ session.spanned # {} THEN "RETRY" ELSE "OK"
      BY <3>1, <3>2 DEF SpanAgain, DataAgain, LeftOver
    <3>4. CASE Items \ session.spanned = {}
      <4>1. session' = e /\ pc' = "success"
        BY <1>7, <1>9, <3>3, <3>4
      <4>2. Burnt' = Items
        BY <1>3, <1>5, <1>6, <3>1, <3>4
      <4>3. AllBurnt'
        BY <1>10, <3>1, <4>1, <4>2 DEF AllBurnt
      <4> QED
        BY <3>1, <4>3 DEF FromOptions
    <3>5. CASE Items \ session.spanned # {}
      <4>1. session' = session /\ pc' = "insert"
        BY <1>7, <3>3, <3>5
      <4>2. Burnt' # Items /\ session.spanned = Burnt'
        BY <1>5, <3>1, <3>5
      <4>3. FilesSpanned'
        BY <1>1, <3>1, <4>1, <4>2 DEF FilesSpanned
      <4> QED
        BY <3>1, <4>3 DEF FromOptions
    <3> QED
      BY <3>4, <3>5
  <2> QED
    BY <1>2, <2>1, <2>2, <2>3 DEF SInv, FromOptions, AllBurnt
<1>16. BatchesFollow'
  BY <1>1, <1>2, <1>3, <1>4, <1>15, BatchesGrow DEF SInv
<1> QED
  BY <1>1, <1>12, <1>13, <1>14, <1>15, <1>16 DEF SInv

\* Another disc between the batches: none, or one on which something of what is left fits.
LEMMA SInsertHolds ==
  ASSUME Inputs \subseteq {"project"}, IInv, SInv, NEW room \in Spaces, InsertDisc(room)
  PROVE  SInv'
<1>1. kind' = kind /\ size' = size /\ window' = window /\ Whole' = Whole /\ UNCHANGED fixed
  BY FixedStay DEF InsertDisc
<1>2. PICK r : r = SpanNext(session, room)
  OBVIOUS
<1>3. /\ pc = "insert" /\ burnt' = burnt /\ num_copies' = num_copies
      /\ room = 0 \/ FitsNext(room)
      /\ session' = IF r.result = "OK" THEN SpanStop(r.session) ELSE r.session
      /\ space' = IF r.result = "ERR" THEN 0 ELSE room
  BY <1>2 DEF InsertDisc
<1>4. /\ r.result = "RETRY" => pc' = "record"
      /\ r.result = "OK" => pc' = "success"
      /\ r.result = "ERR" => pc' = "insert"
      /\ r.result \in {"OK", "RETRY", "ERR"}
  BY <1>2, SpanNextAnswers DEF InsertDisc
<1>5. IsRecord(session) /\ Typed(session) /\ Given /\ room \in Nat
  BY VarsGive DEF IInv, Formed, SInv
<1>6. PICK n : n = r.session
  OBVIOUS
<1>7. PICK e : e = SpanStop(n)
  OBVIOUS
<1>8. IsRecord(n)
  BY <1>2, <1>5, <1>6, NextKeepsOrigin DEF Formed, IInv
<1>9. Typed(n) /\ n.disabled = session.disabled
  BY <1>2, <1>5, <1>6, SpanNextIs
<1>10. Typed(e) /\ e.disabled = n.disabled
  BY <1>7, <1>8, <1>9, StopIs
<1>11. session' = e \/ session' = n
  BY <1>3, <1>6, <1>7
<1>12. Typed(session)' /\ session'.disabled = session.disabled
  BY <1>1, <1>9, <1>10, <1>11, TypedStays
<1>13. VarsTyped' /\ BatchesFollow'
  BY <1>1, <1>3, <1>4, BatchesStay DEF SInv, VarsTyped
<1>14. Burnt' = Burnt
  BY <1>3 DEF Burnt
<1>15. window = "main" => FromMain'
  BY <1>3, <1>4, <1>12, <1>14 DEF SInv, FromMain
<1>16. window = "options" => FromOptions'
  <2> SUFFICES ASSUME window = "options" PROVE FromOptions'
    OBVIOUS
  <2>1. CASE room = 0
    <3>1. r.result = "ERR" /\ n = session
      BY <1>2, <1>5, <1>6, <2>1, SpanNextIs
    <3>2. session' = session /\ pc' = "insert"
      BY <1>3, <1>4, <1>6, <3>1
    <3>3. FromOptions
      BY DEF SInv
    <3> QED
      BY <1>1, <1>3, <1>14, <3>2, <3>3
      DEF FromOptions, Unspanned, SongsSpanned, FilesSpanned, AllBurnt
  <2>2. CASE room # 0 /\ SongsSpanned
    <3>1. /\ kind = "stream" /\ session.pile_tracks # <<>> /\ session.track_list = Whole
          /\ session.last_track \in Items /\ session.last_track < NumItems
          /\ Burnt = 1 .. session.last_track
      BY <1>3, <2>2 DEF SongsSpanned
    <3>2. PICK l \in 1 .. NumItems : l = session.last_track /\ l < NumItems
      BY <3>1 DEF Items
    <3>3. NumItems \in Nat /\ l + 1 \in Items /\ 1 \in Items
      BY <3>2, SpanAssumption DEF Items
    <3>4. /\ Whole \in Seq(Tracks) /\ Whole # <<>> /\ Len(Whole) = NumItems
          /\ Whole[l + 1].items = {l + 1} /\ ~Whole[1].cfg
      BY <1>5, <3>1, <3>3, WholeIs DEF Given
    <3>5. Head(Whole) = Whole[1]
      BY <3>4
    <3>6. Sectors({l + 1}) < room
      BY <1>3, <2>2, <3>1, <3>2, <3>4, <3>5 DEF FitsNext
    <3>7. r = NextOfStreams(session, l + 1, room)
      BY <1>2, <1>5, <2>2, <3>1, <3>2, <3>4, SpanNextIs
    <3>8. SongsTaken(session, l + 1, room, r)
      BY <1>5, <3>1, <3>2, <3>3, <3>7, SongsTakenAre
    <3>9. /\ r.result = "RETRY" /\ n.track_list = Whole /\ n.pile_tracks # <<>>
          /\ n.last_track \in l + 1 .. NumItems
          /\ n.tracks = SubSeq(Whole, l + 1, n.last_track)
      BY <1>6, <3>6, <3>8 DEF SongsTaken
    <3>10. session' = n /\ pc' = "record"
      BY <1>3, <1>4, <1>6, <3>9
    <3>11. n.last_track \in Items /\ l + 1 \in 1 .. n.last_track /\ 1 .. l = 1 .. (l + 1) - 1
      BY <3>2, <3>3, <3>9 DEF Items
    <3>12. SongsSpanned'
      BY <1>1, <1>14, <3>1, <3>2, <3>9, <3>10, <3>11 DEF SongsSpanned
    <3> QED
      BY <3>12 DEF FromOptions
  <2>3. CASE room # 0 /\ FilesSpanned
    <3>1. /\ kind = "data" /\ session.pile_tracks # <<>>
          /\ session.track_list = Whole /\ session.last_track = 0 /\ session.spanned = Burnt
      BY <1>3, <2>3 DEF FilesSpanned
    <3>2. Whole \in Seq(Tracks) /\ Whole # <<>> /\ Len(Whole) = 1 /\ Whole[1].cfg
      BY <1>5, <3>1, WholeIs DEF Given
    <3>3. Head(Whole) = Whole[1]
      BY <3>2
    <3>4. \E i \in LeftOver(session) : size[i] <= room
      BY <1>3, <2>3, <3>1, <3>2, <3>3 DEF FitsNext
    <3>5. r = NextOfData(session, room)
      BY <1>2, <1>5, <2>3, <3>1, <3>2, SpanNextIs
    <3>6. PICK B : B = DataBatch(session, room)
      OBVIOUS
    <3>7. FilesTaken(session, room, r, B)
      BY <1>5, <3>5, <3>6, FilesAre
    <3>8. /\ r.result = "RETRY" /\ n.track_list = Whole /\ n.last_track = 0
          /\ n.pile_tracks # <<>> /\ n.spanned = Burnt \cup B /\ ItemsOf(n) = B
          /\ B \subseteq LeftOver(session)
      BY <1>6, <3>1, <3>4, <3>7 DEF FilesTaken
    <3>9. session' = n /\ pc' = "record"
      BY <1>3, <1>4, <1>6, <3>8
    <3>10. Batch' = B
      BY <3>8, <3>9 DEF Batch
    <3>11. Burnt \cap B = {}
      BY <3>1, <3>8 DEF LeftOver
    <3>12. FilesSpanned'
      BY <1>1, <1>14, <3>1, <3>8, <3>9, <3>10, <3>11 DEF FilesSpanned
    <3> QED
      BY <3>12 DEF FromOptions
  <2> QED
    BY <1>3, <2>1, <2>2, <2>3 DEF SInv, FromOptions, Unspanned, AllBurnt
<1> QED
  BY <1>1, <1>12, <1>13, <1>15, <1>16 DEF SInv

LEMMA SStutterHolds ==
  ASSUME SInv, UNCHANGED vars
  PROVE  SInv'
<1>1. UNCHANGED fixed /\ session' = session /\ space' = space /\ pc' = pc /\ burnt' = burnt
      /\ num_copies' = num_copies
  BY DEF vars, fixed
<1>2. kind' = kind /\ size' = size /\ window' = window /\ Whole' = Whole
  BY <1>1, FixedStay
<1>3. Typed(session)' /\ BatchesFollow'
  BY <1>1, TypedStays, BatchesStay DEF SInv
<1>4. Burnt' = Burnt /\ Batch' = Batch
  BY <1>1 DEF Burnt, Batch
<1>5. Worth(session, space) => Worth(session, space)'
  BY <1>1, WorthStays
<1>6. VarsTyped'
  BY <1>1, <1>2 DEF SInv, VarsTyped
<1>7. window = "main" => FromMain'
  BY <1>1, <1>4 DEF SInv, FromMain
<1>8. window = "options" => FromOptions'
  BY <1>1, <1>2, <1>4, <1>5 DEF SInv, FromOptions, Unspanned, SongsSpanned, FilesSpanned, AllBurnt
<1> QED
  BY <1>2, <1>3, <1>6, <1>7, <1>8 DEF SInv

LEMMA SNextHolds ==
  ASSUME Inputs \subseteq {"project"}
  PROVE  IInv /\ SInv /\ [Next]_vars => SInv'
<1> SUFFICES ASSUME IInv, SInv, [Next]_vars
             PROVE  SInv'
  OBVIOUS
<1>1. CASE RecordFails \/ GiveUp \/ Close
  BY <1>1, SFinishHolds DEF RecordFails, GiveUp, Close
<1> QED
  BY <1>1, SChangeHolds, SOptionsHolds, SMainHolds, SBurnHolds, SRecordHolds, SInsertHolds,
     SAnotherHolds, SStutterHolds DEF Next

\* The variables keep their types; with Inputs, the discs for which what is left is too
\* large, and the dialogs and copies that are not what was spanned, are left out.
THEOREM SpanIsTyped ==
  ASSUME Inputs \subseteq {"project"}
  PROVE  Spec => []TypeOK
<1>1. SInv => TypeOK
  <2> SUFFICES ASSUME SInv PROVE TypeOK
    OBVIOUS
  <2>1. Whole \in Seq(Tracks) /\ <<>> \in Seq(Tracks)
    BY VarsGive, WholeIs DEF Given
  <2>2. session.track_list \in Seq(Tracks)
    BY <2>1 DEF SInv, Typed
  <2> QED
    BY <2>2 DEF SInv, VarsTyped, Typed, TypeOK
<1> QED
  BY <1>1, InitHolds, NextHolds, SInitHolds, SNextHolds, PTL DEF Spec

\* Each item is burnt on one disc, in the order of the songs, and success is said only
\* when all are: rejilla_session_span_next, _again and _stop, whatever the discs.
THEOREM ItemsAreBurntOnce ==
  ASSUME Inputs \subseteq {"project"}
  PROVE  Spec => []EachItemOnce
<1>1. SInv => EachItemOnce
  <2> SUFFICES ASSUME SInv PROVE EachItemOnce
    OBVIOUS
  <2>1. CASE window = "main"
    BY <2>1 DEF SInv, FromMain, EachItemOnce, SuccessIsComplete, Burnt
  <2>2. CASE window = "options"
    BY <2>2 DEF SInv, FromOptions, Unspanned, SongsSpanned, FilesSpanned, AllBurnt, EachItemOnce,
                SuccessIsComplete, Burnt
  <2> QED
    BY <2>1, <2>2 DEF SInv, VarsTyped
<1> QED
  BY <1>1, InitHolds, NextHolds, SInitHolds, SNextHolds, PTL DEF Spec
=============================================================================
