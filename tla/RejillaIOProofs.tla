-------------------------- MODULE RejillaIOProofs --------------------------
(***************************************************************************)
(* For any jobs, bases and sharing of methods, any number of results per   *)
(* idle call and any nesting of main loops - the owners dropping their     *)
(* objects during the callbacks included: deliveries nested in each other  *)
(* never share methods, and no result is stranded.                         *)
(*                                                                         *)
(* The second is not inductive: an idle call that finds only methods in    *)
(* use leaves results behind without scheduling another one, which is      *)
(* harmless because in_use is exactly what the outer deliveries hold.      *)
(***************************************************************************)
EXTENDS RejillaIO, FiniteSetTheorems, FunctionTheorems, SequenceTheorems,
        WellFoundedInduction, TLAPS

Frame == [job : Jobs, i : 0 .. NumberOfResults, at : {"callback", "clearing"}]

IInv ==
  /\ results \in Seq(Jobs) /\ results_id \in BOOLEAN /\ frames \in Seq(Frame)
  /\ OneDeliveryPerMethods
  /\ NoResultStranded

\* Deliveries that hold the methods `busy', each its own.
Holds(below, busy) ==
  /\ below \in Seq(Frame)
  /\ busy = {Methods(below[k].job) : k \in DOMAIN below}
  /\ \A k, l \in DOMAIN below : k # l => Methods(below[k].job) # Methods(below[l].job)

LEMMA MinIsMember ==
  ASSUME NEW S \in SUBSET Nat, S # {}
  PROVE  Min(S) \in S
<1> DEFINE Below == OpToRel(<, Nat)
<1>1. PICK x \in S : \A y \in S : <<y, x>> \notin Below
  <2>1. IsWellFoundedOn(Below, Nat)
    BY NatLessThanWellFounded
  <2> HIDE DEF Below
  <2> QED
    BY <2>1, WFMin
<1>2. \A y \in S : x <= y
  <2>1. \A y \in Nat, z \in Nat : y < z => <<y, z>> \in Below
    BY SMT DEF OpToRel
  <2> HIDE DEF Below
  <2>2. TAKE y \in S
  <2>3. x \in Nat /\ y \in Nat /\ ~ (y < x)
    BY <1>1, <2>1
  <2> QED
    BY <2>3
<1> QED
  BY <1>2 DEF Min

LEMMA RemoveAtIs ==
  ASSUME NEW S, NEW q \in Seq(S), NEW k \in 1 .. Len(q)
  PROVE  /\ RemoveAt(q, k) \in Seq(S) /\ Len(RemoveAt(q, k)) = Len(q) - 1
         /\ \A i \in 1 .. Len(q) - 1 :
              RemoveAt(q, k)[i] = IF i < k THEN q[i] ELSE q[i + 1]
<1> DEFINE a == SubSeq(q, 1, k - 1)
           b == SubSeq(q, k + 1, Len(q))
<1>0. Len(q) \in Nat /\ k \in 1 .. Len(q) /\ \A i \in 1 .. Len(q) : q[i] \in S
  OBVIOUS
<1>1. a \in Seq(S) /\ Len(a) = k - 1 /\ \A i \in 1 .. k - 1 : a[i] = q[i]
  <2>1. \A i \in 1 .. k - 1 : q[i] \in S
    BY <1>0
  <2> QED
    BY <1>0, <2>1, SubSeqProperties
<1>2. b \in Seq(S) /\ Len(b) = Len(q) - k /\ \A i \in 1 .. Len(q) - k : b[i] = q[k + i]
  <2>1. \A i \in k + 1 .. Len(q) : q[i] \in S
    BY <1>0
  <2> QED
    BY <1>0, <2>1, SubSeqProperties
<1>3. RemoveAt(q, k) = a \o b
  BY DEF RemoveAt
<1> HIDE DEF a, b
<1>4. a \o b \in Seq(S) /\ Len(a \o b) = Len(q) - 1
  BY <1>0, <1>1, <1>2
<1>5. ASSUME NEW i \in 1 .. Len(q) - 1
      PROVE  (a \o b)[i] = IF i < k THEN q[i] ELSE q[i + 1]
  <2>1. CASE i < k
    <3>1. (a \o b)[i] = a[i]
      BY <1>0, <1>1, <1>2, <2>1, ConcatProperties
    <3> QED
      BY <1>0, <1>1, <2>1, <3>1
  <2>2. CASE ~ (i < k)
    <3>1. (a \o b)[i] = b[i - (k - 1)]
      BY <1>0, <1>1, <1>2, <2>2, ConcatProperties
    <3>2. b[i - (k - 1)] = q[i + 1]
      <4>1. i - (k - 1) \in 1 .. Len(q) - k /\ k + (i - (k - 1)) = i + 1
        BY <1>0, <2>2
      <4> QED
        BY <1>2, <4>1
    <3> QED
      BY <1>0, <2>2, <3>1, <3>2
  <2> QED
    BY <2>1, <2>2
<1> QED
  BY <1>3, <1>4, <1>5

\* The loop of the idle function, entered at its head above the deliveries
\* `below' with in_use exactly what they hold.
LEMMA LoopKeeps ==
  ASSUME NEW i \in Nat, NEW below, NEW busy, NEW id \in BOOLEAN,
         results \in Seq(Jobs), Holds(below, busy),
         Loop(i, below, busy, id)
  PROVE  IInv'
<1>1. CASE Deliverable(busy) # {} /\ i < NumberOfResults
  <2> DEFINE k == Min(Deliverable(busy))
             f == [job |-> results[k], i |-> i, at |-> "callback"]
  <2>1. k \in DOMAIN results /\ Methods(results[k]) \notin busy
    <3>1. Deliverable(busy) \in SUBSET Nat
      BY DEF Deliverable
    <3> QED
      BY <1>1, <3>1, MinIsMember DEF Deliverable
  <2>2. f \in Frame
    BY <1>1, <2>1, BoundsAssumption DEF Frame
  <2>3. /\ results' = RemoveAt(results, k) /\ frames' = Append(below, f)
        /\ in_use' = busy \cup {Methods(results[k])} /\ results_id' = id
    BY <1>1 DEF Loop
  <2> HIDE DEF k
  <2>4. results' \in Seq(Jobs) /\ frames' \in Seq(Frame) /\ frames' # <<>>
    <3>1. k \in 1 .. Len(results)
      BY <2>1
    <3>2. RemoveAt(results, k) \in Seq(Jobs)
      BY <3>1, RemoveAtIs
    <3> QED
      BY <2>2, <2>3, <3>2 DEF Holds
  <2>5. /\ DOMAIN frames' = 1 .. Len(below) + 1
        /\ frames'[Len(below) + 1] = f
        /\ DOMAIN below = 1 .. Len(below) /\ Len(below) \in Nat
        /\ \A n \in DOMAIN below : frames'[n] = below[n]
    BY <2>2, <2>3 DEF Holds
  <2>6. in_use' = {Methods(frames'[n].job) : n \in DOMAIN frames'}
    <3>1. DOMAIN frames' = DOMAIN below \cup {Len(below) + 1}
      BY <2>5
    <3>2. f.job = results[k]
      OBVIOUS
    <3>3. busy = {Methods(frames'[n].job) : n \in DOMAIN below}
      BY <2>5 DEF Holds
    <3> HIDE DEF f
    <3> QED
      BY <2>3, <2>5, <3>1, <3>2, <3>3
  <2>7. \A m, n \in DOMAIN frames' : m # n => Methods(frames'[m].job) # Methods(frames'[n].job)
    BY <2>1, <2>5 DEF Holds
  <2> QED
    BY <2>3, <2>4, <2>6, <2>7 DEF IInv, OneDeliveryPerMethods, NoResultStranded, Methods
<1>2. CASE ~(Deliverable(busy) # {} /\ i < NumberOfResults)
  <2>1. /\ frames' = below /\ in_use' = busy /\ results' = results
        /\ results_id' = (id \/ Again(i, id))
    BY <1>2 DEF Loop
  <2>2. NoResultStranded'
    <3> SUFFICES ASSUME results # <<>>, ~id, ~Again(i, id) PROVE below # <<>>
      BY <2>1 DEF NoResultStranded
    <3>1. Deliverable(busy) = {}
      BY <1>2, BoundsAssumption DEF Again
    <3>2. 1 \in DOMAIN results
      OBVIOUS
    <3>3. Methods(results[1]) \in busy
      BY <3>1, <3>2 DEF Deliverable
    <3> QED
      BY <3>3 DEF Holds
  <2> QED
    BY <2>1, <2>2 DEF Holds, IInv, OneDeliveryPerMethods, Again, Methods
<1> QED
  BY <1>1, <1>2

\* Leaving the innermost delivery gives its methods back, and only those.
LEMMA InnermostLeaves ==
  ASSUME IInv, frames # <<>>
  PROVE  /\ Holds(Front(frames), in_use \ {Methods(Last(frames).job)})
         /\ Last(frames).i \in Nat
<1>1. /\ Len(frames) \in Nat \ {0} /\ DOMAIN frames = 1 .. Len(frames)
      /\ \A n \in DOMAIN frames : frames[n] \in Frame
  BY DEF IInv
<1>2. /\ Front(frames) \in Seq(Frame) /\ DOMAIN Front(frames) = 1 .. Len(frames) - 1
      /\ \A n \in 1 .. Len(frames) - 1 : Front(frames)[n] = frames[n]
  BY <1>1 DEF Front, IInv
<1>3. Last(frames).i \in Nat
  BY <1>1 DEF Last, Frame
<1> DEFINE n == Len(frames)
           M(k) == Methods(frames[k].job)
<1>4. in_use = {M(k) : k \in 1 .. n} /\ \A k, l \in 1 .. n : k # l => M(k) # M(l)
  BY <1>1 DEF IInv, OneDeliveryPerMethods
<1>5. in_use \ {M(n)} = {M(k) : k \in 1 .. n - 1}
  <2> HIDE DEF M
  <2> QED
    BY <1>1, <1>4
<1>6. \A k \in 1 .. n - 1 : Methods(Front(frames)[k].job) = M(k)
  BY <1>2
<1>7. in_use \ {Methods(Last(frames).job)}
        = {Methods(Front(frames)[k].job) : k \in DOMAIN Front(frames)}
  BY <1>2, <1>5, <1>6 DEF Last
<1>8. \A k, l \in DOMAIN Front(frames) :
        k # l => Methods(Front(frames)[k].job) # Methods(Front(frames)[l].job)
  BY <1>1, <1>2, <1>4, <1>6
<1> QED
  BY <1>2, <1>3, <1>7, <1>8 DEF Holds

-----------------------------------------------------------------------------
LEMMA InitIInv == Init => IInv
<1> SUFFICES ASSUME Init PROVE IInv
  OBVIOUS
<1>1. frames = <<>> /\ results = <<>> /\ in_use = {} /\ results_id = FALSE
  BY DEF Init
<1>2. frames \in Seq(Frame) /\ results \in Seq(Jobs) /\ DOMAIN frames = {}
  BY <1>1
<1> QED
  BY <1>1, <1>2 DEF IInv, OneDeliveryPerMethods, NoResultStranded

\* A step that leaves results, frames and in_use alone, or takes a result away
\* while there are some, or adds one and schedules an idle call.
LEMMA QuietStep ==
  ASSUME IInv, UNCHANGED <<frames, in_use>>, results' \in Seq(Jobs), results_id' \in BOOLEAN,
         (results # <<>> /\ results_id' = results_id) \/ results' = <<>> \/ results_id'
  PROVE  IInv'
BY DEF IInv, OneDeliveryPerMethods, NoResultStranded, Methods

LEMMA NextIInv == IInv /\ [Next]_vars => IInv'
<1> SUFFICES ASSUME IInv, [Next]_vars PROVE IInv'
  OBVIOUS
<1>0. results \in Seq(Jobs) /\ results_id \in BOOLEAN /\ (results_id \/ results_id = FALSE)
  BY DEF IInv
\* the steps that touch no result
<1>1. ASSUME UNCHANGED resultVars PROVE IInv'
  BY <1>1 DEF resultVars, IInv, OneDeliveryPerMethods, NoResultStranded, Methods
<1>2. ASSUME NEW j \in Jobs,
             Run(j) \/ ReturnResult(j) \/ End(j) \/ Reschedule(j) \/ Push(j) \/ PushRefused(j)
      PROVE  IInv'
  BY <1>1, <1>2 DEF Run, ReturnResult, End, Reschedule, Push, PushRefused
<1>3. ASSUME NEW b \in Bases, FindUrgent(b) \/ Cancel(b) \/ Release(b) PROVE IInv'
  BY <1>1, <1>3 DEF FindUrgent, Cancel, Release
<1>4. ASSUME CancelUnprocessed \/ CancelActive \/ CancelWaited \/ CancelReturns PROVE IInv'
  BY <1>1, <1>4 DEF CancelUnprocessed, CancelActive, CancelWaited, CancelReturns
\* a worker adds a result
<1>5. ASSUME NEW j \in Jobs, QueueResult(j) \/ SendDummy(j) PROVE IInv'
  <2>1. results' = Append(results, j) /\ results_id' = TRUE /\ UNCHANGED <<frames, in_use>>
    BY <1>5 DEF QueueResult, SendDummy, AppendResult
  <2> QED
    BY <1>0, <2>1, QuietStep
\* cancel_result takes one away
<1>6. ASSUME CancelResult PROVE IInv'
  <2>1. Slipped \in SUBSET Nat /\ Slipped # {} /\ Slipped \subseteq DOMAIN results
    BY <1>0, <1>6 DEF CancelResult, Slipped
  <2>2. Min(Slipped) \in DOMAIN results
    BY <2>1, MinIsMember
  <2>3. /\ results' = RemoveAt(results, Min(Slipped))
        /\ UNCHANGED <<results_id, frames, in_use>>
    BY <1>6 DEF CancelResult
  <2>4. results' \in Seq(Jobs) /\ results # <<>>
    BY <1>0, <2>2, <2>3, RemoveAtIs
  <2> QED
    BY <1>0, <2>3, <2>4, QuietStep
\* the idle function
<1>7. ASSUME RunIdle PROVE IInv'
  <2>1. Loop(0, frames, in_use, FALSE)
    BY <1>7 DEF RunIdle
  <2>2. Holds(frames, in_use)
    BY DEF IInv, OneDeliveryPerMethods, Holds
  <2> QED
    BY <1>0, <2>1, <2>2, LoopKeeps
<1>8. ASSUME EndCallback PROVE IInv'
  <2> DEFINE f == Last(frames)
  <2>1. frames # <<>>
    BY <1>8 DEF EndCallback
  <2>2. CASE /\ frames' = [frames EXCEPT ![Len(frames)].at = "clearing"]
             /\ UNCHANGED <<results, results_id, in_use>>
    <3>1. /\ frames' \in Seq(Frame) /\ frames' # <<>> /\ DOMAIN frames' = DOMAIN frames
          /\ \A k \in DOMAIN frames : frames'[k].job = frames[k].job
      <4>1. /\ Len(frames) \in DOMAIN frames /\ DOMAIN frames = 1 .. Len(frames)
            /\ \A k \in DOMAIN frames : frames[k] \in Frame
        BY <2>1 DEF IInv
      <4> DEFINE g == [frames[Len(frames)] EXCEPT !.at = "clearing"]
      <4>2. g \in Frame /\ g.job = frames[Len(frames)].job
        BY <4>1 DEF Frame
      <4>3. frames' = [frames EXCEPT ![Len(frames)] = g]
        BY <2>2
      <4> HIDE DEF g
      <4> QED
        BY <2>1, <4>1, <4>2, <4>3 DEF IInv
    <3> QED
      BY <2>2, <3>1 DEF IInv, OneDeliveryPerMethods, NoResultStranded, Methods
  <2>3. CASE Loop(f.i + 1, Front(frames), in_use \ {Methods(f.job)}, results_id)
    BY <1>0, <2>1, <2>3, InnermostLeaves, LoopKeeps
  <2> QED
    BY <1>8, <2>2, <2>3 DEF EndCallback
<1>9. ASSUME ClearInUse PROVE IInv'
  <2>1. /\ frames # <<>>
        /\ Loop(Last(frames).i + 1, Front(frames), in_use \ {Methods(Last(frames).job)}, results_id)
    BY <1>9 DEF ClearInUse
  <2> QED
    BY <1>0, <2>1, InnermostLeaves, LoopKeeps
<1>10. ASSUME Rest \/ UNCHANGED vars PROVE IInv'
  BY <1>1, <1>10 DEF Rest, vars
<1> QED
  BY <1>2, <1>3, <1>4, <1>5, <1>6, <1>7, <1>8, <1>9, <1>10 DEF Next

LEMMA InvariantOfDelivery == Spec => []IInv
BY InitIInv, NextIInv, PTL DEF Spec

\* Deliveries that are nested never share their methods, and a result in the
\* list is always going to be looked at again.
THEOREM DeliveriesAreOrderly == Spec => []DeliveryIsOrderly
<1>1. IInv => DeliveryIsOrderly
  BY DEF IInv, DeliveryIsOrderly
<1> QED
  BY <1>1, InvariantOfDelivery, PTL

-----------------------------------------------------------------------------
(* Counting.  The references to a callback_data are counted over positions  *)
(* of two lists: what adding to them and taking from them does to a count.  *)

Positions(q, j)  == {k \in DOMAIN q : q[k] = j}
Deliveries(f, j) == {k \in DOMAIN f : f[k].job = j /\ f[k].at = "callback"}

LEMMA FiniteRange ==
  ASSUME NEW n \in Nat, NEW A \in SUBSET (1 .. n)
  PROVE  IsFiniteSet(A) /\ Cardinality(A) \in Nat
<1>1. IsFiniteSet(1 .. n)
  BY FS_Interval
<1>2. IsFiniteSet(A)
  BY <1>1, FS_Subset
<1> QED
  BY <1>2, FS_CardinalityType

LEMMA OneMore ==
  ASSUME NEW A, IsFiniteSet(A), NEW x, x \notin A
  PROVE  Cardinality(A \cup {x}) = Cardinality(A) + 1
BY FS_AddElement

LEMMA OneLess ==
  ASSUME NEW A, IsFiniteSet(A), NEW x \in A
  PROVE  Cardinality(A \ {x}) = Cardinality(A) - 1
BY FS_RemoveElement

LEMMA CountType ==
  ASSUME NEW q \in Seq(Jobs), NEW j \in Jobs
  PROVE  /\ Count(q)[j] = Cardinality(Positions(q, j))
         /\ IsFiniteSet(Positions(q, j)) /\ Count(q)[j] \in Nat
<1>1. Count(q)[j] = Cardinality(Positions(q, j))
  BY DEF Count, Positions
<1>2. Len(q) \in Nat /\ Positions(q, j) \in SUBSET (1 .. Len(q))
  BY DEF Positions
<1> QED
  BY <1>1, <1>2, FiniteRange

\* A result at the end of the list is one more of its job.
LEMMA CountAppend ==
  ASSUME NEW q \in Seq(Jobs), NEW x \in Jobs, NEW j \in Jobs
  PROVE  Count(Append(q, x))[j] = Count(q)[j] + (IF j = x THEN 1 ELSE 0)
<1> DEFINE p == Append(q, x)  n == Len(q)
<1>1. p \in Seq(Jobs) /\ n \in Nat
  OBVIOUS
<1>2. Positions(p, j) = Positions(q, j) \cup (IF j = x THEN {n + 1} ELSE {})
  BY DEF Positions
<1>3. n + 1 \notin Positions(q, j)
  BY DEF Positions
<1>4. IsFiniteSet(Positions(q, j)) /\ Count(q)[j] \in Nat
      /\ Count(q)[j] = Cardinality(Positions(q, j))
      /\ Count(p)[j] = Cardinality(Positions(p, j))
  BY <1>1, CountType
<1> HIDE DEF p, n
<1>5. CASE j = x
  BY <1>2, <1>3, <1>4, <1>5, OneMore DEF p
<1>6. CASE j # x
  BY <1>2, <1>4, <1>6 DEF p
<1> QED
  BY <1>5, <1>6

\* One that leaves the list, from wherever it is, is one less of its job: the
\* positions behind it move down by one.
LEMMA CountRemoveAt ==
  ASSUME NEW q \in Seq(Jobs), NEW k \in DOMAIN q, NEW j \in Jobs
  PROVE  Count(RemoveAt(q, k))[j] = Count(q)[j] - (IF j = q[k] THEN 1 ELSE 0)
<1> DEFINE p == RemoveAt(q, k)
           A == Positions(q, j)
           B == A \ {k}
           C == Positions(p, j)
           down == [m \in B |-> IF m < k THEN m ELSE m - 1]
<1>1. /\ p \in Seq(Jobs) /\ Len(q) \in Nat /\ k \in 1 .. Len(q)
      /\ DOMAIN p = 1 .. Len(q) - 1
      /\ \A m \in DOMAIN p : p[m] = IF m < k THEN q[m] ELSE q[m + 1]
  <2>1. k \in 1 .. Len(q) /\ Len(q) \in Nat
    OBVIOUS
  <2>2. /\ p \in Seq(Jobs) /\ Len(p) = Len(q) - 1
        /\ \A m \in 1 .. Len(q) - 1 : p[m] = IF m < k THEN q[m] ELSE q[m + 1]
    BY <2>1, RemoveAtIs
  <2> HIDE DEF p
  <2> QED
    BY <2>1, <2>2
<1>2. /\ IsFiniteSet(A) /\ Count(q)[j] \in Nat /\ Count(q)[j] = Cardinality(A)
      /\ Count(p)[j] = Cardinality(C)
  BY <1>1, CountType
<1>3. IsFiniteSet(B)
  BY <1>2, FS_Subset
<1>4. A \subseteq 1 .. Len(q) /\ \A m \in 1 .. Len(q) : m \in A <=> q[m] = j
  BY <1>1 DEF Positions
<1>5. C \subseteq 1 .. Len(q) - 1
      /\ \A m \in 1 .. Len(q) - 1 : m \in C <=> (IF m < k THEN q[m] ELSE q[m + 1]) = j
  BY <1>1 DEF Positions
<1> HIDE DEF p, A, C
<1>6. down \in Bijection(B, C)
  <2>0. \A m \in B : m \in 1 .. Len(q) /\ m # k /\ q[m] = j
    BY <1>4
  <2>1. \A m \in B : down[m] \in C
    <3> SUFFICES ASSUME NEW m \in B PROVE down[m] \in C
      OBVIOUS
    <3>1. CASE m < k
      BY <1>1, <1>5, <2>0, <3>1
    <3>2. CASE ~(m < k)
      <4>1. /\ m - 1 \in 1 .. Len(q) - 1 /\ ~(m - 1 < k) /\ (m - 1) + 1 = m
            /\ down[m] = m - 1
        BY <1>1, <2>0, <3>2
      <4> QED
        BY <1>5, <2>0, <4>1
    <3> QED
      BY <3>1, <3>2
  <2>2. \A m, n \in B : down[m] = down[n] => m = n
    BY <1>1, <2>0
  <2>3. \A c \in C : \E m \in B : down[m] = c
    <3> SUFFICES ASSUME NEW c \in C PROVE \E m \in B : down[m] = c
      OBVIOUS
    <3>1. CASE c < k
      <4>1. c \in B
        BY <1>1, <1>4, <1>5, <3>1
      <4> QED
        BY <3>1, <4>1
    <3>2. CASE ~(c < k)
      <4>1. c + 1 \in B
        BY <1>1, <1>4, <1>5, <3>2
      <4> QED
        BY <1>1, <1>5, <3>2, <4>1
    <3> QED
      BY <3>1, <3>2
  <2> QED
    <3>1. down \in [B -> C]
      BY <2>1
    <3> QED
      BY <2>2, <2>3, <3>1, Fun_IsBij
<1>7. Cardinality(C) = Cardinality(B)
  BY <1>3, <1>6, FS_Bijection DEF ExistsBijection
<1>8. Cardinality(B) = Cardinality(A) - (IF j = q[k] THEN 1 ELSE 0)
  <2>1. CASE j = q[k]
    BY <1>1, <1>2, <1>4, <2>1, OneLess
  <2>2. CASE j # q[k]
    <3>1. B = A /\ Cardinality(A) \in Nat
      BY <1>1, <1>2, <1>4, <2>2
    <3> HIDE DEF B
    <3> QED
      BY <2>2, <3>1
  <2> QED
    BY <2>1, <2>2
<1> QED
  BY <1>2, <1>7, <1>8 DEF p

Delivered(f, j) == Cardinality(Deliveries(f, j))

LEMMA DeliveredType ==
  ASSUME NEW f \in Seq(Frame), NEW j \in Jobs
  PROVE  IsFiniteSet(Deliveries(f, j)) /\ Delivered(f, j) \in Nat
<1>1. Len(f) \in Nat /\ Deliveries(f, j) \in SUBSET (1 .. Len(f))
  BY DEF Deliveries
<1> QED
  BY <1>1, FiniteRange DEF Delivered

\* A delivery begins above the others ...
LEMMA DeliveredAppend ==
  ASSUME NEW f \in Seq(Frame), NEW g \in Frame, g.at = "callback", NEW j \in Jobs
  PROVE  Delivered(Append(f, g), j) = Delivered(f, j) + (IF j = g.job THEN 1 ELSE 0)
<1> DEFINE h == Append(f, g)  n == Len(f)
<1>1. n \in Nat /\ DOMAIN f = 1 .. n /\ DOMAIN h = 1 .. n + 1 /\ h[n + 1] = g
      /\ \A k \in 1 .. n : h[k] = f[k]
  OBVIOUS
<1> HIDE DEF h, n
<1>2. Deliveries(h, j) = Deliveries(f, j) \cup (IF j = g.job THEN {n + 1} ELSE {})
  BY <1>1 DEF Deliveries
<1>3. n + 1 \notin Deliveries(f, j)
  BY <1>1 DEF Deliveries
<1>4. IsFiniteSet(Deliveries(f, j)) /\ Delivered(f, j) \in Nat
  BY DeliveredType
<1>5. CASE j = g.job
  BY <1>2, <1>3, <1>4, <1>5, OneMore DEF Delivered, h
<1>6. CASE j # g.job
  BY <1>2, <1>4, <1>6 DEF Delivered, h
<1> QED
  BY <1>5, <1>6

\* ... and the innermost one ends, or goes over to the clearing of in_use.
LEMMA DeliveredLess ==
  ASSUME NEW f \in Seq(Frame), NEW g \in Seq(Frame), NEW n \in DOMAIN f, NEW j \in Jobs,
         \A k \in Jobs : Deliveries(g, k) = Deliveries(f, k) \ {n}
  PROVE  Delivered(g, j)
           = Delivered(f, j) - (IF j = f[n].job /\ f[n].at = "callback" THEN 1 ELSE 0)
<1>1. IsFiniteSet(Deliveries(f, j)) /\ Delivered(f, j) \in Nat
  BY DeliveredType
<1>2. n \in Deliveries(f, j) <=> j = f[n].job /\ f[n].at = "callback"
  BY DEF Deliveries
<1>3. CASE n \in Deliveries(f, j)
  BY <1>1, <1>2, <1>3, OneLess DEF Delivered
<1>4. CASE n \notin Deliveries(f, j)
  <2>1. Deliveries(g, j) = Deliveries(f, j)
    BY <1>4
  <2> QED
    BY <1>1, <1>2, <1>4, <2>1 DEF Delivered
<1> QED
  BY <1>3, <1>4

LEMMA DeliveredFront ==
  ASSUME NEW f \in Seq(Frame), f # <<>>, NEW j \in Jobs
  PROVE  Delivered(Front(f), j)
           = Delivered(f, j) - (IF j = Last(f).job /\ Last(f).at = "callback" THEN 1 ELSE 0)
<1>1. /\ Len(f) \in Nat \ {0} /\ DOMAIN f = 1 .. Len(f) /\ Len(f) \in DOMAIN f
      /\ Last(f) = f[Len(f)]
  BY DEF Last
<1>2. /\ Front(f) \in Seq(Frame) /\ DOMAIN Front(f) = 1 .. Len(f) - 1
      /\ \A k \in 1 .. Len(f) - 1 : Front(f)[k] = f[k]
  BY <1>1 DEF Front
<1>3. \A k \in Jobs : Deliveries(Front(f), k) = Deliveries(f, k) \ {Len(f)}
  BY <1>1, <1>2 DEF Deliveries
<1> QED
  BY <1>1, <1>2, <1>3, DeliveredLess

LEMMA DeliveredClearing ==
  ASSUME NEW f \in Seq(Frame), f # <<>>, Last(f).at = "callback", NEW j \in Jobs,
         NEW g, g = [f EXCEPT ![Len(f)].at = "clearing"]
  PROVE  /\ g \in Seq(Frame)
         /\ Delivered(g, j) = Delivered(f, j) - (IF j = Last(f).job THEN 1 ELSE 0)
<1> DEFINE n == Len(f)  h == [f[n] EXCEPT !.at = "clearing"]
<1>1. /\ n \in Nat \ {0} /\ DOMAIN f = 1 .. n /\ n \in DOMAIN f
      /\ Last(f) = f[n] /\ f[n] \in Frame
  BY DEF Last
<1>2. h \in Frame /\ h.at = "clearing"
  BY <1>1 DEF Frame
<1>3. g = [f EXCEPT ![n] = h]
  OBVIOUS
<1> HIDE DEF h, n
<1>4. g \in Seq(Frame) /\ DOMAIN g = DOMAIN f /\ g[n] = h /\ \A k \in DOMAIN f : k # n => g[k] = f[k]
  BY <1>1, <1>2, <1>3
<1>5. \A k \in Jobs : Deliveries(g, k) = Deliveries(f, k) \ {n}
  BY <1>1, <1>2, <1>4 DEF Deliveries
<1>6. Delivered(g, j)
        = Delivered(f, j) - (IF j = f[n].job /\ f[n].at = "callback" THEN 1 ELSE 0)
  <2>1. g \in Seq(Frame) /\ n \in DOMAIN f
    BY <1>1, <1>4
  <2> QED
    BY <1>5, <2>1, DeliveredLess, Zenon
<1> QED
  BY <1>1, <1>4, <1>6

\* What the threads and the main loop still carry of each callback_data.
Pending == [j \in Jobs |-> Count(results)[j] + Delivered(frames, j)]

PendingTyped == Pending \in [Jobs -> Nat]

LEMMA PendingType == IInv => PendingTyped
<1> SUFFICES ASSUME IInv PROVE Pending \in [Jobs -> Nat]
  BY DEF PendingTyped
<1>1. results \in Seq(Jobs) /\ frames \in Seq(Frame)
  BY DEF IInv
<1>2. \A j \in Jobs : Count(results)[j] \in Nat /\ Delivered(frames, j) \in Nat
  BY <1>1, CountType, DeliveredType
<1> QED
  BY <1>2 DEF Pending

\* A turn of the loop of the idle function only moves a result from the list
\* into a delivery.
LEMMA LoopMoves ==
  ASSUME NEW i \in Nat, NEW below \in Seq(Frame), NEW busy, NEW id,
         results \in Seq(Jobs), Loop(i, below, busy, id), NEW j \in Jobs
  PROVE  Pending'[j] = Count(results)[j] + Delivered(below, j)
<1>1. Pending'[j] = Count(results')[j] + Delivered(frames', j)
  BY DEF Pending, Count, Delivered, Deliveries
<1>2. CASE Deliverable(busy) # {} /\ i < NumberOfResults
  <2> DEFINE k == Min(Deliverable(busy))
             f == [job |-> results[k], i |-> i, at |-> "callback"]
  <2>1. k \in 1 .. Len(results)
    <3>1. Deliverable(busy) \in SUBSET Nat /\ Deliverable(busy) \subseteq 1 .. Len(results)
      BY DEF Deliverable
    <3> QED
      BY <1>2, <3>1, MinIsMember
  <2>2. results' = RemoveAt(results, k) /\ frames' = Append(below, f)
    BY <1>2 DEF Loop
  <2> HIDE DEF k
  <2>3. f \in Frame /\ f.at = "callback" /\ f.job = results[k]
    BY <1>2, <2>1, BoundsAssumption DEF Frame
  <2> HIDE DEF f
  <2>4. Count(results')[j] = Count(results)[j] - (IF j = results[k] THEN 1 ELSE 0)
    BY <2>1, <2>2, CountRemoveAt
  <2>5. Delivered(frames', j) = Delivered(below, j) + (IF j = results[k] THEN 1 ELSE 0)
    BY <2>2, <2>3, DeliveredAppend
  <2>6. Count(results)[j] \in Nat /\ Delivered(below, j) \in Nat
    BY CountType, DeliveredType
  <2> QED
    BY <1>1, <2>4, <2>5, <2>6
<1>3. CASE ~(Deliverable(busy) # {} /\ i < NumberOfResults)
  BY <1>1, <1>3 DEF Loop
<1> QED
  BY <1>2, <1>3

-----------------------------------------------------------------------------
(* References.  A job new or being destroyed has no reference left: that is *)
(* what keeps a result from destroying the data of a job still to end.  The *)
(* last conjunct bounds them, the dummy result coming after all the others. *)
Settled(s, p, r, d, n) ==
  /\ r = n + (IF s \in {"waiting", "running", "left", "lost"} THEN 1
              ELSE IF s = "reporting" THEN 2 ELSE 0)
  /\ d = "destroyed" <=> s = "gone" /\ r = 0
  /\ s \in {"new", "destroying"} => r = 0
  /\ n + (IF s = "reporting" THEN 1 ELSE 0) <= p + (IF s = "gone" THEN 1 ELSE 0)

RefTypes ==
  /\ job \in [Jobs -> JobStates] /\ produced \in [Jobs -> 0 .. ResultsPerJob]
  /\ ref \in [Jobs -> Nat] /\ data \in [Jobs -> {"held", "destroyed"}]

RefInv ==
  /\ RefTypes
  /\ \A j \in Jobs : Settled(job[j], produced[j], ref[j], data[j], Pending[j])

\* A step of one job, or of its results.
LEMMA OneSettles ==
  ASSUME RefInv, RefTypes', NEW j \in Jobs,
         \A i \in Jobs \ {j} : /\ job'[i] = job[i] /\ produced'[i] = produced[i]
                               /\ ref'[i] = ref[i] /\ data'[i] = data[i]
                               /\ Pending'[i] = Pending[i],
         Settled(job'[j], produced'[j], ref'[j], data'[j], Pending'[j])
  PROVE  RefInv'
BY DEF RefInv

\* References dropped by the main thread: with their job, or with a result.
LEMMA UnrefSettles ==
  ASSUME RefInv, Pending \in [Jobs -> Nat], Pending' \in [Jobs -> Nat],
         NEW S \in SUBSET Jobs, Unref(Ones(S)), produced' = produced,
         job' \in [Jobs -> JobStates],
         \A i \in Jobs \ S : job'[i] = job[i] /\ Pending'[i] = Pending[i],
         \A i \in S :
           \/ job[i] \in {"waiting", "left"} /\ job'[i] = "gone" /\ Pending'[i] = Pending[i]
           \/ job'[i] = job[i] /\ Pending'[i] = Pending[i] - 1
  PROVE  RefInv'
<1>1. \A i \in Jobs : /\ ref'[i] = ref[i] - (IF i \in S THEN 1 ELSE 0)
                      /\ data'[i] = IF i \in S /\ ref[i] = 1 THEN "destroyed" ELSE data[i]
  BY DEF Unref, Ones
<1>2. ref' = [i \in Jobs |-> ref[i] - Ones(S)[i]]
      /\ data' = [i \in Jobs |-> IF Ones(S)[i] > 0 /\ ref[i] = Ones(S)[i] THEN "destroyed" ELSE data[i]]
  BY DEF Unref
<1>3. ASSUME NEW i \in Jobs
      PROVE  /\ Settled(job'[i], produced'[i], ref'[i], data'[i], Pending'[i])
             /\ ref'[i] \in Nat /\ data'[i] \in {"held", "destroyed"}
  <2>1. /\ Settled(job[i], produced[i], ref[i], data[i], Pending[i])
        /\ job[i] \in JobStates /\ produced[i] \in Nat /\ ref[i] \in Nat
        /\ data[i] \in {"held", "destroyed"} /\ Pending[i] \in Nat /\ Pending'[i] \in Nat
    BY BoundsAssumption DEF RefInv, RefTypes
  <2>2. CASE i \notin S
    BY <1>1, <2>1, <2>2
  <2>3. CASE i \in S /\ job[i] \in {"waiting", "left"} /\ job'[i] = "gone" /\ Pending'[i] = Pending[i]
    <3>1. ref[i] = Pending[i] + 1 /\ Pending[i] <= produced[i] /\ data[i] = "held"
      BY <2>1, <2>3 DEF Settled
    <3> QED
      BY <1>1, <2>1, <2>3, <3>1 DEF Settled
  <2>4. CASE i \in S /\ job'[i] = job[i] /\ Pending'[i] = Pending[i] - 1
    <3>1. Pending[i] > 0 /\ ref[i] > 0
      BY <2>1, <2>4 DEF Settled
    <3>2. job[i] \notin {"new", "destroying"} /\ data[i] = "held" /\ ref'[i] = ref[i] - 1
      BY <1>1, <2>1, <2>4, <3>1 DEF Settled
    <3>3. ref[i] = 1 => job[i] = "gone"
      BY <2>1, <3>1, <3>2 DEF Settled, JobStates
    <3>4. data'[i] = IF ref[i] = 1 THEN "destroyed" ELSE "held"
      BY <1>1, <2>4, <3>2
    <3> QED
      BY <2>1, <2>4, <3>1, <3>2, <3>3, <3>4 DEF Settled
  <2> QED
    BY <2>2, <2>3, <2>4
<1>4. RefTypes'
  BY <1>2, <1>3 DEF RefTypes, RefInv
<1> QED
  BY <1>3, <1>4 DEF RefInv

LEMMA PendingStays == results' = results /\ frames' = frames => Pending' = Pending
BY DEF Pending, Count, Delivered, Deliveries

LEMMA InitRefInv == Init => RefInv
<1> SUFFICES ASSUME Init PROVE RefInv
  OBVIOUS
<1>1. RefTypes /\ results = <<>> /\ frames = <<>>
      /\ \A j \in Jobs : job[j] = "new" /\ produced[j] = 0 /\ ref[j] = 0 /\ data[j] = "held"
  BY BoundsAssumption DEF Init, RefTypes, JobStates
<1>2. ASSUME NEW j \in Jobs PROVE Pending[j] = 0
  <2>1. \A k \in Jobs : Positions(<<>>, k) = {} /\ Deliveries(<<>>, k) = {}
    BY DEF Positions, Deliveries
  <2>2. Cardinality({}) = 0
    BY FS_EmptySet
  <2>3. Count(results)[j] = 0
    <3>1. results \in Seq(Jobs)
      BY <1>1
    <3>2. Count(results)[j] = Cardinality(Positions(results, j))
      BY <3>1, CountType
    <3> QED
      BY <1>1, <2>1, <2>2, <3>2
  <2>4. Delivered(frames, j) = 0
    BY <1>1, <2>1, <2>2 DEF Delivered
  <2> QED
    BY <2>3, <2>4 DEF Pending
<1> QED
  BY <1>1, <1>2 DEF RefInv, Settled

\* A thread takes a job, reports, ends or puts it back.
LEMMA ThreadSettles ==
  ASSUME RefInv, Pending \in [Jobs -> Nat], NEW j \in Jobs,
         Run(j) \/ ReturnResult(j) \/ End(j) \/ Reschedule(j) \/ Push(j) \/ PushRefused(j)
  PROVE  RefInv'
<1>1. Pending' = Pending /\ data' = data
  BY PendingStays DEF Run, ReturnResult, End, Reschedule, Push, PushRefused, resultVars
<1>2. /\ Settled(job[j], produced[j], ref[j], data[j], Pending[j])
      /\ produced[j] \in 0 .. ResultsPerJob /\ ref[j] \in Nat /\ Pending[j] \in Nat
      /\ data[j] \in {"held", "destroyed"} /\ ResultsPerJob \in Nat
  BY BoundsAssumption DEF RefInv, RefTypes
<1>3. CASE Run(j)
  <2>1. job[j] = "waiting" /\ job' = [job EXCEPT ![j] = "running"] /\ UNCHANGED <<produced, ref>>
    BY <1>3 DEF Run
  <2>2. RefTypes'
    BY <1>1, <2>1 DEF RefInv, RefTypes, JobStates
  <2>3. Settled(job'[j], produced'[j], ref'[j], data'[j], Pending'[j])
    BY <1>1, <1>2, <2>1, <2>2 DEF Settled, RefInv, RefTypes
  <2> QED
    BY <1>1, <2>1, <2>2, <2>3, OneSettles DEF RefInv, RefTypes
<1>4. CASE ReturnResult(j)
  <2>1. /\ job[j] = "running" /\ produced[j] < ResultsPerJob
        /\ job' = [job EXCEPT ![j] = "reporting"]
        /\ produced' = [produced EXCEPT ![j] = @ + 1] /\ ref' = [ref EXCEPT ![j] = @ + 1]
    BY <1>4 DEF ReturnResult
  <2>2. RefTypes'
    BY <1>1, <1>2, <2>1 DEF RefInv, RefTypes, JobStates
  <2>3. Settled(job'[j], produced'[j], ref'[j], data'[j], Pending'[j])
    BY <1>1, <1>2, <2>1, <2>2 DEF Settled, RefInv, RefTypes
  <2> QED
    BY <1>1, <2>1, <2>2, <2>3, OneSettles DEF RefInv, RefTypes
<1>5. CASE End(j)
  <2>1. CASE Cancelled(j)
    <3>1. /\ job[j] = "running" /\ job' = [job EXCEPT ![j] = "left"]
          /\ UNCHANGED <<produced, ref>>
      BY <1>5, <2>1 DEF End
    <3>2. RefTypes'
      BY <1>1, <3>1 DEF RefInv, RefTypes, JobStates
    <3>3. Settled(job'[j], produced'[j], ref'[j], data'[j], Pending'[j])
      BY <1>1, <1>2, <3>1, <3>2 DEF Settled, RefInv, RefTypes
    <3> QED
      BY <1>1, <3>1, <3>2, <3>3, OneSettles DEF RefInv, RefTypes
  <2>2. CASE ~Cancelled(j)
    <3>1. /\ job[j] = "running" /\ UNCHANGED produced
          /\ job' = [job EXCEPT ![j] = IF ref[j] = 1 THEN "destroying" ELSE "gone"]
          /\ ref' = [ref EXCEPT ![j] = @ - 1]
      BY <1>5, <2>2 DEF End
    <3>2. ref[j] = Pending[j] + 1 /\ data[j] = "held"
      BY <1>2, <3>1 DEF Settled
    <3>3. RefTypes'
      BY <1>1, <1>2, <3>1, <3>2 DEF RefInv, RefTypes, JobStates
    <3>4. Settled(job'[j], produced'[j], ref'[j], data'[j], Pending'[j])
      BY <1>1, <1>2, <3>1, <3>2, <3>3 DEF Settled, RefInv, RefTypes
    <3> QED
      BY <1>1, <3>1, <3>3, <3>4, OneSettles DEF RefInv, RefTypes
  <2> QED
    BY <2>1, <2>2
<1>6. CASE Reschedule(j)
  <2>1. job[j] = "running" /\ job' = [job EXCEPT ![j] = "waiting"] /\ UNCHANGED <<produced, ref>>
    BY <1>6 DEF Reschedule
  <2>2. RefTypes'
    BY <1>1, <2>1 DEF RefInv, RefTypes, JobStates
  <2>3. Settled(job'[j], produced'[j], ref'[j], data'[j], Pending'[j])
    BY <1>1, <1>2, <2>1, <2>2 DEF Settled, RefInv, RefTypes
  <2> QED
    BY <1>1, <2>1, <2>2, <2>3, OneSettles DEF RefInv, RefTypes
<1>7. CASE Push(j) \/ PushRefused(j)
  <2>1. /\ job[j] = "new"
        /\ job' = [job EXCEPT ![j] = "waiting"] \/ job' = [job EXCEPT ![j] = "lost"]
        /\ ref' = [ref EXCEPT ![j] = 1] /\ UNCHANGED produced
    BY <1>7 DEF Push, PushRefused
  <2>2. ref[j] = 0 /\ Pending[j] = 0 /\ data[j] = "held"
    BY <1>2, <2>1 DEF Settled
  <2>3. RefTypes'
    BY <1>1, <2>1 DEF RefInv, RefTypes, JobStates
  <2>4. Settled(job'[j], produced'[j], ref'[j], data'[j], Pending'[j])
    BY <1>1, <1>2, <2>1, <2>2, <2>3 DEF Settled, RefInv, RefTypes
  <2> QED
    BY <1>1, <2>1, <2>3, <2>4, OneSettles DEF RefInv, RefTypes
<1> QED
  BY <1>3, <1>4, <1>5, <1>6, <1>7

\* A thread adds a result, its own or the dummy one.
LEMMA ResultSettles ==
  ASSUME IInv, RefInv, Pending \in [Jobs -> Nat], NEW j \in Jobs, QueueResult(j) \/ SendDummy(j)
  PROVE  RefInv'
<1>1. /\ results' = Append(results, j) /\ frames' = frames
      /\ data' = data /\ produced' = produced
  BY DEF QueueResult, SendDummy, AppendResult
<1>2. \A i \in Jobs : Pending'[i] = Pending[i] + (IF i = j THEN 1 ELSE 0)
  <2> SUFFICES ASSUME NEW i \in Jobs
               PROVE  Pending'[i] = Pending[i] + (IF i = j THEN 1 ELSE 0)
    OBVIOUS
  <2>1. results \in Seq(Jobs) /\ frames \in Seq(Frame)
    BY DEF IInv
  <2>2. Count(results')[i] = Count(results)[i] + (IF i = j THEN 1 ELSE 0)
    BY <1>1, <2>1, CountAppend
  <2>3. Delivered(frames', i) = Delivered(frames, i)
    BY <1>1
  <2>4. Count(results)[i] \in Nat /\ Delivered(frames, i) \in Nat
    BY <2>1, CountType, DeliveredType
  <2>5. Pending'[i] = Count(results')[i] + Delivered(frames', i)
    BY DEF Pending, Count, Delivered, Deliveries
  <2> QED
    BY <2>2, <2>3, <2>4, <2>5 DEF Pending
<1>3. /\ Settled(job[j], produced[j], ref[j], data[j], Pending[j])
      /\ produced[j] \in Nat /\ ref[j] \in Nat /\ Pending[j] \in Nat
      /\ data[j] \in {"held", "destroyed"}
  BY BoundsAssumption DEF RefInv, RefTypes
<1>4. CASE QueueResult(j)
  <2>1. job[j] = "reporting" /\ job' = [job EXCEPT ![j] = "running"] /\ UNCHANGED ref
    BY <1>4 DEF QueueResult
  <2>2. RefTypes'
    BY <1>1, <2>1 DEF RefInv, RefTypes, JobStates
  <2>3. Settled(job'[j], produced'[j], ref'[j], data'[j], Pending'[j])
    BY <1>1, <1>2, <1>3, <2>1, <2>2 DEF Settled, RefInv, RefTypes
  <2> QED
    BY <1>1, <1>2, <2>1, <2>2, <2>3, OneSettles DEF RefInv, RefTypes
<1>5. CASE SendDummy(j)
  <2>1. /\ job[j] = "destroying" /\ job' = [job EXCEPT ![j] = "gone"]
        /\ ref' = [ref EXCEPT ![j] = @ + 1]
    BY <1>5 DEF SendDummy
  <2>2. ref[j] = 0 /\ Pending[j] = 0 /\ data[j] = "held"
    BY <1>3, <2>1 DEF Settled
  <2>3. RefTypes'
    BY <1>1, <1>3, <2>1 DEF RefInv, RefTypes, JobStates
  <2>4. Settled(job'[j], produced'[j], ref'[j], data'[j], Pending'[j])
    BY <1>1, <1>2, <1>3, <2>1, <2>2, <2>3 DEF Settled, RefInv, RefTypes
  <2> QED
    BY <1>1, <1>2, <2>1, <2>3, <2>4, OneSettles DEF RefInv, RefTypes
<1> QED
  BY <1>4, <1>5

LEMMA LastIsFrame ==
  ASSUME NEW f \in Seq(Frame), f # <<>>
  PROVE  Last(f) \in Frame
<1>1. Len(f) \in DOMAIN f /\ \A k \in DOMAIN f : f[k] \in Frame
  OBVIOUS
<1> QED
  BY <1>1 DEF Last

LEMMA NextRefInv == IInv /\ IInv' /\ RefInv /\ [Next]_vars => RefInv'
<1> SUFFICES ASSUME IInv, IInv', RefInv, [Next]_vars PROVE RefInv'
  OBVIOUS
<1>0. /\ Pending \in [Jobs -> Nat] /\ Pending' \in [Jobs -> Nat]
      /\ results \in Seq(Jobs) /\ frames \in Seq(Frame)
      /\ job \in [Jobs -> JobStates]
  <2>1. PendingTyped /\ PendingTyped'
    BY PendingType, PTL
  <2> QED
    BY <2>1 DEF PendingTyped, IInv, RefInv, RefTypes
\* the steps that touch no reference
<1>1. ASSUME UNCHANGED <<job, produced, ref, data, results, frames>> PROVE RefInv'
  <2>1. Pending' = Pending
    BY <1>1, PendingStays
  <2> QED
    BY <1>1, <2>1 DEF RefInv, RefTypes
<1>2. ASSUME NEW j \in Jobs,
             Run(j) \/ ReturnResult(j) \/ End(j) \/ Reschedule(j) \/ Push(j) \/ PushRefused(j)
      PROVE  RefInv'
  BY <1>0, <1>2, ThreadSettles
<1>3. ASSUME NEW j \in Jobs, QueueResult(j) \/ SendDummy(j) PROVE RefInv'
  BY <1>0, <1>3, ResultSettles
<1>4. ASSUME NEW b \in Bases, FindUrgent(b) \/ Cancel(b) \/ Release(b) PROVE RefInv'
  BY <1>1, <1>4 DEF FindUrgent, Cancel, Release, jobVars, resultVars
<1>5. ASSUME CancelActive \/ CancelReturns \/ Rest \/ UNCHANGED vars PROVE RefInv'
  BY <1>1, <1>5 DEF CancelActive, CancelReturns, Rest, vars, jobVars, resultVars
\* the main thread drops the references of jobs ...
<1>6. ASSUME CancelUnprocessed PROVE RefInv'
  <2> DEFINE S == JobsOf(call.of) \cap In({"waiting"})
  <2>1. /\ S \in SUBSET Jobs /\ Unref(Ones(S)) /\ produced' = produced
        /\ job' = [j \in Jobs |-> IF j \in S THEN "gone" ELSE job[j]]
        /\ \A j \in S : job[j] = "waiting"
    BY <1>6 DEF CancelUnprocessed, JobsOf, In
  <2>2. Pending' = Pending
    BY <1>6, PendingStays DEF CancelUnprocessed, resultVars
  <2> HIDE DEF S
  <2>3. job' \in [Jobs -> JobStates]
    BY <1>0, <2>1 DEF JobStates
  <2> QED
    BY <1>0, <2>1, <2>2, <2>3, UnrefSettles
<1>7. ASSUME CancelWaited PROVE RefInv'
  <2> DEFINE S == call.tasks \cap In({"left"})
  <2>1. /\ S \in SUBSET Jobs /\ Unref(Ones(S)) /\ produced' = produced
        /\ job' = [j \in Jobs |-> IF j \in S THEN "gone" ELSE job[j]]
        /\ \A j \in S : job[j] = "left"
    BY <1>7 DEF CancelWaited, In
  <2>2. Pending' = Pending
    BY <1>7, PendingStays DEF CancelWaited, resultVars
  <2> HIDE DEF S
  <2>3. job' \in [Jobs -> JobStates]
    BY <1>0, <2>1 DEF JobStates
  <2> QED
    BY <1>0, <2>1, <2>2, <2>3, UnrefSettles
\* ... and of results
<1>8. ASSUME CancelResult PROVE RefInv'
  <2> DEFINE k == Min(Slipped)  S == {results[k]}
  <2>1. /\ Slipped # {} /\ results' = RemoveAt(results, k) /\ frames' = frames
        /\ Unref(Ones(S)) /\ produced' = produced /\ job' = job
    BY <1>8 DEF CancelResult
  <2>2. k \in 1 .. Len(results) /\ results[k] \in Jobs
    <3>1. Slipped \in SUBSET Nat /\ Slipped \subseteq 1 .. Len(results)
      BY <1>0 DEF Slipped
    <3>2. k \in Slipped
      BY <2>1, <3>1, MinIsMember
    <3>3. k \in 1 .. Len(results)
      BY <3>1, <3>2
    <3> HIDE DEF k
    <3> QED
      BY <1>0, <3>3
  <2> HIDE DEF k
  <2>3. \A j \in Jobs : Pending'[j] = Pending[j] - (IF j = results[k] THEN 1 ELSE 0)
    <3> SUFFICES ASSUME NEW j \in Jobs
                 PROVE  Pending'[j] = Pending[j] - (IF j = results[k] THEN 1 ELSE 0)
      OBVIOUS
    <3>1. Count(results')[j] = Count(results)[j] - (IF j = results[k] THEN 1 ELSE 0)
      BY <1>0, <2>1, <2>2, CountRemoveAt
    <3>2. Delivered(frames', j) = Delivered(frames, j)
      BY <2>1
    <3>3. Count(results)[j] \in Nat /\ Delivered(frames, j) \in Nat
      BY <1>0, CountType, DeliveredType
    <3>4. Pending'[j] = Count(results')[j] + Delivered(frames', j)
      BY DEF Pending, Count, Delivered, Deliveries
    <3> QED
      BY <3>1, <3>2, <3>3, <3>4 DEF Pending
  <2>4. \A j \in Jobs \ S : job'[j] = job[j] /\ Pending'[j] = Pending[j]
    BY <1>0, <2>1, <2>3
  <2>5. \A j \in S : job'[j] = job[j] /\ Pending'[j] = Pending[j] - 1
    BY <2>1, <2>2, <2>3
  <2>6. S \in SUBSET Jobs
    BY <2>2
  <2> HIDE DEF S
  <2> QED
    BY <1>0, <2>1, <2>4, <2>5, <2>6, UnrefSettles
<1>9. ASSUME RunIdle PROVE RefInv'
  <2>1. Loop(0, frames, in_use, FALSE) /\ UNCHANGED <<job, produced, ref, data>>
    BY <1>9 DEF RunIdle, jobVars
  <2>2. \A j \in Jobs : Pending'[j] = Pending[j]
    BY <1>0, <2>1, LoopMoves DEF Pending
  <2> QED
    BY <1>0, <2>1, <2>2 DEF RefInv, RefTypes
<1>10. ASSUME EndCallback PROVE RefInv'
  <2> DEFINE f == Last(frames)  S == {f.job}
  <2>1. /\ frames # <<>> /\ f.at = "callback" /\ Unref(Ones(S))
        /\ produced' = produced /\ job' = job
    BY <1>10 DEF EndCallback, MainRuns
  <2>2. f \in Frame /\ f.job \in Jobs
    BY <1>0, <2>1, LastIsFrame DEF Frame
  <2>3. ASSUME NEW j \in Jobs
        PROVE  Pending'[j] = Pending[j] - (IF j = f.job THEN 1 ELSE 0)
    <3>0. Count(results)[j] \in Nat /\ Delivered(frames, j) \in Nat
      BY <1>0, CountType, DeliveredType
    <3>1. CASE /\ frames' = [frames EXCEPT ![Len(frames)].at = "clearing"]
               /\ results' = results
      <4>1. Delivered(frames', j) = Delivered(frames, j) - (IF j = f.job THEN 1 ELSE 0)
        BY <1>0, <2>1, <3>1, DeliveredClearing
      <4>2. Pending'[j] = Count(results)[j] + Delivered(frames', j)
        BY <3>1 DEF Pending, Count, Delivered, Deliveries
      <4> QED
        BY <3>0, <4>1, <4>2 DEF Pending
    <3>2. CASE Loop(f.i + 1, Front(frames), in_use \ {Methods(f.job)}, results_id)
      <4>1. f.i + 1 \in Nat
        BY <2>2, BoundsAssumption DEF Frame
      <4>2. Front(frames) \in Seq(Frame)
        BY <1>0, <2>1 DEF Front
      <4>3. Pending'[j] = Count(results)[j] + Delivered(Front(frames), j)
        BY <1>0, <3>2, <4>1, <4>2, LoopMoves
      <4>4. Delivered(Front(frames), j) = Delivered(frames, j) - (IF j = f.job THEN 1 ELSE 0)
        BY <1>0, <2>1, DeliveredFront
      <4> QED
        BY <3>0, <4>3, <4>4 DEF Pending
    <3> QED
      BY <1>10, <3>1, <3>2 DEF EndCallback
  <2> HIDE DEF f
  <2>4. \A j \in Jobs \ S : job'[j] = job[j] /\ Pending'[j] = Pending[j]
    BY <1>0, <2>1, <2>3
  <2>5. \A j \in S : job'[j] = job[j] /\ Pending'[j] = Pending[j] - 1
    BY <2>1, <2>2, <2>3
  <2>6. S \in SUBSET Jobs
    BY <2>2
  <2> HIDE DEF S
  <2> QED
    BY <1>0, <2>1, <2>4, <2>5, <2>6, UnrefSettles
<1>11. ASSUME ClearInUse PROVE RefInv'
  <2> DEFINE f == Last(frames)
  <2>1. /\ frames # <<>> /\ f.at = "clearing" /\ UNCHANGED <<job, produced, ref, data>>
        /\ Loop(f.i + 1, Front(frames), in_use \ {Methods(f.job)}, results_id)
    BY <1>11 DEF ClearInUse, jobVars
  <2>2. f.i + 1 \in Nat
    <3>1. f \in Frame
      BY <1>0, <2>1, LastIsFrame
    <3> QED
      BY <3>1, BoundsAssumption DEF Frame
  <2>3. Front(frames) \in Seq(Frame)
    BY <1>0, <2>1 DEF Front
  <2>4. ASSUME NEW j \in Jobs PROVE Pending'[j] = Pending[j]
    <3>1. Pending'[j] = Count(results)[j] + Delivered(Front(frames), j)
      BY <1>0, <2>1, <2>2, <2>3, LoopMoves
    <3>2. Delivered(Front(frames), j)
            = Delivered(frames, j) - (IF j = f.job /\ f.at = "callback" THEN 1 ELSE 0)
      BY <1>0, <2>1, DeliveredFront
    <3>3. Delivered(frames, j) \in Nat
      BY <1>0, DeliveredType
    <3> QED
      BY <2>1, <3>1, <3>2, <3>3 DEF Pending
  <2> QED
    BY <2>1, <2>4 DEF RefInv, RefTypes
<1> QED
  BY <1>2, <1>3, <1>4, <1>5, <1>6, <1>7, <1>8, <1>9, <1>10, <1>11 DEF Next

-----------------------------------------------------------------------------
(* The calls of the main thread, and the threads.                          *)

\* A job its thread has left to a canceller has one; no more jobs are active
\* than threads may be.
CallInv ==
  /\ urgent \subseteq In({"waiting"}) /\ lock_held \in BOOLEAN
  /\ base \in [Bases -> {"live", "freed"}] /\ owned \subseteq Bases /\ call \in Calls
  /\ IsFiniteSet(Active) /\ Cardinality(Active) <= MaxThread
  /\ \A j \in Jobs : job[j] = "left" => Cancelled(j)

\* What each pass of a cancellation has got rid of, as long as no directory is
\* put back between the first two.
Passed(j) ==
  /\ call.at = "active" => job[j] \notin {"waiting", "left"}
  /\ call.at = "waiting" => IF j \in call.tasks THEN job[j] \in {"running", "reporting", "left"}
                                                ELSE job[j] \in {"new", "gone", "lost"}
  /\ call.at = "results" => job[j] \in {"new", "gone", "lost"}

Listed == {results[k] : k \in DOMAIN results}

ForgetInv ==
  /\ \A j \in Jobs : base[BaseOf[j]] = "freed" => job[j] \in {"new", "gone", "lost"} /\ j \notin Listed
  /\ call.at # "none" => \A j \in JobsOf(call.of) : Passed(j)

LEMMA InitCallInv == Init => CallInv /\ ForgetInv
<1> SUFFICES ASSUME Init PROVE CallInv /\ ForgetInv
  OBVIOUS
<1>1. Active = {} /\ IsFiniteSet({}) /\ Cardinality({}) = 0
  BY FS_EmptySet DEF Init, Active, In
<1>2. Cardinality(Active) <= MaxThread
  BY <1>1, BoundsAssumption
<1>3. call.at = "none" /\ call \in Calls
  BY DEF Init, NoCall, Calls
<1>4. ForgetInv
  BY <1>3, JobsAssumption DEF Init, ForgetInv
<1>5. urgent = {} /\ \A j \in Jobs : job[j] # "left"
  BY DEF Init
<1>6. lock_held \in BOOLEAN /\ base \in [Bases -> {"live", "freed"}] /\ owned \subseteq Bases
  BY DEF Init
<1>7. IsFiniteSet(Active)
  BY <1>1
<1> QED
  BY <1>2, <1>3, <1>4, <1>5, <1>6, <1>7 DEF CallInv

\* The fields of a call, and what its steps make of it.
LEMMA CallFields ==
  ASSUME call \in Calls, call.at # "none"
  PROVE  /\ call.at \in {"unprocessed", "active", "waiting", "results"}
         /\ call.of \in Bases /\ call.free \in BOOLEAN /\ call.tasks \subseteq Jobs
BY DEF Calls, NoCall

LEMMA CallMoves ==
  ASSUME call \in Calls, call.at # "none", NEW s \in {"unprocessed", "active", "waiting", "results"},
         NEW T \in SUBSET Jobs, CallGoesOn(s, T)
  PROVE  /\ call' \in Calls /\ call'.at = s /\ call'.of = call.of /\ call'.tasks = T
         /\ call'.free = call.free
BY CallFields DEF Calls, CallGoesOn

LEMMA CallStarts ==
  ASSUME NEW b \in Bases, NEW f \in BOOLEAN
  PROVE  /\ CallOf(b, f) \in Calls /\ CallOf(b, f).at = "unprocessed"
         /\ CallOf(b, f).of = b /\ CallOf(b, f).tasks = {}
BY DEF Calls, CallOf

\* Threads: a job that becomes active finds room; nothing else adds one.
LEMMA ActiveBounded ==
  ASSUME IsFiniteSet(Active), Cardinality(Active) <= MaxThread, Active' \subseteq Active
  PROVE  IsFiniteSet(Active') /\ Cardinality(Active') <= MaxThread
<1>1. /\ IsFiniteSet(Active') /\ Cardinality(Active') <= Cardinality(Active)
  BY FS_Subset
<1>2. Cardinality(Active) \in Nat /\ Cardinality(Active') \in Nat
  BY <1>1, FS_CardinalityType
<1> QED
  BY <1>1, <1>2, BoundsAssumption

LEMMA ActiveGrows ==
  ASSUME IsFiniteSet(Active), Cardinality(Active) < MaxThread,
         NEW j \in Jobs, Active' = Active \cup {j}
  PROVE  IsFiniteSet(Active') /\ Cardinality(Active') <= MaxThread
<1>1. /\ IsFiniteSet(Active \cup {j})
      /\ Cardinality(Active \cup {j}) = IF j \in Active THEN Cardinality(Active) ELSE Cardinality(Active) + 1
  BY FS_AddElement
<1>2. Cardinality(Active) \in Nat
  BY FS_CardinalityType
<1> QED
  BY <1>1, <1>2, BoundsAssumption

LEMMA ThreadCalls ==
  ASSUME CallInv, job \in [Jobs -> JobStates], NEW j \in Jobs, NEW s,
         job' = [job EXCEPT ![j] = s], UNCHANGED <<lock_held, base, owned, call>>,
         urgent' \subseteq urgent, s # "waiting" => j \notin urgent',
         s \in {"running", "reporting"} =>
           job[j] \in {"running", "reporting"} \/ Cardinality(Active) < MaxThread,
         s = "left" => Cancelled(j)
  PROVE  CallInv'
<1>1. \A i \in Jobs : job'[i] = IF i = j THEN s ELSE job[i]
  BY DEF CallInv
<1>2. urgent' \subseteq In({"waiting"})'
  BY <1>1 DEF CallInv, In
<1>3. \A i \in Jobs : job'[i] = "left" => Cancelled(i)'
  BY <1>1 DEF CallInv, Cancelled
<1>4. IsFiniteSet(Active') /\ Cardinality(Active') <= MaxThread
  <2>1. CASE s \in {"running", "reporting"} /\ job[j] \notin {"running", "reporting"}
    <3>1. Active' = Active \cup {j}
      BY <1>1, <2>1 DEF Active, In
    <3> QED
      BY <2>1, <3>1, ActiveGrows DEF CallInv
  <2>2. CASE ~(s \in {"running", "reporting"} /\ job[j] \notin {"running", "reporting"})
    <3>1. Active' \subseteq Active
      BY <1>1, <2>2 DEF Active, In
    <3> QED
      BY <3>1, ActiveBounded DEF CallInv
  <2> QED
    BY <2>1, <2>2
<1> QED
  BY <1>2, <1>3, <1>4 DEF CallInv

\* The main thread frees a set of jobs that no thread has.
LEMMA FreedCalls ==
  ASSUME CallInv, NEW S \in SUBSET Jobs, NEW gone,
         job' = [j \in Jobs |-> IF j \in S THEN "gone" ELSE job[j]],
         urgent' = urgent \ gone, S \cap In({"waiting"}) \subseteq gone,
         UNCHANGED <<lock_held, base, owned>>, call' \in Calls,
         \A j \in Jobs \ S : job[j] = "left" => Cancelled(j)'
  PROVE  CallInv'
<1>1. Active' \subseteq Active
  BY DEF Active, In
<1>2. IsFiniteSet(Active') /\ Cardinality(Active') <= MaxThread
  BY <1>1, ActiveBounded DEF CallInv
<1>3. urgent' \subseteq In({"waiting"})'
  BY DEF CallInv, In
<1>4. \A j \in Jobs : job'[j] = "left" => Cancelled(j)'
  OBVIOUS
<1>5. /\ lock_held' \in BOOLEAN /\ base' \in [Bases -> {"live", "freed"}] /\ owned' \subseteq Bases
  BY DEF CallInv
<1> QED
  BY <1>2, <1>3, <1>4, <1>5 DEF CallInv

\* The main thread calls, or a call goes on, and no job moves.
LEMMA CallSteps ==
  ASSUME CallInv, UNCHANGED job, urgent' \subseteq In({"waiting"}), lock_held' \in BOOLEAN,
         base' \in [Bases -> {"live", "freed"}], owned' \subseteq Bases, call' \in Calls,
         \A j \in Jobs : Cancelled(j) => Cancelled(j)'
  PROVE  CallInv'
<1>1. Active' = Active /\ In({"waiting"})' = In({"waiting"})
  BY DEF Active, In
<1> QED
  BY <1>1 DEF CallInv

LEMMA NextCallInv == IInv /\ RefInv /\ CallInv /\ [Next]_vars => CallInv'
<1> SUFFICES ASSUME IInv, RefInv, CallInv, [Next]_vars PROVE CallInv'
  OBVIOUS
<1>0. /\ job \in [Jobs -> JobStates] /\ call \in Calls /\ urgent \subseteq In({"waiting"})
      /\ lock_held \in BOOLEAN /\ base \in [Bases -> {"live", "freed"}] /\ owned \subseteq Bases
      /\ \A j \in Jobs : job[j] = "left" => Cancelled(j)
  BY DEF RefInv, RefTypes, CallInv
<1>1. ASSUME NEW j \in Jobs, Run(j) PROVE CallInv'
  <2>1. /\ job' = [job EXCEPT ![j] = "running"] /\ urgent' = urgent \ {j}
        /\ Cardinality(Active) < MaxThread /\ UNCHANGED <<lock_held, base, owned, call>>
    BY <1>1 DEF Run, ownerVars
  <2> QED
    BY <1>0, <2>1, ThreadCalls
<1>2. ASSUME NEW j \in Jobs, NEW s, job' = [job EXCEPT ![j] = s],
             UNCHANGED <<urgent, lock_held, base, owned, call>>, job[j] # "waiting",
             s \in {"running", "reporting"} => job[j] \in {"running", "reporting"},
             s = "left" => Cancelled(j)
      PROVE  CallInv'
  <2>1. j \notin urgent'
    BY <1>0, <1>2 DEF In
  <2>2. urgent' \subseteq urgent
    BY <1>2
  <2> QED
    BY <1>0, <1>2, <2>1, <2>2, ThreadCalls
<1>3. ASSUME NEW j \in Jobs, ReturnResult(j) PROVE CallInv'
  BY <1>2, <1>3 DEF ReturnResult, ownerVars
<1>4. ASSUME NEW j \in Jobs, QueueResult(j) PROVE CallInv'
  BY <1>2, <1>4 DEF QueueResult, ownerVars
<1>5. ASSUME NEW j \in Jobs, End(j) PROVE CallInv'
  <2>1. CASE Cancelled(j)
    BY <1>2, <1>5, <2>1 DEF End, ownerVars
  <2>2. CASE ~Cancelled(j)
    <3>1. PICK s \in {"destroying", "gone"} : job' = [job EXCEPT ![j] = s]
      BY <1>5, <2>2 DEF End
    <3> QED
      BY <1>2, <1>5, <3>1 DEF End, ownerVars
  <2> QED
    BY <2>1, <2>2
<1>6. ASSUME NEW j \in Jobs, SendDummy(j) PROVE CallInv'
  BY <1>2, <1>6 DEF SendDummy, ownerVars
<1>7. ASSUME NEW j \in Jobs, Reschedule(j) PROVE CallInv'
  BY <1>2, <1>7 DEF Reschedule, ownerVars
<1>8. ASSUME NEW j \in Jobs, Push(j) \/ PushRefused(j) PROVE CallInv'
  <2>1. CASE Push(j)
    BY <1>2, <2>1 DEF Push, ownerVars
  <2>2. CASE PushRefused(j)
    BY <1>2, <2>2 DEF PushRefused, ownerVars
  <2> QED
    BY <1>8, <2>1, <2>2
<1>9. ASSUME NEW b \in Bases, FindUrgent(b) PROVE CallInv'
  <2>1. PICK j \in In({"waiting"}) : urgent' = urgent \cup {j}
    BY <1>9 DEF FindUrgent
  <2>2. UNCHANGED <<job, lock_held, base, owned, call>>
    BY <1>9 DEF FindUrgent, ownerVars
  <2>3. \A i \in Jobs : Cancelled(i) => Cancelled(i)'
    BY <2>2 DEF Cancelled
  <2> QED
    BY <1>0, <2>1, <2>2, <2>3, CallSteps
<1>10. ASSUME NEW b \in Bases, Cancel(b) PROVE CallInv'
  <2>1. /\ call.at = "none" /\ call' = CallOf(b, FALSE) /\ UNCHANGED <<job, urgent, lock_held, base, owned>>
    BY <1>10 DEF Cancel, MainRuns, jobVars, ownerVars
  <2> QED
    BY <1>0, <2>1, CallStarts, CallSteps DEF Cancelled
<1>11. ASSUME NEW b \in Bases, Release(b) PROVE CallInv'
  <2>1. /\ call.at = "none" /\ call' \in {NoCall, CallOf(b, TRUE)} /\ owned' = owned \ {b}
        /\ UNCHANGED <<job, urgent, lock_held, base>>
    BY <1>11 DEF Release, MainRuns, jobVars
  <2>2. call' \in Calls
    <3>1. NoCall \in Calls /\ CallOf(b, TRUE) \in Calls
      BY CallStarts DEF Calls
    <3> QED
      BY <2>1, <3>1
  <2>3. owned' \subseteq Bases
    BY <1>0, <2>1
  <2> QED
    BY <1>0, <2>1, <2>2, <2>3, CallSteps DEF Cancelled
<1>12. ASSUME CancelUnprocessed PROVE CallInv'
  <2> DEFINE S == JobsOf(call.of) \cap In({"waiting"})
  <2>1. /\ call.at = "unprocessed" /\ CallGoesOn("active", {}) /\ urgent' = urgent \ S
        /\ job' = [j \in Jobs |-> IF j \in S THEN "gone" ELSE job[j]]
        /\ UNCHANGED <<lock_held, base, owned>>
    BY <1>12 DEF CancelUnprocessed, ownerVars
  <2>2. call' \in Calls
    BY <1>0, <2>1, CallMoves
  <2>3. \A j \in Jobs : job[j] # "left"
    BY <1>0, <2>1 DEF Cancelled
  <2>4. S \in SUBSET Jobs /\ S \cap In({"waiting"}) \subseteq S
    BY DEF In
  <2> HIDE DEF S
  <2> QED
    BY <2>1, <2>2, <2>3, <2>4, FreedCalls
<1>13. ASSUME CancelActive PROVE CallInv'
  <2> DEFINE S == JobsOf(call.of) \cap Active
  <2>1. /\ call.at = "active" /\ CallGoesOn(IF S = {} THEN "results" ELSE "waiting", S)
        /\ UNCHANGED <<job, urgent, lock_held, base, owned>>
    BY <1>13 DEF CancelActive, jobVars, ownerVars
  <2>2. S \in SUBSET Jobs
    BY DEF Active, In
  <2> HIDE DEF S
  <2>3. call' \in Calls
    BY <1>0, <2>1, <2>2, CallMoves
  <2> QED
    BY <1>0, <2>1, <2>3, CallSteps DEF Cancelled
<1>14. ASSUME CancelWaited PROVE CallInv'
  <2> DEFINE S == call.tasks \cap In({"left"})  more == call.tasks \ S
  <2>1. /\ call.at = "waiting" /\ CallGoesOn(IF more = {} THEN "results" ELSE "waiting", more)
        /\ job' = [j \in Jobs |-> IF j \in S THEN "gone" ELSE job[j]]
        /\ UNCHANGED <<urgent, lock_held, base, owned>>
    BY <1>14 DEF CancelWaited, ownerVars
  <2>2. call.tasks \subseteq Jobs
    BY <1>0, <2>1, CallFields
  <2>3. \A j \in Jobs \ S : job[j] # "left"
    BY <1>0 DEF Cancelled, In
  <2>4. S \in SUBSET Jobs /\ S \cap In({"waiting"}) \subseteq {} /\ more \in SUBSET Jobs
    BY <2>2 DEF In
  <2> HIDE DEF S, more
  <2>5. call' \in Calls
    BY <1>0, <2>1, <2>4, CallMoves
  <2>6. urgent' = urgent \ {}
    BY <2>1
  <2> QED
    BY <2>1, <2>3, <2>4, <2>5, <2>6, FreedCalls
<1>15. ASSUME CancelReturns PROVE CallInv'
  <2>1. /\ call.at = "results" /\ call' = NoCall /\ UNCHANGED <<job, urgent, lock_held, owned>>
        /\ base' \in {base, [base EXCEPT ![call.of] = "freed"]}
    BY <1>15 DEF CancelReturns, jobVars
  <2>2. base' \in [Bases -> {"live", "freed"}] /\ call' \in Calls
    BY <1>0, <2>1 DEF Calls
  <2> QED
    BY <1>0, <2>1, <2>2, CallSteps DEF Cancelled
<1>16. ASSUME EndCallback PROVE CallInv'
  <2>1. call.at = "none" /\ UNCHANGED <<job, urgent, base, owned>>
    BY <1>16 DEF EndCallback, MainRuns, ownerVars
  <2>2. call' \in Calls /\ lock_held' \in BOOLEAN
    <3>1. /\ frames # <<>>
          /\ \/ call' = CallOf(BaseOf[Last(frames).job], TRUE) /\ lock_held' = TRUE
             \/ UNCHANGED <<call, lock_held>>
      BY <1>16 DEF EndCallback
    <3>2. Last(frames) \in Frame
      BY <3>1, LastIsFrame DEF IInv
    <3>3. BaseOf[Last(frames).job] \in Bases
      BY <3>2, JobsAssumption DEF Frame
    <3> QED
      BY <1>0, <3>1, <3>3, CallStarts
  <2> QED
    BY <1>0, <2>1, <2>2, CallSteps DEF Cancelled
<1>17. ASSUME CancelResult \/ RunIdle \/ ClearInUse \/ Rest \/ UNCHANGED vars PROVE CallInv'
  <2>1. UNCHANGED <<job, urgent, base, owned, call>> /\ lock_held' \in BOOLEAN
    BY <1>0, <1>17 DEF CancelResult, RunIdle, ClearInUse, Rest, vars, jobVars, ownerVars
  <2> QED
    BY <1>0, <2>1, CallSteps DEF Cancelled
<1> QED
  BY <1>1, <1>3, <1>4, <1>5, <1>6, <1>7, <1>8, <1>9, <1>10, <1>11, <1>12, <1>13, <1>14,
     <1>15, <1>16, <1>17 DEF Next

-----------------------------------------------------------------------------
(* What is left of a base when it is freed.                                *)

LEMMA ListedLess ==
  ASSUME NEW q \in Seq(Jobs), NEW k \in 1 .. Len(q)
  PROVE  \A m \in DOMAIN RemoveAt(q, k) : \E n \in DOMAIN q : RemoveAt(q, k)[m] = q[n]
<1> DEFINE p == RemoveAt(q, k)
<1>0. Len(q) \in Nat
  OBVIOUS
<1>1. /\ p \in Seq(Jobs) /\ Len(p) = Len(q) - 1 /\ Len(q) \in Nat
      /\ \A m \in 1 .. Len(q) - 1 : p[m] = IF m < k THEN q[m] ELSE q[m + 1]
  BY <1>0, RemoveAtIs, Zenon
<1> HIDE DEF p
<1>2. \A m \in DOMAIN p : m \in 1 .. Len(q) - 1
  BY <1>1
<1>3. \A m \in DOMAIN p : m \in DOMAIN q /\ m + 1 \in DOMAIN q
  BY <1>1, <1>2
<1>4. \A m \in DOMAIN p : \E n \in DOMAIN q : p[m] = q[n]
  BY <1>1, <1>2, <1>3
<1> QED
  BY <1>4 DEF p

LEMMA LoopLists ==
  ASSUME NEW i, NEW below, NEW busy, NEW id, results \in Seq(Jobs), Loop(i, below, busy, id)
  PROVE  Listed' \subseteq Listed
<1>1. CASE Deliverable(busy) # {} /\ i < NumberOfResults
  <2> DEFINE k == Min(Deliverable(busy))
  <2>1. k \in 1 .. Len(results)
    <3>1. Deliverable(busy) \in SUBSET Nat /\ Deliverable(busy) \subseteq 1 .. Len(results)
      BY DEF Deliverable
    <3> QED
      BY <1>1, <3>1, MinIsMember
  <2>2. results' = RemoveAt(results, k)
    BY <1>1 DEF Loop
  <2> HIDE DEF k
  <2> QED
    BY <2>1, <2>2, ListedLess DEF Listed
<1>2. CASE ~(Deliverable(busy) # {} /\ i < NumberOfResults)
  BY <1>2 DEF Loop, Listed
<1> QED
  BY <1>1, <1>2

\* Results leave the list, and nothing else changes but who is served.
LEMMA ListShrinks ==
  ASSUME ForgetInv, Listed' \subseteq Listed, UNCHANGED <<job, base, call>>
  PROVE  ForgetInv'
BY DEF ForgetInv, Passed, JobsOf

\* A thread moves a job whose base is there, and may list a result of it.
LEMMA ThreadForgets ==
  ASSUME ForgetInv, job \in [Jobs -> JobStates], NEW j \in Jobs, NEW s,
         job' = [job EXCEPT ![j] = s], UNCHANGED <<base, call>>, Listed' \subseteq Listed \cup {j},
         job[j] \notin {"new", "gone", "lost"},
         call.at # "none" /\ BaseOf[j] = call.of => Passed(j)'
  PROVE  ForgetInv'
<1>1. \A i \in Jobs : i # j => job'[i] = job[i]
  OBVIOUS
<1>2. base[BaseOf[j]] # "freed"
  BY DEF ForgetInv
<1>3. \A i \in Jobs \ {j} : Passed(i) => Passed(i)'
  BY <1>1 DEF Passed
<1> QED
  BY <1>1, <1>2, <1>3 DEF ForgetInv, JobsOf

LEMMA NextForgetInv ==
  ASSUME PutBack = "outside"
  PROVE  IInv /\ RefInv /\ CallInv /\ ForgetInv /\ [Next]_vars => ForgetInv'
<1> SUFFICES ASSUME IInv, RefInv, CallInv, ForgetInv, [Next]_vars PROVE ForgetInv'
  OBVIOUS
<1>0. /\ job \in [Jobs -> JobStates] /\ results \in Seq(Jobs) /\ call \in Calls
      /\ base \in [Bases -> {"live", "freed"}]
      /\ \A j \in Jobs : job[j] = "left" => Cancelled(j)
  BY DEF IInv, RefInv, RefTypes, CallInv
<1>a. ASSUME NEW j \in Jobs, call.at # "none", BaseOf[j] = call.of PROVE Passed(j)
  BY <1>a DEF ForgetInv, JobsOf
<1>b. results' = results => Listed' \subseteq Listed
  BY DEF Listed
<1>1. ASSUME NEW j \in Jobs, Run(j) PROVE ForgetInv'
  <2>1. /\ job[j] = "waiting" /\ job' = [job EXCEPT ![j] = "running"]
        /\ UNCHANGED <<results, base, call>>
    BY <1>1 DEF Run, resultVars, ownerVars
  <2>2. call.at # "none" /\ BaseOf[j] = call.of => Passed(j)'
    BY <1>0, <1>a, <2>1 DEF Passed
  <2> QED
    BY <1>0, <1>b, <2>1, <2>2, ThreadForgets
<1>2. ASSUME NEW j \in Jobs, ReturnResult(j) PROVE ForgetInv'
  <2>1. /\ job[j] = "running" /\ job' = [job EXCEPT ![j] = "reporting"]
        /\ UNCHANGED <<results, base, call>>
    BY <1>2 DEF ReturnResult, resultVars, ownerVars
  <2>2. call.at # "none" /\ BaseOf[j] = call.of => Passed(j)'
    BY <1>0, <1>a, <2>1 DEF Passed
  <2> QED
    BY <1>0, <1>b, <2>1, <2>2, ThreadForgets
<1>3. ASSUME NEW j \in Jobs, QueueResult(j) \/ SendDummy(j) PROVE ForgetInv'
  <2>1. PICK s \in {"running", "gone"} :
          /\ job' = [job EXCEPT ![j] = s] /\ results' = Append(results, j)
          /\ job[j] = IF s = "running" THEN "reporting" ELSE "destroying"
          /\ UNCHANGED <<base, call>>
    BY <1>3 DEF QueueResult, SendDummy, AppendResult, ownerVars
  <2>2. Listed' \subseteq Listed \cup {j}
    BY <1>0, <2>1 DEF Listed
  <2>3. call.at # "none" /\ BaseOf[j] = call.of => Passed(j)'
    BY <1>0, <1>a, <2>1 DEF Passed
  <2> QED
    BY <1>0, <2>1, <2>2, <2>3, ThreadForgets
<1>4. ASSUME NEW j \in Jobs, End(j) PROVE ForgetInv'
  <2>1. PICK s \in {"left", "destroying", "gone"} :
          /\ job' = [job EXCEPT ![j] = s] /\ job[j] = "running"
          /\ s = "left" <=> Cancelled(j)
          /\ UNCHANGED <<results, base, call>>
    BY <1>4 DEF End, resultVars, ownerVars
  <2>2. call.at # "none" /\ BaseOf[j] = call.of => Passed(j)'
    BY <1>0, <1>a, <2>1 DEF Passed, Cancelled
  <2> QED
    BY <1>0, <1>b, <2>1, <2>2, ThreadForgets
<1>5. ASSUME NEW j \in Jobs, Reschedule(j) PROVE ForgetInv'
  <2>1. /\ job[j] = "running" /\ job' = [job EXCEPT ![j] = "waiting"] /\ ~Cancelled(j)
        /\ ~(call.at = "active" /\ call.of = BaseOf[j])
        /\ UNCHANGED <<results, base, call>>
    BY <1>5 DEF Reschedule, resultVars, ownerVars
  <2>2. call.at # "none" /\ BaseOf[j] = call.of => Passed(j)'
    BY <1>0, <1>a, <2>1 DEF Passed, Cancelled
  <2> QED
    BY <1>0, <1>b, <2>1, <2>2, ThreadForgets
<1>6. ASSUME NEW j \in Jobs, Push(j) \/ PushRefused(j) PROVE ForgetInv'
  <2>1. /\ call.at = "none" /\ base[BaseOf[j]] = "live"
        /\ job' = [job EXCEPT ![j] = "waiting"] \/ job' = [job EXCEPT ![j] = "lost"]
        /\ UNCHANGED <<results, base, call>>
    BY <1>6 DEF Push, PushRefused, MainRuns, resultVars, ownerVars
  <2>2. \A i \in Jobs : i # j => job'[i] = job[i]
    BY <1>0, <2>1
  <2> QED
    BY <1>b, <2>1, <2>2 DEF ForgetInv
<1>7. ASSUME UNCHANGED <<job, base, results>>, call.at = "none", call' \in Calls,
             call'.at \in {"none", "unprocessed"}
      PROVE  ForgetInv'
  BY <1>b, <1>7 DEF ForgetInv, Passed
<1>8. ASSUME NEW b \in Bases, Cancel(b) \/ Release(b) PROVE ForgetInv'
  <2>1. CallOf(b, TRUE) \in Calls /\ CallOf(b, FALSE) \in Calls /\ NoCall \in Calls
    BY CallStarts DEF Calls
  <2>2. /\ call.at = "none" /\ call' \in {NoCall, CallOf(b, TRUE), CallOf(b, FALSE)}
        /\ UNCHANGED <<job, base, results>>
    BY <1>8 DEF Cancel, Release, MainRuns, jobVars, ownerVars, resultVars
  <2>3. call'.at \in {"none", "unprocessed"}
    <3>1. /\ NoCall.at = "none" /\ CallOf(b, TRUE).at = "unprocessed"
          /\ CallOf(b, FALSE).at = "unprocessed"
      BY CallStarts DEF NoCall
    <3> QED
      BY <2>2, <3>1
  <2> QED
    BY <1>7, <2>1, <2>2, <2>3
\* the three passes
<1>9. ASSUME CancelUnprocessed PROVE ForgetInv'
  <2> DEFINE S == JobsOf(call.of) \cap In({"waiting"})
  <2>1. /\ call.at = "unprocessed" /\ CallGoesOn("active", {})
        /\ job' = [j \in Jobs |-> IF j \in S THEN "gone" ELSE job[j]]
        /\ UNCHANGED <<results, base>>
    BY <1>9 DEF CancelUnprocessed, resultVars, ownerVars
  <2>2. call'.at = "active" /\ call'.of = call.of
    BY <1>0, <2>1, CallMoves
  <2>3. \A j \in JobsOf(call.of) : job'[j] \notin {"waiting", "left"}
    BY <1>0, <2>1 DEF JobsOf, In, Cancelled
  <2>4. \A j \in Jobs : base[BaseOf[j]] = "freed" => job'[j] \in {"new", "gone", "lost"}
    BY <2>1 DEF ForgetInv
  <2> HIDE DEF S
  <2> QED
    BY <1>b, <2>1, <2>2, <2>3, <2>4 DEF ForgetInv, Passed, JobsOf
<1>10. ASSUME CancelActive PROVE ForgetInv'
  <2> DEFINE S == JobsOf(call.of) \cap Active
  <2>1. /\ call.at = "active" /\ CallGoesOn(IF S = {} THEN "results" ELSE "waiting", S)
        /\ ManagerFree /\ UNCHANGED <<job, results, base>>
    BY <1>10 DEF CancelActive, jobVars, resultVars, ownerVars
  <2>2. S \in SUBSET Jobs /\ \A j \in S : job[j] \in {"running", "reporting"}
    BY DEF Active, In
  <2>3. ASSUME NEW j \in JobsOf(call.of), j \notin S PROVE job[j] \in {"new", "gone", "lost"}
    <3>1. j \in Jobs /\ BaseOf[j] = call.of /\ job[j] \notin {"running", "reporting"}
      BY <2>3 DEF JobsOf, Active, In
    <3>2. job[j] # "destroying"
      BY <2>1, <3>1 DEF ManagerFree, In
    <3>3. job[j] \notin {"waiting", "left"}
      BY <1>a, <2>1, <3>1 DEF Passed
    <3> QED
      BY <1>0, <3>1, <3>2, <3>3 DEF JobStates
  <2> HIDE DEF S
  <2>4. /\ call'.at = (IF S = {} THEN "results" ELSE "waiting")
        /\ call'.of = call.of /\ call'.tasks = S
    BY <1>0, <2>1, <2>2, CallMoves
  <2> QED
    BY <1>b, <2>1, <2>2, <2>3, <2>4 DEF ForgetInv, Passed, JobsOf
<1>11. ASSUME CancelWaited PROVE ForgetInv'
  <2> DEFINE S == call.tasks \cap In({"left"})  more == call.tasks \ S
  <2>1. /\ call.at = "waiting" /\ CallGoesOn(IF more = {} THEN "results" ELSE "waiting", more)
        /\ job' = [j \in Jobs |-> IF j \in S THEN "gone" ELSE job[j]]
        /\ UNCHANGED <<results, base>>
    BY <1>11 DEF CancelWaited, resultVars, ownerVars
  <2>2. call.tasks \subseteq Jobs
    BY <1>0, <2>1, CallFields
  <2>3. more \in SUBSET Jobs /\ S \subseteq call.tasks /\ more = call.tasks \ S
    BY <2>2
  <2> HIDE DEF S, more
  <2>4. /\ call'.at = (IF more = {} THEN "results" ELSE "waiting")
        /\ call'.of = call.of /\ call'.tasks = more
    BY <1>0, <2>1, <2>3, CallMoves
  <2>5. ASSUME NEW j \in JobsOf(call.of) PROVE Passed(j)'
    <3>1. IF j \in call.tasks THEN job[j] \in {"running", "reporting", "left"}
                              ELSE job[j] \in {"new", "gone", "lost"}
      BY <1>a, <2>1 DEF JobsOf, Passed
    <3>2. job'[j] = IF j \in S THEN "gone" ELSE job[j]
      BY <2>1 DEF JobsOf
    <3> QED
      BY <2>3, <2>4, <3>1, <3>2 DEF Passed
  <2>6. \A j \in Jobs : base[BaseOf[j]] = "freed" => job'[j] \in {"new", "gone", "lost"}
    BY <2>1 DEF ForgetInv
  <2> QED
    BY <1>b, <2>1, <2>4, <2>5, <2>6 DEF ForgetInv, JobsOf
<1>12. ASSUME CancelReturns PROVE ForgetInv'
  <2>1. /\ call.at = "results" /\ Slipped = {} /\ call' = NoCall /\ UNCHANGED <<job, results>>
        /\ base' \in {base, [base EXCEPT ![call.of] = "freed"]}
    BY <1>12 DEF CancelReturns, jobVars, resultVars
  <2>2. \A j \in JobsOf(call.of) : job[j] \in {"new", "gone", "lost"} /\ j \notin Listed
    BY <1>a, <2>1 DEF JobsOf, Passed, Slipped, Listed
  <2>3. \A j \in Jobs : base'[BaseOf[j]] = "freed" => base[BaseOf[j]] = "freed" \/ j \in JobsOf(call.of)
    BY <1>0, <2>1, JobsAssumption DEF JobsOf
  <2>4. call'.at = "none"
    BY <2>1 DEF NoCall
  <2> QED
    BY <1>b, <2>1, <2>2, <2>3, <2>4 DEF ForgetInv
\* results leave the list
<1>13. ASSUME CancelResult PROVE ForgetInv'
  <2>1. Slipped # {} /\ results' = RemoveAt(results, Min(Slipped)) /\ UNCHANGED <<job, base, call>>
    BY <1>13 DEF CancelResult, ownerVars
  <2>2. Slipped \in SUBSET Nat /\ Slipped \subseteq 1 .. Len(results)
    BY <1>0 DEF Slipped
  <2>3. Min(Slipped) \in 1 .. Len(results)
    BY <2>1, <2>2, MinIsMember
  <2>4. Listed' \subseteq Listed
    BY <1>0, <2>1, <2>3, ListedLess DEF Listed
  <2> QED
    BY <2>1, <2>4, ListShrinks
<1>14. ASSUME RunIdle \/ ClearInUse PROVE ForgetInv'
  <2>1. UNCHANGED <<job, base, call>> /\ \E i, below, busy, id : Loop(i, below, busy, id)
    BY <1>14 DEF RunIdle, ClearInUse, jobVars, ownerVars
  <2> QED
    BY <1>0, <2>1, LoopLists, ListShrinks
<1>15. ASSUME EndCallback PROVE ForgetInv'
  <2>1. call.at = "none" /\ frames # <<>> /\ UNCHANGED <<job, base>>
    BY <1>15 DEF EndCallback, MainRuns, ownerVars
  <2>2. CASE UNCHANGED call
    <3>1. Listed' \subseteq Listed
      <4>1. CASE results' = results
        BY <1>b, <4>1
      <4>2. CASE \E i, below, busy, id : Loop(i, below, busy, id)
        BY <1>0, <4>2, LoopLists
      <4> QED
        BY <1>15, <4>1, <4>2 DEF EndCallback
    <3> QED
      BY <2>1, <2>2, <3>1, ListShrinks
  <2>3. CASE call' = CallOf(BaseOf[Last(frames).job], TRUE) /\ results' = results
    <3>1. Last(frames) \in Frame
      BY <2>1, LastIsFrame DEF IInv
    <3>2. BaseOf[Last(frames).job] \in Bases
      BY <3>1, JobsAssumption DEF Frame
    <3> QED
      BY <1>7, <2>1, <2>3, <3>2, CallStarts
  <2> QED
    BY <1>15, <2>2, <2>3 DEF EndCallback
<1>16. ASSUME (\E b \in Bases : FindUrgent(b)) \/ Rest \/ UNCHANGED vars PROVE ForgetInv'
  <2>1. UNCHANGED <<job, base, call, results>>
    BY <1>16 DEF FindUrgent, Rest, vars, jobVars, resultVars, ownerVars
  <2> QED
    BY <1>b, <2>1, ListShrinks
<1> QED
  BY <1>1, <1>2, <1>3, <1>4, <1>5, <1>6, <1>8, <1>9, <1>10, <1>11, <1>12, <1>13, <1>14,
     <1>15, <1>16 DEF Next

-----------------------------------------------------------------------------
LEMMA InvariantOfCounts == Spec => [](IInv /\ RefInv /\ CallInv)
BY InitIInv, NextIInv, InitRefInv, NextRefInv, InitCallInv, NextCallInv, PTL DEF Spec

\* The references of a job never exceed its results and two of its own; urgent
\* jobs are waiting; in_use holds the methods of bases.
THEOREM IOIsTyped == Spec => []TypeOK
<1>1. IInv /\ RefInv /\ CallInv => TypeOK
  <2> SUFFICES ASSUME IInv, RefInv, CallInv PROVE TypeOK
    OBVIOUS
  <2>1. ref \in [Jobs -> 0 .. 2 + ResultsPerJob]
    <3>1. PendingTyped
      BY PendingType
    <3>2. ASSUME NEW j \in Jobs PROVE ref[j] \in 0 .. 2 + ResultsPerJob
      <4>1. /\ Settled(job[j], produced[j], ref[j], data[j], Pending[j]) /\ Pending[j] \in Nat
            /\ produced[j] \in 0 .. ResultsPerJob /\ ref[j] \in Nat /\ ResultsPerJob \in Nat
        BY <3>1, BoundsAssumption DEF RefInv, RefTypes, PendingTyped
      <4> QED
        BY <4>1 DEF Settled
    <3> QED
      BY <3>2 DEF RefInv, RefTypes
  <2>2. in_use \subseteq {MethodsOf[b] : b \in Bases}
    <3>1. \A k \in DOMAIN frames : frames[k] \in Frame
      BY DEF IInv
    <3>2. \A k \in DOMAIN frames : BaseOf[frames[k].job] \in Bases
      BY <3>1, JobsAssumption DEF Frame
    <3> QED
      BY <3>2 DEF IInv, OneDeliveryPerMethods, Methods
  <2> QED
    BY <2>1, <2>2 DEF IInv, Frame, RefInv, RefTypes, CallInv, TypeOK
<1> QED
  BY <1>1, InvariantOfCounts, PTL

\* Whatever the threads, the nested main loops, the owners and the directories
\* do, a callback_data has as many references as carriers, and is destroyed when
\* its job is gone with the last of them, not before.
THEOREM ReferencesAreExact == Spec => []RefsAreHolders
<1>1. IInv /\ RefInv => RefsAreHolders
  <2> SUFFICES ASSUME IInv, RefInv PROVE RefsAreHolders
    OBVIOUS
  <2>1. PendingTyped
    BY PendingType
  <2>2. ASSUME NEW j \in Jobs
        PROVE  LET carriers ==
                     (IF job[j] \in {"waiting", "running", "reporting", "left", "lost"} THEN 1 ELSE 0)
                     + (IF job[j] = "reporting" THEN 1 ELSE 0)
                     + Count(results)[j] + Delivered(frames, j)
               IN  /\ ref[j] = carriers
                   /\ data[j] = "destroyed" <=> job[j] = "gone" /\ carriers = 0
    <3>1. results \in Seq(Jobs) /\ frames \in Seq(Frame)
      BY DEF IInv
    <3>2. Count(results)[j] \in Nat /\ Delivered(frames, j) \in Nat
      BY <3>1, CountType, DeliveredType
    <3>3. /\ Settled(job[j], produced[j], ref[j], data[j], Pending[j])
          /\ Pending[j] = Count(results)[j] + Delivered(frames, j)
      BY DEF RefInv, Pending
    <3> QED
      BY <3>2, <3>3 DEF Settled
  <2> QED
    BY <2>2 DEF RefsAreHolders, Delivered, Deliveries
<1> QED
  BY <1>1, InvariantOfCounts, PTL

\* As long as no directory is put back between the passes of the cancellation of
\* its base - the one thing that slips through -, a freed base is forgotten too.
THEOREM NothingIsLeftDangling ==
  ASSUME PutBack = "outside"
  PROVE  Spec => []NothingDangles
<1>1. IInv /\ RefInv /\ CallInv /\ ForgetInv /\ [Next]_vars => ForgetInv'
  BY NextForgetInv
<1>2. Spec => []ForgetInv
  BY <1>1, InitCallInv, InvariantOfCounts, PTL DEF Spec
<1>3. IInv /\ ForgetInv => FreedBaseIsForgotten
  <2> SUFFICES ASSUME IInv, ForgetInv, NEW j \in Jobs, base[BaseOf[j]] = "freed"
               PROVE  job[j] \in {"new", "gone", "lost"} /\ Count(results)[j] = 0
    BY DEF FreedBaseIsForgotten
  <2>1. job[j] \in {"new", "gone", "lost"} /\ j \notin Listed
    BY DEF ForgetInv
  <2>2. Positions(results, j) = {} /\ results \in Seq(Jobs)
    BY <2>1 DEF Listed, Positions, IInv
  <2>3. Count(results)[j] = 0
    BY <2>2, CountType, FS_EmptySet
  <2> QED
    BY <2>1, <2>3
<1> QED
  BY <1>2, <1>3, InvariantOfCounts, ReferencesAreExact, PTL DEF NothingDangles

-----------------------------------------------------------------------------
(* The pool RejillaIO relies on.                                           *)

LEMMA StageValues ==
  /\ StageOf("new") = "new" /\ StageOf("waiting") = "queued"
  /\ StageOf("running") = "running" /\ StageOf("reporting") = "running"
  /\ StageOf("left") = "left"
  /\ StageOf("destroying") = "over" /\ StageOf("gone") = "over" /\ StageOf("lost") = "over"
BY DEF StageOf

LEMMA SameCardinality == ASSUME NEW S PROVE Pool!Cardinality(S) = Cardinality(S)
BY DEF Pool!Cardinality, Cardinality

LEMMA PoolSets ==
  ASSUME job \in [Jobs -> JobStates]
  PROVE  /\ Pool!At("new") = In({"new"}) /\ Pool!At("queued") = In({"waiting"})
         /\ Pool!At("running") = Active /\ Pool!At("left") = In({"left"})
<1>1. \A j \in Jobs : Stage[j] = StageOf(job[j]) /\ job[j] \in JobStates
  BY DEF Stage
<1>2. \A j \in Jobs : /\ Stage[j] = "new" <=> job[j] = "new"
                      /\ Stage[j] = "queued" <=> job[j] = "waiting"
                      /\ Stage[j] = "running" <=> job[j] \in {"running", "reporting"}
                      /\ Stage[j] = "left" <=> job[j] = "left"
  BY <1>1, StageValues DEF JobStates
<1> QED
  BY <1>2 DEF Pool!At, In, Active

LEMMA StageMoves ==
  ASSUME NEW S \in SUBSET Jobs, NEW s,
         \A j \in S : StageOf(job'[j]) = s, \A j \in Jobs \ S : StageOf(job'[j]) = StageOf(job[j])
  PROVE  Pool!Move(S, s)
<1>1. Stage' = [j \in Jobs |-> StageOf(job'[j])] /\ Stage = [j \in Jobs |-> StageOf(job[j])]
  BY DEF Stage, StageOf
<1> QED
  BY <1>1 DEF Pool!Move

LEMMA InitPool == Init => Pool!Init
<1> SUFFICES ASSUME Init PROVE Pool!Init
  OBVIOUS
<1>1. Stage = [j \in Jobs |-> "new"]
  BY StageValues DEF Init, Stage
<1>2. Doomed = {}
  BY DEF Init, NoCall, Doomed
<1> QED
  BY <1>1, <1>2 DEF Pool!Init

\* A thread leaves the task of j, if it had it, and takes it up, if it was queued.
LEMMA PoolTurns ==
  ASSUME job \in [Jobs -> JobStates], CallInv, CallInv', NEW j \in Jobs, NEW s,
         job' = [job EXCEPT ![j] = s], UNCHANGED call, s \in JobStates,
         \/ job[j] = "waiting" /\ s = "running"
         \/ job[j] = "running" /\ (IF Cancelled(j) THEN s = "left"
                                                   ELSE s \in {"waiting", "destroying", "gone"})
  PROVE  Pool!Next
<1>0. /\ Pool!At("queued") = In({"waiting"}) /\ Pool!At("running") = Active
  BY PoolSets
<1>a. UNCHANGED Doomed
  BY DEF Doomed
<1>b. /\ \A i \in Jobs : Stage'[i] = StageOf(job'[i]) /\ Stage[i] = StageOf(job[i])
      /\ Stage' = [i \in Jobs |-> Stage'[i]]
  BY DEF Stage, StageOf
<1>c. \A i \in Jobs \ {j} : Stage'[i] = Stage[i]
  BY <1>b
<1>d. IsFiniteSet(Active') /\ Cardinality(Active') <= MaxThread
  BY DEF CallInv
<1>e. /\ Cardinality({}) = 0 /\ Cardinality({j}) = 1
  BY FS_EmptySet, FS_Singleton
<1> HIDE DEF Stage, Doomed
<1>1. CASE job[j] = "waiting" /\ s = "running"
  <2>1. j \in In({"waiting"}) /\ Active' = (Active \ {}) \cup {j} /\ Stage'[j] = "running"
    BY <1>1, <1>b, StageValues DEF Active, In
  <2>2. Stage' = [i \in Jobs |-> CASE i \in {} -> "queued" [] i \in {j} -> "running" [] OTHER -> Stage[i]]
    <3>1. \A i \in Jobs : Stage'[i] = CASE i \in {} -> "queued" [] i \in {j} -> "running" [] OTHER -> Stage[i]
      BY <1>c, <2>1
    <3> QED
      BY <1>b, <3>1
  <2>3. /\ Pool!Cardinality({}) <= 1 /\ Pool!Cardinality({j}) <= 1
        /\ Pool!Cardinality((Active \ {}) \cup {j}) <= MaxThread
    BY <1>d, <1>e, <2>1, SameCardinality
  <2>4. Pool!Turn({}, {j})
    <3>1. "queued" \in IF {} \cap Doomed # {} THEN {"left"} ELSE {"queued", "over"}
      OBVIOUS
    <3> QED
      BY <1>0, <1>a, <2>1, <2>2, <2>3, <3>1 DEF Pool!Turn
  <2> QED
    BY <1>0, <2>1, <2>4 DEF Pool!Next
<1>2. CASE job[j] = "running" /\ (IF Cancelled(j) THEN s = "left"
                                                  ELSE s \in {"waiting", "destroying", "gone"})
  <2>1. j \in Active /\ Active' = (Active \ {j}) \cup {}
    BY <1>2 DEF Active, In
  <2>2. j \in Doomed <=> Cancelled(j)
    BY DEF Doomed, Cancelled
  <2>3. PICK r \in {"left", "queued", "over"} :
          /\ Stage'[j] = r
          /\ r \in IF {j} \cap Doomed # {} THEN {"left"} ELSE {"queued", "over"}
    BY <1>2, <1>b, <2>2, StageValues
  <2>4. Stage' = [i \in Jobs |-> CASE i \in {j} -> r [] i \in {} -> "running" [] OTHER -> Stage[i]]
    <3>1. \A i \in Jobs : Stage'[i] = CASE i \in {j} -> r [] i \in {} -> "running" [] OTHER -> Stage[i]
      BY <1>c, <2>3
    <3> QED
      BY <1>b, <3>1
  <2>5. /\ Pool!Cardinality({}) <= 1 /\ Pool!Cardinality({j}) <= 1
        /\ Pool!Cardinality((Active \ {j}) \cup {}) <= MaxThread
    BY <1>d, <1>e, <2>1, SameCardinality
  <2>6. Pool!Turn({j}, {})
    BY <1>0, <1>a, <2>1, <2>3, <2>4, <2>5 DEF Pool!Turn
  <2> QED
    BY <1>0, <2>1, <2>6 DEF Pool!Next
<1> QED
  BY <1>1, <1>2

\* Every step is one of the pool, or none.
LEMMA NextPool == RefInv /\ CallInv /\ CallInv' /\ [Next]_vars => [Pool!Next]_(Pool!vars)
<1> SUFFICES ASSUME RefInv, CallInv, CallInv', [Next]_vars PROVE [Pool!Next]_(Pool!vars)
  OBVIOUS
<1>0. /\ job \in [Jobs -> JobStates] /\ call \in Calls
      /\ Pool!At("new") = In({"new"}) /\ Pool!At("queued") = In({"waiting"})
      /\ Pool!At("running") = Active /\ Pool!At("left") = In({"left"})
  BY PoolSets DEF RefInv, RefTypes, CallInv
\* the jobs stay where they are, and nobody is waited for
<1>1. ASSUME UNCHANGED job, UNCHANGED call \/ (call.at # "waiting" /\ call'.at # "waiting")
      PROVE  UNCHANGED Pool!vars
  BY <1>1 DEF Pool!vars, Stage, StageOf, Doomed
<1>2. ASSUME NEW j \in Jobs, Run(j) \/ End(j) \/ Reschedule(j) PROVE Pool!Next
  <2>1. PICK s \in JobStates :
          /\ job' = [job EXCEPT ![j] = s] /\ UNCHANGED call
          /\ \/ job[j] = "waiting" /\ s = "running"
             \/ job[j] = "running" /\ (IF Cancelled(j) THEN s = "left"
                                                       ELSE s \in {"waiting", "destroying", "gone"})
    BY <1>2 DEF Run, End, Reschedule, JobStates
  <2> QED
    BY <1>0, <2>1, PoolTurns
<1>3. ASSUME NEW j \in Jobs, ReturnResult(j) \/ QueueResult(j) \/ SendDummy(j)
      PROVE  UNCHANGED Pool!vars
  <2>1. UNCHANGED call /\ \A i \in Jobs : StageOf(job'[i]) = StageOf(job[i])
    BY <1>0, <1>3, StageValues DEF ReturnResult, QueueResult, SendDummy
  <2>2. Stage' = Stage
    BY <2>1 DEF Stage, StageOf
  <2> QED
    BY <2>1, <2>2 DEF Pool!vars, Doomed
<1>4. ASSUME NEW j \in Jobs, Push(j) \/ PushRefused(j)
      PROVE  Pool!Submit(j) \/ Pool!Refuse(j)
  <2>1. PICK s \in {"waiting", "lost"} :
          job[j] = "new" /\ job' = [job EXCEPT ![j] = s] /\ UNCHANGED call
    BY <1>4 DEF Push, PushRefused
  <2>2. Pool!Move({j}, StageOf(s))
    BY <1>0, <2>1, StageMoves, StageValues
  <2>3. StageOf(s) \in {"queued", "over"}
    BY <2>1, StageValues
  <2> QED
    BY <1>0, <2>1, <2>2, <2>3 DEF Pool!Submit, Pool!Refuse, In, Doomed
<1>5. ASSUME CancelUnprocessed PROVE Pool!Withdraw(JobsOf(call.of) \cap In({"waiting"}))
  <2> DEFINE S == JobsOf(call.of) \cap In({"waiting"})
  <2>1. /\ call.at = "unprocessed" /\ CallGoesOn("active", {})
        /\ job' = [j \in Jobs |-> IF j \in S THEN "gone" ELSE job[j]]
    BY <1>5 DEF CancelUnprocessed
  <2>2. call'.at = "active"
    BY <1>0, <2>1, CallMoves
  <2>3. S \in SUBSET Jobs /\ S \subseteq Pool!At("queued")
    BY <1>0 DEF In
  <2> HIDE DEF S
  <2>4. Pool!Move(S, "over")
    BY <2>1, <2>3, StageMoves, StageValues
  <2>5. UNCHANGED Doomed
    BY <2>1, <2>2 DEF Doomed
  <2> QED
    BY <2>3, <2>4, <2>5 DEF Pool!Withdraw, S
<1>6. ASSUME CancelActive PROVE Pool!Doom(JobsOf(call.of) \cap Active)
  <2> DEFINE S == JobsOf(call.of) \cap Active
  <2>1. /\ call.at = "active" /\ CallGoesOn(IF S = {} THEN "results" ELSE "waiting", S)
        /\ UNCHANGED job
    BY <1>6 DEF CancelActive, jobVars
  <2>2. S \in SUBSET Jobs /\ S \subseteq Pool!At("running")
    BY <1>0 DEF Active, In
  <2> HIDE DEF S
  <2>3. call'.at = (IF S = {} THEN "results" ELSE "waiting") /\ call'.tasks = S
    BY <1>0, <2>1, <2>2, CallMoves
  <2>4. Doomed = {} /\ Doomed' = S
    BY <2>1, <2>3 DEF Doomed
  <2>5. UNCHANGED Stage
    BY <2>1 DEF Stage, StageOf
  <2> QED
    BY <2>2, <2>4, <2>5 DEF Pool!Doom, S
<1>7. ASSUME CancelWaited PROVE Pool!Collect(call.tasks \cap In({"left"}))
  <2> DEFINE S == call.tasks \cap In({"left"})  more == call.tasks \ S
  <2>1. /\ call.at = "waiting" /\ CallGoesOn(IF more = {} THEN "results" ELSE "waiting", more)
        /\ job' = [j \in Jobs |-> IF j \in S THEN "gone" ELSE job[j]]
    BY <1>7 DEF CancelWaited
  <2>2. call.tasks \subseteq Jobs
    BY <1>0, <2>1, CallFields
  <2>3. S \in SUBSET Jobs /\ S \subseteq Pool!At("left") /\ more \in SUBSET Jobs /\ more = call.tasks \ S
    BY <1>0, <2>2 DEF In
  <2> HIDE DEF S, more
  <2>4. call'.at = (IF more = {} THEN "results" ELSE "waiting") /\ call'.tasks = more
    BY <1>0, <2>1, <2>3, CallMoves
  <2>5. Pool!Move(S, "over")
    BY <2>1, <2>3, StageMoves, StageValues
  <2>6. Doomed' = Doomed \ S
    BY <2>1, <2>3, <2>4 DEF Doomed
  <2> QED
    BY <2>3, <2>5, <2>6 DEF Pool!Collect, S
<1>8. ASSUME \/ \E b \in Bases : FindUrgent(b) \/ Cancel(b) \/ Release(b)
             \/ CancelResult \/ CancelReturns \/ RunIdle \/ EndCallback \/ ClearInUse \/ Rest
             \/ UNCHANGED vars
      PROVE  UNCHANGED Pool!vars
  <2>1. NoCall.at = "none" /\ \A b, f : CallOf(b, f).at = "unprocessed"
    BY DEF NoCall, CallOf
  <2>2. CASE UNCHANGED <<job, call>>
    BY <1>1, <2>2
  <2>3. CASE \E b \in Bases : Cancel(b) \/ Release(b)
    BY <1>1, <2>1, <2>3 DEF Cancel, Release, MainRuns, jobVars
  <2>4. CASE CancelReturns
    BY <1>1, <2>1, <2>4 DEF CancelReturns, jobVars
  <2>5. CASE EndCallback
    <3>1. UNCHANGED job /\ call.at = "none" /\ (UNCHANGED call \/ \E b : call' = CallOf(b, TRUE))
      BY <2>5 DEF EndCallback, MainRuns
    <3> QED
      BY <1>1, <2>1, <3>1
  <2>6. CASE (\E b \in Bases : FindUrgent(b)) \/ CancelResult \/ RunIdle \/ ClearInUse \/ Rest
             \/ UNCHANGED vars
    BY <2>2, <2>6 DEF FindUrgent, CancelResult, RunIdle, ClearInUse, Rest, vars, jobVars
  <2> QED
    BY <1>8, <2>3, <2>4, <2>5, <2>6
<1> QED
  <2>1. JobsOf(call.of) \cap In({"waiting"}) \in SUBSET Pool!At("queued")
    BY <1>0
  <2>2. JobsOf(call.of) \cap Active \in SUBSET Pool!At("running")
    BY <1>0
  <2>3. call.tasks \cap In({"left"}) \in SUBSET Pool!At("left")
    BY <1>0
  <2> QED
    BY <1>2, <1>3, <1>4, <1>5, <1>6, <1>7, <1>8, <2>1, <2>2, <2>3 DEF Next, Pool!Next

\* RejillaIO asks of the pool only what TaskPool offers, and sees its jobs go
\* only where TaskPool lets them: a cancelled job is never put back, nor freed
\* before its thread has left it.
THEOREM ThePoolIsUsed == Spec => UsesPool
<1> QED
  BY InvariantOfCounts, InitPool, NextPool, PTL DEF Spec, UsesPool, Pool!Spec
=============================================================================
