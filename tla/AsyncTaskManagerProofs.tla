----------------------- MODULE AsyncTaskManagerProofs -----------------------
(***************************************************************************)
(* For any number of tasks, any MANAGER_MAX_THREAD and any interleaving:   *)
(* the thread counters of the pool are exact, one thread is always ready,  *)
(* and no queued ctx is left without a thread that will look at it.        *)
(*                                                                         *)
(* None of the last two is inductive.  A signal that finds no waiter is    *)
(* harmless only because another thread is ready; a thread waits with a    *)
(* timeout only when the counters say another one is busy; so the          *)
(* invariant IInv joins both with the exactness of the counters.           *)
(***************************************************************************)
EXTENDS AsyncTaskManager, FiniteSetTheorems, SequenceTheorems, WellFoundedInduction,
        TLAPS

Shape ==
  /\ pc \in [Workers -> WorkerStates]
  /\ cancelled \in BOOLEAN
  /\ cancelled => main \in {"finalizing", "recount", "gone"}

IInv == Shape /\ ThreadAccounting /\ AlwaysOneReady /\ WorkIsServed

\* A set of naturals has a least element.
LEMMA LeastMember ==
  ASSUME NEW S \in SUBSET Nat, S # {}
  PROVE  \E x \in S : \A y \in S : x <= y
<1> DEFINE Below == OpToRel(<, Nat)
<1>1. PICK x \in S : \A y \in S : <<y, x>> \notin Below
  <2>1. IsWellFoundedOn(Below, Nat)
    BY NatLessThanWellFounded
  <2> HIDE DEF Below
  <2> QED
    BY <2>1, WFMin
<1>2. \A y \in S : x <= y
  <2>1. \A y \in Nat, z \in Nat : y < z => <<y, z>> \in Below
    BY SMT DEF OpToRel
  <2> HIDE DEF Below
  <2>2. TAKE y \in S
  <2>3. x \in Nat /\ y \in Nat /\ ~ (y < x)
    BY <1>1, <2>1
  <2> QED
    BY <2>3
<1> QED
  BY <1>2

\* What foreach_unprocessed_remove leaves in the queue.  The loop is a recursive
\* function over the positions: that it exists, and then what it holds at each
\* of them, is shown on the least position where it would not.
LEMMA WithoutIs ==
  ASSUME NEW q \in Seq(Tasks), NEW S
  PROVE  /\ Without(q, S) \in Seq(Tasks)
         /\ ToSet(Without(q, S)) = ToSet(q) \ S
         /\ IsInjective(q) => IsInjective(Without(q, S))
<1> DEFINE Step(f, i) == IF i = 0 THEN <<>>
                         ELSE IF q[i] \in S THEN f[i - 1] ELSE Append(f[i - 1], q[i])
           Part(n) == \E f : f = [i \in 0 .. n |-> Step(f, i)]
           NoPart == {n \in 0 .. Len(q) : ~ Part(n)}
           kept == CHOOSE f : f = [i \in 0 .. Len(q) |-> Step(f, i)]
           Good(n) == /\ kept[n] \in Seq(Tasks)
                      /\ ToSet(kept[n]) = {q[j] : j \in 1 .. n} \ S
                      /\ IsInjective(q) => IsInjective(kept[n])
           NotGood == {n \in 0 .. Len(q) : ~ Good(n)}
<1>0. Len(q) \in Nat /\ DOMAIN q = 1 .. Len(q)
  OBVIOUS
<1>1. NoPart = {}
  <2> SUFFICES ASSUME NoPart # {} PROVE FALSE
    OBVIOUS
  <2>1. PICK n \in NoPart : \A m \in NoPart : n <= m
    <3>1. NoPart \in SUBSET Nat
      BY <1>0
    <3> HIDE DEF NoPart
    <3> QED
      BY <3>1, LeastMember
  <2>2. n # 0
    <3>1. [i \in 0 .. 0 |-> <<>>] = [i \in 0 .. 0 |-> Step([j \in 0 .. 0 |-> <<>>], i)]
      OBVIOUS
    <3> HIDE DEF Step
    <3>2. Part(0)
      BY <3>1
    <3> QED
      BY <3>2
  <2>3. n \in 0 .. Len(q) /\ n - 1 \in 0 .. Len(q) /\ n - 1 \notin NoPart
    <3>1. n \in 0 .. Len(q)
      OBVIOUS
    <3> HIDE DEF NoPart
    <3> QED
      BY <1>0, <2>1, <2>2, <3>1
  <2>4. PICK f : f = [i \in 0 .. n - 1 |-> Step(f, i)]
    <3> HIDE DEF Step
    <3> QED
      BY <2>3
  <2> DEFINE g == [i \in 0 .. n |-> IF i < n THEN f[i] ELSE Step(f, n)]
  <2>5. \A i \in 0 .. n : g[i] = Step(g, i)
    <3>1. TAKE i \in 0 .. n
    <3>2. CASE i < n
      <4>1. g[i] = f[i] /\ i \in 0 .. n - 1
        BY <2>3, <3>2
      <4>3. f[i] = Step(f, i)
        <5> HIDE DEF Step
        <5> QED
          BY <2>4, <4>1
      <4>2. i # 0 => g[i - 1] = f[i - 1]
        BY <2>3, <3>2
      <4> QED
        BY <4>1, <4>2, <4>3
    <3>3. CASE i = n
      BY <2>2, <2>3, <3>3
    <3> QED
      BY <2>3, <3>2, <3>3
  <2>6. g = [i \in 0 .. n |-> Step(g, i)]
    <3>1. g = [i \in 0 .. n |-> g[i]]
      OBVIOUS
    <3> HIDE DEF g, Step
    <3> QED
      BY <2>5, <3>1
  <2> HIDE DEF g, Step
  <2>7. Part(n)
    BY <2>6
  <2> QED
    BY <2>7, <2>1
<1>2. kept = [i \in 0 .. Len(q) |-> Step(kept, i)]
  <2>1. \E f : f = [i \in 0 .. Len(q) |-> Step(f, i)]
    <3> HIDE DEF Step
    <3> QED
      BY <1>0, <1>1
  <2> HIDE DEF Step
  <2> QED
    BY <2>1
<1>3. Without(q, S) = kept[Len(q)]
  BY DEF Without
<1> HIDE DEF kept
<1>4. NotGood = {}
  <2> SUFFICES ASSUME NotGood # {} PROVE FALSE
    OBVIOUS
  <2>1. PICK n \in NotGood : \A m \in NotGood : n <= m
    <3>1. NotGood \in SUBSET Nat
      BY <1>0
    <3> HIDE DEF NotGood
    <3> QED
      BY <3>1, LeastMember
  <2>2. n # 0
    <3>1. kept[0] = <<>>
      BY <1>0, <1>2
    <3>2. Good(0)
      BY <3>1 DEF ToSet, IsInjective
    <3> QED
      BY <3>2
  <2>3. n \in 1 .. Len(q) /\ Good(n - 1)
    <3>1. n \in 0 .. Len(q)
      OBVIOUS
    <3>2. n \in 1 .. Len(q) /\ n - 1 \in 0 .. Len(q) /\ n - 1 \notin NotGood
      <4> HIDE DEF NotGood
      <4> QED
        BY <1>0, <2>1, <2>2, <3>1
    <3> HIDE DEF Good
    <3> QED
      BY <3>2
  <2>4. kept[n] = IF q[n] \in S THEN kept[n - 1] ELSE Append(kept[n - 1], q[n])
    <3>1. kept[n] = Step(kept, n)
      <4> HIDE DEF Step
      <4> QED
        BY <1>0, <1>2, <2>3
    <3> QED
      BY <2>2, <3>1
  <2>5. {q[j] : j \in 1 .. n} = {q[j] : j \in 1 .. n - 1} \cup {q[n]}
    BY <2>3
  <2>6. q[n] \in Tasks
    BY <2>3
  <2> DEFINE p == kept[n - 1]
  <2>7. p \in Seq(Tasks) /\ ToSet(p) = {q[j] : j \in 1 .. n - 1} \ S /\ (IsInjective(q) => IsInjective(p))
    BY <2>3
  <2>8. CASE q[n] \in S
    BY <2>4, <2>5, <2>7, <2>8, <2>1
  <2>9. CASE q[n] \notin S
    <3>1. kept[n] = Append(p, q[n])
      BY <2>4, <2>9
    <3> HIDE DEF p
    <3>2. /\ Append(p, q[n]) \in Seq(Tasks) /\ DOMAIN Append(p, q[n]) = 1 .. Len(p) + 1
          /\ DOMAIN p = 1 .. Len(p) /\ Len(p) \in Nat
          /\ Append(p, q[n])[Len(p) + 1] = q[n]
          /\ \A j \in 1 .. Len(p) : Append(p, q[n])[j] = p[j]
      BY <2>6, <2>7
    <3>3. ToSet(Append(p, q[n])) = ToSet(p) \cup {q[n]}
      BY <3>2 DEF ToSet
    <3>4. ASSUME IsInjective(q) PROVE IsInjective(Append(p, q[n]))
      <4>1. q[n] \notin ToSet(p)
        BY <1>0, <2>3, <2>7, <3>4 DEF IsInjective
      <4> QED
        BY <3>2, <4>1, <2>7, <3>4 DEF IsInjective, ToSet
    <3>5. Good(n)
      BY <3>1, <3>2, <3>3, <3>4, <2>5, <2>7, <2>9
    <3> QED
      BY <3>5, <2>1
  <2> QED
    BY <2>8, <2>9
<1>5. Good(Len(q))
  <2>1. Len(q) \in 0 .. Len(q) /\ Len(q) \notin NotGood
    <3>1. Len(q) \in 0 .. Len(q)
      BY <1>0
    <3> HIDE DEF NotGood
    <3> QED
      BY <1>4, <3>1
  <2> HIDE DEF Good
  <2> QED
    BY <2>1
<1> QED
  BY <1>0, <1>3, <1>5 DEF ToSet

LEMMA MinIsMember ==
  ASSUME NEW S \in SUBSET Nat, S # {}
  PROVE  Min(S) \in S
BY LeastMember DEF Min

\* r is the queue q with the ctx t put somewhere into it.
Adds(r, q, t) ==
  /\ r \in Seq(Tasks)
  /\ r # <<>>
  /\ ToSet(r) = ToSet(q) \cup {t}
  /\ IsInjective(q) /\ t \notin ToSet(q) => IsInjective(r)

LEMMA AppendAdds ==
  ASSUME NEW q \in Seq(Tasks), NEW t \in Tasks
  PROVE  Adds(Append(q, t), q, t)
<1> DEFINE r == Append(q, t)
<1>1. /\ r \in Seq(Tasks) /\ DOMAIN r = 1 .. Len(q) + 1 /\ DOMAIN q = 1 .. Len(q) /\ Len(q) \in Nat
      /\ r[Len(q) + 1] = t /\ \A i \in 1 .. Len(q) : r[i] = q[i]
  OBVIOUS
<1> HIDE DEF r
<1>2. ToSet(r) = ToSet(q) \cup {t}
  BY <1>1 DEF ToSet
<1>3. IsInjective(q) /\ t \notin ToSet(q) => IsInjective(r)
  BY <1>1 DEF IsInjective, ToSet
<1> QED
  BY <1>1, <1>2, <1>3 DEF Adds, r

LEMMA PrependAdds ==
  ASSUME NEW q \in Seq(Tasks), NEW t \in Tasks
  PROVE  Adds(<<t>> \o q, q, t)
<1> DEFINE r == <<t>> \o q
<1>1. /\ r \in Seq(Tasks) /\ DOMAIN r = 1 .. Len(q) + 1 /\ DOMAIN q = 1 .. Len(q) /\ Len(q) \in Nat
      /\ r[1] = t /\ \A i \in 1 .. Len(q) : r[i + 1] = q[i]
  OBVIOUS
<1> HIDE DEF r
<1>2. \A i \in DOMAIN r : i # 1 => i - 1 \in DOMAIN q /\ r[i] = q[i - 1]
  <2>1. TAKE i \in DOMAIN r
  <2>2. HAVE i # 1
  <2>3. i - 1 \in 1 .. Len(q) /\ (i - 1) + 1 = i
    BY <1>1, <2>2
  <2> QED
    BY <1>1, <2>3
<1>3. ToSet(r) = ToSet(q) \cup {t}
  <2>1. ToSet(r) \subseteq ToSet(q) \cup {t}
    BY <1>1, <1>2 DEF ToSet
  <2>2. ToSet(q) \subseteq ToSet(r)
    BY <1>1 DEF ToSet
  <2>3. t \in ToSet(r)
    BY <1>1 DEF ToSet
  <2> QED
    BY <2>1, <2>2, <2>3
<1>4. IsInjective(q) /\ t \notin ToSet(q) => IsInjective(r)
  BY <1>1, <1>2 DEF IsInjective, ToSet
<1> QED
  BY <1>1, <1>3, <1>4 DEF Adds, r

\* What InsertAt and RemoveAt of SequencesExt return.
LEMMA InsertAtIs ==
  ASSUME NEW S, NEW q \in Seq(S), NEW t \in S, NEW k \in 1 .. Len(q)
  PROVE  /\ InsertAt(q, k, t) \in Seq(S) /\ Len(InsertAt(q, k, t)) = Len(q) + 1
         /\ \A i \in 1 .. Len(q) + 1 :
              InsertAt(q, k, t)[i] = IF i < k THEN q[i] ELSE IF i = k THEN t ELSE q[i - 1]
<1> DEFINE a == SubSeq(q, 1, k - 1)
           b == SubSeq(q, k, Len(q))
           m == a \o <<t>>
<1>0. Len(q) \in Nat /\ k \in 1 .. Len(q) /\ \A i \in 1 .. Len(q) : q[i] \in S
  OBVIOUS
<1>1. a \in Seq(S) /\ Len(a) = k - 1 /\ \A i \in 1 .. k - 1 : a[i] = q[i]
  <2>1. \A i \in 1 .. k - 1 : q[i] \in S
    BY <1>0
  <2> QED
    BY <1>0, <2>1, SubSeqProperties
<1>2. b \in Seq(S) /\ Len(b) = Len(q) - k + 1 /\ \A i \in 1 .. Len(q) - k + 1 : b[i] = q[k + i - 1]
  <2>1. \A i \in k .. Len(q) : q[i] \in S
    BY <1>0
  <2> QED
    BY <1>0, <2>1, SubSeqProperties
<1>3. InsertAt(q, k, t) = m \o b
  BY DEF InsertAt
<1> HIDE DEF a, b
<1>4. m \in Seq(S) /\ Len(m) = k /\ m[k] = t /\ \A i \in 1 .. k - 1 : m[i] = q[i]
  BY <1>0, <1>1
<1> HIDE DEF m
<1>5. m \o b \in Seq(S) /\ Len(m \o b) = Len(q) + 1
  <2>1. m \o b \in Seq(S) /\ Len(m \o b) = Len(m) + Len(b)
    BY <1>2, <1>4, ConcatProperties
  <2> QED
    BY <1>0, <1>2, <1>4, <2>1
<1>6. ASSUME NEW i \in 1 .. Len(q) + 1
      PROVE  (m \o b)[i] = IF i < k THEN q[i] ELSE IF i = k THEN t ELSE q[i - 1]
  <2>1. CASE i <= k
    <3>1. (m \o b)[i] = m[i]
      BY <1>0, <1>2, <1>4, <2>1, ConcatProperties
    <3> QED
      BY <1>0, <1>4, <2>1, <3>1
  <2>2. CASE ~ (i <= k)
    <3>1. (m \o b)[i] = b[i - k]
      BY <1>0, <1>2, <1>4, <2>2, ConcatProperties
    <3>2. b[i - k] = q[i - 1]
      <4>1. i - k \in 1 .. Len(q) - k + 1 /\ k + (i - k) - 1 = i - 1
        BY <1>0, <2>2
      <4> QED
        BY <1>2, <4>1
    <3> QED
      BY <1>0, <2>2, <3>1, <3>2
  <2> QED
    BY <2>1, <2>2
<1> QED
  BY <1>3, <1>5, <1>6

LEMMA RemoveAtIs ==
  ASSUME NEW S, NEW q \in Seq(S), NEW k \in 1 .. Len(q)
  PROVE  /\ RemoveAt(q, k) \in Seq(S) /\ Len(RemoveAt(q, k)) = Len(q) - 1
         /\ \A i \in 1 .. Len(q) - 1 :
              RemoveAt(q, k)[i] = IF i < k THEN q[i] ELSE q[i + 1]
<1> DEFINE a == SubSeq(q, 1, k - 1)
           b == SubSeq(q, k + 1, Len(q))
<1>0. Len(q) \in Nat /\ k \in 1 .. Len(q) /\ \A i \in 1 .. Len(q) : q[i] \in S
  OBVIOUS
<1>1. a \in Seq(S) /\ Len(a) = k - 1 /\ \A i \in 1 .. k - 1 : a[i] = q[i]
  <2>1. \A i \in 1 .. k - 1 : q[i] \in S
    BY <1>0
  <2> QED
    BY <1>0, <2>1, SubSeqProperties
<1>2. b \in Seq(S) /\ Len(b) = Len(q) - k /\ \A i \in 1 .. Len(q) - k : b[i] = q[k + i]
  <2>1. \A i \in k + 1 .. Len(q) : q[i] \in S
    BY <1>0
  <2> QED
    BY <1>0, <2>1, SubSeqProperties
<1>3. RemoveAt(q, k) = a \o b
  BY DEF RemoveAt
<1> HIDE DEF a, b
<1>4. a \o b \in Seq(S) /\ Len(a \o b) = Len(q) - 1
  BY <1>0, <1>1, <1>2
<1>5. ASSUME NEW i \in 1 .. Len(q) - 1
      PROVE  (a \o b)[i] = IF i < k THEN q[i] ELSE q[i + 1]
  <2>1. CASE i < k
    <3>1. (a \o b)[i] = a[i]
      BY <1>0, <1>1, <1>2, <2>1, ConcatProperties
    <3> QED
      BY <1>0, <1>1, <2>1, <3>1
  <2>2. CASE ~ (i < k)
    <3>1. (a \o b)[i] = b[i - (k - 1)]
      BY <1>0, <1>1, <1>2, <2>2, ConcatProperties
    <3>2. b[i - (k - 1)] = q[i + 1]
      <4>1. i - (k - 1) \in 1 .. Len(q) - k /\ k + (i - (k - 1)) = i + 1
        BY <1>0, <2>2
      <4> QED
        BY <1>2, <4>1
    <3> QED
      BY <1>0, <2>2, <3>1, <3>2
  <2> QED
    BY <2>1, <2>2
<1> QED
  BY <1>3, <1>4, <1>5

LEMMA InsertAtAdds ==
  ASSUME NEW q \in Seq(Tasks), NEW t \in Tasks, NEW k \in DOMAIN q
  PROVE  Adds(InsertAt(q, k, t), q, t)
<1> DEFINE r == InsertAt(q, k, t)
<1>1. /\ r \in Seq(Tasks) /\ DOMAIN r = 1 .. Len(q) + 1 /\ DOMAIN q = 1 .. Len(q) /\ Len(q) \in Nat
      /\ \A i \in 1 .. Len(q) + 1 : r[i] = IF i < k THEN q[i] ELSE IF i = k THEN t ELSE q[i - 1]
  BY InsertAtIs
<1> HIDE DEF r
<1>2. k \in 1 .. Len(q)
  BY <1>1
<1>3. \A i \in 1 .. Len(q) : \E j \in DOMAIN r : r[j] = q[i]
  <2>1. TAKE i \in 1 .. Len(q)
  <2>2. CASE i < k
    BY <1>1, <2>2, SMTT(30)
  <2>3. CASE i >= k
    <3>1. i + 1 \in DOMAIN r /\ ~ (i + 1 < k) /\ i + 1 # k /\ (i + 1) - 1 = i
      BY <1>1, <1>2, <2>3
    <3> QED
      BY <1>1, <3>1
  <2> QED
    BY <1>2, <2>2, <2>3
<1>4. \A i \in DOMAIN r : r[i] = t \/ \E j \in 1 .. Len(q) : r[i] = q[j]
  BY <1>1, <1>2
<1>5. ToSet(r) = ToSet(q) \cup {t}
  <2>1. ToSet(r) \subseteq ToSet(q) \cup {t}
    BY <1>1, <1>4 DEF ToSet
  <2>2. ToSet(q) \subseteq ToSet(r)
    BY <1>1, <1>3 DEF ToSet
  <2>3. t \in ToSet(r)
    BY <1>1, <1>2 DEF ToSet
  <2> QED
    BY <2>1, <2>2, <2>3
<1>6. ASSUME IsInjective(q), t \notin ToSet(q), NEW i \in DOMAIN r, NEW j \in DOMAIN r, r[i] = r[j]
      PROVE  i = j
  <2>1. \A m, n \in 1 .. Len(q) : q[m] = q[n] => m = n
    BY <1>1, <1>6 DEF IsInjective
  <2>2. \A m \in 1 .. Len(q) : q[m] # t
    BY <1>1, <1>6 DEF ToSet
  <2> QED
    BY <1>1, <1>2, <1>6, <2>1, <2>2
<1> QED
  BY <1>1, <1>2, <1>5, <1>6 DEF Adds, r, IsInjective

\* The lists of the manager gain exactly the ctx that is put into them.
LEMMA InsertTaskAdds ==
  ASSUME NEW q \in Seq(Tasks), NEW t \in Tasks
  PROVE  Adds(InsertTask(q, t), q, t)
<1> DEFINE lower == {i \in DOMAIN q : priority[q[i]] < priority[t]}
<1>1. CASE lower = {}
  BY <1>1, AppendAdds DEF InsertTask
<1>2. CASE lower # {}
  <2>1. Min(lower) \in lower
    <3>1. lower \in SUBSET Nat
      OBVIOUS
    <3> QED
      BY <1>2, <3>1, MinIsMember
  <2>2. InsertTask(q, t) = InsertAt(q, Min(lower), t)
    BY <1>2 DEF InsertTask
  <2> QED
    BY <2>1, <2>2, InsertAtAdds
<1> QED
  BY <1>1, <1>2

LEMMA EnqueueAdds ==
  ASSUME waiting \in Seq(Tasks), NEW t \in Tasks, NEW p \in Priorities
  PROVE  Adds(Enqueue(t, p), waiting, t)
BY AppendAdds, PrependAdds, InsertTaskAdds DEF Enqueue, Priorities, IDLE, NORMAL, URGENT

LEMMA RescheduleAdds ==
  ASSUME waiting \in Seq(Tasks), NEW t \in Tasks
  PROVE  Adds(Reschedule(t), waiting, t)
BY PrependAdds, InsertTaskAdds DEF Reschedule

\* find_urgent_task moves one ctx to the front and loses none.
LEMMA ToFront ==
  ASSUME NEW q \in Seq(Tasks), NEW k \in DOMAIN q
  PROVE  LET r == <<q[k]>> \o RemoveAt(q, k)
         IN  r \in Seq(Tasks) /\ r # <<>> /\ ToSet(r) = ToSet(q) /\ (IsInjective(q) => IsInjective(r))
<1> DEFINE rest == RemoveAt(q, k)
<1>1. /\ rest \in Seq(Tasks) /\ DOMAIN rest = 1 .. Len(q) - 1 /\ DOMAIN q = 1 .. Len(q) /\ Len(q) \in Nat
      /\ \A i \in 1 .. Len(q) - 1 : rest[i] = IF i < k THEN q[i] ELSE q[i + 1]
      /\ k \in 1 .. Len(q) /\ q[k] \in Tasks
  <2>1. DOMAIN q = 1 .. Len(q) /\ Len(q) \in Nat /\ k \in 1 .. Len(q) /\ q[k] \in Tasks
    OBVIOUS
  <2>2. /\ rest \in Seq(Tasks) /\ Len(rest) = Len(q) - 1
        /\ \A i \in 1 .. Len(q) - 1 : rest[i] = IF i < k THEN q[i] ELSE q[i + 1]
    BY <2>1, RemoveAtIs
  <2> HIDE DEF rest
  <2>3. DOMAIN rest = 1 .. Len(rest)
    BY <2>2
  <2> QED
    BY <2>1, <2>2, <2>3
<1> HIDE DEF rest
<1>2. \A i \in 1 .. Len(q) : i # k => \E j \in DOMAIN rest : rest[j] = q[i]
  <2>1. TAKE i \in 1 .. Len(q)
  <2>2. CASE i < k
    BY <1>1, <2>2
  <2>3. CASE i > k
    <3>1. i - 1 \in DOMAIN rest /\ ~ (i - 1 < k) /\ (i - 1) + 1 = i
      BY <1>1, <2>3
    <3> QED
      BY <1>1, <3>1
  <2> QED
    BY <1>1, <2>2, <2>3
<1>3. \A i \in DOMAIN rest : \E j \in 1 .. Len(q) : rest[i] = q[j]
  BY <1>1
<1>4. ToSet(rest) \cup {q[k]} = ToSet(q)
  <2>1. ToSet(rest) \subseteq ToSet(q) /\ q[k] \in ToSet(q)
    BY <1>1, <1>3, SMTT(30) DEF ToSet
  <2>2. ToSet(q) \subseteq ToSet(rest) \cup {q[k]}
    BY <1>1, <1>2 DEF ToSet
  <2> QED
    BY <2>1, <2>2
<1>5. ASSUME IsInjective(q) PROVE IsInjective(rest) /\ q[k] \notin ToSet(rest)
  <2>1. \A m, n \in 1 .. Len(q) : q[m] = q[n] => m = n
    BY <1>1, <1>5 DEF IsInjective
  <2>2. IsInjective(rest)
    BY <1>1, <2>1 DEF IsInjective
  <2>3. q[k] \notin ToSet(rest)
    <3>1. SUFFICES ASSUME NEW i \in DOMAIN rest, rest[i] = q[k] PROVE FALSE
      BY DEF ToSet
    <3>2. (rest[i] = q[i] /\ i < k) \/ (rest[i] = q[i + 1] /\ i + 1 > k)
      BY <1>1
    <3> QED
      BY <1>1, <2>1, <3>1, <3>2
  <2> QED
    BY <2>2, <2>3
<1>6. Adds(<<q[k]>> \o rest, rest, q[k])
  BY <1>1, PrependAdds
<1> QED
  BY <1>4, <1>5, <1>6 DEF Adds, rest

\* Taking the head of a queue without repetitions.
LEMMA TailLoses ==
  ASSUME NEW q \in Seq(Tasks), q # <<>>
  PROVE  /\ Head(q) \in Tasks /\ Tail(q) \in Seq(Tasks)
         /\ ToSet(q) = ToSet(Tail(q)) \cup {Head(q)}
         /\ IsInjective(q) => IsInjective(Tail(q)) /\ Head(q) \notin ToSet(Tail(q))
<1> DEFINE r == Tail(q)
<1>1. /\ r \in Seq(Tasks) /\ DOMAIN r = 1 .. Len(q) - 1 /\ DOMAIN q = 1 .. Len(q) /\ Len(q) \in Nat
      /\ \A i \in 1 .. Len(q) - 1 : r[i] = q[i + 1]
      /\ Head(q) = q[1] /\ 1 \in DOMAIN q /\ q[1] \in Tasks
  OBVIOUS
<1> HIDE DEF r
<1>2. \A i \in 1 .. Len(q) : i # 1 => i - 1 \in DOMAIN r /\ r[i - 1] = q[i]
  BY <1>1
<1>3. ToSet(q) = ToSet(r) \cup {Head(q)}
  <2>1. ToSet(q) \subseteq ToSet(r) \cup {Head(q)}
    BY <1>1, <1>2 DEF ToSet
  <2>2. ToSet(r) \cup {Head(q)} \subseteq ToSet(q)
    BY <1>1 DEF ToSet
  <2> QED
    BY <2>1, <2>2
<1>4. ASSUME IsInjective(q) PROVE IsInjective(r) /\ Head(q) \notin ToSet(r)
  <2>1. \A m, n \in 1 .. Len(q) : q[m] = q[n] => m = n
    BY <1>1, <1>4 DEF IsInjective
  <2>2. \A i \in DOMAIN r : r[i] = q[i + 1] /\ i + 1 \in 1 .. Len(q) /\ i + 1 # 1 /\ i \in Nat
    BY <1>1
  <2>3. \A i, j \in DOMAIN r : r[i] = r[j] => i = j
    BY <2>1, <2>2
  <2>4. \A i \in DOMAIN r : r[i] # q[1]
    BY <1>1, <2>1, <2>2
  <2> QED
    BY <1>1, <2>3, <2>4 DEF IsInjective, ToSet
<1> QED
  BY <1>1, <1>3, <1>4 DEF r
-----------------------------------------------------------------------------
\* Finitely many slots: every set of workers has a natural cardinality.
LEMMA FiniteWorkers ==
  /\ \A S \in SUBSET Workers : IsFiniteSet(S) /\ Cardinality(S) \in Nat
  /\ \A S \in SUBSET Workers : \A T \in SUBSET S : Cardinality(T) <= Cardinality(S)
  /\ \A S \in SUBSET Workers : Cardinality(S) = 0 <=> S = {}
BY WorkersAssumption, FS_Subset, FS_CardinalityType, FS_EmptySet

\* Counting one thread more or one less.
LEMMA AddOne ==
  ASSUME NEW S \in SUBSET Workers, NEW w \in Workers
  PROVE  /\ w \notin S => Cardinality(S \cup {w}) = Cardinality(S) + 1
         /\ w \in S => Cardinality(S \ {w}) = Cardinality(S) - 1
BY FiniteWorkers, FS_AddElement, FS_RemoveElement

LEMMA Sets == Alive \in SUBSET Workers /\ Unused \in SUBSET Workers
BY DEF Alive, Unused

\* The loop of the thread function from its inner `while' on, entered with an
\* exact count of the unused threads, w among them, keeps the counters exact
\* and leaves somebody ready.
LEMMA DispatchKeeps ==
  ASSUME NEW w \in Workers, NEW q, NEW a, NEW unused, NEW m,
         Shape, num_threads = Cardinality(Alive),
         pc[w] \in {"created", "woken", "running"},
         unused = Cardinality(Unused \cup {w}),
         Dispatch(w, q, a, unused, m),
         cancelled' = cancelled
  PROVE  /\ pc' \in [Workers -> WorkerStates]
         /\ ThreadAccounting'
         /\ AlwaysOneReady'
         /\ WorkIsServed'
<1> DEFINE U == Unused \cup {w}
<1>0. /\ U \in SUBSET Workers /\ w \in U /\ Alive \in SUBSET Workers /\ w \in Alive
      /\ Cardinality(U) \in Nat /\ Cardinality(Alive) \in Nat
  BY Sets, FiniteWorkers DEF Alive
<1>1. CASE /\ q # <<>> /\ unused_threads' = unused - 1 /\ num_threads' = num_threads
           /\ pc' = [pc EXCEPT ![w] = "running"]
  <2>1. pc' \in [Workers -> WorkerStates] /\ pc'[w] = "running"
    BY <1>1 DEF Shape, WorkerStates
  <2>2. Alive' = Alive /\ Unused' = U \ {w}
    BY <1>1 DEF Alive, Unused, Shape
  <2>3. ThreadAccounting'
    BY <1>0, <1>1, <2>2, AddOne DEF ThreadAccounting
  <2> QED
    BY <2>1, <2>3 DEF AlwaysOneReady, WorkIsServed
<1>2. CASE /\ q = <<>> /\ cancelled /\ waiting' = q
           /\ Exit(w, unused, m)
  <2>1. pc' \in [Workers -> WorkerStates]
    BY <1>2 DEF Shape, WorkerStates, Exit
  <2>2. Alive' = Alive \ {w} /\ Unused' = U \ {w}
    BY <1>2 DEF Alive, Unused, Shape, Exit
  <2>3. ThreadAccounting'
    BY <1>0, <1>2, <2>2, AddOne DEF ThreadAccounting, Exit
  <2> QED
    BY <1>2, <2>1, <2>3 DEF AlwaysOneReady, WorkIsServed
<1>3. CASE /\ q = <<>> /\ ~cancelled /\ waiting' = q
           /\ unused_threads' = unused /\ num_threads' = num_threads
           /\ pc' = [pc EXCEPT ![w] = HowToWait(unused)]
  <2>1. pc' \in [Workers -> WorkerStates] /\ HowToWait(unused) \in {"dozing", "sleeping"}
    BY <1>3 DEF Shape, WorkerStates, HowToWait
  <2>2. Alive' = Alive /\ Unused' = U
    BY <1>3, <2>1 DEF Alive, Unused, Shape
  <2>3. ThreadAccounting'
    BY <1>0, <1>3, <2>2 DEF ThreadAccounting
  <2>4. AlwaysOneReady'
    <3>1. CASE HowToWait(unused) = "sleeping"
      BY <1>3, <3>1 DEF AlwaysOneReady, Shape
    <3>2. CASE HowToWait(unused) = "dozing"
      <4>1. Cardinality(Alive) > Cardinality(U)
        BY <1>0, <3>2 DEF HowToWait
      <4>2. PICK v \in Alive : v \notin U
        BY <1>0, <4>1, FiniteWorkers
      <4>3. v \in Workers /\ pc[v] \in {"created", "running"} /\ v # w
        BY <4>2 DEF Alive, Unused, Shape, WorkerStates
      <4>4. pc'[v] = pc[v]
        BY <1>3, <4>3 DEF Shape
      <4> QED
        BY <4>3, <4>4 DEF AlwaysOneReady
    <3> QED
      BY <2>1, <3>1, <3>2
  <2> QED
    BY <1>3, <2>1, <2>3, <2>4 DEF WorkIsServed
<1> QED
  BY <1>1, <1>2, <1>3 DEF Dispatch
-----------------------------------------------------------------------------
LEMMA InitIInv == Init => IInv
<1> SUFFICES ASSUME Init PROVE IInv
  OBVIOUS
<1>1. Shape
  BY DEF Init, Shape, WorkerStates
<1>2. Alive = {} /\ Unused = {}
  BY DEF Init, Alive, Unused
<1>3. ThreadAccounting
  BY <1>2, FS_EmptySet DEF Init, ThreadAccounting
<1> QED
  BY <1>1, <1>2, <1>3 DEF Init, IInv, AlwaysOneReady, WorkIsServed

\* A step that leaves every thread where it is keeps what IInv says of them.
LEMMA SameThreads ==
  ASSUME IInv, UNCHANGED <<pc, num_threads, unused_threads>>,
         cancelled' = cancelled, cancelled => main' \in {"finalizing", "recount", "gone"},
         waiting # <<>> \/ waiting' = <<>>
  PROVE  IInv'
<1>1. Alive' = Alive /\ Unused' = Unused
  BY DEF Alive, Unused
<1> QED
  BY <1>1 DEF IInv, Shape, ThreadAccounting, AlwaysOneReady, WorkIsServed

\* Where the calling thread is after it: nowhere new but out of a wait.
LEMMA DispatchMain ==
  ASSUME NEW w, NEW q, NEW a, NEW unused, NEW m, Dispatch(w, q, a, unused, m)
  PROVE  main' \in {m, ThreadFinished(m)}
BY DEF Dispatch, Exit

LEMMA NextIInv == IInv /\ [Next]_vars => IInv'
<1> SUFFICES ASSUME IInv, [Next]_vars PROVE IInv'
  OBVIOUS
<1> USE DEF IInv
<1>1. ASSUME NEW t \in Tasks, NEW p \in Priorities, Queue(t, p) PROVE IInv'
  <2>0. ~cancelled /\ cancelled' = FALSE /\ main' = main /\ unused_threads' = unused_threads
    BY <1>1 DEF Queue, Shape
  <2>1. CASE unused_threads > 0 /\ SignalNewTask /\ UNCHANGED num_threads
    <3>1. Unused # {}
      BY <2>1, Sets, FiniteWorkers DEF ThreadAccounting
    <3>2. /\ pc' \in [Workers -> WorkerStates]
          /\ Alive' = Alive /\ Unused' = Unused
      BY <2>1 DEF SignalNewTask, Waiters, Alive, Unused, Shape, WorkerStates
    <3>3. \E w \in Workers : pc'[w] \in {"created", "woken", "running"}
      <4>1. CASE Waiters = {} /\ UNCHANGED pc
        <5>1. PICK w \in Workers : pc[w] \in {"created", "sleeping", "woken", "running"}
          BY <2>0, <3>1 DEF AlwaysOneReady, Alive, Unused
        <5> QED
          BY <4>1, <5>1 DEF Waiters
      <4>2. CASE \E w \in Waiters : pc' = [pc EXCEPT ![w] = "woken"]
        BY <4>2 DEF Waiters, Shape
      <4> QED
        BY <2>1, <4>1, <4>2 DEF SignalNewTask
    <3> QED
      BY <2>0, <2>1, <3>2, <3>3 DEF Shape, ThreadAccounting, AlwaysOneReady, WorkIsServed
  <2>2. CASE /\ unused_threads = 0 /\ num_threads < MaxThread
             /\ \E w \in Workers \ Alive : pc' = [pc EXCEPT ![w] = "created"]
             /\ num_threads' = num_threads + 1
    <3>1. PICK w \in Workers \ Alive : pc' = [pc EXCEPT ![w] = "created"]
      BY <2>2
    <3>2. /\ pc' \in [Workers -> WorkerStates] /\ pc'[w] = "created"
          /\ Alive' = Alive \cup {w} /\ Unused' = Unused
      BY <3>1 DEF Alive, Unused, Shape, WorkerStates
    <3>3. ThreadAccounting'
      BY <2>0, <2>2, <3>1, <3>2, Sets, AddOne DEF ThreadAccounting
    <3> QED
      BY <2>0, <3>1, <3>2, <3>3 DEF Shape, AlwaysOneReady, WorkIsServed
  <2>3. CASE /\ unused_threads = 0 /\ num_threads >= MaxThread
             /\ UNCHANGED <<pc, num_threads>>
    <3>1. Alive # {} /\ Unused = {}
      <4>1. Cardinality(Unused) = 0 /\ Cardinality(Alive) # 0
        BY <2>3, MaxThreadAssumption DEF ThreadAccounting
      <4> QED
        BY <4>1, Sets, FiniteWorkers
    <3>2. \E w \in Workers : pc[w] \in {"created", "running"}
      BY <3>1 DEF Alive, Unused, Shape, WorkerStates
    <3>3. Alive' = Alive /\ Unused' = Unused
      BY <2>3 DEF Alive, Unused
    <3> QED
      BY <2>0, <2>3, <3>2, <3>3 DEF Shape, ThreadAccounting, AlwaysOneReady, WorkIsServed
  <2> QED
    BY <1>1, <2>1, <2>2, <2>3 DEF Queue
<1>2. ASSUME NEW t \in Tasks, QueueFails(t) PROVE IInv'
  BY <1>2, SameThreads DEF QueueFails, poolVars, Shape
<1>3. ASSUME NEW S, UnprocessedRemove(S) PROVE IInv'
  BY <1>3, SameThreads DEF UnprocessedRemove, poolVars, Shape
<1>4. ASSUME NEW S, ActiveRemove(S) PROVE IInv'
  BY <1>4, SameThreads DEF ActiveRemove, poolVars, Shape
<1>5. ASSUME ActiveRemoveWakes PROVE IInv'
  BY <1>5, SameThreads DEF ActiveRemoveWakes, poolVars, Shape
<1>6. ASSUME NEW i \in DOMAIN waiting, FindUrgent(i) PROVE IInv'
  <2>1. waiting # <<>>
    BY <1>6
  <2> QED
    BY <1>6, <2>1, SameThreads DEF FindUrgent, poolVars, Shape
<1>7. ASSUME Finalize PROVE IInv'
  <2>1. /\ pc' \in [Workers -> WorkerStates]
        /\ Alive' = Alive /\ Unused' = Unused
    BY <1>7 DEF Finalize, Waiters, Alive, Unused, Shape, WorkerStates
  <2> QED
    BY <1>7, <2>1 DEF Finalize, Shape, ThreadAccounting, AlwaysOneReady, WorkIsServed
<1>8. ASSUME FinalizeWakes PROVE IInv'
  BY <1>8, SameThreads DEF FinalizeWakes, poolVars, Shape
<1>9. ASSUME NEW w \in Workers, Start(w) PROVE IInv'
  <2>1. w \notin Unused /\ pc[w] = "created"
    BY <1>9 DEF Start, Unused
  <2>2. unused_threads + 1 = Cardinality(Unused \cup {w})
    BY <2>1, Sets, AddOne DEF ThreadAccounting
  <2>3. cancelled' = cancelled /\ Dispatch(w, waiting, active, unused_threads + 1, main)
    BY <1>9 DEF Start
  <2> QED
    BY <2>1, <2>2, <2>3, DispatchKeeps, DispatchMain DEF ThreadAccounting, Shape, ThreadFinished
<1>10. ASSUME NEW w \in Workers, Resume(w) PROVE IInv'
  <2>1. pc[w] = "woken" /\ Unused \cup {w} = Unused
    BY <1>10 DEF Resume, Unused
  <2>2. cancelled' = cancelled /\ Dispatch(w, waiting, active, unused_threads, main)
    BY <1>10 DEF Resume
  <2> QED
    BY <2>1, <2>2, DispatchKeeps, DispatchMain DEF ThreadAccounting, Shape, ThreadFinished
<1>11. ASSUME NEW w \in Workers, Expire(w) PROVE IInv'
  <2>1. w \in Alive /\ w \in Unused /\ pc[w] = "expired" /\ pc' = [pc EXCEPT ![w] = "none"]
    BY <1>11 DEF Expire, Exit, Alive, Unused
  <2>2. /\ pc' \in [Workers -> WorkerStates]
        /\ Alive' = Alive \ {w} /\ Unused' = Unused \ {w}
    BY <2>1 DEF Alive, Unused, Shape, WorkerStates
  <2>3. ThreadAccounting'
    BY <1>11, <2>1, <2>2, Sets, AddOne DEF Expire, Exit, ThreadAccounting
  <2>4. \A v \in Workers : pc[v] \in {"created", "sleeping", "woken", "running"} => pc'[v] = pc[v]
    BY <2>1 DEF Shape
  <2>5. cancelled' = cancelled /\ waiting' = waiting /\ main' = ThreadFinished(main)
    BY <1>11 DEF Expire, Exit
  <2> QED
    BY <2>2, <2>3, <2>4, <2>5 DEF Shape, AlwaysOneReady, WorkIsServed, ThreadFinished
<1>12. ASSUME NEW w \in Workers, NEW res, Return(w, res) PROVE IInv'
  <2>1. pc[w] = "running" /\ w \notin Unused /\ cancelled' = cancelled
    BY <1>12 DEF Return, Unused
  <2>2. unused_threads + 1 = Cardinality(Unused \cup {w})
    BY <2>1, Sets, AddOne DEF ThreadAccounting
  <2>3. PICK q : Dispatch(w, q, active \ {ctx[w]}, unused_threads + 1, TaskFinished(main))
    BY <1>12 DEF Return
  <2> QED
    BY <2>1, <2>2, <2>3, DispatchKeeps, DispatchMain DEF ThreadAccounting, Shape, ThreadFinished, TaskFinished
<1>13. ASSUME NEW w \in Workers, Timeout(w) PROVE IInv'
  <2>1. /\ pc' \in [Workers -> WorkerStates] /\ pc[w] = "dozing"
        /\ Alive' = Alive /\ Unused' = Unused
        /\ \A v \in Workers \ {w} : pc'[v] = pc[v]
    BY <1>13 DEF Timeout, Alive, Unused, Shape, WorkerStates
  <2> QED
    BY <1>13, <2>1 DEF Timeout, Shape, ThreadAccounting, AlwaysOneReady, WorkIsServed
<1>14. ASSUME NEW w \in Workers, SpuriousWakeup(w) PROVE IInv'
  <2>1. /\ pc' \in [Workers -> WorkerStates] /\ pc'[w] = "woken"
        /\ Alive' = Alive /\ Unused' = Unused
    BY <1>14 DEF SpuriousWakeup, Waiters, Alive, Unused, Shape, WorkerStates
  <2> QED
    BY <1>14, <2>1 DEF SpuriousWakeup, Shape, ThreadAccounting, AlwaysOneReady, WorkIsServed
<1>15. ASSUME SpuriousWakeupOfMain PROVE IInv'
  BY <1>15, SameThreads DEF SpuriousWakeupOfMain, poolVars, Shape, ThreadFinished, TaskFinished
<1>16. ASSUME UNCHANGED vars PROVE IInv'
  BY <1>16, SameThreads DEF vars, Shape
<1> QED
  BY <1>1, <1>2, <1>3, <1>4, <1>5, <1>6, <1>7, <1>8, <1>9, <1>10, <1>11, <1>12, <1>13,
     <1>14, <1>15, <1>16 DEF Next, Gone

LEMMA InvariantOfThePool == Spec => []IInv
<1> QED
  BY InitIInv, NextIInv, PTL DEF Spec

\* The counters the manager decides with are exact whenever the lock is free.
THEOREM CountersAreExact == Spec => []ThreadAccounting
<1>1. IInv => ThreadAccounting
  BY DEF IInv
<1> QED
  BY <1>1, InvariantOfThePool, PTL

\* "we always keep one thread ready", and no wake-up of queue is lost, in every
\* interleaving of the timeouts with the calls and the ends of the tasks.
THEOREM ThreadsAlwaysServe == Spec => []ThreadsServeTheQueue
<1>1. IInv => ThreadsServeTheQueue
  BY DEF IInv, ThreadsServeTheQueue
<1> QED
  BY <1>1, InvariantOfThePool, PTL
-----------------------------------------------------------------------------
(* Who owns a ctx.  CtxOwnership is not inductive: that a ctx that returns *)
(* may be freed by its thread needs that the cancelled ctx are exactly     *)
(* those whose thread is told so, and that only one caller cancels.        *)

OwnInv ==
  /\ waiting \in Seq(Tasks) /\ active \subseteq Tasks /\ tasks \subseteq Tasks
  /\ priority \in [Tasks -> Priorities] /\ fate \in [Tasks -> Fates]
  /\ ctx \in [Workers -> Tasks \cup {NoTask}] /\ cancel \subseteq Workers
  /\ main \in MainStates
  /\ num_threads <= MaxThread
  /\ CtxOwnership
  /\ CancelHitsItsTarget
  /\ \A w \in Workers : pc[w] = "running" <=> ctx[w] # NoTask
  /\ \A w \in Workers : ctx[w] \in tasks => w \in cancel
  /\ tasks # {} => main \in {"cancelling", "recheck"}

Held(f) == {t \in Tasks : f[t] = "held"}

\* The worker w is between two ctx and about to look at the queue q, with a
\* the ctx the others run.
Between(w, q, a) ==
  /\ q \in Seq(Tasks) /\ IsInjective(q)
  /\ ToSet(q) \cap (a \cup tasks) = {}
  /\ a = {ctx[v] : v \in {u \in Workers \ {w} : pc[u] = "running"}}
  /\ fate' \in [Tasks -> Fates] /\ Held(fate') = ToSet(q) \cup a \cup tasks
  /\ cancel' \subseteq Workers
  /\ \A v \in cancel' : v # w /\ pc[v] = "running" /\ ctx[v] \in tasks
  /\ \A v \in Workers \ {w} : ctx[v] \in tasks => v \in cancel'
  /\ tasks' = tasks /\ priority' \in [Tasks -> Priorities]

\* Every way the loop of the thread function goes on keeps one owner per ctx.
LEMMA DispatchOwns ==
  ASSUME OwnInv, Shape, num_threads \in Nat, NEW w \in Workers, NEW q, NEW a, NEW unused, NEW m,
         Between(w, q, a), Dispatch(w, q, a, unused, m),
         main' \in MainStates, tasks # {} => main' \in {"cancelling", "recheck"}
  PROVE  OwnInv'
<1>0. /\ a \subseteq Tasks
      /\ \A v \in Workers \ {w} : pc[v] = "running" <=> ctx[v] # NoTask
      /\ \A u, v \in Workers : ctx[u] = ctx[v] /\ u # v => ctx[v] = NoTask
      /\ NoTask \notin tasks
  BY NoTaskAssumption DEF OwnInv, CtxOwnership, Between
<1> DEFINE Own(q2, a2) ==
             /\ waiting' = q2 /\ active' = a2
             /\ q2 \in Seq(Tasks) /\ IsInjective(q2)
             /\ a2 \subseteq Tasks
             /\ ToSet(q2) \cap (a2 \cup tasks) = {}
             /\ Held(fate') = ToSet(q2) \cup a2 \cup tasks
             /\ pc' \in [Workers -> WorkerStates]
             /\ ctx' \in [Workers -> Tasks \cup {NoTask}]
             /\ \A v \in Workers \ {w} : pc'[v] = pc[v] /\ ctx'[v] = ctx[v]
             /\ num_threads' <= MaxThread
             /\ pc'[w] = "running" <=> ctx'[w] # NoTask
             /\ a2 = a \cup ({ctx'[w]} \ {NoTask})
             /\ ctx'[w] \notin a \cup tasks
<1>1. ASSUME NEW q2, NEW a2, Own(q2, a2) PROVE OwnInv'
  <2>1. a2 = {ctx'[v] : v \in {u \in Workers : pc'[u] = "running"}}
    <3>1. a = {ctx'[v] : v \in {u \in Workers \ {w} : pc'[u] = "running"}}
      BY <1>1, SMTT(30) DEF Between
    <3> QED
      BY <1>1, <3>1
  <2>2. \A u, v \in Workers : ctx'[u] = ctx'[v] /\ u # v => ctx'[v] = NoTask
    <3>1. ASSUME NEW v \in Workers, v # w, ctx'[v] = ctx'[w] PROVE ctx'[v] = NoTask
      <4>1. ctx[v] # NoTask => ctx[v] \in a
        BY <1>0, <3>1 DEF Between
      <4> QED
        BY <1>1, <3>1, <4>1
    <3> QED
      BY <1>0, <1>1, <3>1
  <2>3. CtxOwnership'
    BY <1>1, <2>1, <2>2 DEF CtxOwnership, Between, Held
  <2>4. CancelHitsItsTarget'
    BY <1>1 DEF CancelHitsItsTarget, Between
  <2>5. \A v \in Workers : pc'[v] = "running" <=> ctx'[v] # NoTask
    BY <1>0, <1>1
  <2>6. \A v \in Workers : ctx'[v] \in tasks => v \in cancel'
    BY <1>1 DEF Between
  <2> QED
    BY <1>1, <2>3, <2>4, <2>5, <2>6 DEF OwnInv, Between
<1>2. CASE /\ q # <<>> /\ waiting' = Tail(q) /\ active' = a \cup {Head(q)}
           /\ pc' = [pc EXCEPT ![w] = "running"] /\ ctx' = [ctx EXCEPT ![w] = Head(q)]
           /\ num_threads' = num_threads
  <2>1. /\ Head(q) \in Tasks /\ Tail(q) \in Seq(Tasks) /\ IsInjective(Tail(q))
        /\ ToSet(q) = ToSet(Tail(q)) \cup {Head(q)} /\ Head(q) \notin ToSet(Tail(q))
    BY <1>2, TailLoses DEF Between
  <2>2. Head(q) # NoTask /\ Head(q) \notin a \cup tasks
    BY <2>1, NoTaskAssumption DEF Between
  <2>3. /\ pc' \in [Workers -> WorkerStates] /\ ctx' \in [Workers -> Tasks \cup {NoTask}]
        /\ pc'[w] = "running" /\ ctx'[w] = Head(q)
        /\ \A v \in Workers \ {w} : pc'[v] = pc[v] /\ ctx'[v] = ctx[v]
    BY <1>2, <2>1 DEF Shape, WorkerStates, OwnInv
  <2>4. ToSet(Tail(q)) \cap ((a \cup {Head(q)}) \cup tasks) = {}
    BY <2>1 DEF Between
  <2>5. Held(fate') = ToSet(Tail(q)) \cup (a \cup {Head(q)}) \cup tasks
    BY <2>1 DEF Between
  <2>6. Own(Tail(q), a \cup {Head(q)})
    BY <1>0, <1>2, <2>1, <2>2, <2>3, <2>4, <2>5 DEF OwnInv
  <2> QED
    BY <1>1, <2>6
<1>3. CASE /\ q = <<>> /\ waiting' = q /\ active' = a
           /\ \E s \in WorkerStates \ {"running"} : pc' = [pc EXCEPT ![w] = s]
           /\ ctx' = [ctx EXCEPT ![w] = NoTask]
           /\ num_threads' \in {num_threads, num_threads - 1}
  <2>1. /\ pc' \in [Workers -> WorkerStates] /\ ctx' \in [Workers -> Tasks \cup {NoTask}]
        /\ pc'[w] # "running" /\ ctx'[w] = NoTask
        /\ \A v \in Workers \ {w} : pc'[v] = pc[v] /\ ctx'[v] = ctx[v]
    BY <1>3 DEF Shape, OwnInv
  <2>2. num_threads' <= MaxThread
    BY <1>3, MaxThreadAssumption DEF OwnInv
  <2>3. Own(q, a)
    BY <1>0, <1>3, <2>1, <2>2, NoTaskAssumption DEF Between
  <2> QED
    BY <1>1, <2>3
<1> QED
  <2>1. HowToWait(unused) \in WorkerStates \ {"running"}
    BY DEF HowToWait, WorkerStates
  <2>2. "none" \in WorkerStates \ {"running"}
    BY DEF WorkerStates
  <2> QED
    BY <1>2, <1>3, <2>1, <2>2 DEF Dispatch, Exit

LEMMA InitOwnInv == Init => OwnInv
<1> SUFFICES ASSUME Init PROVE OwnInv
  OBVIOUS
<1>1. CtxOwnership
  BY DEF Init, CtxOwnership, IsInjective, ToSet
<1> QED
  BY <1>1, MaxThreadAssumption, NoTaskAssumption
     DEF Init, OwnInv, CancelHitsItsTarget, Priorities, NORMAL, Fates, MainStates

\* A worker that runs nothing is between two ctx.
LEMMA IdleIsBetween ==
  ASSUME OwnInv, NEW w \in Workers, pc[w] # "running", UNCHANGED <<fate, cancel, tasks, priority>>
  PROVE  Between(w, waiting, active)
<1>1. active = {ctx[v] : v \in {u \in Workers \ {w} : pc[u] = "running"}}
  BY DEF OwnInv, CtxOwnership
<1>2. \A v \in cancel : v # w
  BY DEF OwnInv, CancelHitsItsTarget
<1> QED
  BY <1>1, <1>2 DEF OwnInv, CtxOwnership, CancelHitsItsTarget, Between, Held

\* A step that leaves the threads and what they run where they are.
LEMMA SameWorkers ==
  ASSUME OwnInv, UNCHANGED <<pc, ctx, cancel, active, tasks>>,
         waiting' \in Seq(Tasks), IsInjective(waiting'),
         priority' \in [Tasks -> Priorities], fate' \in [Tasks -> Fates],
         main' \in MainStates, tasks # {} => main' \in {"cancelling", "recheck"},
         num_threads' <= MaxThread,
         ToSet(waiting') \cap (active \cup tasks) = {},
         Held(fate') = ToSet(waiting') \cup active \cup tasks
  PROVE  OwnInv'
BY DEF OwnInv, CtxOwnership, CancelHitsItsTarget, Held

LEMMA NextOwnInv == IInv /\ OwnInv /\ [Next]_vars => OwnInv'
<1> SUFFICES ASSUME IInv, OwnInv, [Next]_vars PROVE OwnInv'
  OBVIOUS
<1>0. /\ Shape /\ num_threads \in Nat /\ NoTask \notin Tasks
      /\ waiting \in Seq(Tasks) /\ IsInjective(waiting)
      /\ ToSet(waiting) \cap (active \cup tasks) = {}
      /\ Held(fate) = ToSet(waiting) \cup active \cup tasks
      /\ fate \in [Tasks -> Fates] /\ priority \in [Tasks -> Priorities]
      /\ main \in MainStates /\ num_threads <= MaxThread
      /\ tasks # {} => main \in {"cancelling", "recheck"}
      /\ ToSet(waiting) \subseteq Tasks
  BY NoTaskAssumption, Sets, FiniteWorkers DEF IInv, OwnInv, CtxOwnership, Held, ThreadAccounting
<1>1. ASSUME NEW t \in Tasks, NEW p \in Priorities, Queue(t, p) PROVE OwnInv'
  <2>1. Adds(waiting', waiting, t) /\ t \notin Held(fate) /\ tasks = {}
    BY <1>0, <1>1, EnqueueAdds DEF Queue, Held
  <2>2. /\ priority' \in [Tasks -> Priorities] /\ fate' \in [Tasks -> Fates]
        /\ Held(fate') = Held(fate) \cup {t}
    BY <1>0, <1>1 DEF Queue, Settle, Held, Fates
  <2>3. num_threads' <= MaxThread
    BY <1>0, <1>1, MaxThreadAssumption DEF Queue
  <2>4. /\ waiting' \in Seq(Tasks) /\ IsInjective(waiting') /\ ToSet(waiting') = ToSet(waiting) \cup {t}
    BY <1>0, <2>1 DEF Adds
  <2>5. /\ UNCHANGED <<ctx, cancel, active, tasks, main>>
        /\ \A w \in Workers : pc'[w] = "running" <=> pc[w] = "running"
    BY <1>0, <1>1 DEF Queue, SignalNewTask, Waiters, Alive, Shape
  <2>6. CtxOwnership' /\ CancelHitsItsTarget'
    <3>1. CtxOwnership'
      <4>1. active = {ctx[w] : w \in {v \in Workers : pc'[v] = "running"}}
        BY <2>5 DEF OwnInv, CtxOwnership
      <4>2. \A v, w \in Workers : ctx[v] = ctx[w] /\ v # w => ctx[v] = NoTask
        BY DEF OwnInv, CtxOwnership
      <4> QED
        BY <1>0, <2>1, <2>2, <2>4, <2>5, <4>1, <4>2 DEF CtxOwnership, Held
    <3> QED
      BY <2>5, <3>1 DEF OwnInv, CancelHitsItsTarget
  <2> QED
    BY <1>0, <2>1, <2>2, <2>3, <2>4, <2>5, <2>6 DEF OwnInv
<1>2. ASSUME NEW t \in Tasks, QueueFails(t) PROVE OwnInv'
  <2>1. fate' \in [Tasks -> Fates] /\ Held(fate') = Held(fate)
    BY <1>0, <1>2 DEF QueueFails, Settle, Held, Fates
  <2> QED
    BY <1>0, <1>2, <2>1, SameWorkers DEF QueueFails, poolVars
<1>3. ASSUME NEW S \in SUBSET ToSet(waiting), UnprocessedRemove(S) PROVE OwnInv'
  <2>1. /\ waiting' \in Seq(Tasks) /\ IsInjective(waiting') /\ ToSet(waiting') = ToSet(waiting) \ S
    BY <1>0, <1>3, WithoutIs DEF UnprocessedRemove
  <2>2. fate' \in [Tasks -> Fates] /\ Held(fate') = Held(fate) \ S
    BY <1>0, <1>3 DEF UnprocessedRemove, Settle, Held, Fates
  <2>3. Held(fate') = ToSet(waiting') \cup active \cup tasks
    BY <1>0, <2>1, <2>2
  <2> QED
    BY <1>0, <1>3, <2>1, <2>2, <2>3, SameWorkers DEF UnprocessedRemove, poolVars
<1>4. ASSUME NEW S \in SUBSET active, ActiveRemove(S) PROVE OwnInv'
  <2>1. tasks = {} /\ cancel = {} /\ S \subseteq Tasks
    BY <1>0, <1>4 DEF ActiveRemove, OwnInv, CancelHitsItsTarget
  <2>2. cancel' = {w \in Workers : ctx[w] \in S} /\ tasks' = S /\ main' = "cancelling"
    BY <1>4, <2>1 DEF ActiveRemove
  <2>3. UNCHANGED <<waiting, active, num_threads, pc, ctx, fate, priority>>
    BY <1>4 DEF ActiveRemove, poolVars, ctxVars
  <2>4. CtxOwnership'
    BY <2>1, <2>2, <2>3 DEF OwnInv, CtxOwnership
  <2>5. CancelHitsItsTarget'
    BY <1>0, <2>1, <2>2, <2>3 DEF OwnInv, CancelHitsItsTarget
  <2> QED
    BY <2>1, <2>2, <2>3, <2>4, <2>5 DEF OwnInv, MainStates
<1>5. ASSUME ActiveRemoveWakes PROVE OwnInv'
  <2>1. /\ tasks' = tasks \cap active /\ main' \in MainStates
        /\ tasks' # {} => main' = "cancelling"
        /\ UNCHANGED <<waiting, active, num_threads, pc, ctx, cancel, priority>>
    BY <1>5 DEF ActiveRemoveWakes, poolVars, MainStates
  <2>2. fate' \in [Tasks -> Fates] /\ Held(fate') = Held(fate) \ (tasks \ active)
    BY <1>0, <1>5 DEF ActiveRemoveWakes, Settle, Held, Fates
  <2>3. CtxOwnership'
    <3>1. Held(fate') = ToSet(waiting) \cup active \cup (tasks \cap active)
      BY <1>0, <2>2
    <3> QED
      BY <2>1, <3>1 DEF OwnInv, CtxOwnership, Held
  <2>4. \A w \in Workers : pc[w] = "running" => ctx[w] \in active
    BY DEF OwnInv, CtxOwnership
  <2>5. CancelHitsItsTarget'
    BY <2>1, <2>4 DEF OwnInv, CancelHitsItsTarget
  <2> QED
    BY <1>0, <2>1, <2>2, <2>3, <2>5 DEF OwnInv
<1>6. ASSUME NEW i \in DOMAIN waiting, FindUrgent(i) PROVE OwnInv'
  <2>1. waiting' \in Seq(Tasks) /\ IsInjective(waiting') /\ ToSet(waiting') = ToSet(waiting)
    BY <1>0, <1>6, ToFront DEF FindUrgent
  <2>2. priority' \in [Tasks -> Priorities]
    BY <1>0, <1>6 DEF FindUrgent, Priorities
  <2> QED
    BY <1>0, <1>6, <2>1, <2>2, SameWorkers DEF FindUrgent, poolVars
<1>7. ASSUME Finalize PROVE OwnInv'
  <2>1. /\ tasks = {} /\ waiting' = <<>> /\ main' \in MainStates
        /\ UNCHANGED <<active, num_threads, ctx, cancel, tasks, priority>>
    BY <1>0, <1>7 DEF Finalize, MainStates
  <2>2. fate' \in [Tasks -> Fates] /\ Held(fate') = Held(fate) \ ToSet(waiting)
    BY <1>0, <1>7 DEF Finalize, Settle, Held, Fates
  <2>3. \A w \in Workers : pc'[w] = "running" <=> pc[w] = "running"
    BY <1>0, <1>7 DEF Finalize, Waiters, Shape
  <2>4. CtxOwnership'
    <3>1. active = {ctx[w] : w \in {v \in Workers : pc'[v] = "running"}}
      BY <2>3 DEF OwnInv, CtxOwnership
    <3>2. Held(fate') = active \cup tasks
      BY <1>0, <2>2
    <3>3. IsInjective(<<>>) /\ ToSet(<<>>) = {}
      BY DEF IsInjective, ToSet
    <3> QED
      BY <2>1, <3>1, <3>2, <3>3 DEF OwnInv, CtxOwnership, Held
  <2>5. CancelHitsItsTarget'
    BY <2>1, <2>3 DEF OwnInv, CancelHitsItsTarget
  <2> QED
    BY <1>0, <2>1, <2>2, <2>3, <2>4, <2>5 DEF OwnInv
<1>8. ASSUME FinalizeWakes PROVE OwnInv'
  BY <1>0, <1>8, SameWorkers DEF FinalizeWakes, poolVars, ctxVars, MainStates
<1>9. ASSUME NEW w \in Workers, Start(w) PROVE OwnInv'
  <2>1. pc[w] # "running" /\ UNCHANGED <<fate, cancel, tasks, priority>>
    BY <1>9 DEF Start, ctxVars
  <2>2. Dispatch(w, waiting, active, unused_threads + 1, main)
    BY <1>9 DEF Start
  <2> QED
    BY <1>0, <2>1, <2>2, IdleIsBetween, DispatchOwns, DispatchMain DEF ThreadFinished, MainStates
<1>10. ASSUME NEW w \in Workers, Resume(w) PROVE OwnInv'
  <2>1. pc[w] # "running" /\ UNCHANGED <<fate, cancel, tasks, priority>>
    BY <1>10 DEF Resume, ctxVars
  <2>2. Dispatch(w, waiting, active, unused_threads, main)
    BY <1>10 DEF Resume
  <2> QED
    BY <1>0, <2>1, <2>2, IdleIsBetween, DispatchOwns, DispatchMain DEF ThreadFinished, MainStates
<1>11. ASSUME NEW w \in Workers, Expire(w) PROVE OwnInv'
  <2>1. pc[w] # "running" /\ ctx[w] = NoTask
    BY <1>11 DEF Expire, OwnInv
  <2>2. /\ UNCHANGED <<waiting, active, fate, cancel, tasks, priority>>
        /\ num_threads' = num_threads - 1
        /\ pc' = [pc EXCEPT ![w] = "none"] /\ ctx' = [ctx EXCEPT ![w] = NoTask]
        /\ main' = ThreadFinished(main)
    BY <1>11 DEF Expire, Exit, ctxVars
  <2>3. ctx' = ctx /\ \A v \in Workers : pc'[v] = "running" <=> pc[v] = "running"
    BY <1>0, <2>1, <2>2 DEF Shape, OwnInv
  <2>4. CtxOwnership'
    <3>1. active = {ctx[v] : v \in {u \in Workers : pc'[u] = "running"}}
      BY <2>3 DEF OwnInv, CtxOwnership
    <3> QED
      BY <2>2, <2>3, <3>1 DEF OwnInv, CtxOwnership
  <2>5. CancelHitsItsTarget'
    BY <2>2, <2>3 DEF OwnInv, CancelHitsItsTarget
  <2>6. num_threads' <= MaxThread
    BY <1>0, <2>2, MaxThreadAssumption
  <2> QED
    BY <1>0, <2>2, <2>3, <2>4, <2>5, <2>6 DEF OwnInv, ThreadFinished, MainStates
<1>12. ASSUME NEW w \in Workers, NEW res, Return(w, res) PROVE OwnInv'
  <2> DEFINE t == ctx[w]
             a == active \ {t}
  <2>1. pc[w] = "running" /\ t \in Tasks /\ t \in active /\ t \notin ToSet(waiting)
    BY <1>0, <1>12 DEF Return, OwnInv, CtxOwnership
  <2>2. a = {ctx[v] : v \in {u \in Workers \ {w} : pc[u] = "running"}}
    BY <1>0, <2>1 DEF OwnInv, CtxOwnership
  <2>3. UNCHANGED <<tasks, priority>>
    BY <1>12 DEF Return
  <2>4. \A v \in Workers \ {w} : ctx[v] \in tasks => v \in cancel
    BY DEF OwnInv
  <2>5. w \in cancel <=> t \in tasks
    BY <2>1 DEF OwnInv, CancelHitsItsTarget
  <2>6. \A v \in cancel : pc[v] = "running" /\ ctx[v] \in tasks
    BY DEF OwnInv, CancelHitsItsTarget
  <2>7. cancel \subseteq Workers
    BY DEF OwnInv
  <2>8. CASE /\ w \in cancel /\ cancel' = cancel \ {w} /\ UNCHANGED fate
             /\ Dispatch(w, waiting, a, unused_threads + 1, TaskFinished(main))
    <3>1. Held(fate') = ToSet(waiting) \cup a \cup tasks
      BY <1>0, <2>1, <2>5, <2>8
    <3>2. Between(w, waiting, a)
      BY <1>0, <2>1, <2>2, <2>3, <2>4, <2>6, <2>7, <2>8, <3>1 DEF Between
    <3> QED
      BY <1>0, <2>8, <3>2, DispatchOwns, DispatchMain DEF ThreadFinished, TaskFinished, MainStates
  <2>9. CASE /\ w \notin cancel /\ UNCHANGED <<cancel, fate>>
             /\ Dispatch(w, Reschedule(t), a, unused_threads + 1, TaskFinished(main))
    <3>1. /\ Reschedule(t) \in Seq(Tasks) /\ IsInjective(Reschedule(t))
          /\ ToSet(Reschedule(t)) = ToSet(waiting) \cup {t}
      BY <1>0, <2>1, RescheduleAdds DEF Adds
    <3>2. /\ Held(fate') = ToSet(Reschedule(t)) \cup a \cup tasks
          /\ ToSet(Reschedule(t)) \cap (a \cup tasks) = {}
      BY <1>0, <2>1, <2>5, <2>9, <3>1
    <3>3. Between(w, Reschedule(t), a)
      BY <1>0, <2>1, <2>2, <2>3, <2>4, <2>6, <2>7, <2>9, <3>1, <3>2 DEF Between
    <3> QED
      BY <1>0, <2>9, <3>3, DispatchOwns, DispatchMain DEF ThreadFinished, TaskFinished, MainStates
  <2>10. CASE /\ w \notin cancel /\ UNCHANGED cancel /\ Settle({t}, "finished")
              /\ Dispatch(w, waiting, a, unused_threads + 1, TaskFinished(main))
    <3>1. fate' \in [Tasks -> Fates] /\ Held(fate') = Held(fate) \ {t}
      BY <1>0, <2>10 DEF Settle, Held, Fates
    <3>2. Held(fate') = ToSet(waiting) \cup a \cup tasks
      BY <1>0, <2>1, <2>5, <2>10, <3>1
    <3>3. Between(w, waiting, a)
      BY <1>0, <2>1, <2>2, <2>3, <2>4, <2>6, <2>7, <2>10, <3>1, <3>2 DEF Between
    <3> QED
      BY <1>0, <2>10, <3>3, DispatchOwns, DispatchMain DEF ThreadFinished, TaskFinished, MainStates
  <2> QED
    BY <1>12, <2>8, <2>9, <2>10 DEF Return
<1>13. ASSUME NEW w \in Workers, Timeout(w) \/ SpuriousWakeup(w) PROVE OwnInv'
  <2>1. /\ \A v \in Workers : pc'[v] = "running" <=> pc[v] = "running"
        /\ UNCHANGED <<waiting, active, num_threads, fate, priority, ctx, cancel, main, tasks>>
    BY <1>0, <1>13 DEF Timeout, SpuriousWakeup, Waiters, ctxVars, Shape
  <2>2. CtxOwnership'
    <3>1. active = {ctx[v] : v \in {u \in Workers : pc'[u] = "running"}}
      BY <2>1 DEF OwnInv, CtxOwnership
    <3> QED
      BY <2>1, <3>1 DEF OwnInv, CtxOwnership
  <2> QED
    BY <2>1, <2>2 DEF OwnInv, CancelHitsItsTarget
<1>14. ASSUME SpuriousWakeupOfMain PROVE OwnInv'
  BY <1>0, <1>14, SameWorkers
     DEF SpuriousWakeupOfMain, poolVars, ctxVars, ThreadFinished, TaskFinished, MainStates
<1>15. ASSUME UNCHANGED vars PROVE OwnInv'
  BY <1>0, <1>15, SameWorkers DEF vars
<1> QED
  BY <1>1, <1>2, <1>3, <1>4, <1>5, <1>6, <1>7, <1>8, <1>9, <1>10, <1>11, <1>12, <1>13,
     <1>14, <1>15 DEF Next, Gone

LEMMA InvariantOfTheCtx == Spec => [](IInv /\ OwnInv)
<1> QED
  BY InitIInv, NextIInv, InitOwnInv, NextOwnInv, PTL DEF Spec

\* The lists, the counters, the threads and the caller are what their types say:
\* never more than MANAGER_MAX_THREAD threads, and never more unused than that.
THEOREM PoolIsTyped == Spec => []TypeOK
<1>1. ASSUME IInv, OwnInv PROVE TypeOK
  <2>1. Unused \subseteq Alive /\ Alive \subseteq Workers
    BY DEF Unused, Alive
  <2>2. /\ num_threads \in Nat /\ unused_threads \in Nat /\ unused_threads <= num_threads
    BY <1>1, <2>1, FiniteWorkers DEF IInv, ThreadAccounting
  <2>3. num_threads \in 0 .. MaxThread /\ unused_threads \in 0 .. MaxThread
    BY <1>1, <2>2, MaxThreadAssumption DEF OwnInv
  <2> QED
    BY <1>1, <2>3 DEF TypeOK, IInv, Shape, OwnInv
<1> QED
  BY <1>1, InvariantOfTheCtx, PTL

\* Between the thread that runs a ctx and the caller that cancels it, in every
\* interleaving: it is freed once, and a cancellation hits no other ctx.
THEOREM EachCtxHasOneOwner == Spec => []CtxHasOneOwner
<1>1. OwnInv => CtxHasOneOwner
  BY DEF OwnInv, CtxHasOneOwner
<1> QED
  BY <1>1, InvariantOfTheCtx, PTL
-----------------------------------------------------------------------------
(* The pool its callers see.                                               *)

\* Where a ctx is, from its fate and the lists it is in.
StageAs(f, q, a, k) ==
  [t \in Tasks |-> CASE f[t] = "new" -> "new"
                     [] t \in ToSet(q) -> "queued"
                     [] t \in a -> "running"
                     [] t \in k \ a -> "left"
                     [] OTHER -> "over"]

\* With one owner per ctx the stages are disjoint, and each is one list.
LEMMA StageValues ==
  ASSUME NEW f, NEW q, NEW a, NEW k,
         Held(f) = ToSet(q) \cup a \cup k, ToSet(q) \cap (a \cup k) = {},
         NEW t \in Tasks
  PROVE  /\ f[t] = "new" => StageAs(f, q, a, k)[t] = "new"
         /\ t \in ToSet(q) => StageAs(f, q, a, k)[t] = "queued"
         /\ t \in a => StageAs(f, q, a, k)[t] = "running"
         /\ t \in k \ a => StageAs(f, q, a, k)[t] = "left"
         /\ f[t] # "new" /\ t \notin ToSet(q) \cup a \cup k => StageAs(f, q, a, k)[t] = "over"
         /\ t \in ToSet(q) \cup a \cup k => f[t] # "new"
<1>1. t \in ToSet(q) \cup a \cup k => f[t] = "held"
  BY DEF Held
<1>2. f[t] = "new" => StageAs(f, q, a, k)[t] = "new"
  BY <1>1 DEF StageAs
<1>3. f[t] # "new" /\ t \in ToSet(q) => StageAs(f, q, a, k)[t] = "queued"
  BY DEF StageAs
<1>4. f[t] # "new" /\ t \notin ToSet(q) /\ t \in a => StageAs(f, q, a, k)[t] = "running"
  BY DEF StageAs
<1>5. f[t] # "new" /\ t \notin ToSet(q) /\ t \in k \ a => StageAs(f, q, a, k)[t] = "left"
  BY DEF StageAs
<1>6. f[t] # "new" /\ t \notin ToSet(q) \cup a \cup k => StageAs(f, q, a, k)[t] = "over"
  BY DEF StageAs
<1> QED
  BY <1>1, <1>2, <1>3, <1>4, <1>5, <1>6

Owned ==
  /\ waiting \in Seq(Tasks) /\ ToSet(waiting) \subseteq Tasks
  /\ active \subseteq Tasks /\ tasks \subseteq Tasks
  /\ Held(fate) = ToSet(waiting) \cup active \cup tasks
  /\ ToSet(waiting) \cap (active \cup tasks) = {}
  /\ IsFiniteSet(active) /\ Cardinality(active) <= MaxThread

\* Never more ctx than threads: each thread runs one, and the threads are counted.
LEMMA OwnersAreCounted == IInv /\ OwnInv => Owned
<1> SUFFICES ASSUME IInv, OwnInv PROVE Owned
  OBVIOUS
<1> DEFINE R == {v \in Workers : pc[v] = "running"}
           runner == [t \in active |-> CHOOSE v \in R : ctx[v] = t]
<1>1. \A t \in active : \E v \in R : ctx[v] = t
  BY DEF OwnInv, CtxOwnership
<1>2. \A t \in active : runner[t] \in R /\ ctx[runner[t]] = t
  BY <1>1
<1>3. runner \in Injection(active, R)
  BY <1>2 DEF Injection, IsInjective
<1>4. R \subseteq Alive /\ Alive \subseteq Workers
  BY DEF Alive
<1>5. /\ IsFiniteSet(R) /\ Cardinality(R) \in Nat /\ Cardinality(Alive) \in Nat
      /\ Cardinality(R) <= Cardinality(Alive)
  BY <1>4, FiniteWorkers
<1> HIDE DEF R, runner
<1>6. IsFiniteSet(active) /\ Cardinality(active) <= Cardinality(R)
  BY <1>3, <1>5, FS_Injection
<1>7. Cardinality(active) \in Nat
  BY <1>6, FS_CardinalityType
<1>8. Cardinality(active) <= MaxThread
  BY <1>5, <1>6, <1>7, MaxThreadAssumption DEF IInv, ThreadAccounting, OwnInv
<1>9. ToSet(waiting) \subseteq Tasks
  BY DEF OwnInv, ToSet
<1> QED
  BY <1>6, <1>8, <1>9 DEF OwnInv, CtxOwnership, Owned, Held

\* The sets of the abstract pool.
LEMMA PoolSets ==
  ASSUME Owned
  PROVE  /\ Pool!At("new") = {t \in Tasks : fate[t] = "new"}
         /\ Pool!At("queued") = ToSet(waiting)
         /\ Pool!At("running") = active
         /\ Pool!At("left") = tasks \ active
<1>1. Stage = StageAs(fate, waiting, active, tasks)
  BY DEF Stage, StageAs
<1>2. \A t \in Tasks :
        /\ fate[t] = "new" => Stage[t] = "new"
        /\ t \in ToSet(waiting) => Stage[t] = "queued"
        /\ t \in active => Stage[t] = "running"
        /\ t \in tasks \ active => Stage[t] = "left"
        /\ fate[t] # "new" /\ t \notin ToSet(waiting) \cup active \cup tasks => Stage[t] = "over"
        /\ t \in ToSet(waiting) \cup active \cup tasks => fate[t] # "new"
  BY <1>1, StageValues DEF Owned
<1> QED
  BY <1>2 DEF Owned, Pool!At

\* A ctx goes to the stage of the list that now has it, and stays where it is
\* when its list and its fate do.
LEMMA StageMoves ==
  ASSUME Owned, Owned', NEW S \in SUBSET Tasks, NEW s,
         \A t \in S : Stage'[t] = s,
         \A t \in Tasks \ S :
           /\ fate'[t] = "new" <=> fate[t] = "new"
           /\ t \in ToSet(waiting') <=> t \in ToSet(waiting)
           /\ t \in active' <=> t \in active
           /\ t \in tasks' \ active' <=> t \in tasks \ active
  PROVE  Pool!Move(S, s)
<1>1. /\ Stage = StageAs(fate, waiting, active, tasks)
      /\ Stage' = StageAs(fate', waiting', active', tasks')
  BY DEF Stage, StageAs
<1>2. \A t \in Tasks \ S : Stage'[t] = Stage[t]
  BY <1>1 DEF StageAs
<1>3. Stage' = [t \in Tasks |-> Stage'[t]]
  BY DEF Stage
<1>4. \A t \in Tasks : Stage'[t] = IF t \in S THEN s ELSE Stage[t]
  BY <1>2
<1> HIDE DEF Stage
<1> QED
  BY <1>3, <1>4 DEF Pool!Move

LEMMA StageStays ==
  ASSUME Owned, Owned',
         \A t \in Tasks :
           /\ fate'[t] = "new" <=> fate[t] = "new"
           /\ t \in ToSet(waiting') <=> t \in ToSet(waiting)
           /\ t \in active' <=> t \in active
           /\ t \in tasks' \ active' <=> t \in tasks \ active
  PROVE  Stage' = Stage
<1>1. Pool!Move({}, "over")
  BY StageMoves
<1> QED
  BY <1>1 DEF Pool!Move, Stage

\* The stage of a ctx after a step.
LEMMA StageNext ==
  ASSUME Owned', NEW t \in Tasks
  PROVE  /\ t \in ToSet(waiting') => Stage'[t] = "queued"
         /\ t \in active' => Stage'[t] = "running"
         /\ t \in tasks' \ active' => Stage'[t] = "left"
         /\ fate'[t] # "new" /\ t \notin ToSet(waiting') \cup active' \cup tasks' => Stage'[t] = "over"
<1>1. Stage' = StageAs(fate', waiting', active', tasks')
  BY DEF Stage, StageAs
<1> QED
  BY <1>1, StageValues DEF Owned

LEMMA SameCardinality == \A S : Pool!Cardinality(S) = Cardinality(S)
BY DEF Pool!Cardinality, Cardinality

\* A thread that looks at the queue q after the ctx D were left to it, to their
\* canceller or to nobody, takes one turn of the pool or none.
LEMMA DispatchTurns ==
  ASSUME Owned, Owned', NEW w, NEW q \in Seq(Tasks), NEW D \in SUBSET active, NEW unused, NEW m,
         NEW s \in {"queued", "over", "left"},
         D = {} \/ \E t \in active : D = {t},
         Dispatch(w, q, active \ D, unused, m), tasks' = tasks,
         \A t \in Tasks \ D : fate'[t] = "new" <=> fate[t] = "new",
         IF D \cap tasks # {} THEN s = "left" ELSE s \in {"queued", "over"},
         \A t \in D : /\ s = "queued" => t \in ToSet(q) /\ t \notin tasks
                      /\ s = "over" => t \notin ToSet(q) /\ t \notin tasks /\ fate'[t] # "new"
                      /\ s = "left" => t \notin ToSet(q) /\ t \in tasks,
         ToSet(q) \ D = ToSet(waiting), IsInjective(q)
  PROVE  [Pool!Next]_(Pool!vars)
<1>0. /\ Pool!At("queued") = ToSet(waiting) /\ Pool!At("running") = active
      /\ active \subseteq Tasks /\ ToSet(q) \subseteq Tasks
      /\ ToSet(waiting) \cap active = {}
  BY PoolSets DEF Owned, ToSet
<1>1. CASE q # <<>> /\ Head(q) \in D
  <2>1. D = {Head(q)} /\ s = "queued" /\ Head(q) \notin tasks
    <3>1. Head(q) \in ToSet(q)
      BY <1>1, TailLoses
    <3>2. /\ s = "over" => Head(q) \notin ToSet(q)
          /\ s = "left" => Head(q) \notin ToSet(q)
          /\ s = "queued" => Head(q) \notin tasks
      BY <1>1
    <3> QED
      BY <1>1, <3>1, <3>2
  <2>2. active' = active /\ ToSet(waiting') = ToSet(waiting)
    <3>1. waiting' = Tail(q) /\ active' = (active \ D) \cup {Head(q)}
      BY <1>1 DEF Dispatch
    <3>2. ToSet(q) = ToSet(Tail(q)) \cup {Head(q)} /\ Head(q) \notin ToSet(Tail(q))
      BY <1>1, TailLoses
    <3> QED
      BY <2>1, <3>1, <3>2
  <2>3. \A t \in Tasks : fate'[t] = "new" <=> fate[t] = "new"
    <3>1. Head(q) \in active /\ fate[Head(q)] = "held" /\ fate'[Head(q)] = "held"
      BY <2>1, <2>2 DEF Owned, Held
    <3> QED
      BY <2>1, <3>1
  <2>4. Stage' = Stage
    BY <2>2, <2>3, StageStays
  <2> QED
    BY <2>4 DEF Pool!vars
<1>2. CASE q = <<>> \/ Head(q) \notin D
  <2> DEFINE N == IF q # <<>> THEN {Head(q)} ELSE {}
  <2>1. /\ N \subseteq ToSet(q) /\ N \cap D = {}
        /\ ToSet(waiting') = ToSet(q) \ N
        /\ active' = (active \ D) \cup N
    <3>1. CASE q # <<>>
      <4>1. /\ Head(q) \in Tasks /\ ToSet(q) = ToSet(Tail(q)) \cup {Head(q)}
            /\ Head(q) \notin ToSet(Tail(q))
        BY <3>1, TailLoses
      <4>2. waiting' = Tail(q) /\ active' = (active \ D) \cup {Head(q)}
        BY <3>1 DEF Dispatch
      <4> QED
        BY <1>2, <3>1, <4>1, <4>2
    <3>2. CASE q = <<>>
      <4>1. waiting' = q /\ active' = active \ D
        BY <3>2 DEF Dispatch
      <4> QED
        BY <3>2, <4>1
    <3> QED
      BY <3>1, <3>2
  <2>2. N \in SUBSET ToSet(waiting)
    BY <2>1
  <2>3. Cardinality(D) <= 1 /\ Cardinality(N) <= 1
    <3>1. Cardinality({}) = 0 /\ \A t : Cardinality({t}) = 1
      BY FS_EmptySet, FS_Singleton
    <3>2. N = {} \/ N = {Head(q)}
      OBVIOUS
    <3> HIDE DEF N
    <3>3. Cardinality(D) \in {0, 1} /\ Cardinality(N) \in {0, 1}
      BY <3>1, <3>2, Zenon
    <3> QED
      BY <3>3
  <2> HIDE DEF N
  <2>4. Cardinality((active \ D) \cup N) <= MaxThread
    BY <2>1 DEF Owned
  <2>5. \A t \in D : Stage'[t] = s
    <3>1. TAKE t \in D
    <3>2. /\ t \in Tasks /\ t \notin N /\ t \notin active'
          /\ s = "queued" => t \in ToSet(q)
          /\ s = "over" => t \notin ToSet(q) /\ t \notin tasks /\ fate'[t] # "new"
          /\ s = "left" => t \in tasks
      BY <1>0, <2>1, <3>1
    <3>3. CASE s = "queued"
      <4>1. t \in ToSet(waiting')
        BY <2>1, <3>2, <3>3
      <4> QED
        BY <3>2, <3>3, <4>1, StageNext
    <3>4. CASE s = "over"
      <4>1. fate'[t] # "new" /\ t \notin ToSet(waiting') \cup active' \cup tasks'
        BY <2>1, <3>2, <3>4
      <4> QED
        BY <3>2, <3>4, <4>1, StageNext
    <3>5. CASE s = "left"
      <4>1. t \in tasks' \ active'
        BY <3>2, <3>5
      <4> QED
        BY <3>2, <3>5, <4>1, StageNext
    <3> QED
      BY <3>3, <3>4, <3>5
  <2>6. \A t \in N : Stage'[t] = "running"
    BY <1>0, <2>1, StageNext
  <2>7. \A t \in Tasks \ (D \cup N) : Stage'[t] = Stage[t]
    <3>1. TAKE t \in Tasks \ (D \cup N)
    <3>2. /\ fate'[t] = "new" <=> fate[t] = "new"
          /\ t \in ToSet(waiting') <=> t \in ToSet(waiting)
          /\ t \in active' <=> t \in active
          /\ t \in tasks' \ active' <=> t \in tasks \ active
      BY <2>1
    <3> QED
      BY <3>2 DEF Stage
  <2>8. Stage' = [t \in Tasks |-> CASE t \in D -> s [] t \in N -> "running" [] OTHER -> Stage[t]]
    <3>1. \A t \in Tasks : Stage'[t] = CASE t \in D -> s [] t \in N -> "running" [] OTHER -> Stage[t]
      BY <2>1, <2>5, <2>6, <2>7
    <3>2. Stage' = [t \in Tasks |-> Stage'[t]]
      BY DEF Stage
    <3> HIDE DEF Stage
    <3> QED
      BY <3>1, <3>2
  <2>9. Pool!Turn(D, N)
    <3>1. s \in IF D \cap tasks # {} THEN {"left"} ELSE {"queued", "over"}
      OBVIOUS
    <3>2. \E r \in IF D \cap tasks # {} THEN {"left"} ELSE {"queued", "over"} :
            Stage' = [t \in Tasks |-> CASE t \in D -> r [] t \in N -> "running" [] OTHER -> Stage[t]]
      BY <2>8, <3>1
    <3>3. /\ Pool!Cardinality(D) <= 1 /\ Pool!Cardinality(N) <= 1
          /\ Pool!Cardinality((active \ D) \cup N) <= MaxThread
      BY <2>3, <2>4, SameCardinality
    <3>4. D \subseteq Pool!At("running") /\ N \subseteq Pool!At("queued")
      BY <1>0, <2>2
    <3>5. /\ Pool!Cardinality(D) <= 1 /\ Pool!Cardinality(N) <= 1
          /\ Pool!Cardinality((Pool!At("running") \ D) \cup N) <= MaxThread
      BY <1>0, <3>3
    <3> QED
      BY <3>2, <3>4, <3>5 DEF Pool!Turn
  <2> QED
    BY <1>0, <2>2, <2>9 DEF Pool!Next
<1> QED
  BY <1>1, <1>2

LEMMA InitPool == Init => Pool!Init
<1> SUFFICES ASSUME Init PROVE Pool!Init
  OBVIOUS
<1>1. ToSet(waiting) = {} /\ active = {} /\ tasks = {}
  BY DEF Init, ToSet
<1>2. \A t \in Tasks : Stage[t] = "new"
  BY <1>1 DEF Init, Stage
<1>3. Stage = [t \in Tasks |-> Stage[t]]
  BY DEF Stage
<1> HIDE DEF Stage
<1> QED
  BY <1>1, <1>2, <1>3 DEF Pool!Init

\* Every critical section is one operation of the pool, or none of them.
LEMMA NextPool ==
  IInv /\ OwnInv /\ IInv' /\ OwnInv' /\ [Next]_vars => [Pool!Next]_(Pool!vars)
<1> SUFFICES ASSUME IInv, OwnInv, IInv', OwnInv', [Next]_vars PROVE [Pool!Next]_(Pool!vars)
  OBVIOUS
<1>a. Owned
  BY OwnersAreCounted
<1>b. Owned'
  <2>1. IInv' /\ OwnInv' => Owned'
    BY OwnersAreCounted, PTL
  <2> QED
    BY <2>1
<1>c. /\ Pool!At("new") = {t \in Tasks : fate[t] = "new"} /\ Pool!At("queued") = ToSet(waiting)
      /\ Pool!At("running") = active /\ Pool!At("left") = tasks \ active
  BY <1>a, PoolSets
<1>d. /\ waiting \in Seq(Tasks) /\ IsInjective(waiting) /\ waiting' \in Seq(Tasks) /\ IsInjective(waiting')
      /\ ToSet(waiting) \subseteq Tasks /\ active \subseteq Tasks /\ tasks \subseteq Tasks
      /\ ToSet(waiting) \cap (active \cup tasks) = {} /\ Held(fate) = ToSet(waiting) \cup active \cup tasks
  BY <1>a DEF Owned, OwnInv, CtxOwnership
<1>e. ASSUME UNCHANGED <<waiting, active, tasks, fate>> PROVE UNCHANGED Pool!vars
  BY <1>e DEF Pool!vars, Stage
<1>1. ASSUME NEW t \in Tasks, NEW p \in Priorities, Queue(t, p) PROVE Pool!Submit(t)
  <2>1. /\ UNCHANGED <<active, tasks>> /\ fate[t] = "new"
        /\ \A u \in Tasks \ {t} : fate'[u] = fate[u]
        /\ ToSet(waiting') = ToSet(waiting) \cup {t}
    BY <1>1, <1>d, EnqueueAdds DEF Queue, Settle, Adds
  <2>2. Stage'[t] = "queued"
    BY <1>b, <2>1, StageNext
  <2>3. Pool!Move({t}, "queued")
    BY <1>a, <1>b, <2>1, <2>2, StageMoves
  <2> QED
    BY <1>c, <2>1, <2>3 DEF Pool!Submit
<1>2. ASSUME NEW t \in Tasks, QueueFails(t) PROVE Pool!Refuse(t)
  <2>1. /\ UNCHANGED <<waiting, active, tasks>> /\ fate[t] = "new" /\ fate'[t] = "refused"
        /\ \A u \in Tasks \ {t} : fate'[u] = fate[u]
    BY <1>2 DEF QueueFails, Settle
  <2>2. t \notin ToSet(waiting) \cup active \cup tasks
    BY <1>d, <2>1 DEF Held
  <2>3. Stage'[t] = "over"
    BY <1>b, <2>1, <2>2, StageNext
  <2>4. Pool!Move({t}, "over")
    BY <1>a, <1>b, <2>1, <2>3, StageMoves
  <2> QED
    BY <1>c, <2>1, <2>4 DEF Pool!Refuse
<1>3. ASSUME NEW S \in SUBSET ToSet(waiting), UNCHANGED <<active, tasks>>,
             NEW how \in {"cancelled", "dropped"}, Settle(S, how), ToSet(waiting') = ToSet(waiting) \ S
      PROVE  Pool!Withdraw(S)
  <2>1. \A t \in S : fate'[t] # "new" /\ t \notin ToSet(waiting') \cup active \cup tasks
    BY <1>3, <1>d DEF Settle
  <2>2. \A t \in S : Stage'[t] = "over"
    BY <1>3, <1>b, <1>d, <2>1, StageNext
  <2>3. \A t \in Tasks \ S : fate'[t] = fate[t]
    BY <1>3 DEF Settle
  <2>4. Pool!Move(S, "over")
    BY <1>3, <1>a, <1>b, <1>d, <2>2, <2>3, StageMoves
  <2> QED
    BY <1>3, <1>c, <2>4 DEF Pool!Withdraw
<1>4. ASSUME NEW S \in SUBSET active, ActiveRemove(S) PROVE Pool!Doom(S)
  <2>1. tasks = {} /\ tasks' = S /\ UNCHANGED <<waiting, active, fate>>
    BY <1>4 DEF ActiveRemove, OwnInv, ctxVars
  <2>2. Stage' = Stage
    BY <1>a, <1>b, <2>1, StageStays
  <2> QED
    BY <1>c, <2>1, <2>2 DEF Pool!Doom
<1>5. ASSUME ActiveRemoveWakes PROVE Pool!Collect(tasks \ active)
  <2>1. /\ tasks' = tasks \cap active /\ UNCHANGED <<waiting, active>>
        /\ \A t \in tasks \ active : t \in Tasks /\ fate'[t] = "cancelled"
        /\ \A t \in Tasks \ (tasks \ active) : fate'[t] = fate[t]
    BY <1>5, <1>d DEF ActiveRemoveWakes, Settle
  <2>2. \A t \in tasks \ active : Stage'[t] = "over"
    BY <1>b, <1>d, <2>1, StageNext
  <2>3. Pool!Move(tasks \ active, "over")
    BY <1>a, <1>b, <1>d, <2>1, <2>2, StageMoves
  <2> QED
    BY <1>c, <2>1, <2>3 DEF Pool!Collect
<1>6. ASSUME NEW i \in DOMAIN waiting, FindUrgent(i) PROVE UNCHANGED Pool!vars
  <2>1. ToSet(waiting') = ToSet(waiting) /\ UNCHANGED <<active, tasks, fate>>
    BY <1>6, <1>d, ToFront DEF FindUrgent
  <2> QED
    BY <1>a, <1>b, <2>1, StageStays DEF Pool!vars
<1>7. ASSUME NEW w \in Workers, Start(w) \/ Resume(w) PROVE [Pool!Next]_(Pool!vars)
  <2>1. PICK unused : Dispatch(w, waiting, active \ {}, unused, main)
    BY <1>7 DEF Start, Resume
  <2>2. tasks' = tasks /\ fate' = fate
    BY <1>7 DEF Start, Resume, ctxVars
  <2> QED
    BY <1>a, <1>b, <1>d, <2>1, <2>2, DispatchTurns
<1>8. ASSUME NEW w \in Workers, NEW res, Return(w, res) PROVE [Pool!Next]_(Pool!vars)
  <2> DEFINE t == ctx[w]
             unused == unused_threads + 1
  <2>1. pc[w] = "running" /\ t \in Tasks /\ t \in active /\ t \notin ToSet(waiting) /\ fate[t] = "held"
    BY <1>8, <1>d DEF Return, OwnInv, CtxOwnership, Held
  <2>2. tasks' = tasks
    BY <1>8 DEF Return
  <2>3. w \in cancel <=> t \in tasks
    BY <2>1 DEF OwnInv, CtxHasOneOwner, CancelHitsItsTarget
  <2>4. CASE /\ w \in cancel /\ UNCHANGED fate
             /\ Dispatch(w, waiting, active \ {t}, unused, TaskFinished(main))
    <3> HIDE DEF t, unused
    <3>1. /\ {t} \in SUBSET active /\ \E u \in active : {t} = {u}
          /\ {t} \cap tasks # {} /\ ToSet(waiting) \ {t} = ToSet(waiting)
          /\ \A u \in {t} : u \notin ToSet(waiting) /\ u \in tasks
      BY <2>1, <2>3, <2>4
    <3> QED
      BY <1>a, <1>b, <1>d, <2>2, <2>4, <3>1, DispatchTurns, Zenon
  <2>5. CASE /\ w \notin cancel /\ UNCHANGED fate
             /\ Dispatch(w, Reschedule(t), active \ {t}, unused, TaskFinished(main))
    <3>1. /\ Reschedule(t) \in Seq(Tasks) /\ IsInjective(Reschedule(t))
          /\ ToSet(Reschedule(t)) = ToSet(waiting) \cup {t}
      BY <1>d, <2>1, RescheduleAdds DEF Adds
    <3> HIDE DEF t, unused
    <3>2. /\ {t} \in SUBSET active /\ \E u \in active : {t} = {u}
          /\ {t} \cap tasks = {} /\ ToSet(Reschedule(t)) \ {t} = ToSet(waiting)
          /\ \A u \in {t} : u \in ToSet(Reschedule(t)) /\ u \notin tasks
      BY <2>1, <2>3, <2>5, <3>1
    <3> QED
      BY <1>a, <1>b, <2>2, <2>5, <3>1, <3>2, DispatchTurns
  <2>6. CASE /\ w \notin cancel /\ Settle({t}, "finished")
             /\ Dispatch(w, waiting, active \ {t}, unused, TaskFinished(main))
    <3> HIDE DEF t, unused
    <3>1. fate'[t] = "finished" /\ \A u \in Tasks \ {t} : fate'[u] = fate[u]
      BY <2>1, <2>6 DEF Settle
    <3>2. /\ {t} \in SUBSET active /\ \E u \in active : {t} = {u}
          /\ {t} \cap tasks = {} /\ ToSet(waiting) \ {t} = ToSet(waiting)
          /\ \A u \in {t} : u \notin ToSet(waiting) /\ u \notin tasks /\ fate'[u] # "new"
          /\ \A u \in Tasks \ {t} : fate'[u] = "new" <=> fate[u] = "new"
      BY <2>1, <2>3, <2>6, <3>1
    <3> QED
      BY <1>a, <1>b, <1>d, <2>2, <2>6, <3>2, DispatchTurns
  <2> QED
    BY <1>8, <2>4, <2>5, <2>6 DEF Return
<1> QED
  <2>1. ASSUME NEW S \in SUBSET ToSet(waiting), UnprocessedRemove(S) PROVE Pool!Withdraw(S)
    <3>1. ToSet(waiting') = ToSet(waiting) \ S
      BY <1>d, <2>1, WithoutIs DEF UnprocessedRemove
    <3> QED
      BY <1>3, <2>1, <3>1 DEF UnprocessedRemove
  <2>2. ASSUME Finalize PROVE Pool!Withdraw(ToSet(waiting))
    <3>1. ToSet(waiting') = {}
      BY <2>2 DEF Finalize, ToSet
    <3> QED
      BY <1>3, <2>2, <3>1 DEF Finalize
  <2>3. ASSUME \/ FinalizeWakes \/ SpuriousWakeupOfMain \/ Gone \/ UNCHANGED vars
               \/ \E w \in Workers : Expire(w) \/ Timeout(w) \/ SpuriousWakeup(w)
        PROVE  UNCHANGED Pool!vars
    BY <1>e, <2>3 DEF FinalizeWakes, SpuriousWakeupOfMain, Gone, Expire, Timeout, SpuriousWakeup, ctxVars, vars
  <2> QED
    BY <1>1, <1>2, <1>4, <1>5, <1>6, <1>7, <1>8, <1>c, <1>d, <2>1, <2>2, <2>3 DEF Next, Pool!Next

\* For any number of tasks and threads, what the callers see of the manager is
\* the pool of TaskPool: at most MANAGER_MAX_THREAD ctx run, each by one thread,
\* and one that is being cancelled is handed back to its canceller alone.
THEOREM ThePoolIsImplemented == Spec => ImplementsPool
<1>1. Spec => [](IInv /\ OwnInv)
  BY InvariantOfTheCtx
<1> QED
  BY <1>1, InitPool, NextPool, PTL DEF Spec, ImplementsPool, Pool!Spec
=============================================================================
