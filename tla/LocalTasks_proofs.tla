--------------------------- MODULE LocalTasks_proofs ---------------------------
(***************************************************************************)
(* Proofs about LocalTasks, for any set of tasks, items and callers: the   *)
(* type invariant, the three safety invariants, that no call and no task   *)
(* is stranded, and that every behaviour is one of TaskLifecycle.          *)
(***************************************************************************)
EXTENDS LocalTasks, SequenceTheorems, FunctionTheorems, FiniteSetTheorems,
        WellFoundedInduction, TLAPS

--------------------------------------------------------------------------------
(* Sequences without repetitions *)

\* Taking the oldest handle takes that handle only.
LEMMA TailOfInjective ==
    ASSUME NEW S, NEW s \in Seq(S), s # <<>>, IsInjective(s)
    PROVE  /\ Tail(s) \in Seq(S)
           /\ IsInjective(Tail(s))
           /\ Head(s) \in Range(s)
           /\ Range(Tail(s)) = Range(s) \ {Head(s)}
<1>1. /\ Tail(s) \in Seq(S) /\ Len(s) \in Nat \ {0} /\ Len(Tail(s)) = Len(s) - 1
      /\ \A i \in 1 .. Len(Tail(s)) : Tail(s)[i] = s[i + 1]
  BY HeadTailProperties, EmptySeq
<1>2. DOMAIN s = 1 .. Len(s) /\ DOMAIN Tail(s) = 1 .. Len(s) - 1 /\ Head(s) = s[1]
  BY <1>1, LenProperties
<1>3. IsInjective(Tail(s))
  BY <1>1, <1>2 DEF IsInjective
<1>4. Head(s) \in Range(s)
  BY <1>1, <1>2 DEF Range
<1>5. ASSUME NEW x \in Range(Tail(s)) PROVE x \in Range(s) \ {Head(s)}
  <2>1. PICK i \in 1 .. Len(s) - 1 : x = s[i + 1]
    BY <1>1, <1>2, <1>5 DEF Range
  <2> QED
    BY <1>1, <1>2, <2>1 DEF Range, IsInjective
<1>6. ASSUME NEW x \in Range(s) \ {Head(s)} PROVE x \in Range(Tail(s))
  <2>1. PICK i \in 1 .. Len(s) : x = s[i]
    BY <1>2, <1>6 DEF Range
  <2>2. i # 1
    BY <1>2, <1>6, <2>1
  <2>3. i - 1 \in 1 .. Len(s) - 1 /\ Tail(s)[i - 1] = x
    BY <1>1, <1>2, <2>1, <2>2
  <2> QED
    BY <1>2, <2>3 DEF Range
<1> QED
  BY <1>1, <1>3, <1>4, <1>5, <1>6

\* A handle that is not in the queue is added once.
LEMMA AppendToInjective ==
    ASSUME NEW S, NEW s \in Seq(S), NEW e \in S, IsInjective(s), e \notin Range(s)
    PROVE  /\ Append(s, e) \in Seq(S)
           /\ IsInjective(Append(s, e))
           /\ Range(Append(s, e)) = Range(s) \cup {e}
<1>1. /\ Append(s, e) \in Seq(S) /\ Len(Append(s, e)) = Len(s) + 1
      /\ \A i \in 1 .. Len(s) : Append(s, e)[i] = s[i]
      /\ Append(s, e)[Len(s) + 1] = e
  BY AppendProperties
<1>2. DOMAIN s = 1 .. Len(s) /\ DOMAIN Append(s, e) = 1 .. Len(s) + 1 /\ Len(s) \in Nat
  BY <1>1, LenProperties
<1>3. \A i \in 1 .. Len(s) : s[i] # e
  BY <1>2 DEF Range
<1>4. IsInjective(Append(s, e))
  <2> SUFFICES ASSUME NEW i \in 1 .. Len(s) + 1, NEW j \in 1 .. Len(s) + 1,
                      Append(s, e)[i] = Append(s, e)[j]
               PROVE  i = j
    BY <1>2 DEF IsInjective
  <2>1. CASE i = Len(s) + 1 \/ j = Len(s) + 1
    BY <1>1, <1>2, <1>3, <2>1
  <2>2. CASE i # Len(s) + 1 /\ j # Len(s) + 1
    BY <1>1, <1>2, <2>2 DEF IsInjective
  <2> QED
    BY <2>1, <2>2
<1>5. ASSUME NEW x \in Range(Append(s, e)) PROVE x \in Range(s) \cup {e}
  <2>1. PICK i \in 1 .. Len(s) + 1 : x = Append(s, e)[i]
    BY <1>2, <1>5 DEF Range
  <2>2. CASE i = Len(s) + 1
    BY <1>1, <2>1, <2>2
  <2>3. CASE i # Len(s) + 1
    BY <1>1, <1>2, <2>1, <2>3 DEF Range
  <2> QED
    BY <2>2, <2>3
<1>6. ASSUME NEW x \in Range(s) \cup {e} PROVE x \in Range(Append(s, e))
  <2>1. CASE x = e
    BY <1>1, <1>2, <2>1 DEF Range
  <2>2. CASE x \in Range(s)
    <3>1. PICK i \in 1 .. Len(s) : x = s[i]
      BY <1>2, <2>2 DEF Range
    <3>2. i \in 1 .. Len(s) + 1 /\ Append(s, e)[i] = x
      BY <1>1, <1>2, <3>1
    <3> QED
      BY <1>2, <3>2 DEF Range
  <2> QED
    BY <2>1, <2>2
<1> QED
  BY <1>1, <1>4, <1>5, <1>6

\* Two queues without a handle in common make one without repetitions.
LEMMA ConcatOfInjective ==
    ASSUME NEW S, NEW s \in Seq(S), NEW t \in Seq(S),
           IsInjective(s), IsInjective(t), Range(s) \cap Range(t) = {}
    PROVE  /\ s \o t \in Seq(S)
           /\ IsInjective(s \o t)
           /\ Range(s \o t) = Range(s) \cup Range(t)
<1>1. /\ s \o t \in Seq(S) /\ Len(s \o t) = Len(s) + Len(t)
      /\ \A i \in 1 .. Len(s) + Len(t) :
            (s \o t)[i] = IF i <= Len(s) THEN s[i] ELSE t[i - Len(s)]
  BY ConcatProperties
<1>2. /\ DOMAIN s = 1 .. Len(s) /\ DOMAIN t = 1 .. Len(t) /\ DOMAIN (s \o t) = 1 .. Len(s) + Len(t)
      /\ Len(s) \in Nat /\ Len(t) \in Nat
  BY <1>1, LenProperties
<1>3. \A i \in 1 .. Len(s), j \in 1 .. Len(t) : s[i] # t[j]
  BY <1>2 DEF Range
<1>4. IsInjective(s \o t)
  <2> SUFFICES ASSUME NEW i \in 1 .. Len(s) + Len(t), NEW j \in 1 .. Len(s) + Len(t),
                      (s \o t)[i] = (s \o t)[j]
               PROVE  i = j
    BY <1>2 DEF IsInjective
  <2>1. CASE i <= Len(s) /\ j <= Len(s)
    <3>1. i \in 1 .. Len(s) /\ j \in 1 .. Len(s) /\ s[i] = s[j]
      BY <1>1, <1>2, <2>1
    <3> QED
      BY <1>2, <3>1 DEF IsInjective
  <2>2. CASE i > Len(s) /\ j > Len(s)
    <3>1. i - Len(s) \in 1 .. Len(t) /\ j - Len(s) \in 1 .. Len(t) /\ t[i - Len(s)] = t[j - Len(s)]
      BY <1>1, <1>2, <2>2
    <3>2. i - Len(s) = j - Len(s)
      BY <1>2, <3>1 DEF IsInjective
    <3> QED
      BY <1>2, <3>2
  <2>3. CASE i <= Len(s) /\ j > Len(s)
    <3>1. i \in 1 .. Len(s) /\ j - Len(s) \in 1 .. Len(t) /\ s[i] = t[j - Len(s)]
      BY <1>1, <1>2, <2>3
    <3> QED
      BY <1>3, <3>1
  <2>4. CASE i > Len(s) /\ j <= Len(s)
    <3>1. j \in 1 .. Len(s) /\ i - Len(s) \in 1 .. Len(t) /\ s[j] = t[i - Len(s)]
      BY <1>1, <1>2, <2>4
    <3> QED
      BY <1>3, <3>1
  <2> QED
    BY <1>2, <2>1, <2>2, <2>3, <2>4
<1> QED
  BY <1>1, <1>4, RangeConcatenation

\* A set of numbers has a least one.
LEMMA LeastNumber ==
    ASSUME NEW I, I \subseteq Nat, I # {}
    PROVE  Min(I) \in I
<1> DEFINE R == OpToRel(<, Nat)
<1>1. IsWellFoundedOn(R, Nat)
  BY NatLessThanWellFounded
<1>2. \A i, j \in Nat : i < j => <<i, j>> \in R
  BY DEF OpToRel
<1> HIDE DEF R
<1>3. PICK m \in I : \A n \in I : ~(<<n, m>> \in R)
  BY <1>1, WFMin
<1>4. ASSUME NEW n \in I PROVE m <= n
  <2>1. m \in Nat /\ n \in Nat /\ ~(<<n, m>> \in R)
    BY <1>3
  <2>2. ~(n < m)
    BY <1>2, <2>1
  <2> QED
    BY <2>1, <2>2
<1> QED
  BY <1>4 DEF Min

\* list.remove: the list loses one place, and no other id leaves it.
LEMMA RemoveFirstKeeps ==
    ASSUME NEW S, NEW s \in Seq(S), NEW e
    PROVE  /\ RemoveFirst(s, e) \in Seq(S)
           /\ Range(s) \ {e} \subseteq Range(RemoveFirst(s, e))
           /\ Range(RemoveFirst(s, e)) \subseteq Range(s)
           /\ IsInjective(s) => /\ IsInjective(RemoveFirst(s, e))
                                /\ e \notin Range(RemoveFirst(s, e))
<1>0. DOMAIN s = 1 .. Len(s) /\ Len(s) \in Nat /\ \A i \in 1 .. Len(s) : s[i] \in S
  BY LenProperties
<1>1. CASE \A i \in 1 .. Len(s) : s[i] # e
  BY <1>0, <1>1 DEF RemoveFirst, Range
<1>2. CASE \E i \in 1 .. Len(s) : s[i] = e
  <2> DEFINE I == {i \in 1 .. Len(s) : s[i] = e}
  <2>0. I \subseteq Nat /\ I # {}
    BY <1>0, <1>2
  <2>1. PICK k \in I : k = Min(I)
    <3> HIDE DEF I
    <3> QED
      BY <2>0, LeastNumber
  <2>2. RemoveFirst(s, e) = RemoveAt(s, k)
    BY <1>2, <2>1 DEF RemoveFirst, SelectInSeq
  <2>3. k \in 1 .. Len(s) /\ s[k] = e
    BY <2>1
  <2> HIDE DEF I
  <2> DEFINE a == SubSeq(s, 1, k - 1)
             b == SubSeq(s, k + 1, Len(s))
             r == RemoveAt(s, k)
  <2>4. a \in Seq(S) /\ Len(a) = k - 1 /\ \A i \in 1 .. k - 1 : a[i] = s[i]
    BY <1>0, <2>3, SubSeqProperties
  <2>5. /\ b \in Seq(S) /\ Len(b) = Len(s) - k
        /\ \A i \in 1 .. Len(s) - k : b[i] = s[k + i]
    <3>1. k + 1 \in Int /\ Len(s) \in Int /\ Len(s) - (k + 1) + 1 = Len(s) - k
      BY <1>0, <2>3
    <3>2. \A i \in k + 1 .. Len(s) : s[i] \in S
      BY <1>0, <2>3
    <3>3. /\ b \in Seq(S) /\ Len(b) = IF k + 1 <= Len(s) THEN Len(s) - (k + 1) + 1 ELSE 0
          /\ \A i \in 1 .. Len(s) - (k + 1) + 1 : b[i] = s[(k + 1) + i - 1]
      BY <3>1, <3>2, SubSeqProperties
    <3>4. ASSUME NEW i \in 1 .. Len(s) - k PROVE b[i] = s[k + i]
      <4>1. b[i] = s[(k + 1) + i - 1]
        BY <3>1, <3>3
      <4>2. (k + 1) + i - 1 = k + i
        BY <2>3
      <4> QED
        BY <4>1, <4>2
    <3>5. Len(b) = Len(s) - k
      <4>1. CASE k = Len(s)
        <5>1. ~(k + 1 <= Len(s)) /\ Len(s) - k = 0
          BY <1>0, <4>1
        <5> QED
          BY <3>3, <5>1
      <4>2. CASE k < Len(s)
        <5>1. k + 1 <= Len(s) /\ Len(s) - (k + 1) + 1 = Len(s) - k
          BY <1>0, <2>3, <4>2
        <5> QED
          BY <3>3, <5>1
      <4>3. k \in Int /\ Len(s) \in Int /\ k <= Len(s)
        BY <1>0, <2>3
      <4> QED
        BY <4>1, <4>2, <4>3
    <3> QED
      BY <3>3, <3>4, <3>5
  <2>6. r = a \o b
    BY DEF RemoveAt
  <2> HIDE DEF a, b, r
  <2>7. /\ r \in Seq(S) /\ Len(r) = Len(s) - 1
        /\ \A i \in 1 .. Len(r) : r[i] = IF i < k THEN s[i] ELSE s[i + 1]
    <3>1. /\ r \in Seq(S) /\ Len(r) = Len(a) + Len(b)
          /\ \A i \in 1 .. Len(a) + Len(b) : r[i] = IF i <= Len(a) THEN a[i] ELSE b[i - Len(a)]
      BY <2>4, <2>5, <2>6, ConcatProperties
    <3>5. Len(a) + Len(b) = Len(s) - 1
      BY <1>0, <2>3, <2>4, <2>5
    <3>2. ASSUME NEW i \in 1 .. Len(s) - 1 PROVE r[i] = IF i < k THEN s[i] ELSE s[i + 1]
      <4>1. CASE i < k
        <5>1. i \in 1 .. k - 1 /\ i \in 1 .. Len(a) + Len(b) /\ i <= Len(a)
          BY <1>0, <2>3, <2>4, <3>5, <4>1
        <5> QED
          BY <2>4, <3>1, <4>1, <5>1
      <4>2. CASE i >= k
        <5>1. i - (k - 1) \in 1 .. Len(s) - k /\ i \in 1 .. Len(a) + Len(b) /\ ~(i <= Len(a))
          BY <1>0, <2>3, <2>4, <2>5, <4>2
        <5>2. r[i] = b[i - (k - 1)] /\ b[i - (k - 1)] = s[k + (i - (k - 1))]
          BY <2>4, <2>5, <3>1, <5>1
        <5>3. k + (i - (k - 1)) = i + 1
          BY <2>3
        <5> QED
          BY <2>3, <4>2, <5>2, <5>3
      <4> QED
        BY <2>3, <4>1, <4>2
    <3> QED
      BY <3>1, <3>5, <3>2
  <2>8. DOMAIN r = 1 .. Len(s) - 1
    BY <2>7, LenProperties
  <2>9. Range(s) \ {e} \subseteq Range(r)
    <3> SUFFICES ASSUME NEW i \in 1 .. Len(s), s[i] # e PROVE \E j \in 1 .. Len(s) - 1 : r[j] = s[i]
      BY <1>0, <2>8 DEF Range
    <3>1. CASE i < k
      BY <1>0, <2>3, <2>7, <3>1
    <3>2. CASE i > k
      <4>1. i - 1 \in 1 .. Len(r) /\ ~(i - 1 < k) /\ (i - 1) + 1 = i
        BY <1>0, <2>3, <2>7, <3>2
      <4>2. r[i - 1] = s[i]
        BY <2>7, <4>1
      <4> QED
        BY <2>7, <4>1, <4>2
    <3> QED
      BY <2>3, <3>1, <3>2
  <2>10. Range(r) \subseteq Range(s)
    BY <1>0, <2>3, <2>7, <2>8 DEF Range
  <2>11. ASSUME IsInjective(s) PROVE IsInjective(r) /\ e \notin Range(r)
    <3>1. \A i, j \in 1 .. Len(s) : s[i] = s[j] => i = j
      BY <1>0, <2>11 DEF IsInjective
    <3>2. IsInjective(r)
      BY <1>0, <2>3, <2>7, <2>8, <3>1 DEF IsInjective
    <3>3. \A i \in 1 .. Len(s) - 1 : r[i] # e
      BY <1>0, <2>3, <2>7, <3>1
    <3> QED
      BY <2>8, <3>2, <3>3 DEF Range
  <2> QED
    BY <2>2, <2>7, <2>9, <2>10, <2>11 DEF r
<1> QED
  BY <1>1, <1>2

\* The callers that await a task become ready in some order, each of them once.
LEMMA WaitersOnce ==
    ASSUME NEW S, IsFiniteSet(S), NEW w \in SetToSeqs(S)
    PROVE  w \in Seq(S) /\ IsInjective(w) /\ Range(w) = S
<1>1. Cardinality(S) \in Nat
  BY FS_CardinalityType
<1>2. /\ w \in [1 .. Cardinality(S) -> S]
      /\ \A i, j \in 1 .. Cardinality(S) : w[i] = w[j] => i = j
  BY DEF SetToSeqs
<1>3. w \in Injection(1 .. Cardinality(S), S)
  BY <1>2, Fun_IsInj
<1>4. IsFiniteSet(1 .. Cardinality(S)) /\ Cardinality(1 .. Cardinality(S)) = Cardinality(S)
  BY <1>1, FS_Interval
<1>5. w \in Surjection(1 .. Cardinality(S), S)
  BY <1>3, <1>4, FS_Injection
<1>6. Range(w) = S
  BY <1>5, Fun_SurjectionProperties
<1> QED
  BY <1>1, <1>2, <1>6, SeqDef DEF IsInjective

--------------------------------------------------------------------------------
(* The inductive invariant *)

\* The handles that will run.
Queue == Range(ready)

\* A task that is being created has one handle, which creates it.
CreateHandles == \A t \in Task : Handle("create", t) \in Queue <=> run[t] = "creating"

\* A coroutine is scheduled exactly when the loop has a handle for it: no wake-up
\* is lost, and none comes twice.
RunHandles ==
    \A t \in Task : Handle("run", t) \in Queue <=> run[t] \in {"starting", "scheduled"}

\* The done callback and the clean-up of a task come after its end, in this order.
DoneHandles ==
    \A t \in Task :
        /\ Handle("done", t) \in Queue => run[t] = "done" /\ Handle("cleanup", t) \notin Queue
        /\ Handle("cleanup", t) \in Queue => run[t] = "done"

AwaitsLive(c) == call[c].awaits # NoTask /\ Live(call[c].awaits)

\* A call goes on exactly when it has not answered and awaits no running task: no
\* answered call runs again, and no call is left asleep.
StopHandles ==
    \A c \in Caller :
        IF call[c] = Idle THEN Handle("stop", c) \notin Queue
        ELSE Handle("stop", c) \in Queue <=> call[c].reply = "none" /\ ~AwaitsLive(c)

\* Only what was created is awaited, and by calls only that have not answered.
AwaitsCreated ==
    \A c \in Caller : call[c] # Idle /\ call[c].awaits # NoTask =>
        run[call[c].awaits] \notin {"new", "creating"} /\ call[c].reply = "none"

\* The endpoint was called finitely often so far.
FinitelyManyCalls == IsFiniteSet({c \in Caller : call[c] # Idle})

\* A task is cancelled at most once, and not as long as `tasks` names it.
CancelledWhenPopped ==
    \A t \in Task :
        /\ cancelCalls[t] <= 1
        /\ t \in tasks => cancelCalls[t] = 0 /\ run[t] \notin {"new", "creating"}
        /\ run[t] \in {"new", "creating"} => cancelCalls[t] = 0

\* An item lists its own tasks, each once, and only after they were created.
ItemLists ==
    \A x \in Item :
        /\ IsInjective(itemTasks[x])
        /\ \A t \in Range(itemTasks[x]) : ItemOf[t] = x /\ run[t] \notin {"new", "creating"}

\* A task whose clean-up is over is in no table.
CleanedUp ==
    \A t \in Task :
        run[t] = "done" /\ Handle("done", t) \notin Queue /\ Handle("cleanup", t) \notin Queue
            => t \notin tasks /\ t \notin Range(itemTasks[ItemOf[t]])

\* The safety invariants hold because a handle is queued when, and only when, the
\* state says so: what a call or a coroutine does next depends on nothing else.
IInv ==
    /\ TypeOK
    /\ CreateHandles /\ RunHandles /\ DoneHandles /\ StopHandles
    /\ AwaitsCreated /\ FinitelyManyCalls
    /\ CancelledWhenPopped
    /\ UnlistedIsBeingStopped
    /\ ListedForItem
    /\ ItemLists
    /\ CleanedUp

\* It holds before any request came.
LEMMA InitIInv == Init => IInv
<1> SUFFICES ASSUME Init PROVE IInv
  OBVIOUS
<1>1. Queue = {} /\ IsInjective(ready) /\ ready \in Seq(Handles)
  BY DEF Init, Queue, Range, IsInjective
<1>2. \A x \in Item : itemTasks[x] = <<>> /\ Range(itemTasks[x]) = {} /\ IsInjective(itemTasks[x])
  BY DEF Init, Range, IsInjective
<1>3. TypeOK
  BY <1>1 DEF Init, TypeOK, RunState, Outcome
<1>4. {c \in Caller : call[c] # Idle} = {}
  BY DEF Init
<1>5. FinitelyManyCalls
  BY <1>4, FS_EmptySet DEF FinitelyManyCalls
<1>6. \A t \in Task : ~Live(t) /\ run[t] = "new"
  BY DEF Init, Live
<1>7. CreateHandles /\ RunHandles /\ DoneHandles /\ StopHandles
  BY <1>1, <1>6 DEF Init, CreateHandles, RunHandles, DoneHandles, StopHandles
<1>8. CancelledWhenPopped /\ AwaitsCreated /\ CleanedUp
  BY <1>6 DEF Init, CancelledWhenPopped, AwaitsCreated, CleanedUp
<1>9. UnlistedIsBeingStopped /\ ListedForItem /\ ItemLists
  BY <1>2, <1>6 DEF UnlistedIsBeingStopped, ListedForItem, ItemLists
<1> QED
  BY <1>3, <1>5, <1>7, <1>8, <1>9 DEF IInv

--------------------------------------------------------------------------------
(* What a step does to the queue *)

\* A handle is added that is not in the queue.
LEMMA Push ==
    ASSUME TypeOK, NEW h \in Handles, h \notin Queue, ready' = Append(ready, h)
    PROVE  ready' \in Seq(Handles) /\ IsInjective(ready)' /\ Queue' = Queue \cup {h}
BY AppendToInjective DEF TypeOK, Queue

\* The handle at the head runs.
LEMMA Pop ==
    ASSUME TypeOK, NEW k, NEW x, AtHead(k, x), ready' = Tail(ready)
    PROVE  /\ ready' \in Seq(Handles) /\ IsInjective(ready)'
           /\ Handle(k, x) \in Queue /\ Queue' = Queue \ {Handle(k, x)}
BY TailOfInjective DEF TypeOK, Queue, AtHead

\* It runs and makes another one ready.
LEMMA PopPush ==
    ASSUME TypeOK, NEW k, NEW x, AtHead(k, x), NEW h \in Handles,
           h \notin Queue \ {Handle(k, x)}, ready' = Append(Tail(ready), h)
    PROVE  /\ ready' \in Seq(Handles) /\ IsInjective(ready)'
           /\ Handle(k, x) \in Queue /\ Queue' = (Queue \ {Handle(k, x)}) \cup {h}
<1>1. /\ Tail(ready) \in Seq(Handles) /\ IsInjective(Tail(ready))
      /\ Handle(k, x) \in Queue /\ Range(Tail(ready)) = Queue \ {Handle(k, x)}
  BY TailOfInjective DEF TypeOK, Queue, AtHead
<1> DEFINE s == Tail(ready)
<1> HIDE DEF s
<1>2. s \in Seq(Handles) /\ IsInjective(s) /\ h \notin Range(s)
  BY <1>1 DEF s
<1>3. /\ Append(s, h) \in Seq(Handles) /\ IsInjective(Append(s, h))
      /\ Range(Append(s, h)) = Range(s) \cup {h}
  BY <1>2, AppendToInjective
<1> QED
  BY <1>1, <1>3 DEF Queue, s

--------------------------------------------------------------------------------
(* What a step does to the calls *)

\* A frame is no idle call, and its fields have their types.
LEMMA FrameFields ==
    \A f \in Frame : /\ f # Idle
                     /\ f.awaits \in Task \cup {NoTask} /\ f.reply \in Reply /\ f.next \in Nat
                     /\ f.kind = "task" => f.task \in Task /\ f.next # 0
                     /\ f.kind = "item" => f.item \in Item /\ f.attached \in BOOLEAN
                     /\ f.kind \in {"item", "task"}
BY DEF Frame, Idle

\* One call changes.
LEMMA OneCall ==
    ASSUME TypeOK, FinitelyManyCalls, NEW c \in Caller, NEW g \in Frame,
           call' = [call EXCEPT ![c] = g]
    PROVE  /\ call' \in [Caller -> {Idle} \cup Frame]
           /\ FinitelyManyCalls'
           /\ call'[c] = g /\ call'[c] # Idle
           /\ \A d \in Caller \ {c} : call'[d] = call[d]
<1>1. /\ call' \in [Caller -> {Idle} \cup Frame]
      /\ call'[c] = g /\ \A d \in Caller \ {c} : call'[d] = call[d]
  BY DEF TypeOK
<1>2. g # Idle
  BY FrameFields
<1>3. {d \in Caller : call'[d] # Idle} = {d \in Caller : call[d] # Idle} \cup {c}
  BY <1>1, <1>2
<1>4. FinitelyManyCalls'
  BY <1>3, FS_AddElement DEF FinitelyManyCalls
<1> QED
  BY <1>1, <1>2, <1>4

\* A call that goes on has not answered, and what it awaited is over.
LEMMA AtHeadOfStop ==
    ASSUME IInv, NEW c \in Caller, AtHead("stop", c)
    PROVE  /\ call[c] \in Frame /\ call[c].reply = "none" /\ ~AwaitsLive(c)
           /\ Handle("stop", c) \in Queue
<1>1. Handle("stop", c) \in Queue
  BY TailOfInjective DEF IInv, TypeOK, AtHead, Queue
<1> QED
  BY <1>1 DEF IInv, TypeOK, StopHandles

--------------------------------------------------------------------------------
(* Steps of the coroutines *)

\* The state of a coroutine changes only by its own steps; most invariants look at
\* the queue, at `run` and at the calls only.
LEMMA CreateArrivesStep == ASSUME IInv, NEW t \in Task, CreateArrives(t) PROVE IInv'
<1> DEFINE h == Handle("create", t)
<1>1. TypeOK /\ run[t] = "new" /\ h \in Handles /\ h \notin Queue
  BY DEF IInv, CreateHandles, TypeOK, CreateArrives, Handles, Handle
<1>2. ready' \in Seq(Handles) /\ IsInjective(ready)' /\ Queue' = Queue \cup {h}
  BY <1>1, Push DEF CreateArrives
<1>3. TypeOK'
  BY <1>2 DEF IInv, TypeOK, RunState, CreateArrives
<1>4. \A u \in Task \ {t} : run'[u] = run[u]
  BY <1>1 DEF CreateArrives, TypeOK
<1>5. run'[t] = "creating"
  BY <1>1 DEF CreateArrives, TypeOK
<1>6. CreateHandles' /\ RunHandles' /\ DoneHandles'
  BY <1>1, <1>2, <1>4, <1>5 DEF Handle, IInv, CreateHandles, RunHandles, DoneHandles
<1>7. \A c \in Caller : Handle("stop", c) \in Queue' <=> Handle("stop", c) \in Queue
  BY <1>2 DEF Handle
<1>8. \A c \in Caller : call[c] # Idle => (AwaitsLive(c)' <=> AwaitsLive(c))
  BY <1>1, <1>4, <1>5 DEF AwaitsLive, Live, CreateArrives, IInv, AwaitsCreated
<1>9. StopHandles' /\ AwaitsCreated' /\ FinitelyManyCalls'
  BY <1>1, <1>4, <1>7, <1>8 DEF IInv, StopHandles, AwaitsCreated, FinitelyManyCalls, CreateArrives
<1>10. CancelledWhenPopped' /\ UnlistedIsBeingStopped' /\ ListedForItem'
  BY <1>1, <1>4, <1>5
     DEF IInv, CancelledWhenPopped, UnlistedIsBeingStopped, ListedForItem, CreateArrives, Live
<1>11. ItemLists'
  BY <1>1, <1>4, <1>5 DEF IInv, ItemLists, CreateArrives
<1>12. CleanedUp'
  BY <1>2, <1>4, <1>5 DEF Handle, IInv, CleanedUp, CreateArrives
<1> QED
  BY <1>3, <1>6, <1>9, <1>10, <1>11, <1>12 DEF IInv

LEMMA CreateTaskStep == ASSUME IInv, NEW t \in Task, CreateTask(t) PROVE IInv'
<1> DEFINE h == Handle("run", t)
<1>1. TypeOK /\ AtHead("create", t) /\ h \in Handles
  BY DEF IInv, CreateTask, Handles, Handle
<1>2. Handle("create", t) \in Queue
  BY <1>1, TailOfInjective DEF TypeOK, AtHead, Queue
<1>3. run[t] = "creating" /\ h \notin Queue
  BY <1>2 DEF IInv, CreateHandles, RunHandles
<1>4. /\ ready' \in Seq(Handles) /\ IsInjective(ready)'
      /\ Queue' = (Queue \ {Handle("create", t)}) \cup {h}
  BY <1>1, <1>3, PopPush DEF CreateTask
<1>5. run'[t] = "starting" /\ \A u \in Task \ {t} : run'[u] = run[u]
  BY <1>1 DEF CreateTask, TypeOK
<1>6. ItemOf[t] \in Item
  BY ItemOfAssumption
<1> DEFINE l == itemTasks[ItemOf[t]]
<1>7. l \in Seq(Task) /\ IsInjective(l) /\ t \notin Range(l)
  BY <1>1, <1>3, <1>6 DEF IInv, TypeOK, ItemLists
<1>8. /\ Append(l, t) \in Seq(Task) /\ IsInjective(Append(l, t))
      /\ Range(Append(l, t)) = Range(l) \cup {t}
  BY <1>7, AppendToInjective
<1>9. /\ itemTasks'[ItemOf[t]] = Append(l, t)
      /\ \A x \in Item \ {ItemOf[t]} : itemTasks'[x] = itemTasks[x]
  BY <1>1, <1>6 DEF CreateTask, TypeOK
<1>10. TypeOK'
  BY <1>4, <1>6, <1>8 DEF IInv, TypeOK, RunState, CreateTask
<1>11. CreateHandles' /\ RunHandles' /\ DoneHandles'
  BY <1>3, <1>4, <1>5 DEF Handle, IInv, CreateHandles, RunHandles, DoneHandles
<1>12. \A c \in Caller : Handle("stop", c) \in Queue' <=> Handle("stop", c) \in Queue
  BY <1>4 DEF Handle
<1>13. \A c \in Caller : call[c] # Idle => (AwaitsLive(c)' <=> AwaitsLive(c))
  BY <1>3, <1>5 DEF AwaitsLive, Live, CreateTask, IInv, AwaitsCreated
<1>14. StopHandles' /\ AwaitsCreated' /\ FinitelyManyCalls'
  BY <1>5, <1>12, <1>13 DEF IInv, StopHandles, AwaitsCreated, FinitelyManyCalls, CreateTask
<1>15. CancelledWhenPopped' /\ UnlistedIsBeingStopped'
  BY <1>3, <1>5 DEF IInv, CancelledWhenPopped, UnlistedIsBeingStopped, CreateTask, Live
<1>16. \A u \in Task : u \in Range(itemTasks[ItemOf[u]]) \/ u = t => u \in Range(itemTasks'[ItemOf[u]])
  BY <1>8, <1>9, ItemOfAssumption
<1>17. ListedForItem'
  BY <1>5, <1>16 DEF IInv, ListedForItem, Live
<1>18. ItemLists'
  <2> SUFFICES ASSUME NEW x \in Item
               PROVE  /\ IsInjective(itemTasks'[x])
                      /\ \A u \in Range(itemTasks'[x]) :
                            ItemOf[u] = x /\ run'[u] \notin {"new", "creating"}
    BY DEF ItemLists
  <2>1. \A u \in Range(itemTasks[x]) :
            u \in Task /\ ItemOf[u] = x /\ run[u] \notin {"new", "creating"} /\ u # t
    BY <1>1, <1>3, RangeOfSeq DEF IInv, ItemLists, TypeOK
  <2>2. CASE x = ItemOf[t]
    BY <1>5, <1>8, <1>9, <2>1, <2>2
  <2>3. CASE x # ItemOf[t]
    BY <1>5, <1>9, <2>1, <2>3 DEF IInv, ItemLists
  <2> QED
    BY <2>2, <2>3
<1>19. CleanedUp'
  <2> SUFFICES ASSUME NEW u \in Task, run'[u] = "done", Handle("done", u) \notin Queue',
                      Handle("cleanup", u) \notin Queue'
               PROVE  u \notin tasks' /\ u \notin Range(itemTasks'[ItemOf[u]])
    BY DEF CleanedUp
  <2>1. u # t /\ run[u] = "done" /\ Handle("done", u) \notin Queue /\ Handle("cleanup", u) \notin Queue
    BY <1>4, <1>5 DEF Handle
  <2>2. u \notin tasks /\ u \notin Range(itemTasks[ItemOf[u]]) /\ ItemOf[u] \in Item
    BY <2>1, ItemOfAssumption DEF IInv, CleanedUp
  <2> QED
    BY <1>8, <1>9, <2>1, <2>2 DEF CreateTask
<1> QED
  BY <1>10, <1>11, <1>14, <1>15, <1>17, <1>18, <1>19 DEF IInv

\* Neither waiting nor going on touches the tables.
LEMMA WakeStep == ASSUME IInv, NEW t \in Task, Wake(t) PROVE IInv'
<1> DEFINE h == Handle("run", t)
<1>1. TypeOK /\ run[t] = "waiting" /\ h \in Handles /\ h \notin Queue
  BY DEF IInv, RunHandles, Wake, Handles, Handle
<1>2. ready' \in Seq(Handles) /\ IsInjective(ready)' /\ Queue' = Queue \cup {h}
  BY <1>1, Push DEF Wake
<1>3. run'[t] = "scheduled" /\ \A u \in Task \ {t} : run'[u] = run[u]
  BY <1>1 DEF Wake, TypeOK
<1>4. TypeOK'
  BY <1>2 DEF IInv, TypeOK, RunState, Wake
<1>5. CreateHandles' /\ RunHandles' /\ DoneHandles'
  BY <1>1, <1>2, <1>3 DEF Handle, IInv, CreateHandles, RunHandles, DoneHandles
<1>6. \A c \in Caller : Handle("stop", c) \in Queue' <=> Handle("stop", c) \in Queue
  BY <1>2 DEF Handle
<1>7. \A c \in Caller : call[c] # Idle => (AwaitsLive(c)' <=> AwaitsLive(c))
  BY <1>1, <1>3 DEF AwaitsLive, Live, Wake
<1>8. StopHandles' /\ AwaitsCreated' /\ FinitelyManyCalls'
  BY <1>1, <1>3, <1>6, <1>7 DEF IInv, StopHandles, AwaitsCreated, FinitelyManyCalls, Wake
<1>9. CancelledWhenPopped' /\ UnlistedIsBeingStopped' /\ ListedForItem'
  BY <1>1, <1>3 DEF IInv, CancelledWhenPopped, UnlistedIsBeingStopped, ListedForItem, Wake, Live
<1>10. ItemLists' /\ CleanedUp'
  BY <1>1, <1>2, <1>3 DEF Handle, IInv, ItemLists, CleanedUp, Wake
<1> QED
  BY <1>4, <1>5, <1>8, <1>9, <1>10 DEF IInv

LEMMA RunOnStep == ASSUME IInv, NEW t \in Task, RunOn(t) PROVE IInv'
<1>1. TypeOK /\ AtHead("run", t)
  BY DEF IInv, RunOn
<1>2. /\ ready' \in Seq(Handles) /\ IsInjective(ready)'
      /\ Handle("run", t) \in Queue /\ Queue' = Queue \ {Handle("run", t)}
  BY <1>1, Pop DEF RunOn
<1>3. run[t] \in {"starting", "scheduled"}
  BY <1>2 DEF IInv, RunHandles
<1>4. run'[t] = "waiting" /\ \A u \in Task \ {t} : run'[u] = run[u]
  BY <1>1 DEF RunOn, TypeOK
<1>5. TypeOK'
  BY <1>2 DEF IInv, TypeOK, RunState, RunOn
<1>6. CreateHandles' /\ RunHandles' /\ DoneHandles'
  BY <1>2, <1>3, <1>4 DEF Handle, IInv, CreateHandles, RunHandles, DoneHandles
<1>7. \A c \in Caller : Handle("stop", c) \in Queue' <=> Handle("stop", c) \in Queue
  BY <1>2 DEF Handle
<1>8. \A c \in Caller : call[c] # Idle => (AwaitsLive(c)' <=> AwaitsLive(c))
  BY <1>3, <1>4 DEF AwaitsLive, Live, RunOn
<1>9. StopHandles' /\ AwaitsCreated' /\ FinitelyManyCalls'
  BY <1>3, <1>4, <1>7, <1>8 DEF IInv, StopHandles, AwaitsCreated, FinitelyManyCalls, RunOn
<1>10. CancelledWhenPopped' /\ UnlistedIsBeingStopped' /\ ListedForItem'
  BY <1>3, <1>4 DEF IInv, CancelledWhenPopped, UnlistedIsBeingStopped, ListedForItem, RunOn, Live
<1>11. ItemLists' /\ CleanedUp'
  BY <1>2, <1>3, <1>4 DEF Handle, IInv, ItemLists, CleanedUp, RunOn
<1> QED
  BY <1>5, <1>6, <1>9, <1>10, <1>11 DEF IInv

\* The end of a coroutine wakes exactly the calls that await it.
LEMMA EndStep ==
    ASSUME IInv, NEW t \in Task, NEW how \in Outcome \ {"none"}, End(t, how) PROVE IInv'
<1>1. TypeOK /\ AtHead("run", t)
  BY DEF IInv, End
<1>2. Handle("run", t) \in Queue
  BY <1>1, TailOfInjective DEF TypeOK, AtHead, Queue
<1>3. run[t] \in {"starting", "scheduled"}
  BY <1>2 DEF IInv, RunHandles
<1> DEFINE W == Awaiting(t)
<1>4. IsFiniteSet(W) /\ W \subseteq Caller
  BY FS_Subset DEF IInv, FinitelyManyCalls, Awaiting
<1>5. PICK w \in SetToSeqs(W) :
          ready' = Tail(ready) \o <<Handle("done", t)>>
                     \o [k \in 1 .. Len(w) |-> Handle("stop", w[k])]
  BY DEF End
<1>6. w \in Seq(W) /\ IsInjective(w) /\ Range(w) = W
  BY <1>4, WaitersOnce
<1> DEFINE a == Tail(ready)
           b == <<Handle("done", t)>>
           d == [k \in 1 .. Len(w) |-> Handle("stop", w[k])]
           added == {Handle("stop", c) : c \in W}
<1>7. /\ d \in Seq(Handles) /\ IsInjective(d) /\ Range(d) = added
  <2>1. Len(w) \in Nat /\ DOMAIN w = 1 .. Len(w) /\ \A k \in 1 .. Len(w) : w[k] \in W
    BY <1>6, LenProperties
  <2>2. \A k \in 1 .. Len(w) : Handle("stop", w[k]) \in Handles
    BY <1>4, <2>1 DEF Handles, Handle
  <2>3. d \in Seq(Handles)
    BY <2>1, <2>2, SeqDef
  <2>4. DOMAIN d = 1 .. Len(w)
    OBVIOUS
  <2>5. IsInjective(d)
    BY <1>6, <2>1, <2>4 DEF IsInjective, Handle
  <2>6. Range(d) = added
    BY <1>6, <2>1, <2>4 DEF Range
  <2> QED
    BY <2>3, <2>5, <2>6
<1>8. /\ a \in Seq(Handles) /\ IsInjective(a) /\ Range(a) = Queue \ {Handle("run", t)}
  BY <1>1, TailOfInjective DEF TypeOK, AtHead, Queue
<1>9. b \in Seq(Handles) /\ IsInjective(b) /\ Range(b) = {Handle("done", t)}
  <2>1. Handle("done", t) \in Handles
    BY DEF Handles, Handle
  <2> QED
    BY <2>1 DEF IsInjective, Range
<1>10. Handle("done", t) \notin Queue /\ Handle("cleanup", t) \notin Queue
  BY <1>3 DEF IInv, DoneHandles
<1>11. added \cap Queue = {}
  <2> SUFFICES ASSUME NEW c \in W PROVE Handle("stop", c) \notin Queue
    OBVIOUS
  <2>1. c \in Caller /\ call[c] # Idle /\ call[c].awaits = t
    BY DEF Awaiting
  <2>2. AwaitsLive(c)
    BY <1>3, <2>1, NoTaskAssumption DEF AwaitsLive, Live
  <2> QED
    BY <2>1, <2>2 DEF IInv, StopHandles
<1>12. Handle("done", t) \notin added
  BY DEF Handle
<1> HIDE DEF a, b, d, added, W
<1>13. a \o b \in Seq(Handles) /\ IsInjective(a \o b) /\ Range(a \o b) = Range(a) \cup Range(b)
  BY <1>8, <1>9, <1>10, ConcatOfInjective
<1>14. /\ (a \o b) \o d \in Seq(Handles) /\ IsInjective((a \o b) \o d)
       /\ Range((a \o b) \o d) = Range(a \o b) \cup Range(d)
  <2> DEFINE ab == a \o b
  <2>1. Range(ab) \cap Range(d) = {}
    BY <1>7, <1>8, <1>9, <1>11, <1>12, <1>13
  <2>2. ab \in Seq(Handles) /\ IsInjective(ab)
    BY <1>13
  <2> HIDE DEF ab
  <2>3. ab \o d \in Seq(Handles) /\ IsInjective(ab \o d) /\ Range(ab \o d) = Range(ab) \cup Range(d)
    BY <1>7, <2>1, <2>2, ConcatOfInjective
  <2> QED
    BY <2>3 DEF ab
<1>15. ready' = (a \o b) \o d
  BY <1>5 DEF a, b, d
<1>16. /\ ready' \in Seq(Handles) /\ IsInjective(ready)'
       /\ Queue' = (Queue \ {Handle("run", t)}) \cup {Handle("done", t)} \cup added
  BY <1>7, <1>8, <1>9, <1>13, <1>14, <1>15 DEF Queue
<1>17. run'[t] = "done" /\ \A u \in Task \ {t} : run'[u] = run[u]
  BY <1>1 DEF End, TypeOK
<1>18. TypeOK'
  BY <1>16 DEF IInv, TypeOK, RunState, End
<1>19. CreateHandles' /\ RunHandles' /\ DoneHandles'
  BY <1>3, <1>10, <1>16, <1>17
     DEF IInv, CreateHandles, RunHandles, DoneHandles, Handle, added
<1>20. \A c \in Caller :
           Handle("stop", c) \in Queue' <=> Handle("stop", c) \in Queue \/ c \in W
  BY <1>16 DEF Handle, added
<1>21. ASSUME NEW c \in Caller, call[c] # Idle
       PROVE  AwaitsLive(c)' <=> AwaitsLive(c) /\ c \notin W
  BY <1>3, <1>17, <1>21 DEF AwaitsLive, Live, End, W, Awaiting
<1>22. ASSUME NEW c \in W PROVE call[c] # Idle /\ call[c].reply = "none"
  <2>1. c \in Caller /\ call[c] # Idle /\ call[c].awaits = t
    BY <1>22 DEF W, Awaiting
  <2> QED
    BY <2>1, NoTaskAssumption DEF IInv, AwaitsCreated
<1>23. StopHandles'
  BY <1>20, <1>21, <1>22 DEF IInv, StopHandles, End
<1>24. AwaitsCreated' /\ FinitelyManyCalls'
  BY <1>3, <1>17 DEF IInv, AwaitsCreated, FinitelyManyCalls, End
<1>25. CancelledWhenPopped' /\ UnlistedIsBeingStopped' /\ ListedForItem' /\ ItemLists'
  BY <1>3, <1>17 DEF IInv, CancelledWhenPopped, UnlistedIsBeingStopped, ListedForItem,
                     ItemLists, End, Live
<1>26. CleanedUp'
  BY <1>16, <1>17 DEF IInv, CleanedUp, End, Handle, added
<1> QED
  BY <1>18, <1>19, <1>23, <1>24, <1>25, <1>26 DEF IInv

\* The clean-up follows the done callback.
LEMMA DoneCallbackStep == ASSUME IInv, NEW t \in Task, DoneCallback(t) PROVE IInv'
<1> DEFINE h == Handle("cleanup", t)
<1>1. TypeOK /\ AtHead("done", t) /\ h \in Handles
  BY DEF IInv, DoneCallback, Handles, Handle
<1>2. Handle("done", t) \in Queue
  BY <1>1, TailOfInjective DEF TypeOK, AtHead, Queue
<1>3. run[t] = "done" /\ h \notin Queue
  BY <1>2 DEF IInv, DoneHandles
<1>4. /\ ready' \in Seq(Handles) /\ IsInjective(ready)'
      /\ Queue' = (Queue \ {Handle("done", t)}) \cup {h}
  BY <1>1, <1>3, PopPush DEF DoneCallback
<1>5. TypeOK'
  BY <1>4 DEF IInv, TypeOK, DoneCallback, coroutine
<1>6. CreateHandles' /\ RunHandles' /\ DoneHandles'
  BY <1>3, <1>4
     DEF IInv, CreateHandles, RunHandles, DoneHandles, DoneCallback, coroutine, Handle
<1>7. \A c \in Caller : Handle("stop", c) \in Queue' <=> Handle("stop", c) \in Queue
  BY <1>4 DEF Handle
<1>8. StopHandles' /\ AwaitsCreated' /\ FinitelyManyCalls'
  BY <1>7 DEF IInv, StopHandles, AwaitsLive, Live, AwaitsCreated, FinitelyManyCalls,
              DoneCallback, coroutine
<1>9. CancelledWhenPopped' /\ UnlistedIsBeingStopped' /\ ListedForItem' /\ ItemLists'
  BY DEF IInv, CancelledWhenPopped, UnlistedIsBeingStopped, ListedForItem, ItemLists,
         DoneCallback, coroutine, Live
<1>10. CleanedUp'
  BY <1>4 DEF IInv, CleanedUp, DoneCallback, coroutine, Handle
<1> QED
  BY <1>5, <1>6, <1>8, <1>9, <1>10 DEF IInv

\* A list that was dropped is seen by the frames that iterate over it, and nothing
\* else of a call changes.
LEMMA DetachedCalls ==
    ASSUME TypeOK, FinitelyManyCalls, NEW x \in Item, call' \in {Detached(x), call}
    PROVE  /\ call' \in [Caller -> {Idle} \cup Frame]
           /\ FinitelyManyCalls'
           /\ \A c \in Caller :
                 /\ call'[c] = Idle <=> call[c] = Idle
                 /\ call[c] # Idle => /\ call'[c].awaits = call[c].awaits
                                      /\ call'[c].reply = call[c].reply
<1>1. ASSUME NEW c \in Caller
      PROVE  /\ call'[c] \in {Idle} \cup Frame
             /\ call'[c] = Idle <=> call[c] = Idle
             /\ call[c] # Idle => /\ call'[c].awaits = call[c].awaits
                                  /\ call'[c].reply = call[c].reply
  <2>1. CASE call'[c] = call[c]
    BY <2>1 DEF TypeOK
  <2>2. CASE call'[c] = [call[c] EXCEPT !.attached = FALSE] /\ call[c].kind = "item"
    <3>1. call[c] \in Frame
      BY <2>2 DEF TypeOK, Idle
    <3>2. /\ call'[c] \in Frame /\ call'[c].awaits = call[c].awaits
          /\ call'[c].reply = call[c].reply
      BY <2>2, <3>1 DEF Frame
    <3> QED
      BY <3>1, <3>2, FrameFields
  <2> QED
    BY <2>1, <2>2 DEF Detached
<1>2. call' \in [Caller -> {Idle} \cup Frame]
  <2>1. call' = [c \in Caller |-> call'[c]]
    BY DEF Detached, TypeOK
  <2> QED
    BY <1>1, <2>1
<1>3. {c \in Caller : call'[c] # Idle} = {c \in Caller : call[c] # Idle}
  BY <1>1
<1> QED
  BY <1>1, <1>2, <1>3 DEF FinitelyManyCalls

\* The clean-up takes the ended task off both tables, and no other task.
LEMMA CleanupTaskStep == ASSUME IInv, NEW t \in Task, CleanupTask(t) PROVE IInv'
<1>1. TypeOK /\ AtHead("cleanup", t)
  BY DEF IInv, CleanupTask
<1>2. /\ ready' \in Seq(Handles) /\ IsInjective(ready)'
      /\ Handle("cleanup", t) \in Queue /\ Queue' = Queue \ {Handle("cleanup", t)}
  BY <1>1, Pop DEF CleanupTask
<1>3. run[t] = "done" /\ Handle("done", t) \notin Queue
  BY <1>2 DEF IInv, DoneHandles
<1>4. ItemOf[t] \in Item
  BY ItemOfAssumption
<1>5. /\ call' \in [Caller -> {Idle} \cup Frame]
      /\ FinitelyManyCalls'
      /\ \A c \in Caller :
            /\ call'[c] = Idle <=> call[c] = Idle
            /\ call[c] # Idle => /\ call'[c].awaits = call[c].awaits
                                 /\ call'[c].reply = call[c].reply
  BY <1>4, DetachedCalls DEF IInv, CleanupTask
<1> DEFINE l == itemTasks[ItemOf[t]]
           r == RemoveFirst(l, t)
<1>6. l \in Seq(Task) /\ IsInjective(l)
  BY <1>1, <1>4 DEF IInv, TypeOK, ItemLists
<1>7. /\ r \in Seq(Task) /\ IsInjective(r) /\ t \notin Range(r)
      /\ Range(l) \ {t} \subseteq Range(r) /\ Range(r) \subseteq Range(l)
  BY <1>6, RemoveFirstKeeps
<1>8. /\ itemTasks'[ItemOf[t]] = r
      /\ \A x \in Item \ {ItemOf[t]} : itemTasks'[x] = itemTasks[x]
  BY <1>1, <1>4 DEF CleanupTask, TypeOK
<1>9. itemTasks' \in [Item -> Seq(Task)]
  <2>1. itemTasks' = [itemTasks EXCEPT ![ItemOf[t]] = r]
    BY DEF CleanupTask
  <2> HIDE DEF r
  <2> QED
    BY <1>1, <1>7, <2>1 DEF TypeOK
<1> HIDE DEF l, r
<1>10. UNCHANGED <<run, outcome, cancelling, cancelCalls>> /\ tasks' = tasks \ {t}
  BY DEF CleanupTask, coroutine
<1>11. TypeOK'
  BY <1>1, <1>2, <1>5, <1>9, <1>10 DEF TypeOK
<1>12. CreateHandles' /\ RunHandles' /\ DoneHandles'
  BY <1>2, <1>10 DEF IInv, CreateHandles, RunHandles, DoneHandles, Handle
<1>13. \A c \in Caller : Handle("stop", c) \in Queue' <=> Handle("stop", c) \in Queue
  BY <1>2 DEF Handle
<1>14. \A c \in Caller : call[c] # Idle => (AwaitsLive(c)' <=> AwaitsLive(c))
  BY <1>5, <1>10 DEF AwaitsLive, Live
<1>15. StopHandles'
  BY <1>5, <1>13, <1>14 DEF IInv, StopHandles
<1>16. AwaitsCreated'
  BY <1>5, <1>10 DEF IInv, AwaitsCreated
<1>17. CancelledWhenPopped'
  BY <1>10 DEF IInv, CancelledWhenPopped
<1>18. UnlistedIsBeingStopped'
  <2> SUFFICES ASSUME NEW u \in Task, Live(u)', u \notin tasks'
               PROVE  \E c \in Caller :
                          call'[c] # Idle /\ call'[c].awaits = u /\ call'[c].reply = "none"
    BY DEF UnlistedIsBeingStopped
  <2>1. Live(u) /\ u # t /\ u \notin tasks
    BY <1>3, <1>10 DEF Live
  <2>2. PICK c \in Caller : call[c] # Idle /\ call[c].awaits = u /\ call[c].reply = "none"
    BY <2>1 DEF IInv, UnlistedIsBeingStopped
  <2> QED
    BY <1>5, <2>2
<1>19. \A u \in Task \ {t} : u \in Range(itemTasks'[ItemOf[u]]) <=> u \in Range(itemTasks[ItemOf[u]])
  BY <1>7, <1>8, ItemOfAssumption DEF l
<1>20. ListedForItem'
  BY <1>3, <1>10, <1>19 DEF IInv, ListedForItem, Live
<1>21. ItemLists'
  BY <1>7, <1>8, <1>10 DEF IInv, ItemLists, l
<1>22. CleanedUp'
  <2> SUFFICES ASSUME NEW u \in Task, run'[u] = "done", Handle("done", u) \notin Queue',
                      Handle("cleanup", u) \notin Queue'
               PROVE  u \notin tasks' /\ u \notin Range(itemTasks'[ItemOf[u]])
    BY DEF CleanedUp
  <2>1. CASE u = t
    BY <1>7, <1>8, <1>10, <2>1
  <2>2. CASE u # t
    <3>1. run[u] = "done" /\ Handle("done", u) \notin Queue /\ Handle("cleanup", u) \notin Queue
      BY <1>2, <1>10, <2>2 DEF Handle
    <3> QED
      BY <1>10, <1>19, <2>2, <3>1 DEF IInv, CleanedUp
  <2> QED
    BY <2>1, <2>2
<1> QED
  BY <1>5, <1>11, <1>12, <1>15, <1>16, <1>17, <1>18, <1>20, <1>21, <1>22 DEF IInv

--------------------------------------------------------------------------------
(* Steps of the calls *)

\* A call arrives, and will run.
LEMMA StopArrivesStep == ASSUME IInv, NEW c \in Caller, StopArrives(c) PROVE IInv'
<1> DEFINE h == Handle("stop", c)
<1>1. TypeOK /\ call[c] = Idle /\ h \in Handles /\ h \notin Queue
  BY DEF IInv, StopHandles, StopArrives, Handles, Handle
<1>2. ready' \in Seq(Handles) /\ IsInjective(ready)' /\ Queue' = Queue \cup {h}
  BY <1>1, Push DEF StopArrives
<1>3. PICK g \in Frame : /\ call' = [call EXCEPT ![c] = g]
                         /\ g.awaits = NoTask /\ g.reply = "none"
  <2>1. ASSUME NEW x \in Item
        PROVE  [kind |-> "item", item |-> x, attached |-> TRUE, next |-> 0,
                awaits |-> NoTask, reply |-> "none", listed |-> {}] \in Frame
    BY DEF Frame, Reply
  <2>2. ASSUME NEW t \in Task
        PROVE  [kind |-> "task", task |-> t, next |-> 1,
                awaits |-> NoTask, reply |-> "none"] \in Frame
    BY DEF Frame, Reply
  <2> QED
    BY <2>1, <2>2 DEF StopArrives
<1>4. /\ call' \in [Caller -> {Idle} \cup Frame] /\ FinitelyManyCalls'
      /\ call'[c] = g /\ call'[c] # Idle
      /\ \A d \in Caller \ {c} : call'[d] = call[d]
  BY <1>3, OneCall DEF IInv
<1>5. UNCHANGED <<run, outcome, cancelling, cancelCalls, tasks, itemTasks>>
  BY DEF StopArrives, coroutine
<1>6. TypeOK'
  BY <1>2, <1>4, <1>5 DEF IInv, TypeOK
<1>7. CreateHandles' /\ RunHandles' /\ DoneHandles'
  BY <1>2, <1>5 DEF IInv, CreateHandles, RunHandles, DoneHandles, Handle
<1>8. StopHandles' /\ AwaitsCreated'
  BY <1>2, <1>3, <1>4, <1>5
     DEF IInv, StopHandles, AwaitsCreated, AwaitsLive, Live, Handle
<1>9. UnlistedIsBeingStopped'
  <2> SUFFICES ASSUME NEW u \in Task, Live(u)', u \notin tasks'
               PROVE  \E d \in Caller :
                          call'[d] # Idle /\ call'[d].awaits = u /\ call'[d].reply = "none"
    BY DEF UnlistedIsBeingStopped
  <2>1. PICK d \in Caller : call[d] # Idle /\ call[d].awaits = u /\ call[d].reply = "none"
    BY <1>5 DEF IInv, UnlistedIsBeingStopped, Live
  <2> QED
    BY <1>1, <1>4, <2>1
<1>10. CancelledWhenPopped' /\ ListedForItem' /\ ItemLists'
  BY <1>5 DEF IInv, CancelledWhenPopped, ListedForItem, ItemLists, Live
<1>11. CleanedUp'
  BY <1>2, <1>5 DEF IInv, CleanedUp, Handle
<1> QED
  BY <1>4, <1>6, <1>7, <1>8, <1>9, <1>10, <1>11 DEF IInv

\* A call that answers runs no more.
LEMMA AnswerStep ==
    ASSUME IInv, NEW c \in Caller, NEW reply \in Reply \ {"none"},
           AtHead("stop", c), Answer(c, reply)
    PROVE  IInv'
<1> DEFINE g == [call[c] EXCEPT !.reply = reply, !.awaits = NoTask]
<1>1. TypeOK /\ call[c] \in Frame /\ ~AwaitsLive(c)
  BY AtHeadOfStop DEF IInv
<1>2. /\ ready' \in Seq(Handles) /\ IsInjective(ready)'
      /\ Handle("stop", c) \in Queue /\ Queue' = Queue \ {Handle("stop", c)}
  BY <1>1, Pop DEF Answer
<1>3. g \in Frame /\ g.awaits = NoTask /\ g.reply = reply
  BY <1>1 DEF Frame
<1>4. call' = [call EXCEPT ![c] = g]
  BY <1>1 DEF Answer, TypeOK
<1> HIDE DEF g
<1>5. /\ call' \in [Caller -> {Idle} \cup Frame] /\ FinitelyManyCalls'
      /\ call'[c] = g /\ call'[c] # Idle
      /\ \A d \in Caller \ {c} : call'[d] = call[d]
  BY <1>3, <1>4, OneCall DEF IInv
<1>6. UNCHANGED <<run, outcome, cancelling, cancelCalls, tasks, itemTasks>>
  BY DEF Answer, coroutine
<1>7. TypeOK'
  BY <1>1, <1>2, <1>5, <1>6 DEF TypeOK
<1>8. CreateHandles' /\ RunHandles' /\ DoneHandles'
  BY <1>2, <1>6 DEF IInv, CreateHandles, RunHandles, DoneHandles, Handle
<1>9. StopHandles' /\ AwaitsCreated'
  BY <1>2, <1>3, <1>5, <1>6
     DEF IInv, StopHandles, AwaitsCreated, AwaitsLive, Live, Handle
<1>10. UnlistedIsBeingStopped'
  <2> SUFFICES ASSUME NEW u \in Task, Live(u)', u \notin tasks'
               PROVE  \E d \in Caller :
                          call'[d] # Idle /\ call'[d].awaits = u /\ call'[d].reply = "none"
    BY DEF UnlistedIsBeingStopped
  <2>1. PICK d \in Caller : call[d] # Idle /\ call[d].awaits = u /\ call[d].reply = "none"
    BY <1>6 DEF IInv, UnlistedIsBeingStopped, Live
  <2>2. d # c
    BY <1>1, <1>6, <2>1, NoTaskAssumption DEF AwaitsLive, Live
  <2> QED
    BY <1>5, <2>1, <2>2
<1>11. CancelledWhenPopped' /\ ListedForItem' /\ ItemLists'
  BY <1>6 DEF IInv, CancelledWhenPopped, ListedForItem, ItemLists, Live
<1>12. CleanedUp'
  BY <1>2, <1>6 DEF IInv, CleanedUp, Handle
<1> QED
  BY <1>5, <1>7, <1>8, <1>9, <1>10, <1>11, <1>12 DEF IInv

\* A call that goes on without suspending stays at the head of the queue.
LEMMA GoesOnStep ==
    ASSUME IInv, NEW c \in Caller, AtHead("stop", c), NEW g \in Frame,
           g.awaits \in {NoTask, call[c].awaits}, g.reply = call[c].reply,
           call' = [call EXCEPT ![c] = g],
           UNCHANGED <<ready, coroutine, tasks, itemTasks>>
    PROVE  IInv'
<1>1. TypeOK /\ call[c] \in Frame /\ ~AwaitsLive(c) /\ call[c].reply = "none"
      /\ Handle("stop", c) \in Queue /\ call[c] # Idle
  BY AtHeadOfStop, FrameFields DEF IInv
<1>2. UNCHANGED <<ready, run, outcome, cancelling, cancelCalls, tasks, itemTasks>> /\ Queue' = Queue
  BY DEF coroutine, Queue
<1>3. /\ call' \in [Caller -> {Idle} \cup Frame] /\ FinitelyManyCalls'
      /\ call'[c] = g /\ call'[c] # Idle
      /\ \A d \in Caller \ {c} : call'[d] = call[d]
  BY OneCall DEF IInv
<1>4. TypeOK'
  BY <1>1, <1>2, <1>3 DEF TypeOK
<1>5. CreateHandles' /\ RunHandles' /\ DoneHandles'
  BY <1>2 DEF IInv, CreateHandles, RunHandles, DoneHandles
<1>6. StopHandles' /\ AwaitsCreated'
  BY <1>1, <1>2, <1>3 DEF IInv, StopHandles, AwaitsCreated, AwaitsLive, Live
<1>7. UnlistedIsBeingStopped'
  <2> SUFFICES ASSUME NEW u \in Task, Live(u)', u \notin tasks'
               PROVE  \E d \in Caller :
                          call'[d] # Idle /\ call'[d].awaits = u /\ call'[d].reply = "none"
    BY DEF UnlistedIsBeingStopped
  <2>1. PICK d \in Caller : call[d] # Idle /\ call[d].awaits = u /\ call[d].reply = "none"
    BY <1>2 DEF IInv, UnlistedIsBeingStopped, Live
  <2>2. d # c
    BY <1>1, <1>2, <2>1, NoTaskAssumption DEF AwaitsLive, Live
  <2> QED
    BY <1>3, <2>1, <2>2
<1>8. CancelledWhenPopped' /\ ListedForItem' /\ ItemLists' /\ CleanedUp'
  BY <1>2 DEF IInv, CancelledWhenPopped, ListedForItem, ItemLists, CleanedUp, Live
<1> QED
  BY <1>3, <1>4, <1>5, <1>6, <1>7, <1>8 DEF IInv

LEMMA FetchIdsStep == ASSUME IInv, NEW c \in Caller, FetchIds(c) PROVE IInv'
<1>1. AtHead("stop", c) /\ call[c] \in Frame /\ TypeOK /\ call[c].next = 0
  BY AtHeadOfStop DEF FetchIds, IInv
<1>2. CASE Answer(c, "noTasks")
  BY <1>1, <1>2, AnswerStep DEF Reply
<1>3. CASE /\ call' = [call EXCEPT ![c].next = 1, ![c].listed = Range(IdsOf(c))]
           /\ UNCHANGED <<ready, coroutine, tasks, itemTasks>>
  <2> DEFINE g == [call[c] EXCEPT !.next = 1, !.listed = Range(IdsOf(c))]
  <2>1. call[c].kind = "item"
    BY <1>1, FrameFields
  <2>2. Range(IdsOf(c)) \subseteq Task
    <3>1. IdsOf(c) \in Seq(Task)
      BY <1>1, <2>1, FrameFields DEF IdsOf, TypeOK
    <3> QED
      BY <3>1, RangeOfSeq
  <2>3. g \in Frame /\ g.awaits = call[c].awaits /\ g.reply = call[c].reply
    BY <1>1, <2>1, <2>2 DEF Frame
  <2>4. call' = [call EXCEPT ![c] = g]
    BY <1>1, <1>3 DEF TypeOK
  <2> HIDE DEF g
  <2> QED
    BY <1>1, <1>3, <2>3, <2>4, GoesOnStep
<1> QED
  BY <1>2, <1>3 DEF FetchIds

LEMMA ResumedStep == ASSUME IInv, NEW c \in Caller, Resumed(c) PROVE IInv'
<1>1. AtHead("stop", c) /\ call[c] \in Frame /\ TypeOK
  BY AtHeadOfStop DEF Resumed, IInv
<1>2. CASE Answer(c, "raised")
  BY <1>1, <1>2, AnswerStep DEF Reply
<1>3. CASE /\ call' = [call EXCEPT ![c].awaits = NoTask]
           /\ UNCHANGED <<ready, coroutine, tasks, itemTasks>>
  <2> DEFINE g == [call[c] EXCEPT !.awaits = NoTask]
  <2>1. g \in Frame /\ g.awaits = NoTask /\ g.reply = call[c].reply
    BY <1>1 DEF Frame
  <2>2. call' = [call EXCEPT ![c] = g]
    BY <1>1, <1>3 DEF TypeOK
  <2> HIDE DEF g
  <2> QED
    BY <1>1, <1>3, <2>1, <2>2, GoesOnStep
<1> QED
  BY <1>2, <1>3 DEF Resumed

\* The id leaves `tasks` in the step that cancels the task and awaits it.
LEMMA StopNextStep == ASSUME IInv, NEW c \in Caller, StopNext(c) PROVE IInv'
<1>1. AtHead("stop", c) /\ TypeOK
  BY DEF StopNext, Iterates, IInv
<1>2. /\ call[c] \in Frame /\ call[c] # Idle /\ call[c].reply = "none"
      /\ Handle("stop", c) \in Queue /\ call[c].awaits = NoTask
  BY <1>1, AtHeadOfStop, FrameFields DEF StopNext, Iterates
<1>3. PICK t \in tasks : /\ tasks' = tasks \ {t}
                         /\ call' = [call EXCEPT ![c].next = @ + 1, ![c].awaits = t]
                         /\ Cancel(t)
                         /\ UNCHANGED <<outcome, itemTasks>>
  BY DEF StopNext
<1>4. /\ t \in Task /\ t # NoTask /\ cancelCalls[t] = 0
      /\ run[t] \in RunState \ {"new", "creating"}
  BY <1>1, NoTaskAssumption DEF IInv, TypeOK, CancelledWhenPopped
<1> DEFINE g == [call[c] EXCEPT !.next = @ + 1, !.awaits = t]
<1>5. g \in Frame /\ g.awaits = t /\ g.reply = "none"
  <2>1. call[c].next \in Nat /\ call[c].next + 1 \in Nat \ {0}
    BY <1>2, FrameFields
  <2> QED
    BY <1>2, <1>4, <2>1 DEF Frame
<1>6. call' = [call EXCEPT ![c] = g]
  BY <1>1, <1>3 DEF TypeOK
<1> HIDE DEF g
<1>7. /\ call' \in [Caller -> {Idle} \cup Frame] /\ FinitelyManyCalls'
      /\ call'[c] = g /\ call'[c] # Idle
      /\ \A d \in Caller \ {c} : call'[d] = call[d]
  BY <1>5, <1>6, OneCall DEF IInv
<1>8. \A u \in Task \ {t} : run'[u] = run[u] /\ cancelCalls'[u] = cancelCalls[u]
  BY <1>1, <1>3 DEF TypeOK, Cancel
<1>9. /\ Live(t)' <=> Live(t)
      /\ run'[t] = "done" <=> run[t] = "done"
      /\ run'[t] \notin {"new", "creating"}
      /\ run' \in [Task -> RunState]
  BY <1>1, <1>3, <1>4 DEF TypeOK, Cancel, Live, RunState
<1>10. cancelCalls' \in [Task -> Nat] /\ cancelCalls'[t] <= 1 /\ cancelling' \subseteq Task
  <2>1. CASE Live(t)
    <3>1. cancelCalls' = [cancelCalls EXCEPT ![t] = 1] /\ cancelling' = cancelling \cup {t}
      BY <1>1, <1>3, <1>4, <2>1 DEF TypeOK, Cancel
    <3> QED
      BY <1>1, <1>4, <3>1 DEF TypeOK
  <2>2. CASE ~Live(t)
    BY <1>1, <1>3, <1>4, <2>2 DEF TypeOK, Cancel
  <2> QED
    BY <2>1, <2>2
<1>11. /\ ready' \in Seq(Handles) /\ IsInjective(ready)'
       /\ IF Live(t)
          THEN Queue' = (Queue \ {Handle("stop", c)})
                            \cup IF run[t] = "waiting" THEN {Handle("run", t)} ELSE {}
          ELSE Queue' = Queue
  <2>1. CASE run[t] = "waiting"
    <3>1. Handle("run", t) \in Handles /\ Handle("run", t) \notin Queue
      BY <1>4, <2>1 DEF IInv, RunHandles, Handles, Handle
    <3>2. Live(t) /\ ready' = Append(Tail(ready), Handle("run", t))
      BY <1>3, <2>1 DEF Live, Cancel
    <3> QED
      BY <1>1, <2>1, <3>1, <3>2, PopPush
  <2>2. CASE Live(t) /\ run[t] # "waiting"
    <3>1. ready' = Tail(ready)
      BY <1>3, <2>2 DEF Cancel
    <3> QED
      BY <1>1, <2>2, <3>1, Pop
  <2>3. CASE ~Live(t)
    BY <1>1, <1>3, <2>3 DEF Cancel, TypeOK, Queue
  <2> QED
    BY <2>1, <2>2, <2>3
<1>12. TypeOK'
  BY <1>1, <1>3, <1>7, <1>9, <1>10, <1>11 DEF TypeOK
<1>13. run'[t] = IF run[t] = "waiting" THEN "scheduled" ELSE run[t]
  BY <1>1, <1>3, <1>4 DEF TypeOK, Cancel, Live
<1>14. CreateHandles' /\ RunHandles' /\ DoneHandles'
  BY <1>4, <1>8, <1>11, <1>13
     DEF IInv, CreateHandles, RunHandles, DoneHandles, Handle, Live, RunState
<1>15. AwaitsLive(c)' <=> Live(t)
  BY <1>4, <1>5, <1>7, <1>9 DEF AwaitsLive, Live
<1>16. Handle("stop", c) \in Queue' <=> ~Live(t)
  BY <1>2, <1>11 DEF Handle
<1>17. ASSUME NEW d \in Caller \ {c}
       PROVE  /\ Handle("stop", d) \in Queue' <=> Handle("stop", d) \in Queue
              /\ call[d] # Idle => (AwaitsLive(d)' <=> AwaitsLive(d))
  <2>1. Handle("stop", d) \in Queue' <=> Handle("stop", d) \in Queue
    BY <1>11 DEF Handle
  <2>2. ASSUME call[d] # Idle PROVE AwaitsLive(d)' <=> AwaitsLive(d)
    <3>1. call'[d] = call[d] /\ call[d].awaits \in Task \cup {NoTask}
      BY <1>1, <1>7, <2>2, FrameFields DEF TypeOK
    <3>2. \A u \in Task : Live(u)' <=> Live(u)
      BY <1>8, <1>9 DEF Live
    <3> QED
      BY <3>1, <3>2 DEF AwaitsLive
  <2> QED
    BY <2>1, <2>2
<1>18. StopHandles'
  BY <1>5, <1>7, <1>15, <1>16, <1>17 DEF IInv, StopHandles
<1>19. AwaitsCreated'
  <2>1. \A u \in Task : run[u] \notin {"new", "creating"} => run'[u] \notin {"new", "creating"}
    BY <1>8, <1>9
  <2>2. \A d \in Caller : call[d] # Idle => call[d].awaits \in Task \cup {NoTask}
    BY <1>1, FrameFields DEF TypeOK
  <2>3. \A d \in Caller \ {c} : call'[d] # Idle /\ call'[d].awaits # NoTask =>
            run'[call'[d].awaits] \notin {"new", "creating"} /\ call'[d].reply = "none"
    BY <1>7, <2>1, <2>2 DEF IInv, AwaitsCreated
  <2>4. run'[call'[c].awaits] \notin {"new", "creating"} /\ call'[c].reply = "none"
    BY <1>5, <1>7, <1>9
  <2> QED
    BY <2>3, <2>4 DEF AwaitsCreated
<1>20. CancelledWhenPopped'
  BY <1>3, <1>4, <1>8, <1>9, <1>10 DEF IInv, CancelledWhenPopped
<1>21. UnlistedIsBeingStopped'
  <2> SUFFICES ASSUME NEW u \in Task, Live(u)', u \notin tasks'
               PROVE  \E d \in Caller :
                          call'[d] # Idle /\ call'[d].awaits = u /\ call'[d].reply = "none"
    BY DEF UnlistedIsBeingStopped
  <2>1. CASE u = t
    BY <1>5, <1>7, <2>1
  <2>2. CASE u # t
    <3>1. PICK d \in Caller : call[d] # Idle /\ call[d].awaits = u /\ call[d].reply = "none"
      BY <1>3, <1>8, <2>2 DEF IInv, UnlistedIsBeingStopped, Live
    <3>2. d # c
      BY <1>2, <3>1, NoTaskAssumption
    <3> QED
      BY <1>7, <3>1, <3>2
  <2> QED
    BY <2>1, <2>2
<1>22. ListedForItem'
  BY <1>3, <1>8, <1>9 DEF IInv, ListedForItem, Live
<1>23. ItemLists'
  <2>1. \A x \in Item : \A u \in Range(itemTasks[x]) : u \in Task
    BY <1>1, RangeOfSeq DEF TypeOK
  <2> QED
    BY <1>3, <1>8, <1>9, <2>1 DEF IInv, ItemLists
<1>24. CleanedUp'
  BY <1>3, <1>4, <1>8, <1>9, <1>11 DEF IInv, CleanedUp, Handle
<1> QED
  BY <1>7, <1>12, <1>14, <1>18, <1>19, <1>20, <1>21, <1>22, <1>23, <1>24 DEF IInv

--------------------------------------------------------------------------------
(* The invariant holds in every state *)

\* Each step of the loop and each arrival preserves it.
LEMMA StepIInv == IInv /\ [Next]_vars => IInv'
<1> SUFFICES ASSUME IInv, [Next]_vars PROVE IInv'
  OBVIOUS
<1>1. ASSUME NEW t \in Task, CreateArrives(t) \/ CreateTask(t) \/ Wake(t) \/ RunOn(t) PROVE IInv'
  BY <1>1, CreateArrivesStep, CreateTaskStep, WakeStep, RunOnStep
<1>2. ASSUME NEW t \in Task, NEW how \in Outcome \ {"none"}, End(t, how) PROVE IInv'
  BY <1>2, EndStep
<1>3. ASSUME NEW t \in Task, DoneCallback(t) \/ CleanupTask(t) PROVE IInv'
  BY <1>3, DoneCallbackStep, CleanupTaskStep
<1>4. ASSUME NEW c \in Caller, StopArrives(c) \/ FetchIds(c) \/ Resumed(c) \/ StopNext(c) PROVE IInv'
  BY <1>4, StopArrivesStep, FetchIdsStep, ResumedStep, StopNextStep
<1>5. ASSUME NEW c \in Caller, AllStopped(c) PROVE IInv'
  <2>1. AtHead("stop", c) /\ Answer(c, "stopped") /\ "stopped" \in Reply \ {"none"}
    BY <1>5 DEF AllStopped, Iterates, Reply
  <2> QED
    BY <2>1, AnswerStep
<1>6. ASSUME NEW c \in Caller, StopNotFound(c) PROVE IInv'
  <2>1. AtHead("stop", c) /\ Answer(c, "notFound") /\ "notFound" \in Reply \ {"none"}
    BY <1>6 DEF StopNotFound, Iterates, Reply
  <2> QED
    BY <2>1, AnswerStep
<1>7. CASE UNCHANGED vars
  <2>1. UNCHANGED <<ready, run, outcome, cancelling, cancelCalls, tasks, itemTasks, call>>
    BY <1>7 DEF vars
  <2>2. TypeOK' /\ CreateHandles' /\ RunHandles' /\ DoneHandles' /\ StopHandles' /\ AwaitsCreated'
    BY <2>1 DEF IInv, TypeOK, Queue, CreateHandles, RunHandles, DoneHandles, StopHandles,
                AwaitsLive, Live, AwaitsCreated
  <2>3. /\ FinitelyManyCalls' /\ CancelledWhenPopped' /\ UnlistedIsBeingStopped'
        /\ ListedForItem' /\ ItemLists' /\ CleanedUp'
    BY <2>1 DEF IInv, Queue, FinitelyManyCalls, CancelledWhenPopped, UnlistedIsBeingStopped,
                ListedForItem, ItemLists, CleanedUp, Live
  <2> QED
    BY <2>2, <2>3 DEF IInv
<1> QED
  BY <1>1, <1>2, <1>3, <1>4, <1>5, <1>6, <1>7 DEF Next

\* The inductive invariant holds in every state.
THEOREM Invariant == Spec => []IInv
BY InitIInv, StepIInv, PTL DEF Spec

\* Every state is well typed: the queue never holds a handle twice, so that no
\* coroutine, callback or call runs twice for one reason.
THEOREM TypeCorrect == Spec => []TypeOK
<1>1. IInv => TypeOK
  BY DEF IInv
<1> QED
  BY <1>1, Invariant, PTL

--------------------------------------------------------------------------------
(* Safety *)

\* However many calls of stop_task and stop_item_tasks meet, Task.cancel() is called
\* once on a task at most: what it saves when it is cancelled is not cancelled too.
THEOREM CancelledAtMostOnceAlways == Spec => []CancelledAtMostOnce
<1>1. IInv => CancelledAtMostOnce
  BY DEF IInv, CancelledWhenPopped, CancelledAtMostOnce
<1> QED
  BY <1>1, Invariant, PTL

\* A running task is in `tasks`, or a stop that has not answered waits for its end.
THEOREM UnlistedIsBeingStoppedAlways == Spec => []UnlistedIsBeingStopped
<1>1. IInv => UnlistedIsBeingStopped
  BY DEF IInv
<1> QED
  BY <1>1, Invariant, PTL

\* The list of an item names all its running tasks, whatever clean-ups shorten it.
THEOREM ListedForItemAlways == Spec => []ListedForItem
<1>1. IInv => ListedForItem
  BY DEF IInv
<1> QED
  BY <1>1, Invariant, PTL

\* No call is left asleep: a call that has not answered is in the queue, or awaits a
\* task that still runs and will wake it.
NoCallStranded ==
    \A c \in Caller : call[c] # Idle /\ call[c].reply = "none" =>
        Handle("stop", c) \in Queue \/ AwaitsLive(c)

THEOREM NoCallStrandedAlways == Spec => []NoCallStranded
<1>1. IInv => NoCallStranded
  BY DEF IInv, StopHandles, NoCallStranded
<1> QED
  BY <1>1, Invariant, PTL

\* The tables do not leak: an ended task is in neither of them, unless its clean-up is
\* still to come.
THEOREM CleanedUpAlways == Spec => []CleanedUp
<1>1. IInv => CleanedUp
  BY DEF IInv
<1> QED
  BY <1>1, Invariant, PTL

--------------------------------------------------------------------------------
(* Refinement *)

\* phaseBar only depends on run and cancelCalls.
LEMMA PhaseUnchanged ==
    ASSUME UNCHANGED <<run, cancelCalls>> PROVE UNCHANGED phaseBar
BY DEF phaseBar, phaseOf, Live

\* What a step does to one task decides what it does to phaseBar.
LEMMA PhaseOfOne ==
    ASSUME NEW t \in Task, NEW p,
           \A u \in Task \ {t} : run'[u] = run[u] /\ cancelCalls'[u] = cancelCalls[u],
           phaseOf(t)' = p
    PROVE  phaseBar' = [phaseBar EXCEPT ![t] = p]
<1>1. \A u \in Task \ {t} : phaseOf(u)' = phaseOf(u)
  BY DEF phaseOf, Live
<1> QED
  BY <1>1 DEF phaseBar

\* create_task starts a task whose id nobody could stop before.
LEMMA CreateTaskIsStart ==
    ASSUME IInv, NEW t \in Task, CreateTask(t) PROVE Lifecycle!Start(t)
<1>1. run[t] = "creating" /\ cancelCalls[t] = 0 /\ cancelCalls' = cancelCalls
  <2>1. Handle("create", t) \in Queue
    BY TailOfInjective DEF CreateTask, AtHead, IInv, TypeOK, Queue
  <2> QED
    BY <2>1 DEF CreateTask, IInv, CreateHandles, CancelledWhenPopped
<1>2. run' = [run EXCEPT ![t] = "starting"] /\ run \in [Task -> RunState]
  BY DEF CreateTask, IInv, TypeOK
<1>3. phaseBar[t] = "new" /\ phaseOf(t)' = "running"
  BY <1>1, <1>2 DEF phaseBar, phaseOf, Live
<1> QED
  BY <1>1, <1>2, <1>3, PhaseOfOne DEF Lifecycle!Start

\* The coroutine ends once, running or stopping.
LEMMA EndIsEnd ==
    ASSUME IInv, NEW t \in Task, NEW how, End(t, how) PROVE Lifecycle!End(t)
<1>1. Live(t)
  <2>1. Handle("run", t) \in Queue
    BY TailOfInjective DEF End, AtHead, IInv, TypeOK, Queue
  <2> QED
    BY <2>1 DEF IInv, RunHandles, Live
<1>2. /\ run' = [run EXCEPT ![t] = "done"] /\ run \in [Task -> RunState]
      /\ cancelCalls' = cancelCalls
  BY DEF End, IInv, TypeOK
<1>3. phaseBar[t] \in {"running", "stopping"} /\ phaseOf(t)' = "ended"
  BY <1>1, <1>2 DEF phaseBar, phaseOf, Live
<1> QED
  BY <1>2, <1>3, PhaseOfOne DEF Lifecycle!End

\* A stop that finds a running task in `tasks` asks it to stop, and is the first to.
LEMMA StopNextIsRequest ==
    ASSUME IInv, NEW c \in Caller, StopNext(c)
    PROVE  (\E t \in Task : Lifecycle!RequestStop(t)) \/ UNCHANGED phaseBar
<1>1. PICK t \in tasks : Cancel(t)
  BY DEF StopNext
<1>2. /\ t \in Task /\ cancelCalls[t] = 0
      /\ run \in [Task -> RunState] /\ cancelCalls \in [Task -> Nat]
  BY DEF IInv, TypeOK, CancelledWhenPopped
<1>3. CASE ~Live(t)
  BY <1>1, <1>3, PhaseUnchanged DEF Cancel
<1>4. CASE Live(t)
  <2>1. /\ cancelCalls' = [cancelCalls EXCEPT ![t] = 1]
        /\ run' = [run EXCEPT ![t] = IF @ = "waiting" THEN "scheduled" ELSE @]
    BY <1>1, <1>2, <1>4 DEF Cancel
  <2>2. run'[t] \in {"starting", "scheduled", "waiting"} /\ cancelCalls'[t] = 1
    BY <1>2, <1>4, <2>1 DEF Live
  <2>3. phaseBar[t] = "running" /\ phaseOf(t)' = "stopping"
    BY <1>2, <1>4, <2>2 DEF phaseBar, phaseOf, Live
  <2>4. \A u \in Task \ {t} : run'[u] = run[u] /\ cancelCalls'[u] = cancelCalls[u]
    BY <1>2, <2>1
  <2> QED
    BY <1>2, <2>3, <2>4, PhaseOfOne DEF Lifecycle!RequestStop
<1> QED
  BY <1>3, <1>4

\* A coroutine that is woken or that waits again is in the same phase.
LEMMA RunStutters ==
    ASSUME IInv, NEW t \in Task, Wake(t) \/ RunOn(t) PROVE UNCHANGED phaseBar
<1>1. Live(t)
  <2>1. CASE Wake(t)
    BY <2>1 DEF Wake, Live
  <2>2. CASE RunOn(t)
    <3>1. Handle("run", t) \in Queue
      BY <2>2, TailOfInjective DEF RunOn, AtHead, IInv, TypeOK, Queue
    <3> QED
      BY <3>1 DEF IInv, RunHandles, Live
  <2> QED
    BY <2>1, <2>2
<1>2. /\ cancelCalls' = cancelCalls /\ run \in [Task -> RunState]
      /\ run'[t] \in {"scheduled", "waiting"} /\ \A u \in Task \ {t} : run'[u] = run[u]
  BY DEF Wake, RunOn, IInv, TypeOK
<1>3. \A u \in Task : phaseOf(u)' = phaseOf(u)
  BY <1>1, <1>2 DEF phaseOf, Live
<1> QED
  BY <1>3 DEF phaseBar

\* A request that reaches the loop has started nothing yet.
LEMMA ArrivalStutters ==
    ASSUME IInv, NEW t \in Task, CreateArrives(t) PROVE UNCHANGED phaseBar
<1>1. /\ cancelCalls' = cancelCalls /\ run \in [Task -> RunState]
      /\ run[t] = "new" /\ run' = [run EXCEPT ![t] = "creating"]
  BY DEF CreateArrives, IInv, TypeOK
<1>2. \A u \in Task : phaseOf(u)' = phaseOf(u)
  BY <1>1 DEF phaseOf, Live
<1> QED
  BY <1>2 DEF phaseBar

\* The dictionary, the lists and the event loop implement the life cycle: callbacks,
\* clean-ups, frames and answers are invisible in it.
THEOREM RefinesLifecycle == Spec => Lifecycle!Spec
<1>1. Init => Lifecycle!Init
  BY DEF Init, Lifecycle!Init, phaseBar, phaseOf, Live
<1>2. IInv /\ [Next]_vars => [Lifecycle!Next]_phaseBar
  <2> SUFFICES ASSUME IInv, [Next]_vars PROVE [Lifecycle!Next]_phaseBar
    OBVIOUS
  <2>1. ASSUME UNCHANGED coroutine PROVE UNCHANGED phaseBar
    BY <2>1, PhaseUnchanged DEF coroutine
  <2>2. CASE \E t \in Task : DoneCallback(t) \/ CleanupTask(t)
    BY <2>1, <2>2 DEF DoneCallback, CleanupTask
  <2>3. CASE \E c \in Caller : \/ StopArrives(c) \/ FetchIds(c) \/ Resumed(c)
                               \/ AllStopped(c) \/ StopNotFound(c)
    BY <2>1, <2>3 DEF StopArrives, FetchIds, Resumed, AllStopped, StopNotFound, Answer
  <2>4. CASE UNCHANGED vars
    BY <2>4, PhaseUnchanged DEF vars
  <2>5. ASSUME NEW t \in Task, CreateArrives(t) \/ Wake(t) \/ RunOn(t)
        PROVE  UNCHANGED phaseBar
    BY <2>5, ArrivalStutters, RunStutters
  <2>6. ASSUME NEW t \in Task, CreateTask(t) PROVE Lifecycle!Next
    BY <2>6, CreateTaskIsStart DEF Lifecycle!Next
  <2>7. ASSUME NEW t \in Task, NEW how \in Outcome \ {"none"}, End(t, how) PROVE Lifecycle!Next
    BY <2>7, EndIsEnd DEF Lifecycle!Next
  <2>8. ASSUME NEW c \in Caller, StopNext(c) PROVE [Lifecycle!Next]_phaseBar
    BY <2>8, StopNextIsRequest DEF Lifecycle!Next
  <2> QED
    BY <2>2, <2>3, <2>4, <2>5, <2>6, <2>7, <2>8 DEF Next
<1> QED
  BY <1>1, <1>2, Invariant, PTL DEF Spec, Lifecycle!Spec

================================================================================
