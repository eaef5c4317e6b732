----------------------------- MODULE Socket_proofs -----------------------------
(***************************************************************************)
(* Proofs about two parts of the socket server.                            *)
(*                                                                         *)
(* CleanupLock, for any number of processes and any times: one cleaner at  *)
(* a time when the lock outlives a late pass, and, without that condition, *)
(* that a process skips the cleanup only for a live one.                   *)
(*                                                                         *)
(* NoteSession, for any number of editors: connected editors converge, the *)
(* document is filled with the stored text once, and dropped with its last *)
(* member; and, in behaviours without upsets, the stored note ends up with *)
(* all the text that was typed.                                            *)
(***************************************************************************)
EXTENDS CleanupLock, NoteSession, SequenceTheorems, FiniteSetTheorems, TLAPS

--------------------------------------------------------------------------------
(* CleanupLock: type correctness *)

\* A retry waits between half the lock's time-out and the whole of it.
LEMMA DelayRange == \A d \in Delays : d \in Nat /\ d <= LockTimeout /\ 2 * d >= LockTimeout
BY TimeAssumption DEF Delays

\* The longest delay is one of them.
LEMMA LongestDelay == LockTimeout \in Delays
BY TimeAssumption DEF Delays

\* One command, sleep or failure of any process keeps every state well typed.
LEMMA TypeStep == TypeOK /\ [Next]_vars => TypeOK'
<1> SUFFICES ASSUME TypeOK, [Next]_vars PROVE TypeOK'
  OBVIOUS
<1> USE TimeAssumption, DelayRange, LongestDelay
        DEF TypeOK, PC, max_retries, SetLock, Due
<1>1. ASSUME NEW i \in Instance, Boot(i) PROVE TypeOK'
  BY <1>1 DEF Boot
<1>2. ASSUME NEW i \in Instance, Acquire(i) PROVE TypeOK'
  BY <1>2 DEF Acquire
<1>3. ASSUME NEW i \in Instance, AcquireFails(i) PROVE TypeOK'
  <2>1. witness' \in [Instance -> BOOLEAN]
    <3>1. CASE attempt[i] = 0
      BY <1>3, <3>1 DEF AcquireFails
    <3>2. CASE attempt[i] # 0
      BY <1>3, <3>2 DEF AcquireFails
    <3> QED
      BY <3>1, <3>2
  <2>2. pc' \in [Instance -> PC] /\ attempt' \in [Instance -> 0 .. max_retries]
    <3>1. CASE attempt[i] < max_retries
      BY <1>3, <3>1 DEF AcquireFails
    <3>2. CASE ~(attempt[i] < max_retries)
      BY <1>3, <3>2 DEF AcquireFails
    <3> QED
      BY <3>1, <3>2
  <2>3. timer' \in [Instance -> Int]
    <3>1. delay[i] \in Delays
      OBVIOUS
    <3>2. delay[i] \in Int
      BY <3>1 DEF Delays
    <3> QED
      BY <1>3, <3>2 DEF AcquireFails
  <2> QED
    BY <1>3, <2>1, <2>2, <2>3 DEF AcquireFails
<1>4. ASSUME NEW i \in Instance, Renew(i) PROVE TypeOK'
  <2>1. witness' \in [Instance -> BOOLEAN]
    <3>1. CASE lock # None
      BY <1>4, <3>1 DEF Renew
    <3>2. CASE lock = None
      BY <1>4, <3>2 DEF Renew
    <3> QED
      BY <3>1, <3>2
  <2>2. /\ lock' \in Instance \cup {None, Gone}
        /\ ttl' \in 0 .. LockTimeout
        /\ pc' \in [Instance -> PC]
    BY <1>4 DEF Renew
  <2> QED
    BY <1>4, <2>1, <2>2 DEF Renew
<1>5. ASSUME NEW i \in Instance, FinishPass(i) PROVE TypeOK'
  BY <1>5 DEF FinishPass
<1>6. ASSUME NEW i \in Instance, PassRaises(i) PROVE TypeOK'
  BY <1>6 DEF PassRaises
<1>7. ASSUME NEW i \in Instance, Cancel(i) PROVE TypeOK'
  BY <1>7 DEF Cancel
<1>8. ASSUME NEW i \in Instance, ReleaseGet(i) PROVE TypeOK'
  BY <1>8 DEF ReleaseGet
<1>9. ASSUME NEW i \in Instance, ReleaseDelete(i) PROVE TypeOK'
  BY <1>9 DEF ReleaseDelete
<1>10. ASSUME NEW i \in Instance, Stop(i) PROVE TypeOK'
  BY <1>10 DEF Stop
<1>11. ASSUME Tick PROVE TypeOK'
  BY <1>11 DEF Tick, Timed
<1>12. CASE UNCHANGED vars
  BY <1>12 DEF vars
<1> QED
  BY <1>1, <1>2, <1>3, <1>4, <1>5, <1>6, <1>7, <1>8, <1>9, <1>10, <1>11, <1>12 DEF Next

\* Every state is well typed: attempts stay below the limit and the time to
\* live below the time-out of the lock.
THEOREM TypeCorrect == Spec => []TypeOK
<1>1. Init => TypeOK
  BY TimeAssumption, LongestDelay DEF Init, TypeOK, PC, max_retries
<1> QED
  BY <1>1, TypeStep, PTL DEF Spec

--------------------------------------------------------------------------------
(* The invariants *)

\* A key has time to live; a process that is down has no timer and no attempt
\* behind it; nobody is later than MaxLate, and a pass begins when it is due.
TimeInv ==
    /\ lock # None => ttl > 0
    /\ \A i \in Instance :
          /\ pc[i] = "down" => timer[i] = 0 /\ attempt[i] = 0
          /\ Timed(i) => timer[i] >= -MaxLate
          /\ pc[i] = "pass" => timer[i] <= 0

\* While a process retries and no live one set the key, the key runs out before
\* its last attempt: each failed attempt leaves a retry_delay less of it.
TryInv ==
    \A i \in Instance :
        /\ pc[i] = "trying" /\ ~witness[i] /\ attempt[i] = 1 =>
              ttl = 0 \/ ttl <= LockTimeout - delay[i] + timer[i]
        /\ pc[i] = "trying" /\ ~witness[i] /\ attempt[i] = 2 =>
              ttl = 0 \/ ttl <= LockTimeout - 2 * delay[i] + timer[i]
        /\ pc[i] = "gaveUp" => witness[i]

\* What is left of the key when a sleep between passes is over.
Slack == LockTimeout - Period - MaxLate

\* From acquisition to release the key is ours and outlives what we wait for.
HoldInv ==
    \A i \in Instance :
        /\ pc[i] \in {"cleaning", "releasing", "deleting"} =>
              lock = i /\ ttl >= timer[i] + Slack
        /\ pc[i] = "pass" => lock = i /\ ttl >= timer[i] + LockTimeout

\* No step breaks TimeInv.
LEMMA TimeStep == TypeOK /\ TimeInv /\ [Next]_vars => TimeInv'
<1> SUFFICES ASSUME TypeOK, TimeInv, [Next]_vars PROVE TimeInv'
  OBVIOUS
<1> USE TimeAssumption, DistinctAssumption DEF TypeOK, TimeInv, SetLock, Due, Timed
<1>1. ASSUME NEW i \in Instance, Boot(i) PROVE TimeInv'
  BY <1>1 DEF Boot
<1>2. ASSUME NEW i \in Instance, Acquire(i) PROVE TimeInv'
  BY <1>2 DEF Acquire
<1>3. ASSUME NEW i \in Instance, AcquireFails(i) PROVE TimeInv'
  <2>1. delay[i] \in Nat
    BY DEF Delays
  <2> QED
    BY <1>3, <2>1 DEF AcquireFails
<1>4. ASSUME NEW i \in Instance, Renew(i) PROVE TimeInv'
  BY <1>4 DEF Renew
<1>5. ASSUME NEW i \in Instance, FinishPass(i) PROVE TimeInv'
  BY <1>5 DEF FinishPass
<1>6. ASSUME NEW i \in Instance, PassRaises(i) PROVE TimeInv'
  BY <1>6 DEF PassRaises
<1>7. ASSUME NEW i \in Instance, Cancel(i) PROVE TimeInv'
  BY <1>7 DEF Cancel
<1>8. ASSUME NEW i \in Instance, ReleaseGet(i) PROVE TimeInv'
  BY <1>8 DEF ReleaseGet
<1>9. ASSUME NEW i \in Instance, ReleaseDelete(i) PROVE TimeInv'
  BY <1>9 DEF ReleaseDelete
<1>10. ASSUME NEW i \in Instance, Stop(i) PROVE TimeInv'
  BY <1>10 DEF Stop
<1>11. ASSUME Tick PROVE TimeInv'
  BY <1>11 DEF Tick
<1>12. CASE UNCHANGED vars
  BY <1>12 DEF vars
<1> QED
  BY <1>1, <1>2, <1>3, <1>4, <1>5, <1>6, <1>7, <1>8, <1>9, <1>10, <1>11, <1>12 DEF Next

\* No step breaks HoldInv when the lock outlives a late pass.
LEMMA HoldStep ==
    Timely /\ TypeOK /\ TimeInv /\ HoldInv /\ [Next]_vars => HoldInv'
<1> SUFFICES ASSUME Timely, TypeOK, TimeInv, HoldInv, [Next]_vars PROVE HoldInv'
  OBVIOUS
<1> USE TimeAssumption, DistinctAssumption
        DEF Timely, Slack, TypeOK, TimeInv, HoldInv, SetLock, Due, Timed
<1>1. ASSUME NEW i \in Instance, Boot(i) PROVE HoldInv'
  BY <1>1 DEF Boot
<1>2. ASSUME NEW i \in Instance, Acquire(i) PROVE HoldInv'
  BY <1>2 DEF Acquire
<1>3. ASSUME NEW i \in Instance, AcquireFails(i) PROVE HoldInv'
  BY <1>3 DEF AcquireFails
<1>4. ASSUME NEW i \in Instance, Renew(i) PROVE HoldInv'
  BY <1>4 DEF Renew
<1>5. ASSUME NEW i \in Instance, FinishPass(i) PROVE HoldInv'
  BY <1>5 DEF FinishPass
<1>6. ASSUME NEW i \in Instance, PassRaises(i) PROVE HoldInv'
  BY <1>6 DEF PassRaises
<1>7. ASSUME NEW i \in Instance, Cancel(i) PROVE HoldInv'
  BY <1>7 DEF Cancel
<1>8. ASSUME NEW i \in Instance, ReleaseGet(i) PROVE HoldInv'
  BY <1>8 DEF ReleaseGet
<1>9. ASSUME NEW i \in Instance, ReleaseDelete(i) PROVE HoldInv'
  BY <1>9 DEF ReleaseDelete
<1>10. ASSUME NEW i \in Instance, Stop(i) PROVE HoldInv'
  BY <1>10 DEF Stop
<1>11. ASSUME Tick PROVE HoldInv'
  BY <1>11 DEF Tick
<1>12. CASE UNCHANGED vars
  BY <1>12 DEF vars
<1> QED
  BY <1>1, <1>2, <1>3, <1>4, <1>5, <1>6, <1>7, <1>8, <1>9, <1>10, <1>11, <1>12 DEF Next

\* No step breaks TryInv, timely or not.
LEMMA TryStep == TypeOK /\ TimeInv /\ TryInv /\ [Next]_vars => TryInv'
<1> SUFFICES ASSUME TypeOK, TimeInv, TryInv, [Next]_vars PROVE TryInv'
  OBVIOUS
<1> USE TimeAssumption, DistinctAssumption
        DEF TypeOK, TimeInv, TryInv, SetLock, Due, Timed, max_retries
<1>0. \A i \in Instance : delay[i] \in Nat /\ 2 * delay[i] >= LockTimeout
  BY DEF Delays
<1>1. ASSUME NEW i \in Instance, Boot(i) PROVE TryInv'
  BY <1>1 DEF Boot
<1>2. ASSUME NEW i \in Instance, Acquire(i) PROVE TryInv'
  BY <1>2 DEF Acquire
<1>3. ASSUME NEW i \in Instance, AcquireFails(i) PROVE TryInv'
  <2>1. CASE attempt[i] = 0
    BY <1>0, <1>3, <2>1 DEF AcquireFails
  <2>2. CASE attempt[i] = 1
    BY <1>0, <1>3, <2>2 DEF AcquireFails
  <2>3. CASE attempt[i] = 2
    BY <1>0, <1>3, <2>3 DEF AcquireFails
  <2> QED
    BY <2>1, <2>2, <2>3
<1>4. ASSUME NEW i \in Instance, Renew(i) PROVE TryInv'
  <2>1. CASE lock # None
    <3>1. \A j \in Instance : pc[j] = "trying" => witness'[j]
      BY <1>4, <2>1 DEF Renew
    <3>2. \A j \in Instance : pc'[j] = "trying" => pc[j] = "trying"
      BY <1>4, <2>1 DEF Renew
    <3>3. \A j \in Instance : pc'[j] = "gaveUp" => pc[j] = "gaveUp" /\ witness'[j]
      BY <1>4, <2>1 DEF Renew
    <3> QED
      BY <3>1, <3>2, <3>3
  <2>2. CASE lock = None
    BY <1>4, <2>2 DEF Renew
  <2> QED
    BY <2>1, <2>2
<1>5. ASSUME NEW i \in Instance, FinishPass(i) PROVE TryInv'
  BY <1>5 DEF FinishPass
<1>6. ASSUME NEW i \in Instance, PassRaises(i) PROVE TryInv'
  BY <1>6 DEF PassRaises
<1>7. ASSUME NEW i \in Instance, Cancel(i) PROVE TryInv'
  BY <1>7 DEF Cancel
<1>8. ASSUME NEW i \in Instance, ReleaseGet(i) PROVE TryInv'
  BY <1>8 DEF ReleaseGet
<1>9. ASSUME NEW i \in Instance, ReleaseDelete(i) PROVE TryInv'
  BY <1>0, <1>9 DEF ReleaseDelete
<1>10. ASSUME NEW i \in Instance, Stop(i) PROVE TryInv'
  BY <1>10 DEF Stop
<1>11. ASSUME Tick PROVE TryInv'
  BY <1>0, <1>11 DEF Tick
<1>12. CASE UNCHANGED vars
  BY <1>12 DEF vars
<1> QED
  BY <1>1, <1>2, <1>3, <1>4, <1>5, <1>6, <1>7, <1>8, <1>9, <1>10, <1>11, <1>12 DEF Next

--------------------------------------------------------------------------------
(* The theorems *)

\* The time bookkeeping holds in every state.
LEMMA TimeAlways == Spec => []TimeInv
<1>1. Init => TimeInv
  BY TimeAssumption DEF Init, TimeInv, Timed
<1> QED
  BY <1>1, TimeStep, TypeCorrect, PTL DEF Spec

\* When Timely holds, a holder's lock is its own until it has released it.
LEMMA HoldAlways == ASSUME Timely PROVE Spec => []HoldInv
<1>1. Init => HoldInv
  BY DEF Init, HoldInv
<1>2. TypeOK /\ TimeInv /\ HoldInv /\ [Next]_vars => HoldInv'
  BY HoldStep
<1> QED
  BY <1>1, <1>2, TypeCorrect, TimeAlways, PTL DEF Spec

\* At most one process runs the loop of periodic_usage_pool_cleanup when a pass,
\* the sleep after it and two delays fit in the life of the lock, although
\* renew_lock overwrites whatever id it finds.
THEOREM OneCleanerAlways == ASSUME Timely PROVE Spec => []OneCleaner
<1>1. HoldInv => OneCleaner
  BY DEF HoldInv, OneCleaner, Holds
<1> QED
  BY <1>1, HoldAlways, PTL

\* Under the same condition release_lock deletes only its own lock.
THEOREM ReleasesOwnLockAlways == ASSUME Timely PROVE Spec => []ReleasesOwnLock
<1>1. HoldInv => ReleasesOwnLock
  BY DEF HoldInv, ReleasesOwnLock
<1> QED
  BY <1>1, HoldAlways, PTL

\* Whatever the delays: a process gives up only if a live one set the lock
\* while it was retrying, because its two waits add up to the lock's time-out.
THEOREM SkipsOnlyForLiveCleanerAlways == Spec => []SkipsOnlyForLiveCleaner
<1>1. Init => TryInv
  BY DEF Init, TryInv
<1>2. TryInv => SkipsOnlyForLiveCleaner
  BY DEF TryInv, SkipsOnlyForLiveCleaner
<1> QED
  BY <1>1, <1>2, TryStep, TypeCorrect, TimeAlways, PTL DEF Spec

--------------------------------------------------------------------------------
(* NoteSession: types *)

ClientOK ==
    /\ mode \in [Client -> {"closed", "online", "offline", "left", "gone"}]
    /\ link \in [Client -> 1 .. MaxReconnects + 1]
    /\ synced \subseteq Client
    /\ initial \in [Client -> SUBSET TextPiece]
    /\ got \in [Client -> SUBSET Op]
    /\ after \in [Op -> SUBSET Op]

QueuesOK ==
    /\ up \in [Session -> Seq(UpMessage)]
    /\ down \in [Session -> Seq(DownMessage)]

DocumentOK ==
    /\ members \subseteq pool /\ pool \subseteq Session
    /\ log \subseteq Op
    /\ frames \subseteq Frame
    /\ upset \subseteq Upsets

SavesOK ==
    /\ saves \in Seq([session : Session, text : SUBSET TextPiece])
    /\ note \subseteq TextPiece

LEMMA NoteParts == NoteTypeOK <=> ClientOK /\ QueuesOK /\ DocumentOK /\ SavesOK
BY DEF NoteTypeOK, ClientOK, QueuesOK, DocumentOK, SavesOK

LEMMA NotePartsNext == NoteTypeOK' <=> ClientOK' /\ QueuesOK' /\ DocumentOK' /\ SavesOK'
BY DEF NoteTypeOK, ClientOK, QueuesOK, DocumentOK, SavesOK

LEMMA SameClient == ASSUME ClientOK, UNCHANGED client PROVE ClientOK'
BY DEF ClientOK, client

LEMMA SameQueues == ASSUME QueuesOK, UNCHANGED <<up, down>> PROVE QueuesOK'
BY DEF QueuesOK

LEMMA SameSaves == ASSUME SavesOK, UNCHANGED <<saves, note>> PROVE SavesOK'
BY DEF SavesOK

LEMMA NoteUpset ==
    ASSUME upset \subseteq Upsets, NEW cond, NEW what \in Upsets, UpsetIf(cond, what)
    PROVE  upset' \subseteq Upsets /\ upset \subseteq upset' /\ (cond => what \in upset')
BY DEF UpsetIf

LEMMA OwnSession ==
    ASSUME ClientOK, NEW c \in Client
    PROVE  /\ SessionOf(c) \in Session /\ SessionOf(c)[1] = c /\ SessionOf(c)[2] = link[c]
           /\ \A d \in Client : SessionOf(d) = SessionOf(c) => d = c
BY DEF ClientOK, SessionOf, Session

LEMMA SessionParts ==
    ASSUME NEW s \in Session PROVE s[1] \in Client /\ s[2] \in Nat \ {0} /\ s = <<s[1], s[2]>>
BY BoundsAssumption DEF Session

--------------------------------------------------------------------------------
(* NoteSession: the queues of a session *)

\* What the updates in a queue bring.
Ops(queue) == UNION {queue[k].ops : k \in {i \in 1 .. Len(queue) : queue[i].kind = "update"}}
Carried(queue) == UNION {queue[k].ops : k \in 1 .. Len(queue)}

Has(queue, kinds) == \E k \in 1 .. Len(queue) : queue[k].kind \in kinds
Joining(queue) == queue # <<>> /\ queue[1].kind = "join"

\* A session joins first and disconnects last, and only disconnects after it left.
Ordered(queue) ==
    /\ \A k \in 1 .. Len(queue) : queue[k].kind = "join" => k = 1
    /\ \A k \in 1 .. Len(queue) : queue[k].kind = "disconnect" => k = Len(queue)
    /\ \A k \in 1 .. Len(queue) : queue[k].kind = "leave" =>
          \A i \in k + 1 .. Len(queue) : queue[i].kind = "disconnect"

\* A session that has joined, and has not left or ended, is a member.
SessionInv ==
    \A s \in Session :
        /\ Ordered(up[s])
        /\ Has(up[s], {"update", "leave"}) => Joining(up[s]) \/ s \in members
        /\ Joining(up[s]) => s \notin members /\ down[s] = <<>>
        /\ up[s] # <<>> => s \in pool
        /\ s[2] > link[s[1]] \/ mode[s[1]] = "closed" =>
               up[s] = <<>> /\ down[s] = <<>> /\ s \notin members

ModeInv ==
    \A c \in Client :
        /\ mode[c] = "online" => /\ ~Has(up[SessionOf(c)], {"leave", "disconnect"})
                                 /\ Joining(up[SessionOf(c)]) \/ SessionOf(c) \in members
        /\ mode[c] = "left" => ~Has(up[SessionOf(c)], {"disconnect"})
        /\ mode[c] \in {"online", "left"} => SessionOf(c) \in pool
        /\ mode[c] = "closed" => link[c] = 1 /\ got[c] = {}

Joined(c) == mode[c] = "online" /\ ~Joining(up[SessionOf(c)])
Appending(s) == UNION {f.ops : f \in {g \in frames : g.at = "append" /\ g.session = s}}

ConvergeInv ==
    /\ \A s \in Session : Ops(up[s]) \cup Appending(s) \subseteq got[s[1]]
    /\ \A c \in Client : Joined(c) =>
          log \subseteq got[c] \cup Carried(down[SessionOf(c)]) /\ Carried(down[SessionOf(c)]) \subseteq log
    /\ \A c \in Client : mode[c] = "online" /\ link[c] = 1 =>
          IF Joining(up[SessionOf(c)]) THEN got[c] \subseteq Ops(up[SessionOf(c)])
          ELSE got[c] \subseteq log \cup Ops(up[SessionOf(c)]) \cup Appending(SessionOf(c))

ClearedInv ==
    "overlap" \notin upset =>
        /\ \A f, g \in frames : f = g
        /\ \A f \in frames : IF f.at = "leave" THEN members # {} ELSE f.session \in members
        /\ log # {} => members # {}

MayFill(c) ==
    /\ mode[c] = "online"
    /\ \E k \in 1 .. Len(down[SessionOf(c)]) :
          LET m == down[SessionOf(c)][k] IN m.kind = "state" /\ m.alone /\ m.ops = {}

Around(d) ==
    \/ Seed(d) \in log
    \/ \E s \in Session : Seed(d) \in Ops(up[s]) \cup Appending(s)
    \/ \E c \in Client : mode[c] = "online" /\ Seed(d) \in got[c] \cup Carried(down[SessionOf(c)])
    \/ MayFill(d)

FilledInv ==
    Without({"overlap", "reconnect"}) =>
        /\ \A d, e \in Client : Around(d) /\ Around(e) => d = e
        /\ \A c \in Client : \A d, e \in Client : Seed(d) \in got[c] /\ Seed(e) \in got[c] => d = e
        /\ \A c \in Client : link[c] = 1 /\ (Joining(up[<<c, 1>>]) => got[c] \cap Seeds = {})

LEMMA UpMessages ==
    /\ \A m \in UpMessage : /\ m.kind \in {"join", "update", "leave", "disconnect"}
                             /\ m.kind = "update" => m.ops \subseteq Op /\ m.data \subseteq SUBSET TextPiece
    /\ \A m \in DownMessage : m.kind \in {"state", "update"} /\ m.ops \subseteq Op
    /\ \A k \in {"join", "leave", "disconnect"} : [kind |-> k] \in UpMessage
    /\ \A ops \in SUBSET Op : /\ \A alone \in BOOLEAN : State(ops, alone) \in DownMessage
                              /\ [kind |-> "update", ops |-> ops] \in DownMessage
                              /\ \A data \in SUBSET SUBSET TextPiece : Update(ops, data) \in UpMessage
BY DEF UpMessage, DownMessage, State, Update

LEMMA InOps ==
    ASSUME NEW q, NEW x
    PROVE  x \in Ops(q) <=> \E k \in 1 .. Len(q) : q[k].kind = "update" /\ x \in q[k].ops
BY DEF Ops

\* A message at the end of a queue.
LEMMA AppendPlaces ==
    ASSUME NEW M, NEW q \in Seq(M), NEW m \in M
    PROVE  /\ Append(q, m) \in Seq(M) /\ Len(q) \in Nat /\ Len(Append(q, m)) = Len(q) + 1
           /\ \A k \in 1 .. Len(q) : Append(q, m)[k] = q[k]
           /\ Append(q, m)[Len(q) + 1] = m /\ Append(q, m) # <<>>
BY AppendProperties, LenProperties, EmptySeq

LEMMA AppendQueue ==
    ASSUME NEW M, NEW q \in Seq(M), NEW m \in M
    PROVE  /\ \A kinds : Has(Append(q, m), kinds) <=> Has(q, kinds) \/ m.kind \in kinds
           /\ Carried(Append(q, m)) = Carried(q) \cup m.ops
           /\ m.kind = "update" => Ops(Append(q, m)) = Ops(q) \cup m.ops
           /\ m.kind # "update" => Ops(Append(q, m)) = Ops(q)
           /\ Joining(Append(q, m)) <=> Joining(q) \/ (q = <<>> /\ m.kind = "join")
           /\ /\ Ordered(q) /\ m.kind # "join" /\ ~Has(q, {"disconnect"})
              /\ m.kind = "disconnect" \/ ~Has(q, {"leave"})
              => Ordered(Append(q, m))
<1> DEFINE a == Append(q, m)
<1>1. /\ Len(q) \in Nat /\ Len(a) = Len(q) + 1 /\ a # <<>>
      /\ \A k \in 1 .. Len(q) : a[k] = q[k]
      /\ a[Len(q) + 1] = m
  BY AppendPlaces
<1>2. q = <<>> <=> Len(q) = 0
  BY EmptySeq
<1> HIDE DEF a
<1>3. 1 .. Len(a) = (1 .. Len(q)) \cup {Len(q) + 1}
  BY <1>1
<1>4. \A kinds : Has(a, kinds) <=> Has(q, kinds) \/ m.kind \in kinds
  BY <1>1, <1>3 DEF Has
<1>5. Carried(a) = Carried(q) \cup m.ops
  <2>1. \A x : x \in Carried(a) <=> x \in Carried(q) \/ x \in m.ops
    BY <1>1, <1>3 DEF Carried
  <2> QED
    BY <2>1
<1>6. \A x : x \in Ops(a) <=> x \in Ops(q) \/ (m.kind = "update" /\ x \in m.ops)
  BY <1>1, <1>3, InOps
<1>7. Joining(a) <=> Joining(q) \/ (q = <<>> /\ m.kind = "join")
  <2>1. CASE q = <<>>
    BY <1>1, <1>2, <2>1 DEF Joining
  <2>2. CASE q # <<>>
    <3>1. a[1] = q[1]
      BY <1>1, <1>2, <2>2
    <3> QED
      BY <1>1, <2>2, <3>1 DEF Joining
  <2> QED
    BY <2>1, <2>2
<1>8. ASSUME Ordered(q), m.kind # "join", ~Has(q, {"disconnect"}), m.kind = "disconnect" \/ ~Has(q, {"leave"})
      PROVE  Ordered(a)
  <2>1. ASSUME NEW k \in 1 .. Len(a) PROVE a[k].kind = "join" => k = 1
    BY <1>1, <1>3, <1>8, <2>1 DEF Ordered
  <2>2. ASSUME NEW k \in 1 .. Len(a) PROVE a[k].kind = "disconnect" => k = Len(a)
    BY <1>1, <1>3, <1>8, <2>2 DEF Has
  <2>3. ASSUME NEW k \in 1 .. Len(a), a[k].kind = "leave", NEW i \in k + 1 .. Len(a) PROVE a[i].kind = "disconnect"
    <3>1. k \in 1 .. Len(q)
      BY <1>1, <1>3, <2>3
    <3>2. m.kind = "disconnect"
      BY <1>1, <1>8, <2>3, <3>1 DEF Has
    <3>3. CASE i = Len(q) + 1
      BY <1>1, <3>2, <3>3
    <3>4. CASE i # Len(q) + 1
      <4>1. i \in k + 1 .. Len(q) /\ i \in 1 .. Len(q)
        BY <1>1, <2>3, <3>1, <3>4
      <4> QED
        BY <1>1, <1>8, <2>3, <3>1, <4>1 DEF Ordered
    <3> QED
      BY <3>3, <3>4
  <2> QED
    BY <2>1, <2>2, <2>3 DEF Ordered
<1> QED
  BY <1>4, <1>5, <1>6, <1>7, <1>8 DEF a

\* A queue without its first message.
LEMMA TailQueue ==
    ASSUME NEW M, NEW q \in Seq(M), q # <<>>
    PROVE  /\ Head(q) = q[1] /\ Head(q) \in M /\ Tail(q) \in Seq(M)
           /\ \A kinds : Has(q, kinds) <=> Has(Tail(q), kinds) \/ q[1].kind \in kinds
           /\ Carried(q) = Carried(Tail(q)) \cup q[1].ops
           /\ q[1].kind = "update" => Ops(q) = Ops(Tail(q)) \cup q[1].ops
           /\ q[1].kind # "update" => Ops(q) = Ops(Tail(q))
           /\ Ordered(q) => /\ Ordered(Tail(q)) /\ ~Joining(Tail(q))
                            /\ q[1].kind = "disconnect" => Tail(q) = <<>>
                            /\ q[1].kind = "leave" => ~Has(Tail(q), {"join", "update", "leave"})
<1> DEFINE t == Tail(q)
<1>1. /\ Head(q) \in M /\ t \in Seq(M) /\ Len(t) = Len(q) - 1
      /\ \A k \in 1 .. Len(t) : t[k] = q[k + 1]
  BY HeadTailProperties
<1>2. Len(q) \in Nat \ {0} /\ Head(q) = q[1] /\ (t = <<>> <=> Len(t) = 0)
  <2>1. Len(q) \in Nat /\ Len(q) # 0
    BY EmptySeq, LenProperties
  <2>2. t = <<>> <=> Len(t) = 0
    BY <1>1, EmptySeq
  <2> QED
    BY <2>1, <2>2
<1> HIDE DEF t
<1>3. /\ \A k \in 1 .. Len(t) : k + 1 \in 1 .. Len(q)
      /\ \A k \in 1 .. Len(q) : k = 1 \/ (k - 1 \in 1 .. Len(t) /\ t[k - 1] = q[k])
      /\ 1 \in 1 .. Len(q)
  BY <1>1, <1>2
<1>4. \A kinds : Has(q, kinds) <=> Has(t, kinds) \/ q[1].kind \in kinds
  BY <1>1, <1>3 DEF Has
<1>5. \A x : x \in Carried(q) <=> x \in Carried(t) \/ x \in q[1].ops
  BY <1>1, <1>3 DEF Carried
<1>6. \A x : x \in Ops(q) <=> x \in Ops(t) \/ (q[1].kind = "update" /\ x \in q[1].ops)
  <2>1. ASSUME NEW x PROVE x \in Ops(q) <=> x \in Ops(t) \/ (q[1].kind = "update" /\ x \in q[1].ops)
    <3>1. x \in Ops(q) => x \in Ops(t) \/ (q[1].kind = "update" /\ x \in q[1].ops)
      BY <1>3, InOps
    <3>2. x \in Ops(t) => x \in Ops(q)
      BY <1>1, <1>3, InOps
    <3>3. q[1].kind = "update" /\ x \in q[1].ops => x \in Ops(q)
      BY <1>3, InOps
    <3> QED
      BY <3>1, <3>2, <3>3
  <2> QED
    BY <2>1
<1>7. ASSUME Ordered(q)
      PROVE  /\ Ordered(t) /\ ~Joining(t)
             /\ q[1].kind = "disconnect" => t = <<>>
             /\ q[1].kind = "leave" => ~Has(t, {"join", "update", "leave"})
  <2>1. \A k \in 1 .. Len(t) : t[k].kind # "join"
    BY <1>1, <1>2, <1>3, <1>7 DEF Ordered
  <2>2. \A k \in 1 .. Len(t) : t[k].kind = "disconnect" => k = Len(t)
    BY <1>1, <1>2, <1>3, <1>7 DEF Ordered
  <2>3. ASSUME NEW k \in 1 .. Len(t), t[k].kind = "leave", NEW i \in k + 1 .. Len(t) PROVE t[i].kind = "disconnect"
    <3>1. i + 1 \in (k + 1) + 1 .. Len(q) /\ k + 1 \in 1 .. Len(q) /\ i \in 1 .. Len(t)
      BY <1>1, <1>2, <2>3
    <3>2. t[k] = q[k + 1] /\ t[i] = q[i + 1]
      BY <1>1, <3>1
    <3> QED
      BY <1>7, <2>3, <3>1, <3>2 DEF Ordered
  <2>4. Ordered(t) /\ ~Joining(t)
    <3>1. t # <<>> => 1 \in 1 .. Len(t)
      BY <1>1, <1>2
    <3> QED
      BY <2>1, <2>2, <2>3, <3>1 DEF Ordered, Joining
  <2>5. q[1].kind = "disconnect" => t = <<>>
    BY <1>1, <1>2, <1>3, <1>7 DEF Ordered
  <2>6. ASSUME q[1].kind = "leave", NEW k \in 1 .. Len(t) PROVE t[k].kind = "disconnect"
    <3>1. k + 1 \in 1 + 1 .. Len(q)
      BY <1>1, <1>2
    <3> QED
      BY <1>1, <1>3, <1>7, <2>6, <3>1 DEF Ordered
  <2> QED
    BY <2>4, <2>5, <2>6 DEF Has
<1> QED
  BY <1>1, <1>2, <1>4, <1>5, <1>6, <1>7 DEF t

\* A queue of which only the first n messages arrive.
LEMMA CutQueue ==
    ASSUME NEW M, NEW q \in Seq(M), NEW n \in 0 .. Len(q)
    PROVE  LET p == SubSeq(q, 1, n) IN
           /\ p \in Seq(M)
           /\ \A kinds : Has(p, kinds) => Has(q, kinds)
           /\ Ops(p) \subseteq Ops(q)
           /\ Ordered(q) => Ordered(p)
           /\ Joining(p) => Joining(q)
           /\ \A kinds : Joining(q) /\ Has(p, kinds) => Joining(p)
<1> DEFINE p == SubSeq(q, 1, n)
<1>1. p \in Seq(M) /\ Len(p) = n /\ \A k \in 1 .. n : p[k] = q[k]
  <2>1. Len(q) \in Nat /\ n \in Nat
    BY LenProperties
  <2>2. \A k \in 1 .. n : k \in 1 .. Len(q) /\ q[k] \in M
    BY <2>1, ElementOfSeq
  <2> QED
    BY <2>1, <2>2, SubSeqProperties
<1>2. Len(q) \in Nat /\ n \in Nat /\ n <= Len(q) /\ (p = <<>> <=> n = 0) /\ (q = <<>> <=> Len(q) = 0)
  BY <1>1, EmptySeq, LenProperties
<1> HIDE DEF p
<1>3. \A k \in 1 .. Len(p) : k \in 1 .. Len(q) /\ p[k] = q[k]
  BY <1>1, <1>2
<1>4. (\A kinds : Has(p, kinds) => Has(q, kinds)) /\ Ops(p) \subseteq Ops(q)
  BY <1>3 DEF Has, Ops
<1>5. Ordered(q) => Ordered(p)
  <2> SUFFICES ASSUME Ordered(q) PROVE Ordered(p)
    OBVIOUS
  <2>1. \A k \in 1 .. Len(p) : p[k].kind = "join" => k = 1
    BY <1>3 DEF Ordered
  <2>2. \A k \in 1 .. Len(p) : p[k].kind = "disconnect" => k = Len(p)
    BY <1>1, <1>2, <1>3 DEF Ordered
  <2>3. ASSUME NEW k \in 1 .. Len(p), p[k].kind = "leave", NEW i \in k + 1 .. Len(p) PROVE p[i].kind = "disconnect"
    <3>1. i \in 1 .. Len(p) /\ i \in k + 1 .. Len(q)
      BY <1>1, <1>2, <2>3
    <3> QED
      BY <1>3, <2>3, <3>1 DEF Ordered
  <2> QED
    BY <2>1, <2>2, <2>3 DEF Ordered
<1>6. n # 0 => p[1] = q[1] /\ q # <<>> /\ p # <<>>
  BY <1>1, <1>2
<1>7. \A kinds : Has(p, kinds) => n # 0
  BY <1>1, <1>2 DEF Has
<1> QED
  BY <1>1, <1>2, <1>4, <1>5, <1>6, <1>7 DEF Joining, p


--------------------------------------------------------------------------------
(* NoteSession: the steps of an editor that stays *)

\* A step of an editor: what its document gets, what it sends and what it has taken.
EditStep(c, new, sent, data, taken) ==
    /\ mode[c] \in {"online", "offline"}
    /\ UNCHANGED <<mode, link, initial, document, frames, saves, note>>
    /\ upset \subseteq upset' /\ upset' \subseteq Upsets
    /\ got' = [got EXCEPT ![c] = @ \cup new]
    /\ \/ sent = {} /\ UNCHANGED up
       \/ mode[c] = "online" /\ EmitTo(c, Update(sent, data))
    /\ \/ taken = {} /\ UNCHANGED down
       \/ mode[c] = "online" /\ down[SessionOf(c)] # <<>> /\ Taken(c) /\ taken = Message(c).ops
    /\ sent \subseteq got[c] \cup new /\ taken \subseteq got[c] \cup new
    /\ mode[c] = "online" => new \subseteq sent \cup taken
    /\ \A d \in Client : Seed(d) \in new => Seed(d) \in taken \/ (d = c /\ MayFill(c))

LEMMA TextType == ASSUME ClientOK, NEW S PROVE Text(S) \subseteq TextPiece
BY DEF Text, TextPiece, ClientOK

LEMMA SeedOps == /\ \A c \in Client : Seed(c) \in Op /\ Seed(c) \in Seeds
                 /\ \A c, d \in Client : Seed(c) = Seed(d) => c = d
                 /\ \A e \in Edit : e \in Op /\ \A c \in Client : e # Seed(c)
BY SeedsAreNoEdits DEF Op, Seeds, Seed

LEMMA EditCases ==
    ASSUME NoteTypeOK, NEW c \in Client,
           (\E e \in Edit : Type(c, e)) \/ StateArrives(c) \/ UpdateArrives(c)
    PROVE  /\ \E new, sent, taken \in SUBSET Op : \E data \in SUBSET SUBSET TextPiece :
                  EditStep(c, new, sent, data, taken)
           /\ synced' \subseteq Client /\ after' \in [Op -> SUBSET Op]
<1>0. ClientOK /\ QueuesOK /\ upset \subseteq Upsets
  BY NoteParts DEF DocumentOK
<1> USE OwnSession
<1>1. ASSUME NEW e \in Edit, Type(c, e)
      PROVE  /\ EditStep(c, {e}, {e}, {Text(got[c]) \cup {e}}, {}) \/ EditStep(c, {e}, {}, {}, {})
             /\ synced' \subseteq Client /\ after' \in [Op -> SUBSET Op]
  <2>1. e \in Op /\ \A d \in Client : e # Seed(d)
    BY SeedOps
  <2>2. "blindEdit" \in Upsets /\ "offlineEdit" \in Upsets
    BY DEF Upsets
  <2>3. upset \subseteq upset' /\ upset' \subseteq Upsets
    BY <1>0, <1>1, <2>2, NoteUpset DEF Type
  <2>4. synced' \subseteq Client /\ after' \in [Op -> SUBSET Op]
    BY <1>0, <1>1, <2>1 DEF Type, Seen, ClientOK
  <2> QED
    BY <1>1, <2>1, <2>3, <2>4 DEF Type, EditStep
<1>2. ASSUME mode[c] = "online", down[SessionOf(c)] # <<>> PROVE Message(c).ops \in SUBSET Op
  <2>1. down[SessionOf(c)] \in Seq(DownMessage)
    BY <1>0 DEF QueuesOK
  <2>2. Message(c) \in DownMessage
    BY <1>2, <2>1, TailQueue DEF Message
  <2> QED
    BY <2>2, UpMessages
<1>3. ASSUME StateArrives(c)
      PROVE  /\ \E new, sent \in SUBSET Op : \E data \in SUBSET SUBSET TextPiece :
                    EditStep(c, new, sent, data, Message(c).ops)
             /\ synced' \subseteq Client /\ after' \in [Op -> SUBSET Op]
  <2> DEFINE ops == Message(c).ops
  <2>1. /\ mode[c] = "online" /\ down[SessionOf(c)] # <<>> /\ Message(c).kind = "state" /\ Taken(c)
        /\ UNCHANGED <<mode, link, initial, after, document, frames, saves, note>>
        /\ synced' = synced \cup {c}
    BY <1>3 DEF StateArrives, Arrives, Message
  <2>2. ops \in SUBSET Op
    BY <1>2, <2>1
  <2>3. CASE got' = [got EXCEPT ![c] = @ \cup ops] /\ UNCHANGED <<up, upset>>
    <3>1. EditStep(c, ops, {}, {}, ops)
      BY <1>0, <2>1, <2>2, <2>3 DEF EditStep
    <3> QED
      BY <1>0, <2>1, <2>2, <3>1 DEF ClientOK
  <2>4. CASE ops = {} /\ EmitTo(c, Update(got[c], {})) /\ UNCHANGED <<got, upset>>
    <3>1. got' = [got EXCEPT ![c] = @ \cup {}] /\ got[c] \in SUBSET Op
      BY <1>0, <2>4 DEF ClientOK
    <3>2. EditStep(c, {}, got[c], {}, ops)
      BY <1>0, <2>1, <2>4, <3>1 DEF EditStep
    <3> QED
      BY <1>0, <2>1, <3>1, <3>2 DEF ClientOK
  <2>5. CASE ops = {} /\ Message(c).alone /\ Fills(c)
    <3>1. Seed(c) \in Op /\ \A d \in Client : Seed(d) = Seed(c) => d = c
      BY SeedOps
    <3>2. "staleFill" \in Upsets
      BY DEF Upsets
    <3>3. upset \subseteq upset' /\ upset' \subseteq Upsets
      BY <1>0, <2>5, <3>2, NoteUpset DEF Fills
    <3>4. MayFill(c)
      <4>1. 1 \in 1 .. Len(down[SessionOf(c)]) /\ Message(c) = down[SessionOf(c)][1]
        <5>1. down[SessionOf(c)] \in Seq(DownMessage)
          BY <1>0 DEF QueuesOK
        <5>2. Len(down[SessionOf(c)]) \in Nat /\ Len(down[SessionOf(c)]) # 0
          BY <2>1, <5>1, EmptySeq, LenProperties
        <5> QED
          BY <2>1, <5>1, <5>2, TailQueue DEF Message
      <4> QED
        BY <2>1, <2>5, <4>1 DEF MayFill
    <3>5. EditStep(c, {Seed(c)}, {Seed(c)}, {Text(got[c] \cup {Seed(c)})}, ops)
      BY <2>1, <2>5, <3>1, <3>3, <3>4 DEF EditStep, Fills
    <3>6. {Text(got[c] \cup {Seed(c)})} \in SUBSET SUBSET TextPiece
      BY <1>0, TextType
    <3> QED
      BY <1>0, <2>1, <2>2, <3>1, <3>5, <3>6 DEF ClientOK
  <2>6. CASE ops = {} /\ UNCHANGED <<got, up, upset>>
    <3>1. got' = [got EXCEPT ![c] = @ \cup {}]
      BY <1>0, <2>6 DEF ClientOK
    <3>2. EditStep(c, {}, {}, {}, ops)
      BY <1>0, <2>1, <2>6, <3>1 DEF EditStep
    <3> QED
      BY <1>0, <2>1, <3>2 DEF ClientOK
  <2> QED
    BY <1>3, <2>3, <2>4, <2>5, <2>6 DEF StateArrives
<1>4. ASSUME UpdateArrives(c)
      PROVE  /\ \E new, sent \in SUBSET Op : \E data \in SUBSET SUBSET TextPiece :
                    EditStep(c, new, sent, data, Message(c).ops)
             /\ synced' \subseteq Client /\ after' \in [Op -> SUBSET Op]
  <2> DEFINE ops == Message(c).ops
             now == got[c] \cup ops
             new == Seen(now) \ Seen(got[c])
  <2>1. /\ mode[c] = "online" /\ down[SessionOf(c)] # <<>> /\ Taken(c)
        /\ UNCHANGED <<mode, link, synced, initial, after, document, frames, saves, note, upset>>
        /\ got' = [got EXCEPT ![c] = now]
        /\ UNCHANGED up \/ EmitTo(c, Update(new, {Text(now)}))
    BY <1>4 DEF UpdateArrives, Arrives, Message
  <2>2. ops \in SUBSET Op
    BY <1>2, <2>1
  <2>3. new \in SUBSET Op /\ new \subseteq now
    BY <1>0, <2>2 DEF Seen, ClientOK
  <2>4. {Text(now)} \in SUBSET SUBSET TextPiece
    BY <1>0, TextType
  <2> HIDE DEF new
  <2>5. EditStep(c, ops, {}, {}, ops) \/ EditStep(c, ops, new, {Text(now)}, ops)
    BY <1>0, <2>1, <2>3 DEF EditStep
  <2> QED
    BY <1>0, <2>1, <2>2, <2>3, <2>4, <2>5 DEF ClientOK
<1>5. \A e \in Edit : {e} \in SUBSET Op /\ {Text(got[c]) \cup {e}} \in SUBSET SUBSET TextPiece
  BY <1>0, SeedOps, TextType DEF TextPiece
<1>6. StateArrives(c) \/ UpdateArrives(c) => Message(c).ops \in SUBSET Op
  BY <1>2 DEF StateArrives, UpdateArrives, Arrives
<1> QED
  BY <1>1, <1>3, <1>4, <1>5, <1>6


\* What such a step does to the queues.
LEMMA EditQueues ==
    ASSUME ClientOK, QueuesOK, NEW c \in Client, NEW new \in SUBSET Op, NEW sent \in SUBSET Op,
           NEW taken \in SUBSET Op, NEW data \in SUBSET SUBSET TextPiece, EditStep(c, new, sent, data, taken)
    PROVE  LET s == SessionOf(c) IN
           /\ QueuesOK'
           /\ \A t \in Session \ {s} : up'[t] = up[t] /\ down'[t] = down[t]
           /\ \A kinds : Has(up'[s], kinds) =>
                  Has(up[s], kinds) \/ (mode[c] = "online" /\ "update" \in kinds)
           /\ Joining(up'[s]) <=> Joining(up[s])
           /\ up'[s] # <<>> => up[s] # <<>> \/ mode[c] = "online"
           /\ Ops(up'[s]) = Ops(up[s]) \cup sent
           /\ Ordered(up[s]) /\ (mode[c] = "online" => ~Has(up[s], {"leave", "disconnect"})) => Ordered(up'[s])
           /\ Carried(down[s]) = Carried(down'[s]) \cup taken
           /\ down[s] = <<>> => down'[s] = <<>>
           /\ \A k \in 1 .. Len(down'[s]) : \E i \in 1 .. Len(down[s]) : down[s][i] = down'[s][k]
<1> DEFINE s == SessionOf(c)
           m == Update(sent, data)
<1>1. s \in Session /\ up[s] \in Seq(UpMessage) /\ down[s] \in Seq(DownMessage)
  BY OwnSession DEF QueuesOK
<1>2. m \in UpMessage /\ m.kind = "update" /\ m.ops = sent
  <2>1. m \in UpMessage
    BY UpMessages
  <2> QED
    BY <2>1 DEF Update
<1>3. \/ sent = {} /\ up' = up
      \/ mode[c] = "online" /\ up' = [up EXCEPT ![s] = Append(@, m)]
  BY DEF EditStep, EmitTo
<1>4. \/ taken = {} /\ down' = down
      \/ down[s] # <<>> /\ down' = [down EXCEPT ![s] = Tail(@)] /\ taken = Head(down[s]).ops
  BY DEF EditStep, Taken, Message
<1> HIDE DEF s, m
<1>5. /\ up' \in [Session -> Seq(UpMessage)] /\ \A t \in Session \ {s} : up'[t] = up[t]
      /\ \A kinds : Has(up'[s], kinds) => Has(up[s], kinds) \/ (mode[c] = "online" /\ "update" \in kinds)
      /\ Joining(up'[s]) <=> Joining(up[s])
      /\ up'[s] # <<>> => up[s] # <<>> \/ mode[c] = "online"
      /\ Ops(up'[s]) = Ops(up[s]) \cup sent
      /\ Ordered(up[s]) /\ (mode[c] = "online" => ~Has(up[s], {"leave", "disconnect"})) => Ordered(up'[s])
  <2>1. CASE sent = {} /\ up' = up
    BY <2>1 DEF QueuesOK
  <2>2. CASE mode[c] = "online" /\ up' = [up EXCEPT ![s] = Append(@, m)]
    <3>1. up'[s] = Append(up[s], m) /\ \A t \in Session \ {s} : up'[t] = up[t]
      BY <1>1, <2>2 DEF QueuesOK
    <3>2. up' \in [Session -> Seq(UpMessage)]
      BY <1>1, <1>2, <2>2, AppendPlaces DEF QueuesOK
    <3>3. /\ \A kinds : Has(up'[s], kinds) <=> Has(up[s], kinds) \/ "update" \in kinds
          /\ Ops(up'[s]) = Ops(up[s]) \cup sent
          /\ Joining(up'[s]) <=> Joining(up[s])
      BY <1>1, <1>2, <3>1, AppendQueue
    <3>4. ASSUME Ordered(up[s]), ~Has(up[s], {"leave", "disconnect"}) PROVE Ordered(up'[s])
      <4>1. ~Has(up[s], {"leave"}) /\ ~Has(up[s], {"disconnect"})
        BY <3>4 DEF Has
      <4> QED
        BY <1>1, <1>2, <3>1, <3>4, <4>1, AppendQueue
    <3> QED
      BY <2>2, <3>1, <3>2, <3>3, <3>4
  <2> QED
    BY <1>3, <2>1, <2>2
<1>6. /\ down' \in [Session -> Seq(DownMessage)] /\ \A t \in Session \ {s} : down'[t] = down[t]
      /\ Carried(down[s]) = Carried(down'[s]) \cup taken
      /\ down[s] = <<>> => down'[s] = <<>>
      /\ \A k \in 1 .. Len(down'[s]) : \E i \in 1 .. Len(down[s]) : down[s][i] = down'[s][k]
  <2>1. CASE taken = {} /\ down' = down
    BY <2>1 DEF QueuesOK
  <2>2. CASE down[s] # <<>> /\ down' = [down EXCEPT ![s] = Tail(@)] /\ taken = Head(down[s]).ops
    <3>1. down'[s] = Tail(down[s]) /\ \A t \in Session \ {s} : down'[t] = down[t]
      BY <1>1, <2>2 DEF QueuesOK
    <3>2. /\ Carried(down[s]) = Carried(down'[s]) \cup taken
          /\ down'[s] \in Seq(DownMessage)
      BY <1>1, <2>2, <3>1, TailQueue
    <3>3. \A k \in 1 .. Len(down'[s]) : \E i \in 1 .. Len(down[s]) : down[s][i] = down'[s][k]
      <4>1. /\ Len(down[s]) \in Nat /\ Len(Tail(down[s])) = Len(down[s]) - 1
            /\ \A k \in 1 .. Len(Tail(down[s])) : Tail(down[s])[k] = down[s][k + 1]
        BY <1>1, <2>2, HeadTailProperties, LenProperties
      <4>2. \A k \in 1 .. Len(Tail(down[s])) : k + 1 \in 1 .. Len(down[s])
        BY <4>1
      <4> QED
        BY <3>1, <4>1, <4>2
    <3>4. down' \in [Session -> Seq(DownMessage)]
      BY <1>1, <2>2, <3>1, <3>2 DEF QueuesOK
    <3> QED
      BY <2>2, <3>1, <3>2, <3>3, <3>4
  <2> QED
    BY <1>4, <2>1, <2>2
<1> QED
  BY <1>5, <1>6 DEF QueuesOK, s

NoteInv == NoteTypeOK /\ SessionInv /\ ModeInv /\ ConvergeInv /\ ClearedInv /\ FilledInv

LEMMA EditSession ==
    ASSUME NoteInv, NEW c \in Client, NEW new \in SUBSET Op, NEW sent \in SUBSET Op,
           NEW taken \in SUBSET Op, NEW data \in SUBSET SUBSET TextPiece, EditStep(c, new, sent, data, taken)
    PROVE  SessionInv' /\ ModeInv'
<1>0. NoteTypeOK /\ SessionInv /\ ModeInv /\ ClientOK /\ QueuesOK
  BY NoteParts DEF NoteInv
<1> DEFINE s == SessionOf(c)
<1>1. s \in Session /\ s[1] = c /\ s[2] = link[c] /\ link[c] \in Nat
  BY <1>0, OwnSession, SessionParts
<1>2. /\ \A t \in Session \ {s} : up'[t] = up[t] /\ down'[t] = down[t]
      /\ \A kinds : Has(up'[s], kinds) => Has(up[s], kinds) \/ (mode[c] = "online" /\ "update" \in kinds)
      /\ Joining(up'[s]) <=> Joining(up[s])
      /\ up'[s] # <<>> => up[s] # <<>> \/ mode[c] = "online"
      /\ Ordered(up[s]) /\ (mode[c] = "online" => ~Has(up[s], {"leave", "disconnect"})) => Ordered(up'[s])
      /\ down[s] = <<>> => down'[s] = <<>>
  BY <1>0, EditQueues
<1>3. /\ mode[c] \in {"online", "offline"} /\ UNCHANGED <<mode, link, members, pool>>
      /\ got' = [got EXCEPT ![c] = @ \cup new]
  BY DEF EditStep, document
<1>4. mode[c] = "online" => ~Has(up[s], {"leave", "disconnect"}) /\ (Joining(up[s]) \/ s \in members)
  BY <1>0 DEF ModeInv
<1>5. members \subseteq pool
  BY <1>0 DEF NoteTypeOK
<1>6. \A d \in Client : SessionOf(d)' = SessionOf(d)
  BY <1>3 DEF SessionOf
<1>7. Joining(up[s]) => up[s] # <<>>
  BY DEF Joining
<1>8. \A d \in Client : d # c => SessionOf(d) \in Session \ {s}
  BY <1>0, OwnSession
<1>9. /\ Ordered(up'[s])
      /\ Has(up'[s], {"update", "leave"}) => Joining(up'[s]) \/ s \in members
      /\ Joining(up'[s]) => s \notin members /\ down'[s] = <<>>
      /\ up'[s] # <<>> => s \in pool
  <2>1. /\ Ordered(up[s])
        /\ Has(up[s], {"update", "leave"}) => Joining(up[s]) \/ s \in members
        /\ Joining(up[s]) => s \notin members /\ down[s] = <<>>
        /\ up[s] # <<>> => s \in pool
    BY <1>0, <1>1 DEF SessionInv
  <2> HIDE DEF s
  <2> QED
    BY <1>2, <1>4, <1>5, <1>7, <2>1
<1>10. ~(s[2] > link[s[1]] \/ mode[s[1]] = "closed")
  BY <1>1, <1>3
<1>11. SessionInv'
  <2> SUFFICES ASSUME NEW t \in Session
               PROVE  /\ Ordered(up'[t])
                      /\ Has(up'[t], {"update", "leave"}) => Joining(up'[t]) \/ t \in members
                      /\ Joining(up'[t]) => t \notin members /\ down'[t] = <<>>
                      /\ up'[t] # <<>> => t \in pool
                      /\ t[2] > link[t[1]] \/ mode[t[1]] = "closed" =>
                             up'[t] = <<>> /\ down'[t] = <<>> /\ t \notin members
    BY <1>3 DEF SessionInv
  <2>1. CASE t = s
    BY <1>9, <1>10, <2>1
  <2>2. CASE t # s
    <3>1. up'[t] = up[t] /\ down'[t] = down[t]
      BY <1>2, <2>2
    <3> QED
      BY <1>0, <3>1 DEF SessionInv
  <2> QED
    BY <2>1, <2>2
<1>12. ModeInv'
  <2> SUFFICES ASSUME NEW d \in Client
               PROVE  /\ mode[d] = "online" => /\ ~Has(up'[SessionOf(d)], {"leave", "disconnect"})
                                               /\ Joining(up'[SessionOf(d)]) \/ SessionOf(d) \in members
                      /\ mode[d] = "left" => ~Has(up'[SessionOf(d)], {"disconnect"})
                      /\ mode[d] \in {"online", "left"} => SessionOf(d) \in pool
                      /\ mode[d] = "closed" => link[d] = 1 /\ got'[d] = {}
    BY <1>3, <1>6 DEF ModeInv
  <2>1. CASE d = c
    BY <1>0, <1>2, <1>3, <1>4, <2>1 DEF ModeInv
  <2>2. CASE d # c
    <3>1. up'[SessionOf(d)] = up[SessionOf(d)]
      BY <1>2, <1>8, <2>2
    <3>2. got'[d] = got[d]
      BY <1>0, <1>3, <2>2 DEF ClientOK
    <3> QED
      BY <1>0, <3>1, <3>2 DEF ModeInv
  <2> QED
    BY <2>1, <2>2
<1> QED
  BY <1>11, <1>12


LEMMA EditConverges ==
    ASSUME NoteInv, NEW c \in Client, NEW new \in SUBSET Op, NEW sent \in SUBSET Op,
           NEW taken \in SUBSET Op, NEW data \in SUBSET SUBSET TextPiece, EditStep(c, new, sent, data, taken)
    PROVE  ConvergeInv'
<1>0. NoteTypeOK /\ ConvergeInv /\ ClientOK /\ QueuesOK
  BY NoteParts DEF NoteInv
<1> DEFINE s == SessionOf(c)
<1>1. s \in Session /\ s[1] = c
  BY <1>0, OwnSession
<1>2. /\ \A t \in Session \ {s} : up'[t] = up[t] /\ down'[t] = down[t]
      /\ Joining(up'[s]) <=> Joining(up[s])
      /\ Ops(up'[s]) = Ops(up[s]) \cup sent
      /\ Carried(down[s]) = Carried(down'[s]) \cup taken
  BY <1>0, EditQueues
<1>3. /\ mode[c] \in {"online", "offline"} /\ UNCHANGED <<mode, link, log, frames>>
      /\ got' = [got EXCEPT ![c] = @ \cup new]
      /\ sent \subseteq got[c] \cup new /\ taken \subseteq got[c] \cup new
      /\ mode[c] = "online" => new \subseteq sent \cup taken
  BY DEF EditStep, document
<1>4. got'[c] = got[c] \cup new /\ \A d \in Client : d # c => got'[d] = got[d]
  BY <1>0, <1>3 DEF ClientOK
<1>5. \A d \in Client : SessionOf(d)' = SessionOf(d) /\ (d # c => SessionOf(d) \in Session \ {s})
  BY <1>0, <1>3, OwnSession DEF SessionOf
<1>6. \A t : Appending(t)' = Appending(t)
  BY <1>3 DEF Appending
<1>7. \A d \in Client : Joined(d)' <=> Joined(d)
  BY <1>2, <1>3, <1>5 DEF Joined
<1> HIDE DEF s
<1>8. ASSUME NEW t \in Session PROVE Ops(up'[t]) \cup Appending(t) \subseteq got'[t[1]]
  <2>1. Ops(up[t]) \cup Appending(t) \subseteq got[t[1]] /\ t[1] \in Client
    BY <1>0, SessionParts DEF ConvergeInv
  <2>2. CASE t = s
    BY <1>1, <1>2, <1>3, <1>4, <2>1, <2>2
  <2>3. CASE t # s
    BY <1>2, <1>4, <2>1, <2>3
  <2> QED
    BY <2>2, <2>3
<1>9. ASSUME NEW d \in Client, Joined(d)
      PROVE  log \subseteq got'[d] \cup Carried(down'[SessionOf(d)]) /\ Carried(down'[SessionOf(d)]) \subseteq log
  <2>1. log \subseteq got[d] \cup Carried(down[SessionOf(d)]) /\ Carried(down[SessionOf(d)]) \subseteq log
    BY <1>0, <1>9 DEF ConvergeInv
  <2>2. CASE d = c
    BY <1>2, <1>3, <1>4, <2>1, <2>2 DEF s
  <2>3. CASE d # c
    BY <1>2, <1>4, <1>5, <2>1, <2>3
  <2> QED
    BY <2>2, <2>3
<1>10. ASSUME NEW d \in Client, mode[d] = "online", link[d] = 1
       PROVE  IF Joining(up'[SessionOf(d)]) THEN got'[d] \subseteq Ops(up'[SessionOf(d)])
              ELSE got'[d] \subseteq log \cup Ops(up'[SessionOf(d)]) \cup Appending(SessionOf(d))
  <2>1. IF Joining(up[SessionOf(d)]) THEN got[d] \subseteq Ops(up[SessionOf(d)])
        ELSE got[d] \subseteq log \cup Ops(up[SessionOf(d)]) \cup Appending(SessionOf(d))
    BY <1>0, <1>10 DEF ConvergeInv
  <2>2. CASE d = c
    <3>1. SessionOf(d) = s
      BY <2>2 DEF s
    <3>2. CASE Joining(up[s])
      <4>1. Carried(down[s]) = {}
        <5>1. down[s] = <<>>
          BY <1>1, <3>2 DEF NoteInv, SessionInv
        <5>2. Len(down[s]) = 0
          BY <5>1, EmptySeq
        <5> QED
          BY <5>2 DEF Carried
      <4> QED
        BY <1>2, <1>3, <1>4, <1>10, <2>1, <2>2, <3>1, <3>2, <4>1
    <3>3. CASE ~Joining(up[s])
      <4>1. Carried(down[s]) \subseteq log
        BY <1>0, <1>10, <3>1, <3>3 DEF ConvergeInv, Joined
      <4> QED
        BY <1>2, <1>3, <1>4, <1>10, <2>1, <2>2, <3>1, <3>3, <4>1
    <3> QED
      BY <3>2, <3>3
  <2>3. CASE d # c
    BY <1>2, <1>4, <1>5, <2>1, <2>3
  <2> QED
    BY <2>2, <2>3
<1> QED
  BY <1>3, <1>5, <1>6, <1>7, <1>8, <1>9, <1>10 DEF ConvergeInv

\* Only what is around gets anywhere: such a step brings no seed back.
LEMMA EditAround ==
    ASSUME NoteInv, NEW c \in Client, NEW new \in SUBSET Op, NEW sent \in SUBSET Op,
           NEW taken \in SUBSET Op, NEW data \in SUBSET SUBSET TextPiece, EditStep(c, new, sent, data, taken),
           Without({"reconnect"}), mode[c] = "online" \/ new \cap Seeds = {}
    PROVE  \A d \in Client : Around(d)' => Around(d)
<1>0. ClientOK /\ QueuesOK
  BY NoteParts DEF NoteInv
<1> DEFINE s == SessionOf(c)
<1>1. s \in Session /\ s[1] = c
  BY <1>0, OwnSession
<1>2. /\ \A t \in Session \ {s} : up'[t] = up[t] /\ down'[t] = down[t]
      /\ Ops(up'[s]) = Ops(up[s]) \cup sent
      /\ Carried(down[s]) = Carried(down'[s]) \cup taken
      /\ \A k \in 1 .. Len(down'[s]) : \E i \in 1 .. Len(down[s]) : down[s][i] = down'[s][k]
  BY <1>0, EditQueues
<1>3. /\ UNCHANGED <<mode, link, log, frames>> /\ got' = [got EXCEPT ![c] = @ \cup new]
      /\ sent \subseteq got[c] \cup new
      /\ \A d \in Client : Seed(d) \in new => Seed(d) \in taken \/ (d = c /\ MayFill(c))
  BY DEF EditStep, document
<1>4. got'[c] = got[c] \cup new /\ \A d \in Client : d # c => got'[d] = got[d]
  BY <1>0, <1>3 DEF ClientOK
<1>5. \A d \in Client : SessionOf(d)' = SessionOf(d) /\ (d # c => SessionOf(d) \in Session \ {s})
  BY <1>0, <1>3, OwnSession DEF SessionOf
<1>6. \A t : Appending(t)' = Appending(t)
  BY <1>3 DEF Appending
<1>7. (sent # {} \/ taken # {}) => mode[c] = "online"
  BY DEF EditStep
<1> HIDE DEF s
<1>8. \A d \in Client : MayFill(d)' => MayFill(d)
  <2> SUFFICES ASSUME NEW d \in Client, MayFill(d)' PROVE MayFill(d)
    OBVIOUS
  <2>1. CASE d = c
    BY <1>2, <1>3, <1>5, <2>1 DEF MayFill, s
  <2>2. CASE d # c
    BY <1>2, <1>3, <1>5, <2>2 DEF MayFill
  <2> QED
    BY <2>1, <2>2
<1> SUFFICES ASSUME NEW d \in Client, Around(d)' PROVE Around(d)
  OBVIOUS
<1>9. mode[c] = "online" /\ Seed(d) \in got[c] \cup Carried(down[s]) => Around(d)
  BY DEF Around, s
<1>10. Seed(d) \in Seeds
  BY SeedOps
<1>11. mode[c] = "online" /\ Seed(d) \in got[c] \cup new => Around(d)
  <2>1. Seed(d) \in new => Seed(d) \in Carried(down[s]) \/ MayFill(d)
    BY <1>2, <1>3
  <2> QED
    BY <1>9, <2>1 DEF Around
<1>12. CASE Seed(d) \in log' \/ MayFill(d)'
  BY <1>3, <1>8, <1>12 DEF Around
<1>13. ASSUME NEW t \in Session, Seed(d) \in Ops(up'[t]) \cup Appending(t)' PROVE Around(d)
  <2>1. CASE Seed(d) \in Ops(up[t]) \cup Appending(t)
    BY <2>1 DEF Around
  <2>2. CASE t = s /\ Seed(d) \in sent
    BY <1>3, <1>7, <1>11, <2>2
  <2> QED
    BY <1>2, <1>6, <1>13, <2>1, <2>2
<1>14. ASSUME NEW e \in Client, mode'[e] = "online", Seed(d) \in got'[e] \cup Carried(down'[SessionOf(e)'])
       PROVE  Around(d)
  <2>1. CASE e = c
    <3>1. Seed(d) \in got[c] \cup new \/ Seed(d) \in Carried(down[s])
      BY <1>2, <1>4, <1>5, <1>14, <2>1 DEF s
    <3> QED
      BY <1>3, <1>9, <1>11, <1>14, <2>1, <3>1
  <2>2. CASE e # c
    BY <1>2, <1>3, <1>4, <1>5, <1>14, <2>2 DEF Around
  <2> QED
    BY <2>1, <2>2
<1> QED
  BY <1>12, <1>13, <1>14 DEF Around

LEMMA EditFilled ==
    ASSUME NoteInv, NEW c \in Client, NEW new \in SUBSET Op, NEW sent \in SUBSET Op,
           NEW taken \in SUBSET Op, NEW data \in SUBSET SUBSET TextPiece, EditStep(c, new, sent, data, taken)
    PROVE  ClearedInv' /\ FilledInv'
<1>0. ClientOK /\ QueuesOK /\ ClearedInv /\ FilledInv
  BY NoteParts DEF NoteInv
<1> DEFINE s == SessionOf(c)
<1>1. /\ UNCHANGED <<mode, link, members, log, frames>> /\ upset \subseteq upset'
      /\ got' = [got EXCEPT ![c] = @ \cup new]
      /\ \A d \in Client : Seed(d) \in new => Seed(d) \in taken \/ (d = c /\ MayFill(c))
      /\ taken # {} => mode[c] = "online" /\ down[s] # <<>>
  BY DEF EditStep, document
<1>2. ClearedInv'
  BY <1>0, <1>1 DEF ClearedInv
<1>3. got'[c] = got[c] \cup new /\ \A d \in Client : d # c => got'[d] = got[d]
  BY <1>0, <1>1 DEF ClientOK
<1>4. ASSUME Without({"overlap", "reconnect"})'
      PROVE  /\ \A d, e \in Client : Around(d)' /\ Around(e)' => d = e
             /\ \A b \in Client : \A d, e \in Client : Seed(d) \in got'[b] /\ Seed(e) \in got'[b] => d = e
             /\ \A b \in Client : link'[b] = 1 /\ (Joining(up'[<<b, 1>>]) => got'[b] \cap Seeds = {})
  <2>1. Without({"overlap", "reconnect"}) /\ Without({"reconnect"})
    BY <1>1, <1>4 DEF Without
  <2>2. /\ \A d, e \in Client : Around(d) /\ Around(e) => d = e
        /\ \A b \in Client : \A d, e \in Client : Seed(d) \in got[b] /\ Seed(e) \in got[b] => d = e
        /\ \A b \in Client : link[b] = 1 /\ (Joining(up[<<b, 1>>]) => got[b] \cap Seeds = {})
    BY <1>0, <2>1 DEF FilledInv
  <2>3. mode[c] = "online" \/ new \cap Seeds = {}
    <3>1. MayFill(c) => mode[c] = "online"
      BY DEF MayFill
    <3> QED
      BY <1>1, <3>1 DEF Seeds
  <2>4. \A d \in Client : Around(d)' => Around(d)
    BY <2>1, <2>3, EditAround
  <2>5. \A d \in Client : mode[c] = "online" /\ Seed(d) \in got'[c] => Around(d)'
    BY <1>1 DEF Around
  <2>6. ASSUME NEW b \in Client, NEW d \in Client, NEW e \in Client, Seed(d) \in got'[b], Seed(e) \in got'[b]
        PROVE  d = e
    <3>1. CASE b = c /\ mode[c] = "online"
      BY <2>2, <2>4, <2>5, <2>6, <3>1
    <3>2. CASE b = c /\ mode[c] # "online"
      <4>1. Seed(d) \in got[c] /\ Seed(e) \in got[c]
        BY <1>3, <2>3, <2>6, <3>2, SeedOps
      <4> QED
        BY <2>2, <4>1
    <3>3. CASE b # c
      BY <1>3, <2>2, <2>6, <3>3
    <3> QED
      BY <3>1, <3>2, <3>3
  <2>7. ASSUME NEW b \in Client PROVE link'[b] = 1 /\ (Joining(up'[<<b, 1>>]) => got'[b] \cap Seeds = {})
    <3>1. link[b] = 1 /\ <<b, 1>> = SessionOf(b) /\ SessionOf(b) \in Session
      BY <1>0, <2>2, OwnSession DEF SessionOf
    <3>2. CASE b # c
      <4>1. SessionOf(b) \in Session \ {s}
        BY <1>0, <3>1, <3>2, OwnSession
      <4>2. up'[<<b, 1>>] = up[<<b, 1>>]
        BY <1>0, <3>1, <4>1, EditQueues
      <4> QED
        BY <1>1, <1>3, <2>2, <3>2, <4>2
    <3>3. CASE b = c
      <4>1. Joining(up'[s]) <=> Joining(up[s])
        BY <1>0, EditQueues
      <4>2. Joining(up[s]) => new \cap Seeds = {}
        <5> SUFFICES ASSUME Joining(up[s]) PROVE new \cap Seeds = {}
          OBVIOUS
        <5>1. down[s] = <<>>
          BY <3>1, <3>3 DEF NoteInv, SessionInv
        <5>2. Len(down[s]) = 0
          BY <5>1, EmptySeq
        <5>3. ~MayFill(c)
          BY <5>2 DEF MayFill
        <5> QED
          BY <1>1, <5>1, <5>3 DEF Seeds
      <4> QED
        BY <1>1, <1>3, <2>2, <3>1, <3>3, <4>1, <4>2
    <3> QED
      BY <3>2, <3>3
  <2> QED
    BY <2>2, <2>4, <2>6, <2>7
<1> QED
  BY <1>2, <1>4 DEF FilledInv


--------------------------------------------------------------------------------
(* NoteSession: editors that go and come *)

LEMMA NothingIn ==
    /\ Carried(<<>>) = {} /\ Ops(<<>>) = {} /\ ~Joining(<<>>) /\ Ordered(<<>>)
    /\ \A kinds : ~Has(<<>>, kinds)
<1>1. Len(<<>>) = 0
  BY EmptySeq
<1> QED
  BY <1>1 DEF Carried, Ops, Joining, Ordered, Has

\* The queue of a session that has only asked to join.
LEMMA JoinQueue ==
    LET q == Append(<<>>, [kind |-> "join"]) IN
    /\ q \in Seq(UpMessage) /\ q = <<[kind |-> "join"]>>
    /\ Ops(q) = {} /\ Joining(q) /\ Ordered(q) /\ \A kinds : Has(q, kinds) => "join" \in kinds
<1> DEFINE m == [kind |-> "join"]
           q == Append(<<>>, m)
<1>1. m \in UpMessage /\ <<>> \in Seq(UpMessage) /\ m.kind = "join"
  BY UpMessages, EmptySeq
<1>2. q \in Seq(UpMessage) /\ Len(q) = 1 /\ q[1] = m /\ q # <<>>
  <2>1. Len(<<>>) = 0
    BY EmptySeq
  <2> QED
    BY <1>1, <2>1, AppendPlaces
<1>3. q = <<m>>
  OBVIOUS
<1> HIDE DEF q, m
<1>4. Ops(q) = {} /\ Joining(q) /\ Ordered(q) /\ \A kinds : Has(q, kinds) => "join" \in kinds
  <2>1. \A k \in 1 .. Len(q) : k = 1
    BY <1>2
  <2> QED
    BY <1>1, <1>2, <2>1 DEF Ops, Joining, Ordered, Has
<1> QED
  BY <1>2, <1>3, <1>4 DEF q, m

\* An editor goes: of its queue the first part stays, and a last message comes.
GoStep(c) ==
    /\ mode[c] \in {"online", "left", "offline"}
    /\ \E to \in {"left", "offline", "gone"} : mode' = [mode EXCEPT ![c] = to]
    /\ UNCHANGED <<link, initial, got, after, document, frames, saves, note>>
    /\ synced' \subseteq synced
    /\ upset \subseteq upset' /\ upset' \subseteq Upsets
    /\ QueuesOK'
    /\ \A t \in Session \ {SessionOf(c)} : up'[t] = up[t] /\ down'[t] = down[t]
    /\ Ops(up'[SessionOf(c)]) \subseteq Ops(up[SessionOf(c)])
    /\ Ordered(up'[SessionOf(c)])
    /\ Has(up'[SessionOf(c)], {"update", "leave"}) => Joining(up'[SessionOf(c)]) \/ SessionOf(c) \in members
    /\ Joining(up'[SessionOf(c)]) => Joining(up[SessionOf(c)])
    /\ up'[SessionOf(c)] # <<>> => SessionOf(c) \in pool
    /\ mode'[c] = "left" => ~Has(up'[SessionOf(c)], {"disconnect"}) /\ SessionOf(c) \in pool
    /\ down'[SessionOf(c)] \in {<<>>, down[SessionOf(c)]}

LEMMA LeaveGoes == ASSUME NoteInv, NEW c \in Client, Leave(c) PROVE GoStep(c)
<1>0. NoteTypeOK /\ SessionInv /\ ModeInv /\ ClientOK /\ QueuesOK /\ upset \subseteq Upsets
  BY NoteParts DEF NoteInv, DocumentOK
<1> DEFINE s == SessionOf(c)
           m == [kind |-> "leave"]
<1>1. s \in Session /\ up[s] \in Seq(UpMessage) /\ m \in UpMessage /\ m.kind = "leave"
  BY <1>0, OwnSession, UpMessages DEF QueuesOK
<1>2. /\ Ordered(up[s])
      /\ Has(up[s], {"update", "leave"}) => Joining(up[s]) \/ s \in members
      /\ up[s] # <<>> => s \in pool
  BY <1>0, <1>1 DEF SessionInv
<1>3. "hasty" \in Upsets
  BY DEF Upsets
<1> HIDE DEF s, m
<1>4. CASE mode[c] = "online"
  <2>1. /\ mode' = [mode EXCEPT ![c] = "left"] /\ up' = [up EXCEPT ![s] = Append(@, m)]
        /\ UNCHANGED <<link, synced, initial, got, after, down, document, frames, saves, note>>
        /\ upset \subseteq upset' /\ upset' \subseteq Upsets
    BY <1>0, <1>3, <1>4, NoteUpset DEF Leave, EmitTo, s, m
  <2>2. /\ ~Has(up[s], {"leave", "disconnect"}) /\ (Joining(up[s]) \/ s \in members) /\ s \in pool
    BY <1>0, <1>4 DEF ModeInv, s
  <2>3. ~Has(up[s], {"leave"}) /\ ~Has(up[s], {"disconnect"})
    BY <2>2 DEF Has
  <2>4. up'[s] = Append(up[s], m) /\ \A t \in Session \ {s} : up'[t] = up[t]
    BY <1>0, <1>1, <2>1 DEF QueuesOK
  <2>5. /\ Ordered(up'[s]) /\ Ops(up'[s]) = Ops(up[s]) /\ ~Has(up'[s], {"disconnect"})
        /\ Joining(up'[s]) <=> Joining(up[s])
    BY <1>1, <1>2, <2>3, <2>4, AppendQueue
  <2>6. QueuesOK'
    BY <1>0, <1>1, <2>1, AppendPlaces DEF QueuesOK
  <2> QED
    BY <1>4, <2>1, <2>2, <2>4, <2>5, <2>6 DEF GoStep, s
<1>5. CASE mode[c] = "offline"
  <2>1. /\ mode' = [mode EXCEPT ![c] = "gone"] /\ mode'[c] = "gone"
        /\ UNCHANGED <<link, synced, initial, got, after, up, down, document, frames, saves, note, upset>>
    BY <1>0, <1>5 DEF Leave, ClientOK
  <2> QED
    BY <1>0, <1>2, <1>5, <2>1, SameQueues DEF GoStep, s
<1> QED
  BY <1>4, <1>5 DEF Leave

LEMMA DropGoes == ASSUME NoteInv, NEW c \in Client, Drop(c) PROVE GoStep(c)
<1>0. NoteTypeOK /\ SessionInv /\ ModeInv /\ ClientOK /\ QueuesOK /\ upset \subseteq Upsets
  BY NoteParts DEF NoteInv, DocumentOK
<1> DEFINE s == SessionOf(c)
           m == [kind |-> "disconnect"]
<1>1. s \in Session /\ up[s] \in Seq(UpMessage) /\ m \in UpMessage /\ m.kind = "disconnect"
  BY <1>0, OwnSession, UpMessages DEF QueuesOK
<1>2. /\ Ordered(up[s])
      /\ Has(up[s], {"update", "leave"}) => Joining(up[s]) \/ s \in members
      /\ up[s] # <<>> => s \in pool
  BY <1>0, <1>1 DEF SessionInv
<1>3. {"lostUpdate", "hasty"} \subseteq Upsets
  BY DEF Upsets
<1>4. PICK n \in 0 .. Len(up[s]) :
          LET lost == HasUpdate(SubSeq(up[s], n + 1, Len(up[s]))) IN
          /\ up' = [up EXCEPT ![s] = Append(SubSeq(@, 1, n), m)]
          /\ UpsetIf(lost \/ (mode[c] = "online" /\ Hasty(c)), IF lost THEN "lostUpdate" ELSE "hasty")
  BY DEF Drop
<1>5. upset \subseteq upset' /\ upset' \subseteq Upsets
  BY <1>0, <1>3, <1>4, NoteUpset
<1>6. /\ mode[c] \in {"online", "left"}
      /\ mode' = [mode EXCEPT ![c] = IF @ = "online" THEN "offline" ELSE "gone"]
      /\ synced' = synced \ {c} /\ down' = [down EXCEPT ![s] = <<>>]
      /\ UNCHANGED <<link, initial, got, after, document, frames, saves, note>>
  BY DEF Drop
<1>7. ~Has(up[s], {"disconnect"})
  BY <1>0, <1>6 DEF ModeInv, Has
<1>8. s \in pool /\ (mode'[c] = "left" => FALSE)
  BY <1>0, <1>6 DEF ModeInv, ClientOK
<1> DEFINE p == SubSeq(up[s], 1, n)
<1>9. /\ p \in Seq(UpMessage) /\ Ordered(p) /\ Ops(p) \subseteq Ops(up[s])
      /\ \A kinds : Has(p, kinds) => Has(up[s], kinds)
      /\ Joining(p) => Joining(up[s])
      /\ \A kinds : Joining(up[s]) /\ Has(p, kinds) => Joining(p)
  BY <1>1, <1>2, CutQueue
<1> HIDE DEF p
<1>10. up'[s] = Append(p, m) /\ \A t \in Session \ {s} : up'[t] = up[t] /\ down'[t] = down[t]
  BY <1>0, <1>1, <1>4, <1>6 DEF QueuesOK, p
<1>11. /\ Ordered(up'[s]) /\ Ops(up'[s]) = Ops(p) /\ (Joining(up'[s]) <=> Joining(p))
       /\ \A kinds : Has(up'[s], kinds) <=> Has(p, kinds) \/ "disconnect" \in kinds
  BY <1>1, <1>7, <1>9, <1>10, AppendQueue
<1>12. QueuesOK'
  <2>1. Append(p, m) \in Seq(UpMessage) /\ <<>> \in Seq(DownMessage)
    BY <1>1, <1>9, AppendPlaces, EmptySeq
  <2> QED
    BY <1>0, <1>1, <1>4, <1>6, <2>1 DEF QueuesOK, p
<1>13. /\ Has(up'[s], {"update", "leave"}) => Joining(up'[s]) \/ s \in members
       /\ Ops(up'[s]) \subseteq Ops(up[s]) /\ (Joining(up'[s]) => Joining(up[s]))
  BY <1>2, <1>9, <1>11
<1>14. down'[s] = <<>>
  BY <1>0, <1>1, <1>6 DEF QueuesOK
<1>15. \E to \in {"left", "offline", "gone"} : mode' = [mode EXCEPT ![c] = to]
  BY <1>6
<1> QED
  BY <1>5, <1>6, <1>8, <1>10, <1>11, <1>12, <1>13, <1>14, <1>15 DEF GoStep, s


LEMMA GoKeeps == ASSUME NoteInv, NEW c \in Client, GoStep(c) PROVE NoteInv'
<1>0. /\ NoteTypeOK /\ SessionInv /\ ModeInv /\ ConvergeInv /\ ClearedInv /\ FilledInv
      /\ ClientOK /\ QueuesOK /\ DocumentOK /\ SavesOK
  BY NoteParts DEF NoteInv
<1> DEFINE s == SessionOf(c)
<1>1. s \in Session /\ s[1] = c /\ s[2] = link[c] /\ link[c] \in Nat
  BY <1>0, OwnSession, SessionParts
<1>2. /\ mode[c] \in {"online", "left", "offline"}
      /\ UNCHANGED <<link, initial, got, after, members, pool, log, frames, saves, note>>
      /\ synced' \subseteq synced /\ upset \subseteq upset' /\ upset' \subseteq Upsets
      /\ QueuesOK'
      /\ \A t \in Session \ {s} : up'[t] = up[t] /\ down'[t] = down[t]
      /\ Ops(up'[s]) \subseteq Ops(up[s])
      /\ Ordered(up'[s])
      /\ Has(up'[s], {"update", "leave"}) => Joining(up'[s]) \/ s \in members
      /\ Joining(up'[s]) => Joining(up[s])
      /\ up'[s] # <<>> => s \in pool
      /\ mode'[c] = "left" => ~Has(up'[s], {"disconnect"})
      /\ down'[s] \in {<<>>, down[s]}
  BY DEF GoStep, document
<1>3. PICK to \in {"left", "offline", "gone"} : mode' = [mode EXCEPT ![c] = to]
  BY DEF GoStep
<1>4. mode'[c] = to /\ \A d \in Client : d # c => mode'[d] = mode[d]
  BY <1>0, <1>3 DEF ClientOK
<1>5. /\ \A d \in Client : SessionOf(d)' = SessionOf(d) /\ (d # c => SessionOf(d) \in Session \ {s})
      /\ \A t : Appending(t)' = Appending(t)
  BY <1>0, <1>2, OwnSession DEF SessionOf, Appending
<1>8. NoteTypeOK'
  <2>1. ClientOK'
    BY <1>0, <1>2, <1>3 DEF ClientOK
  <2>2. DocumentOK' /\ SavesOK'
    BY <1>0, <1>2 DEF DocumentOK, SavesOK
  <2> QED
    BY <1>2, <2>1, <2>2, NotePartsNext
<1> HIDE DEF s
<1>9. SessionInv'
  <2> SUFFICES ASSUME NEW t \in Session
               PROVE  /\ Ordered(up'[t])
                      /\ Has(up'[t], {"update", "leave"}) => Joining(up'[t]) \/ t \in members
                      /\ Joining(up'[t]) => t \notin members /\ down'[t] = <<>>
                      /\ up'[t] # <<>> => t \in pool
                      /\ t[2] > link[t[1]] \/ mode'[t[1]] = "closed" =>
                             up'[t] = <<>> /\ down'[t] = <<>> /\ t \notin members
    BY <1>2 DEF SessionInv
  <2>1. CASE t = s
    <3>1. Joining(up[s]) => s \notin members /\ down[s] = <<>>
      BY <1>0, <1>1 DEF SessionInv
    <3>2. ~(t[2] > link[t[1]]) /\ mode'[t[1]] # "closed"
      BY <1>1, <1>3, <1>4, <2>1
    <3> QED
      BY <1>2, <2>1, <3>1, <3>2
  <2>2. CASE t # s
    <3>1. up'[t] = up[t] /\ down'[t] = down[t]
      BY <1>2, <2>2
    <3>2. mode'[t[1]] = "closed" => mode[t[1]] = "closed"
      BY <1>3, <1>4, SessionParts
    <3> QED
      BY <1>0, <3>1, <3>2 DEF SessionInv
  <2> QED
    BY <2>1, <2>2
<1>10. ModeInv'
  <2> SUFFICES ASSUME NEW d \in Client
               PROVE  /\ mode'[d] = "online" => /\ ~Has(up'[SessionOf(d)], {"leave", "disconnect"})
                                                /\ Joining(up'[SessionOf(d)]) \/ SessionOf(d) \in members
                      /\ mode'[d] = "left" => ~Has(up'[SessionOf(d)], {"disconnect"})
                      /\ mode'[d] \in {"online", "left"} => SessionOf(d) \in pool
                      /\ mode'[d] = "closed" => link[d] = 1 /\ got[d] = {}
    BY <1>2, <1>5 DEF ModeInv
  <2>1. CASE d = c
    <3>1. to = "left" => s \in pool
      BY <1>2, <1>4 DEF GoStep, s
    <3> QED
      BY <1>2, <1>3, <1>4, <2>1, <3>1 DEF s
  <2>2. CASE d # c
    <3>1. up'[SessionOf(d)] = up[SessionOf(d)] /\ mode'[d] = mode[d]
      BY <1>2, <1>4, <1>5, <2>2
    <3> QED
      BY <1>0, <3>1 DEF ModeInv
  <2> QED
    BY <2>1, <2>2
<1>11. ASSUME NEW d \in Client, mode'[d] = "online"
       PROVE  d # c /\ mode[d] = "online" /\ up'[SessionOf(d)] = up[SessionOf(d)] /\ down'[SessionOf(d)] = down[SessionOf(d)]
  BY <1>2, <1>3, <1>4, <1>5, <1>11
<1>12. \A t \in Session : Ops(up'[t]) \subseteq Ops(up[t])
  BY <1>2
<1>13. ConvergeInv'
  <2>1. \A t \in Session : Ops(up'[t]) \cup Appending(t) \subseteq got[t[1]]
    BY <1>0, <1>12 DEF ConvergeInv
  <2>2. \A d \in Client : mode'[d] = "online" /\ ~Joining(up'[SessionOf(d)]) => Joined(d)
    BY <1>11 DEF Joined
  <2>3. \A d \in Client : Joined(d)' => Joined(d) /\ down'[SessionOf(d)] = down[SessionOf(d)]
    BY <1>5, <1>11, <2>2 DEF Joined
  <2>4. \A d \in Client : Joined(d)' =>
            log \subseteq got[d] \cup Carried(down'[SessionOf(d)]) /\ Carried(down'[SessionOf(d)]) \subseteq log
    BY <1>0, <2>3 DEF ConvergeInv
  <2>5. \A d \in Client : mode'[d] = "online" /\ link[d] = 1 =>
            IF Joining(up'[SessionOf(d)]) THEN got[d] \subseteq Ops(up'[SessionOf(d)])
            ELSE got[d] \subseteq log \cup Ops(up'[SessionOf(d)]) \cup Appending(SessionOf(d))
    BY <1>0, <1>11 DEF ConvergeInv
  <2> QED
    BY <1>2, <1>5, <2>1, <2>4, <2>5 DEF ConvergeInv
<1>14. ClearedInv'
  BY <1>0, <1>2 DEF ClearedInv
<1>15. FilledInv'
  <2>1. \A d \in Client : MayFill(d)' => MayFill(d)
    BY <1>5, <1>11 DEF MayFill
  <2>2. \A d \in Client : Around(d)' => Around(d)
    <3> SUFFICES ASSUME NEW d \in Client, Around(d)' PROVE Around(d)
      OBVIOUS
    <3>1. CASE Seed(d) \in log' \/ MayFill(d)'
      BY <1>2, <2>1, <3>1 DEF Around
    <3>2. CASE \E t \in Session : Seed(d) \in Ops(up'[t]) \cup Appending(t)'
      BY <1>5, <1>12, <3>2 DEF Around
    <3>3. CASE \E e \in Client : mode'[e] = "online" /\ Seed(d) \in got'[e] \cup Carried(down'[SessionOf(e)'])
      BY <1>2, <1>5, <1>11, <3>3 DEF Around
    <3> QED
      BY <3>1, <3>2, <3>3 DEF Around
  <2>3. Without({"overlap", "reconnect"})' => Without({"overlap", "reconnect"})
    BY <1>2 DEF Without
  <2>4. \A d \in Client : link[d] = 1 => (Joining(up'[<<d, 1>>]) => Joining(up[<<d, 1>>]))
    <3> SUFFICES ASSUME NEW d \in Client, link[d] = 1, Joining(up'[<<d, 1>>]) PROVE Joining(up[<<d, 1>>])
      OBVIOUS
    <3>1. <<d, 1>> = SessionOf(d) /\ SessionOf(d) \in Session
      BY <1>0, OwnSession DEF SessionOf
    <3> QED
      BY <1>2, <3>1
  <2> QED
    BY <1>0, <1>2, <2>2, <2>3, <2>4 DEF FilledInv
<1> QED
  BY <1>8, <1>9, <1>10, <1>13, <1>14, <1>15 DEF NoteInv


\* An editor comes, as session s that was not there before.
ComeStep(c, s) ==
    /\ s \in Session /\ s[1] = c /\ mode' = [mode EXCEPT ![c] = "online"]
    /\ up[s] = <<>> /\ up' = [up EXCEPT ![s] = <<[kind |-> "join"]>>]
    /\ pool' = pool \cup {s}
    /\ UNCHANGED <<synced, got, after, down, members, log, frames, saves, note>>
    /\ initial' \in [Client -> SUBSET TextPiece]
    /\ upset \subseteq upset' /\ upset' \subseteq Upsets
    /\ \/ mode[c] = "closed" /\ s = SessionOf(c) /\ UNCHANGED link
       \/ mode[c] = "offline" /\ s = <<c, link[c] + 1>> /\ link' = [link EXCEPT ![c] = @ + 1] /\ "reconnect" \in upset'

LEMMA ComeCases ==
    ASSUME NoteInv, NEW c \in Client, Mount(c) \/ Reconnect(c)
    PROVE  \E s \in Session : ComeStep(c, s)
<1>0. NoteTypeOK /\ SessionInv /\ ClientOK /\ QueuesOK /\ SavesOK /\ upset \subseteq Upsets
  BY NoteParts DEF NoteInv, DocumentOK
<1>1. CASE Mount(c)
  <2> DEFINE s == SessionOf(c)
  <2>1. s \in Session /\ s[1] = c
    BY <1>0, OwnSession
  <2>2. mode[c] = "closed" /\ up[s] = <<>>
    BY <1>0, <1>1, <2>1 DEF Mount, SessionInv
  <2>3. up' = [up EXCEPT ![s] = <<[kind |-> "join"]>>]
    <3>1. up' = [up EXCEPT ![s] = Append(@, [kind |-> "join"])]
      BY <1>1 DEF Mount, EmitTo
    <3> QED
      BY <1>0, <2>1, <2>2, <3>1, JoinQueue DEF QueuesOK
  <2>4. ComeStep(c, s)
    BY <1>0, <1>1, <2>1, <2>2, <2>3 DEF Mount, ComeStep, SavesOK, ClientOK
  <2> QED
    BY <2>1, <2>4
<1>2. CASE Reconnect(c)
  <2> DEFINE s == <<c, link[c] + 1>>
  <2>1. s \in Session /\ s[1] = c /\ s[2] > link[s[1]]
    BY <1>0, <1>2, BoundsAssumption DEF Reconnect, ClientOK
  <2>2. up[s] = <<>>
    BY <1>0, <2>1 DEF SessionInv
  <2>3. upset \subseteq upset' /\ upset' \subseteq Upsets /\ "reconnect" \in upset'
    <3>1. "reconnect" \in Upsets
      BY DEF Upsets
    <3> QED
      BY <1>0, <1>2, <3>1, NoteUpset DEF Reconnect
  <2>4. ComeStep(c, s)
    BY <1>0, <1>2, <2>1, <2>2, <2>3 DEF Reconnect, ComeStep, ClientOK
  <2> QED
    BY <2>1, <2>4
<1> QED
  BY <1>1, <1>2

LEMMA ComeKeeps == ASSUME NoteInv, NEW c \in Client, NEW s \in Session, ComeStep(c, s) PROVE NoteInv'
<1>0. /\ NoteTypeOK /\ SessionInv /\ ModeInv /\ ConvergeInv /\ ClearedInv /\ FilledInv
      /\ ClientOK /\ QueuesOK /\ DocumentOK /\ SavesOK
  BY NoteParts DEF NoteInv
<1>1. /\ s[1] = c /\ mode' = [mode EXCEPT ![c] = "online"] /\ mode[c] \in {"closed", "offline"}
      /\ pool' = pool \cup {s}
      /\ UNCHANGED <<synced, got, after, down, members, log, frames, saves, note>>
      /\ upset \subseteq upset' /\ upset' \subseteq Upsets
  BY DEF ComeStep
<1>2. /\ Ops(up'[s]) = {} /\ Joining(up'[s]) /\ Ordered(up'[s])
      /\ \A kinds : Has(up'[s], kinds) => "join" \in kinds
      /\ \A t \in Session \ {s} : up'[t] = up[t]
      /\ QueuesOK'
  <2>1. up' = [up EXCEPT ![s] = <<[kind |-> "join"]>>]
    BY DEF ComeStep
  <2>2. up'[s] = <<[kind |-> "join"]>> /\ \A t \in Session \ {s} : up'[t] = up[t]
    BY <1>0, <2>1 DEF QueuesOK
  <2>3. QueuesOK'
    BY <1>0, <1>1, <2>1, JoinQueue DEF QueuesOK
  <2> QED
    BY <2>2, <2>3, JoinQueue
<1>3. /\ mode'[c] = "online" /\ \A d \in Client : d # c => mode'[d] = mode[d]
      /\ \A d \in Client : d # c => link'[d] = link[d] /\ SessionOf(d)' = SessionOf(d) /\ SessionOf(d) \in Session \ {s}
      /\ SessionOf(c)' = s /\ link'[c] = s[2] /\ s[2] \in Nat /\ link'[c] \in 1 .. MaxReconnects + 1
      /\ link[c] \in Nat /\ link[c] <= s[2]
  <2>1. CASE mode[c] = "closed" /\ s = SessionOf(c) /\ UNCHANGED link
    <3>1. \A d \in Client : SessionOf(d)' = SessionOf(d) /\ (d # c => SessionOf(d) \in Session \ {s})
      BY <1>0, <2>1, OwnSession DEF SessionOf
    <3>2. s[2] = link[c] /\ link[c] \in 1 .. MaxReconnects + 1
      BY <1>0, <2>1, OwnSession DEF ClientOK
    <3> QED
      BY <1>0, <1>1, <2>1, <3>1, <3>2, BoundsAssumption DEF ClientOK
  <2>2. CASE s = <<c, link[c] + 1>> /\ link' = [link EXCEPT ![c] = @ + 1]
    <3>1. s[2] = link[c] + 1 /\ link'[c] = s[2] /\ s[2] \in 1 .. MaxReconnects + 1 /\ link[c] \in 1 .. MaxReconnects + 1
      BY <1>0, <2>2 DEF ClientOK, Session
    <3>2. \A d \in Client : d # c => link'[d] = link[d] /\ SessionOf(d)[1] = d /\ SessionOf(d) \in Session
      BY <1>0, <2>2, OwnSession DEF ClientOK
    <3>3. \A d \in Client : d # c => SessionOf(d)' = SessionOf(d)
      BY <3>2 DEF SessionOf
    <3>4. SessionOf(c)' = s
      BY <2>2, <3>1 DEF SessionOf
    <3> QED
      BY <1>0, <1>1, <3>1, <3>2, <3>3, <3>4, BoundsAssumption DEF ClientOK
  <2> QED
    BY <2>1, <2>2 DEF ComeStep
<1>4. down[s] = <<>> /\ s \notin members
  <2>1. s[2] > link[s[1]] \/ mode[s[1]] = "closed"
    <3>1. CASE mode[c] = "closed"
      BY <1>1, <3>1
    <3>2. CASE s = <<c, link[c] + 1>>
      <4>1. link[c] \in Nat
        BY <1>3
      <4> QED
        BY <1>1, <3>2, <4>1
    <3> QED
      BY <3>1, <3>2 DEF ComeStep
  <2> QED
    BY <1>0, <2>1 DEF SessionInv
<1>5. \A t : Appending(t)' = Appending(t)
  BY <1>1 DEF Appending
<1>6. NoteTypeOK'
  <2>1. initial' \in [Client -> SUBSET TextPiece] /\ link' \in [Client -> 1 .. MaxReconnects + 1]
    <3>1. link' = link \/ link' = [link EXCEPT ![c] = @ + 1]
      BY DEF ComeStep
    <3> QED
      BY <1>0, <1>3, <3>1 DEF ComeStep, ClientOK
  <2>2. ClientOK'
    BY <1>0, <1>1, <2>1 DEF ClientOK
  <2>3. DocumentOK' /\ SavesOK'
    BY <1>0, <1>1 DEF DocumentOK, SavesOK
  <2> QED
    BY <1>2, <2>2, <2>3, NotePartsNext
<1>7. SessionInv'
  <2> SUFFICES ASSUME NEW t \in Session
               PROVE  /\ Ordered(up'[t])
                      /\ Has(up'[t], {"update", "leave"}) => Joining(up'[t]) \/ t \in members
                      /\ Joining(up'[t]) => t \notin members /\ down[t] = <<>>
                      /\ up'[t] # <<>> => t \in pool'
                      /\ t[2] > link'[t[1]] \/ mode'[t[1]] = "closed" =>
                             up'[t] = <<>> /\ down[t] = <<>> /\ t \notin members
    BY <1>1 DEF SessionInv
  <2>1. CASE t = s
    BY <1>1, <1>2, <1>3, <1>4, <2>1
  <2>2. CASE t # s
    <3>1. up'[t] = up[t]
      BY <1>2, <2>2
    <3>2. t[2] > link'[t[1]] \/ mode'[t[1]] = "closed" => t[2] > link[t[1]] \/ mode[t[1]] = "closed"
      <4>1. t[1] \in Client /\ t[2] \in Nat
        BY SessionParts
      <4> QED
        BY <1>3, <4>1
    <3> QED
      BY <1>0, <1>1, <3>1, <3>2 DEF SessionInv
  <2> QED
    BY <2>1, <2>2
<1>8. ModeInv'
  <2> SUFFICES ASSUME NEW d \in Client
               PROVE  /\ mode'[d] = "online" => /\ ~Has(up'[SessionOf(d)'], {"leave", "disconnect"})
                                                /\ Joining(up'[SessionOf(d)']) \/ SessionOf(d)' \in members
                      /\ mode'[d] = "left" => ~Has(up'[SessionOf(d)'], {"disconnect"})
                      /\ mode'[d] \in {"online", "left"} => SessionOf(d)' \in pool'
                      /\ mode'[d] = "closed" => link'[d] = 1 /\ got[d] = {}
    BY <1>1 DEF ModeInv
  <2>1. CASE d = c
    BY <1>1, <1>2, <1>3, <2>1
  <2>2. CASE d # c
    <3>1. up'[SessionOf(d)'] = up[SessionOf(d)]
      BY <1>2, <1>3, <2>2
    <3> QED
      BY <1>0, <1>1, <1>3, <2>2, <3>1 DEF ModeInv
  <2> QED
    BY <2>1, <2>2
<1>9. \/ mode[c] = "closed" /\ got[c] = {} /\ link'[c] = 1
      \/ "reconnect" \in upset' /\ link'[c] # 1
  <2>1. CASE mode[c] = "closed" /\ UNCHANGED link
    <3>1. link[c] = 1 /\ got[c] = {}
      BY <1>0, <2>1 DEF ModeInv
    <3> QED
      BY <2>1, <3>1
  <2>2. CASE s = <<c, link[c] + 1>> /\ "reconnect" \in upset'
    <3>1. link[c] \in 1 .. MaxReconnects + 1 /\ link'[c] = link[c] + 1
      BY <1>0, <1>3, <2>2 DEF ClientOK
    <3> QED
      BY <2>2, <3>1
  <2> QED
    BY <2>1, <2>2 DEF ComeStep
<1>10. \A t \in Session : Ops(up'[t]) \subseteq Ops(up[t])
  BY <1>2
<1>11. ConvergeInv'
  <2>1. \A t \in Session : Ops(up'[t]) \cup Appending(t) \subseteq got[t[1]]
    BY <1>0, <1>10 DEF ConvergeInv
  <2>2. \A d \in Client : Joined(d)' => d # c /\ Joined(d)
    BY <1>2, <1>3 DEF Joined
  <2>3. \A d \in Client : Joined(d)' =>
            log \subseteq got[d] \cup Carried(down[SessionOf(d)']) /\ Carried(down[SessionOf(d)']) \subseteq log
    BY <1>0, <1>3, <2>2 DEF ConvergeInv
  <2>4. ASSUME NEW d \in Client, mode'[d] = "online", link'[d] = 1
        PROVE  IF Joining(up'[SessionOf(d)']) THEN got[d] \subseteq Ops(up'[SessionOf(d)'])
               ELSE got[d] \subseteq log \cup Ops(up'[SessionOf(d)']) \cup Appending(SessionOf(d)')
    <3>1. CASE d = c
      BY <1>2, <1>3, <1>9, <2>4, <3>1
    <3>2. CASE d # c
      <4>1. up'[SessionOf(d)'] = up[SessionOf(d)] /\ SessionOf(d)' = SessionOf(d) /\ mode[d] = "online" /\ link[d] = 1
        BY <1>2, <1>3, <2>4, <3>2
      <4> QED
        BY <1>0, <4>1 DEF ConvergeInv
    <3> QED
      BY <3>1, <3>2
  <2> QED
    BY <1>1, <1>5, <2>1, <2>3, <2>4 DEF ConvergeInv
<1>12. ClearedInv'
  BY <1>0, <1>1 DEF ClearedInv
<1>13. FilledInv'
  <2> SUFFICES ASSUME Without({"overlap", "reconnect"})'
               PROVE  /\ \A d, e \in Client : Around(d)' /\ Around(e)' => d = e
                      /\ \A b \in Client : \A d, e \in Client : Seed(d) \in got'[b] /\ Seed(e) \in got'[b] => d = e
                      /\ \A b \in Client : link'[b] = 1 /\ (Joining(up'[<<b, 1>>]) => got'[b] \cap Seeds = {})
    BY DEF FilledInv
  <2>1. /\ Without({"overlap", "reconnect"}) /\ got[c] = {} /\ link'[c] = 1
    BY <1>1, <1>9 DEF Without
  <2>2. Carried(down[s]) = {} /\ Len(down[s]) = 0
    BY <1>4, NothingIn, EmptySeq
  <2>3. \A d \in Client : MayFill(d)' => MayFill(d)
    <3> SUFFICES ASSUME NEW d \in Client, MayFill(d)' PROVE MayFill(d)
      OBVIOUS
    <3>1. CASE d = c
      BY <1>1, <1>3, <2>2, <3>1 DEF MayFill
    <3>2. CASE d # c
      BY <1>1, <1>3, <3>2 DEF MayFill
    <3> QED
      BY <3>1, <3>2
  <2>4. \A d \in Client : Around(d)' => Around(d)
    <3> SUFFICES ASSUME NEW d \in Client, Around(d)' PROVE Around(d)
      OBVIOUS
    <3>1. CASE Seed(d) \in log' \/ MayFill(d)'
      BY <1>1, <2>3, <3>1 DEF Around
    <3>2. CASE \E t \in Session : Seed(d) \in Ops(up'[t]) \cup Appending(t)'
      BY <1>5, <1>10, <3>2 DEF Around
    <3>3. ASSUME NEW e \in Client, mode'[e] = "online", Seed(d) \in got'[e] \cup Carried(down'[SessionOf(e)'])
          PROVE  Around(d)
      <4>1. e # c
        BY <1>1, <1>3, <2>1, <2>2, <3>3
      <4> QED
        BY <1>1, <1>3, <3>3, <4>1 DEF Around
    <3> QED
      BY <3>1, <3>2, <3>3 DEF Around
  <2>5. ASSUME NEW b \in Client PROVE link'[b] = 1 /\ (Joining(up'[<<b, 1>>]) => got'[b] \cap Seeds = {})
    <3>1. CASE b = c
      BY <1>1, <2>1, <3>1
    <3>2. CASE b # c
      <4>1. link[b] = 1 /\ SessionOf(b) = <<b, 1>> /\ up'[SessionOf(b)] = up[SessionOf(b)]
        BY <1>0, <1>2, <1>3, <2>1, <3>2 DEF FilledInv, SessionOf
      <4> QED
        BY <1>0, <1>1, <1>3, <2>1, <3>2, <4>1 DEF FilledInv
    <3> QED
      BY <3>1, <3>2
  <2> QED
    BY <1>0, <1>1, <2>1, <2>4, <2>5 DEF FilledInv
<1> QED
  BY <1>6, <1>7, <1>8, <1>11, <1>12, <1>13 DEF NoteInv


--------------------------------------------------------------------------------
(* NoteSession: the handlers of the server *)

LEMMA BeginFacts ==
    ASSUME NoteInv, NEW s \in Session, NEW kind \in {"join", "update", "leave", "disconnect"}, Begins(s, kind)
    PROVE  /\ up[s] # <<>> /\ Head(up[s]) = up[s][1] /\ Head(up[s]) \in UpMessage /\ Head(up[s]).kind = kind
           /\ up' \in [Session -> Seq(UpMessage)] /\ \A t \in Session \ {s} : up'[t] = up[t]
           /\ Ordered(up'[s]) /\ ~Joining(up'[s])
           /\ \A kinds : Has(up'[s], kinds) => Has(up[s], kinds)
           /\ kind = "update" => Ops(up[s]) = Ops(up'[s]) \cup Head(up[s]).ops
           /\ kind # "update" => Ops(up'[s]) = Ops(up[s])
           /\ kind = "disconnect" => up'[s] = <<>>
           /\ kind = "leave" => ~Has(up'[s], {"join", "update", "leave"})
           /\ Joining(up[s]) <=> kind = "join"
           /\ kind \in {"update", "leave"} => s \in members
           /\ kind \in {"leave", "disconnect"} => \A c \in Client : mode[c] = "online" => SessionOf(c) # s
           /\ kind = "disconnect" => \A c \in Client : mode[c] = "left" => SessionOf(c) # s
           /\ s \in pool /\ ~(s[2] > link[s[1]] \/ mode[s[1]] = "closed")
           /\ upset \subseteq upset' /\ upset' \subseteq Upsets
           /\ "overlap" \notin upset' => frames = {} /\ "overlap" \notin upset
<1>0. NoteTypeOK /\ SessionInv /\ ModeInv /\ ClientOK /\ QueuesOK /\ upset \subseteq Upsets
  BY NoteParts DEF NoteInv, DocumentOK
<1> DEFINE q == up[s]
<1>1. /\ q \in Seq(UpMessage) /\ q # <<>> /\ Head(q).kind = kind /\ up' = [up EXCEPT ![s] = Tail(@)]
      /\ UpsetIf(frames # {}, "overlap")
  BY <1>0 DEF Begins, QueuesOK
<1>2. /\ Ordered(q) /\ (Has(q, {"update", "leave"}) => Joining(q) \/ s \in members) /\ s \in pool
      /\ ~(s[2] > link[s[1]] \/ mode[s[1]] = "closed")
  BY <1>0, <1>1 DEF SessionInv
<1>3. up'[s] = Tail(q) /\ \A t \in Session \ {s} : up'[t] = up[t]
  BY <1>0, <1>1 DEF QueuesOK
<1> HIDE DEF q
<1>4. /\ Head(q) = q[1] /\ Head(q) \in UpMessage /\ Tail(q) \in Seq(UpMessage)
      /\ \A kinds : Has(q, kinds) <=> Has(Tail(q), kinds) \/ q[1].kind \in kinds
      /\ q[1].kind = "update" => Ops(q) = Ops(Tail(q)) \cup q[1].ops
      /\ q[1].kind # "update" => Ops(q) = Ops(Tail(q))
      /\ Ordered(Tail(q)) /\ ~Joining(Tail(q))
      /\ q[1].kind = "disconnect" => Tail(q) = <<>>
      /\ q[1].kind = "leave" => ~Has(Tail(q), {"join", "update", "leave"})
  BY <1>1, <1>2, TailQueue
<1>5. Joining(q) <=> kind = "join"
  BY <1>1, <1>4 DEF Joining
<1>6. \A kinds : kind \in kinds => Has(q, kinds)
  BY <1>1, <1>4
<1>7. kind \in {"update", "leave"} => s \in members
  BY <1>2, <1>5, <1>6
<1>8. /\ kind \in {"leave", "disconnect"} => \A c \in Client : mode[c] = "online" => SessionOf(c) # s
      /\ kind = "disconnect" => \A c \in Client : mode[c] = "left" => SessionOf(c) # s
  BY <1>0, <1>6 DEF ModeInv, q
<1>9. up' \in [Session -> Seq(UpMessage)]
  BY <1>0, <1>1, <1>3, <1>4 DEF QueuesOK, q
<1>10. upset \subseteq upset' /\ upset' \subseteq Upsets /\ (frames # {} => "overlap" \in upset')
  <2>1. "overlap" \in Upsets
    BY DEF Upsets
  <2> QED
    BY <1>0, <1>1, <2>1, NoteUpset
<1> QED
  BY <1>1, <1>2, <1>3, <1>4, <1>5, <1>7, <1>8, <1>9, <1>10 DEF q

\* When the room is empty and no handler waits, the seeds of earlier editors are nowhere
\* from where they could come back.
LEMMA NobodyAround ==
    ASSUME NoteInv, Without({"overlap", "reconnect"}), members = {}, frames = {}
    PROVE  \A d \in Client : ~Around(d)
<1>0. SessionInv /\ ModeInv /\ ConvergeInv /\ ClearedInv /\ FilledInv /\ ClientOK /\ QueuesOK
  BY NoteParts DEF NoteInv
<1>1. log = {}
  BY <1>0 DEF ClearedInv, Without
<1>2. \A t : Appending(t) = {}
  BY DEF Appending
<1>3. \A c \in Client : link[c] = 1 /\ (Joining(up[<<c, 1>>]) => got[c] \cap Seeds = {})
  BY <1>0 DEF FilledInv
<1>4. ASSUME NEW t \in Session PROVE Ops(up[t]) \cap Seeds = {}
  <2>1. CASE t[2] > 1
    <3>1. up[t] = <<>>
      BY <1>0, <1>3, <2>1, SessionParts DEF SessionInv
    <3> QED
      BY <3>1, NothingIn
  <2>2. CASE t[2] = 1
    <3>1. t = <<t[1], 1>> /\ t[1] \in Client
      BY <2>2, SessionParts
    <3>2. CASE Joining(up[t])
      <4>1. Ops(up[t]) \subseteq got[t[1]]
        BY <1>0 DEF ConvergeInv
      <4> QED
        BY <1>3, <3>1, <3>2, <4>1
    <3>3. CASE ~Joining(up[t])
      <4>1. ~Has(up[t], {"update", "leave"})
        BY <1>0, <3>3 DEF SessionInv
      <4>2. Ops(up[t]) = {}
        BY <4>1 DEF Ops, Has
      <4> QED
        BY <4>2
    <3> QED
      BY <3>2, <3>3
  <2> QED
    BY <2>1, <2>2, SessionParts
<1>5. ASSUME NEW c \in Client, mode[c] = "online"
      PROVE  (got[c] \cup Carried(down[SessionOf(c)])) \cap Seeds = {} /\ ~MayFill(c)
  <2>1. SessionOf(c) = <<c, 1>> /\ SessionOf(c) \in Session
    BY <1>0, <1>3, OwnSession DEF SessionOf
  <2>2. Joining(up[SessionOf(c)])
    BY <1>0, <1>5 DEF ModeInv
  <2>3. down[SessionOf(c)] = <<>> /\ Len(down[SessionOf(c)]) = 0
    BY <1>0, <2>1, <2>2, EmptySeq DEF SessionInv
  <2> QED
    BY <1>3, <2>1, <2>2, <2>3, NothingIn DEF MayFill
<1>6. \A d \in Client : Seed(d) \in Seeds
  BY SeedOps
<1>7. \A d \in Client : MayFill(d) => mode[d] = "online"
  BY DEF MayFill
<1> QED
  BY <1>1, <1>2, <1>4, <1>5, <1>6, <1>7 DEF Around

\* The queue of a session that has been answered, and of nothing else.
LEMMA OneMessage ==
    ASSUME NEW m \in DownMessage
    PROVE  LET q == Append(<<>>, m) IN
           q \in Seq(DownMessage) /\ Carried(q) = m.ops /\ \A k \in 1 .. Len(q) : q[k] = m
<1> DEFINE q == Append(<<>>, m)
<1>1. <<>> \in Seq(DownMessage) /\ Len(<<>>) = 0
  BY EmptySeq
<1>2. q \in Seq(DownMessage) /\ Len(q) = 1 /\ q[1] = m
  BY <1>1, AppendPlaces
<1> HIDE DEF q
<1>3. \A k \in 1 .. Len(q) : k = 1
  BY <1>2
<1>4. Carried(q) = m.ops
  BY <1>2, <1>3 DEF Carried
<1> QED
  BY <1>2, <1>3, <1>4 DEF q

\* ydoc_document_join.
LEMMA JoinKeeps == ASSUME NoteInv, NEW s \in Session, HandleJoin(s) PROVE NoteInv'
<1>0. /\ NoteTypeOK /\ SessionInv /\ ModeInv /\ ConvergeInv /\ ClearedInv /\ FilledInv
      /\ ClientOK /\ QueuesOK /\ DocumentOK /\ SavesOK
  BY NoteParts DEF NoteInv
<1> DEFINE m == State(log, members \subseteq {s})
<1>1. /\ members' = members \cup {s} /\ down' = [down EXCEPT ![s] = Append(@, m)]
      /\ UNCHANGED <<mode, link, synced, initial, got, after, pool, log, frames, saves, note>>
      /\ Begins(s, "join")
  BY DEF HandleJoin, client
<1>2. /\ up' \in [Session -> Seq(UpMessage)] /\ \A t \in Session \ {s} : up'[t] = up[t]
      /\ Ordered(up'[s]) /\ ~Joining(up'[s]) /\ Joining(up[s])
      /\ \A kinds : Has(up'[s], kinds) => Has(up[s], kinds)
      /\ Ops(up'[s]) = Ops(up[s])
      /\ s \in pool /\ ~(s[2] > link[s[1]] \/ mode[s[1]] = "closed")
      /\ upset \subseteq upset' /\ upset' \subseteq Upsets
      /\ "overlap" \notin upset' => frames = {} /\ "overlap" \notin upset
  BY <1>1, BeginFacts
<1>3. s \notin members /\ down[s] = <<>>
  BY <1>0, <1>2 DEF SessionInv
<1>4. m \in DownMessage /\ m.ops = log /\ (m.kind = "state" /\ m.alone /\ m.ops = {} => members = {} /\ log = {})
  <2>1. log \in SUBSET Op /\ (members \subseteq {s}) \in BOOLEAN
    BY <1>0 DEF DocumentOK
  <2> QED
    BY <1>3, <2>1, UpMessages DEF State
<1> HIDE DEF m
<1>5. /\ down'[s] = Append(<<>>, m) /\ \A t \in Session \ {s} : down'[t] = down[t]
      /\ down' \in [Session -> Seq(DownMessage)]
      /\ Carried(down'[s]) = log
      /\ \A k \in 1 .. Len(down'[s]) : down'[s][k] = m
  <2>1. down'[s] = Append(<<>>, m) /\ \A t \in Session \ {s} : down'[t] = down[t]
    BY <1>0, <1>1, <1>3 DEF QueuesOK
  <2>2. /\ Append(<<>>, m) \in Seq(DownMessage) /\ Carried(Append(<<>>, m)) = log
        /\ \A k \in 1 .. Len(Append(<<>>, m)) : Append(<<>>, m)[k] = m
    BY <1>4, OneMessage
  <2>3. down' \in [Session -> Seq(DownMessage)]
    BY <1>0, <1>1, <2>1, <2>2 DEF QueuesOK
  <2> QED
    BY <2>1, <2>2, <2>3
<1>6. /\ \A d \in Client : SessionOf(d)' = SessionOf(d) /\ SessionOf(d) \in Session
      /\ \A t : Appending(t)' = Appending(t)
      /\ \A d, e \in Client : SessionOf(d) = s /\ SessionOf(e) = s => d = e
  BY <1>0, <1>1, OwnSession DEF SessionOf, Appending
<1>7. NoteTypeOK'
  <2>1. ClientOK' /\ QueuesOK' /\ SavesOK'
    BY <1>0, <1>1, <1>2, <1>5 DEF ClientOK, QueuesOK, SavesOK
  <2>2. DocumentOK'
    BY <1>0, <1>1, <1>2 DEF DocumentOK
  <2> QED
    BY <2>1, <2>2, NotePartsNext
<1>8. SessionInv'
  <2> SUFFICES ASSUME NEW t \in Session
               PROVE  /\ Ordered(up'[t])
                      /\ Has(up'[t], {"update", "leave"}) => Joining(up'[t]) \/ t \in members'
                      /\ Joining(up'[t]) => t \notin members' /\ down'[t] = <<>>
                      /\ up'[t] # <<>> => t \in pool
                      /\ t[2] > link[t[1]] \/ mode[t[1]] = "closed" =>
                             up'[t] = <<>> /\ down'[t] = <<>> /\ t \notin members'
    BY <1>1 DEF SessionInv
  <2>1. CASE t = s
    BY <1>1, <1>2, <2>1
  <2>2. CASE t # s
    BY <1>0, <1>1, <1>2, <1>5, <2>2 DEF SessionInv
  <2> QED
    BY <2>1, <2>2
<1>9. ModeInv'
  <2> SUFFICES ASSUME NEW d \in Client
               PROVE  /\ mode[d] = "online" => /\ ~Has(up'[SessionOf(d)], {"leave", "disconnect"})
                                               /\ Joining(up'[SessionOf(d)]) \/ SessionOf(d) \in members'
                      /\ mode[d] = "left" => ~Has(up'[SessionOf(d)], {"disconnect"})
                      /\ mode[d] \in {"online", "left"} => SessionOf(d) \in pool
                      /\ mode[d] = "closed" => link[d] = 1 /\ got[d] = {}
    BY <1>1, <1>6 DEF ModeInv
  <2>1. CASE SessionOf(d) = s
    BY <1>0, <1>1, <1>2, <2>1 DEF ModeInv
  <2>2. CASE SessionOf(d) # s
    BY <1>0, <1>1, <1>2, <1>6, <2>2 DEF ModeInv
  <2> QED
    BY <2>1, <2>2
<1>10. ConvergeInv'
  <2>1. \A t \in Session : Ops(up'[t]) \cup Appending(t) \subseteq got[t[1]]
    BY <1>0, <1>2 DEF ConvergeInv
  <2>2. ASSUME NEW d \in Client, Joined(d)'
        PROVE  log \subseteq got[d] \cup Carried(down'[SessionOf(d)]) /\ Carried(down'[SessionOf(d)]) \subseteq log
    <3>1. CASE SessionOf(d) = s
      BY <1>5, <3>1
    <3>2. CASE SessionOf(d) # s
      <4>1. Joined(d)
        BY <1>1, <1>2, <1>6, <2>2, <3>2 DEF Joined
      <4> QED
        BY <1>0, <1>5, <1>6, <3>2, <4>1 DEF ConvergeInv
    <3> QED
      BY <3>1, <3>2
  <2>3. ASSUME NEW d \in Client, mode[d] = "online", link[d] = 1
        PROVE  IF Joining(up'[SessionOf(d)]) THEN got[d] \subseteq Ops(up'[SessionOf(d)])
               ELSE got[d] \subseteq log \cup Ops(up'[SessionOf(d)]) \cup Appending(SessionOf(d))
    <3>1. CASE SessionOf(d) = s
      BY <1>0, <1>2, <2>3, <3>1 DEF ConvergeInv
    <3>2. CASE SessionOf(d) # s
      BY <1>0, <1>2, <1>6, <2>3, <3>2 DEF ConvergeInv
    <3> QED
      BY <3>1, <3>2
  <2> QED
    BY <1>1, <1>6, <2>1, <2>2, <2>3 DEF ConvergeInv
<1>11. ClearedInv'
  BY <1>1, <1>2 DEF ClearedInv
<1>12. FilledInv'
  <2> SUFFICES ASSUME Without({"overlap", "reconnect"})'
               PROVE  /\ \A d, e \in Client : Around(d)' /\ Around(e)' => d = e
                      /\ \A b \in Client : \A d, e \in Client : Seed(d) \in got'[b] /\ Seed(e) \in got'[b] => d = e
                      /\ \A b \in Client : link'[b] = 1 /\ (Joining(up'[<<b, 1>>]) => got'[b] \cap Seeds = {})
    BY DEF FilledInv
  <2>1. Without({"overlap", "reconnect"}) /\ frames = {}
    BY <1>2 DEF Without
  <2>2. \A d \in Client : MayFill(d)' => MayFill(d) \/ (SessionOf(d) = s /\ members = {} /\ log = {})
    <3> SUFFICES ASSUME NEW d \in Client, MayFill(d)', SessionOf(d) # s \/ ~(members = {} /\ log = {}) PROVE MayFill(d)
      OBVIOUS
    <3>1. CASE SessionOf(d) = s
      BY <1>4, <1>5, <1>6, <3>1 DEF MayFill
    <3>2. CASE SessionOf(d) # s
      BY <1>1, <1>5, <1>6, <3>2 DEF MayFill
    <3> QED
      BY <3>1, <3>2
  <2>3. \A d \in Client : Around(d)' => Around(d) \/ MayFill(d)'
    <3> SUFFICES ASSUME NEW d \in Client, Around(d)', ~MayFill(d)' PROVE Around(d)
      OBVIOUS
    <3>1. CASE Seed(d) \in log'
      BY <1>1, <3>1 DEF Around
    <3>2. CASE \E t \in Session : Seed(d) \in Ops(up'[t]) \cup Appending(t)'
      BY <1>2, <1>6, <3>2 DEF Around
    <3>3. ASSUME NEW e \in Client, mode'[e] = "online", Seed(d) \in got'[e] \cup Carried(down'[SessionOf(e)'])
          PROVE  Around(d)
      <4>1. Seed(d) \in log \/ Seed(d) \in got[e] \cup Carried(down[SessionOf(e)])
        BY <1>1, <1>5, <1>6, <3>3
      <4> QED
        BY <1>1, <3>3, <4>1 DEF Around
    <3> QED
      BY <3>1, <3>2, <3>3 DEF Around
  <2>4. \A d, e \in Client : Around(d)' /\ Around(e)' => d = e
    <3>1. CASE members = {} /\ log = {}
      <4>1. \A d \in Client : ~Around(d)
        BY <2>1, <3>1, NobodyAround
      <4>2. \A d \in Client : MayFill(d) => Around(d)
        BY DEF Around
      <4> QED
        BY <1>6, <2>2, <2>3, <4>1, <4>2
    <3>2. CASE ~(members = {} /\ log = {})
      <4>1. \A d \in Client : MayFill(d)' => Around(d)
        BY <2>2, <3>2 DEF Around
      <4> QED
        BY <1>0, <2>1, <2>3, <4>1 DEF FilledInv
    <3> QED
      BY <3>1, <3>2
  <2>5. ASSUME NEW b \in Client PROVE link[b] = 1 /\ (Joining(up'[<<b, 1>>]) => got[b] \cap Seeds = {})
    <3>1. link[b] = 1 /\ <<b, 1>> = SessionOf(b)
      BY <1>0, <2>1 DEF FilledInv, SessionOf
    <3>2. Joining(up'[<<b, 1>>]) => Joining(up[<<b, 1>>])
      BY <1>2, <1>6, <3>1
    <3> QED
      BY <1>0, <2>1, <3>1, <3>2 DEF FilledInv
  <2> QED
    BY <1>0, <1>1, <2>1, <2>4, <2>5 DEF FilledInv
<1> QED
  BY <1>7, <1>8, <1>9, <1>10, <1>11, <1>12 DEF NoteInv


\* What the editor does on line or off line.
LEMMA EditKeeps ==
    ASSUME NoteInv, NEW c \in Client,
           (\E e \in Edit : Type(c, e)) \/ StateArrives(c) \/ UpdateArrives(c)
    PROVE  NoteInv'
<1>0. NoteTypeOK /\ ClientOK /\ QueuesOK /\ DocumentOK /\ SavesOK
  BY NoteParts DEF NoteInv
<1>1. synced' \subseteq Client /\ after' \in [Op -> SUBSET Op]
  BY <1>0, EditCases
<1>2. PICK new, sent, taken \in SUBSET Op : \E data \in SUBSET SUBSET TextPiece :
          EditStep(c, new, sent, data, taken)
  BY <1>0, EditCases
<1>3. PICK data \in SUBSET SUBSET TextPiece : EditStep(c, new, sent, data, taken)
  BY <1>2
<1>4. SessionInv' /\ ModeInv' /\ ConvergeInv' /\ ClearedInv' /\ FilledInv'
  BY <1>3, EditSession, EditConverges, EditFilled
<1>5. QueuesOK'
  BY <1>0, <1>3, EditQueues
<1>6. /\ UNCHANGED <<mode, link, initial, members, pool, log, frames, saves, note>>
      /\ upset' \subseteq Upsets /\ got' = [got EXCEPT ![c] = @ \cup new]
  BY <1>3 DEF EditStep, document
<1>7. got' \in [Client -> SUBSET Op]
  BY <1>0, <1>6 DEF ClientOK
<1>8. ClientOK' /\ DocumentOK' /\ SavesOK'
  BY <1>0, <1>1, <1>6, <1>7 DEF ClientOK, DocumentOK, SavesOK
<1> QED
  BY <1>4, <1>5, <1>8, NotePartsNext DEF NoteInv

\* A session leaves the document, or ends: nobody else has anything less, and the
\* updates go only when the room is empty.
ExitStep(s) ==
    /\ UNCHANGED <<mode, link, synced, initial, got, after, down, saves, note>>
    /\ up' \in [Session -> Seq(UpMessage)] /\ \A t \in Session \ {s} : up'[t] = up[t]
    /\ Ordered(up'[s]) /\ ~Joining(up'[s]) /\ ~Has(up'[s], {"update", "leave"})
    /\ \A kinds : Has(up'[s], kinds) => Has(up[s], kinds)
    /\ Ops(up'[s]) = Ops(up[s]) /\ ~Joining(up[s])
    /\ \A c \in Client : mode[c] = "online" => SessionOf(c) # s
    /\ ~(s[2] > link[s[1]] \/ mode[s[1]] = "closed")
    /\ \/ UNCHANGED pool /\ s \in pool
       \/ /\ pool' = pool \ {s} /\ up'[s] = <<>>
          /\ \A c \in Client : mode[c] = "left" => SessionOf(c) # s
    /\ members' = members \ {s}
    /\ log' = log \/ (log' = {} /\ members' = {})
    /\ "overlap" \notin upset' => (log' # {} => members' # {})
    /\ upset \subseteq upset' /\ upset' \subseteq Upsets
    /\ "overlap" \notin upset' => frames = {} /\ "overlap" \notin upset
    /\ \/ UNCHANGED frames
       \/ members' # {} /\ frames' = frames \cup {[session |-> s, at |-> "leave"]}

LEMMA LeaveExits == ASSUME NoteInv, NEW s \in Session, HandleLeave(s) PROVE ExitStep(s)
<1>1. /\ members' = members \ {s} /\ Begins(s, "leave")
      /\ UNCHANGED <<mode, link, synced, initial, got, after, down, pool, saves, note>>
      /\ \/ members' # {} /\ UNCHANGED log /\ frames' = frames \cup {[session |-> s, at |-> "leave"]}
         \/ members' = {} /\ log' = {} /\ UNCHANGED frames
  BY DEF HandleLeave, client, ClearedIf
<1>2. ~Has(up'[s], {"update", "leave"})
  <2>1. ~Has(up'[s], {"join", "update", "leave"})
    BY <1>1, BeginFacts
  <2> QED
    BY <2>1 DEF Has
<1>3. /\ up' \in [Session -> Seq(UpMessage)] /\ \A t \in Session \ {s} : up'[t] = up[t]
      /\ Ordered(up'[s]) /\ ~Joining(up'[s])
      /\ \A kinds : Has(up'[s], kinds) => Has(up[s], kinds)
      /\ Ops(up'[s]) = Ops(up[s]) /\ ~Joining(up[s])
      /\ \A c \in Client : mode[c] = "online" => SessionOf(c) # s
      /\ s \in pool /\ ~(s[2] > link[s[1]] \/ mode[s[1]] = "closed")
      /\ upset \subseteq upset' /\ upset' \subseteq Upsets
      /\ "overlap" \notin upset' => frames = {} /\ "overlap" \notin upset
  BY <1>1, BeginFacts
<1> QED
  BY <1>1, <1>2, <1>3 DEF ExitStep

LEMMA DisconnectExits == ASSUME NoteInv, NEW s \in Session, HandleDisconnect(s) PROVE ExitStep(s)
<1>1. /\ members' = members \ {s} /\ pool' = pool \ {s} /\ Begins(s, "disconnect")
      /\ UNCHANGED <<mode, link, synced, initial, got, after, down, frames, saves, note>>
      /\ log' = IF s \in members /\ members' = {} THEN {} ELSE log
  BY DEF HandleDisconnect, client, ClearedIf
<1>2. /\ up' \in [Session -> Seq(UpMessage)] /\ \A t \in Session \ {s} : up'[t] = up[t]
      /\ Ordered(up'[s]) /\ ~Joining(up'[s]) /\ up'[s] = <<>>
      /\ \A kinds : Has(up'[s], kinds) => Has(up[s], kinds)
      /\ Ops(up'[s]) = Ops(up[s]) /\ ~Joining(up[s])
      /\ \A c \in Client : mode[c] = "online" => SessionOf(c) # s
      /\ \A c \in Client : mode[c] = "left" => SessionOf(c) # s
      /\ ~(s[2] > link[s[1]] \/ mode[s[1]] = "closed")
      /\ upset \subseteq upset' /\ upset' \subseteq Upsets
      /\ "overlap" \notin upset' => frames = {} /\ "overlap" \notin upset
  BY <1>1, BeginFacts
<1>3. ~Has(up'[s], {"update", "leave"})
  BY <1>2, NothingIn
<1>4. "overlap" \notin upset' => (log' # {} => members' # {})
  BY <1>1, <1>2 DEF NoteInv, ClearedInv
<1> QED
  BY <1>1, <1>2, <1>3, <1>4 DEF ExitStep


LEMMA ExitKeeps == ASSUME NoteInv, NEW s \in Session, ExitStep(s) PROVE NoteInv'
<1>0. /\ NoteTypeOK /\ SessionInv /\ ModeInv /\ ConvergeInv /\ ClearedInv /\ FilledInv
      /\ ClientOK /\ QueuesOK /\ DocumentOK /\ SavesOK
  BY NoteParts DEF NoteInv
<1>1. /\ UNCHANGED <<mode, link, synced, initial, got, after, down, saves, note>>
      /\ up' \in [Session -> Seq(UpMessage)] /\ \A t \in Session \ {s} : up'[t] = up[t]
      /\ Ordered(up'[s]) /\ ~Joining(up'[s]) /\ ~Has(up'[s], {"update", "leave"})
      /\ \A kinds : Has(up'[s], kinds) => Has(up[s], kinds)
      /\ Ops(up'[s]) = Ops(up[s]) /\ ~Joining(up[s])
      /\ \A c \in Client : mode[c] = "online" => SessionOf(c) # s
      /\ ~(s[2] > link[s[1]] \/ mode[s[1]] = "closed")
      /\ \/ UNCHANGED pool /\ s \in pool
         \/ /\ pool' = pool \ {s} /\ up'[s] = <<>>
            /\ \A c \in Client : mode[c] = "left" => SessionOf(c) # s
      /\ members' = members \ {s}
      /\ log' = log \/ (log' = {} /\ members' = {})
      /\ "overlap" \notin upset' => (log' # {} => members' # {})
      /\ upset \subseteq upset' /\ upset' \subseteq Upsets
      /\ "overlap" \notin upset' => frames = {} /\ "overlap" \notin upset
      /\ \/ UNCHANGED frames
         \/ members' # {} /\ frames' = frames \cup {[session |-> s, at |-> "leave"]}
  BY DEF ExitStep
<1>2. \A d \in Client : SessionOf(d)' = SessionOf(d) /\ SessionOf(d) \in Session
  BY <1>0, <1>1, OwnSession DEF SessionOf
<1>3. \A t : Appending(t)' = Appending(t)
  BY <1>1 DEF Appending
<1>4. NoteTypeOK'
  <2>1. ClientOK' /\ QueuesOK' /\ SavesOK'
    BY <1>0, <1>1 DEF ClientOK, QueuesOK, SavesOK
  <2>2. frames' \subseteq Frame
    BY <1>0, <1>1 DEF DocumentOK, Frame
  <2>3. DocumentOK'
    BY <1>0, <1>1, <2>2 DEF DocumentOK
  <2> QED
    BY <2>1, <2>3, NotePartsNext
<1>5. SessionInv'
  <2> SUFFICES ASSUME NEW t \in Session
               PROVE  /\ Ordered(up'[t])
                      /\ Has(up'[t], {"update", "leave"}) => Joining(up'[t]) \/ t \in members'
                      /\ Joining(up'[t]) => t \notin members' /\ down[t] = <<>>
                      /\ up'[t] # <<>> => t \in pool'
                      /\ t[2] > link[t[1]] \/ mode[t[1]] = "closed" =>
                             up'[t] = <<>> /\ down[t] = <<>> /\ t \notin members'
    BY <1>1 DEF SessionInv
  <2>1. CASE t = s
    BY <1>1, <2>1
  <2>2. CASE t # s
    BY <1>0, <1>1, <2>2 DEF SessionInv
  <2> QED
    BY <2>1, <2>2
<1>6. ModeInv'
  <2> SUFFICES ASSUME NEW d \in Client
               PROVE  /\ mode[d] = "online" => /\ ~Has(up'[SessionOf(d)], {"leave", "disconnect"})
                                               /\ Joining(up'[SessionOf(d)]) \/ SessionOf(d) \in members'
                      /\ mode[d] = "left" => ~Has(up'[SessionOf(d)], {"disconnect"})
                      /\ mode[d] \in {"online", "left"} => SessionOf(d) \in pool'
                      /\ mode[d] = "closed" => link[d] = 1 /\ got[d] = {}
    BY <1>1, <1>2 DEF ModeInv
  <2>1. CASE SessionOf(d) = s
    BY <1>0, <1>1, <2>1 DEF ModeInv
  <2>2. CASE SessionOf(d) # s
    <3>1. up'[SessionOf(d)] = up[SessionOf(d)]
      BY <1>1, <1>2, <2>2
    <3> QED
      BY <1>0, <1>1, <2>2, <3>1 DEF ModeInv
  <2> QED
    BY <2>1, <2>2
<1>7. \A d \in Client : mode[d] = "online" => up'[SessionOf(d)] = up[SessionOf(d)]
  BY <1>1, <1>2
<1>8. \A d \in Client : Joined(d)' => Joined(d) /\ log' = log
  <2> SUFFICES ASSUME NEW d \in Client, Joined(d)' PROVE Joined(d) /\ log' = log
    OBVIOUS
  <2>1. Joined(d)
    BY <1>1, <1>2, <1>7 DEF Joined
  <2>2. SessionOf(d) \in members /\ SessionOf(d) # s
    BY <1>0, <1>1, <2>1 DEF Joined, ModeInv
  <2> QED
    BY <1>1, <2>1, <2>2
<1>9. ConvergeInv'
  <2>1. \A t \in Session : Ops(up'[t]) \cup Appending(t) \subseteq got[t[1]]
    BY <1>0, <1>1 DEF ConvergeInv
  <2>2. ASSUME NEW d \in Client, Joined(d)'
        PROVE  log' \subseteq got[d] \cup Carried(down[SessionOf(d)]) /\ Carried(down[SessionOf(d)]) \subseteq log'
    BY <1>0, <1>8, <2>2 DEF ConvergeInv
  <2>3. ASSUME NEW d \in Client, mode[d] = "online", link[d] = 1
        PROVE  IF Joining(up'[SessionOf(d)]) THEN got[d] \subseteq Ops(up'[SessionOf(d)])
               ELSE got[d] \subseteq log' \cup Ops(up'[SessionOf(d)]) \cup Appending(SessionOf(d))
    <3>1. up'[SessionOf(d)] = up[SessionOf(d)]
      BY <1>7, <2>3
    <3>2. CASE Joining(up[SessionOf(d)])
      BY <1>0, <2>3, <3>1, <3>2 DEF ConvergeInv
    <3>3. CASE ~Joining(up[SessionOf(d)])
      <4>1. Joined(d)'
        BY <1>1, <1>2, <2>3, <3>1, <3>3 DEF Joined
      <4>2. log' = log
        BY <1>8, <4>1
      <4> QED
        BY <1>0, <2>3, <3>1, <3>3, <4>2 DEF ConvergeInv
    <3> QED
      BY <3>2, <3>3
  <2> QED
    BY <1>1, <1>2, <1>3, <2>1, <2>2, <2>3 DEF ConvergeInv
<1>10. ClearedInv'
  <2> SUFFICES ASSUME "overlap" \notin upset'
               PROVE  /\ \A f, g \in frames' : f = g
                      /\ \A f \in frames' : IF f.at = "leave" THEN members' # {} ELSE f.session \in members'
                      /\ log' # {} => members' # {}
    BY DEF ClearedInv
  <2>1. frames = {} /\ (log' # {} => members' # {})
    BY <1>1
  <2>2. frames' = {} \/ (frames' = {[session |-> s, at |-> "leave"]} /\ members' # {})
    BY <1>1, <2>1
  <2> QED
    BY <2>1, <2>2
<1>11. FilledInv'
  <2> SUFFICES ASSUME Without({"overlap", "reconnect"})'
               PROVE  /\ \A d, e \in Client : Around(d)' /\ Around(e)' => d = e
                      /\ \A b \in Client : \A d, e \in Client : Seed(d) \in got'[b] /\ Seed(e) \in got'[b] => d = e
                      /\ \A b \in Client : link'[b] = 1 /\ (Joining(up'[<<b, 1>>]) => got'[b] \cap Seeds = {})
    BY DEF FilledInv
  <2>1. Without({"overlap", "reconnect"})
    BY <1>1 DEF Without
  <2>2. \A d \in Client : MayFill(d)' => MayFill(d)
    BY <1>1, <1>2 DEF MayFill
  <2>3. ASSUME NEW d \in Client, Around(d)' PROVE Around(d)
    <3>1. CASE Seed(d) \in log'
      BY <1>1, <3>1 DEF Around
    <3>2. ASSUME NEW t \in Session, Seed(d) \in Ops(up'[t]) \cup Appending(t)' PROVE Around(d)
      BY <1>1, <1>3, <3>2 DEF Around
    <3>3. ASSUME NEW e \in Client, mode'[e] = "online", Seed(d) \in got'[e] \cup Carried(down'[SessionOf(e)'])
          PROVE  Around(d)
      BY <1>1, <1>2, <3>3 DEF Around
    <3> QED
      BY <2>2, <2>3, <3>1, <3>2, <3>3 DEF Around
  <2>4. ASSUME NEW b \in Client PROVE link[b] = 1 /\ (Joining(up'[<<b, 1>>]) => got[b] \cap Seeds = {})
    <3>1. link[b] = 1 /\ <<b, 1>> = SessionOf(b)
      BY <1>0, <2>1 DEF FilledInv, SessionOf
    <3>2. Joining(up'[<<b, 1>>]) => Joining(up[<<b, 1>>])
      BY <1>1, <1>2, <3>1
    <3> QED
      BY <1>0, <2>1, <3>1, <3>2 DEF FilledInv
  <2> QED
    BY <1>0, <1>1, <2>1, <2>3, <2>4 DEF FilledInv
<1> QED
  BY <1>4, <1>5, <1>6, <1>9, <1>10, <1>11 DEF NoteInv


\* An update of session a comes on its way: its operations go to the document and to
\* the others in the room, or only the handlers that wait, and the saves, change.
ServeStep(a, ops) ==
    /\ a \in Session /\ ops \subseteq Op
    /\ UNCHANGED <<mode, link, synced, initial, got, after, members, pool>>
    /\ up' \in [Session -> Seq(UpMessage)] /\ \A t \in Session \ {a} : up'[t] = up[t]
    /\ \/ up'[a] = up[a]
       \/ /\ Ordered(up'[a]) /\ ~Joining(up'[a]) /\ ~Joining(up[a])
          /\ \A kinds : Has(up'[a], kinds) => Has(up[a], kinds)
          /\ a \in pool /\ ~(a[2] > link[a[1]] \/ mode[a[1]] = "closed")
    /\ \A t \in Session : Ops(up'[t]) \cup Appending(t)' \subseteq Ops(up[t]) \cup Appending(t)
    /\ \A t \in Session \ {a} : Ops(up[t]) \cup Appending(t) \subseteq Ops(up'[t]) \cup Appending(t)'
    /\ Ops(up[a]) \cup Appending(a) \subseteq Ops(up'[a]) \cup Appending(a)' \cup ops
    /\ \/ /\ ops \subseteq Ops(up[a]) \cup Appending(a)
          /\ log' = log \cup ops
          /\ down' = [t \in Session |-> IF t \in members \ {a}
                                        THEN Append(down[t], [kind |-> "update", ops |-> ops])
                                        ELSE down[t]]
       \/ /\ ops = {} /\ UNCHANGED down
          /\ log' = log \/ (log' = {} /\ members = {})
    /\ upset \subseteq upset' /\ upset' \subseteq Upsets
    /\ frames' \subseteq Frame /\ SavesOK' /\ ClearedInv'

LEMMA ServeDown ==
    ASSUME NoteInv, NEW a \in Session, NEW ops, ServeStep(a, ops)
    PROVE  /\ down' \in [Session -> Seq(DownMessage)]
           /\ \A t \in Session : t \notin members \/ t = a => down'[t] = down[t]
           /\ \A t \in Session : Carried(down[t]) \subseteq Carried(down'[t])
                                 /\ Carried(down'[t]) \subseteq Carried(down[t]) \cup ops
           /\ \A t \in members \ {a} : ops \subseteq Carried(down'[t])
           /\ \A t \in Session : \A k \in 1 .. Len(down'[t]) :
                  down'[t][k].kind = "update" \/ (k \in 1 .. Len(down[t]) /\ down'[t][k] = down[t][k])
<1>0. ClientOK /\ QueuesOK /\ DocumentOK
  BY NoteParts DEF NoteInv
<1> DEFINE m == [kind |-> "update", ops |-> ops]
<1>1. CASE ops = {} /\ UNCHANGED down
  BY <1>0, <1>1 DEF QueuesOK
<1>2. CASE down' = [t \in Session |-> IF t \in members \ {a} THEN Append(down[t], m) ELSE down[t]]
  <2>1. m \in DownMessage /\ m.kind = "update" /\ m.ops = ops
    BY UpMessages DEF ServeStep
  <2> HIDE DEF m
  <2>2. members \subseteq Session
    BY <1>0 DEF DocumentOK
  <2>3. ASSUME NEW t \in Session
        PROVE  /\ Append(down[t], m) \in Seq(DownMessage)
               /\ Carried(Append(down[t], m)) = Carried(down[t]) \cup ops
               /\ \A k \in 1 .. Len(Append(down[t], m)) :
                      \/ Append(down[t], m)[k].kind = "update"
                      \/ k \in 1 .. Len(down[t]) /\ Append(down[t], m)[k] = down[t][k]
    <3>1. down[t] \in Seq(DownMessage)
      BY <1>0 DEF QueuesOK
    <3>2. /\ Append(down[t], m) \in Seq(DownMessage) /\ Len(down[t]) \in Nat
          /\ Len(Append(down[t], m)) = Len(down[t]) + 1
          /\ \A k \in 1 .. Len(down[t]) : Append(down[t], m)[k] = down[t][k]
          /\ Append(down[t], m)[Len(down[t]) + 1] = m
      BY <2>1, <3>1, AppendPlaces
    <3>3. Carried(Append(down[t], m)) = Carried(down[t]) \cup ops
      BY <2>1, <3>1, AppendQueue
    <3>4. ASSUME NEW k \in 1 .. Len(Append(down[t], m))
          PROVE  k \in 1 .. Len(down[t]) \/ k = Len(down[t]) + 1
      BY <3>2
    <3> QED
      BY <2>1, <3>2, <3>3, <3>4
  <2>4. \A t \in Session : down[t] \in Seq(DownMessage)
    BY <1>0 DEF QueuesOK
  <2>5. \A t \in Session : down'[t] = IF t \in members \ {a} THEN Append(down[t], m) ELSE down[t]
    BY <1>2
  <2>6. down' \in [Session -> Seq(DownMessage)]
    BY <1>2, <2>3, <2>4
  <2> QED
    BY <2>2, <2>3, <2>5, <2>6
<1> QED
  BY <1>1, <1>2 DEF ServeStep, m


LEMMA ServeKeeps == ASSUME NoteInv, NEW a \in Session, NEW ops, ServeStep(a, ops) PROVE NoteInv'
<1>0. /\ NoteTypeOK /\ SessionInv /\ ModeInv /\ ConvergeInv /\ ClearedInv /\ FilledInv
      /\ ClientOK /\ QueuesOK /\ DocumentOK /\ SavesOK
  BY NoteParts DEF NoteInv
<1>1. /\ ops \subseteq Op /\ UNCHANGED <<mode, link, synced, initial, got, after, members, pool>>
      /\ up' \in [Session -> Seq(UpMessage)] /\ \A t \in Session \ {a} : up'[t] = up[t]
      /\ \/ up'[a] = up[a]
         \/ /\ Ordered(up'[a]) /\ ~Joining(up'[a]) /\ ~Joining(up[a])
            /\ \A kinds : Has(up'[a], kinds) => Has(up[a], kinds)
            /\ a \in pool /\ ~(a[2] > link[a[1]] \/ mode[a[1]] = "closed")
      /\ \A t \in Session : Ops(up'[t]) \cup Appending(t)' \subseteq Ops(up[t]) \cup Appending(t)
      /\ \A t \in Session \ {a} : Ops(up[t]) \cup Appending(t) \subseteq Ops(up'[t]) \cup Appending(t)'
      /\ Ops(up[a]) \cup Appending(a) \subseteq Ops(up'[a]) \cup Appending(a)' \cup ops
      /\ upset \subseteq upset' /\ upset' \subseteq Upsets
      /\ frames' \subseteq Frame /\ SavesOK' /\ ClearedInv'
  BY DEF ServeStep
<1>2. \/ ops \subseteq Ops(up[a]) \cup Appending(a) /\ log' = log \cup ops
      \/ ops = {} /\ (log' = log \/ (log' = {} /\ members = {}))
  BY DEF ServeStep
<1>3. /\ down' \in [Session -> Seq(DownMessage)]
      /\ \A t \in Session : t \notin members \/ t = a => down'[t] = down[t]
      /\ \A t \in Session : Carried(down[t]) \subseteq Carried(down'[t])
                            /\ Carried(down'[t]) \subseteq Carried(down[t]) \cup ops
      /\ \A t \in members \ {a} : ops \subseteq Carried(down'[t])
      /\ \A t \in Session : \A k \in 1 .. Len(down'[t]) :
             down'[t][k].kind = "update" \/ (k \in 1 .. Len(down[t]) /\ down'[t][k] = down[t][k])
  BY ServeDown
<1>4. \A d \in Client : /\ SessionOf(d)' = SessionOf(d) /\ SessionOf(d) \in Session
                        /\ SessionOf(d)[1] = d
  BY <1>0, <1>1, OwnSession DEF SessionOf
<1>5. \A t \in Session : /\ Joining(up'[t]) <=> Joining(up[t])
                         /\ Joining(up[t]) => up'[t] = up[t]
                         /\ \A kinds : Has(up'[t], kinds) => Has(up[t], kinds)
  BY <1>1
<1>6. NoteTypeOK'
  <2>1. ClientOK' /\ QueuesOK'
    BY <1>0, <1>1, <1>3 DEF ClientOK, QueuesOK
  <2>2. DocumentOK'
    BY <1>0, <1>1, <1>2 DEF DocumentOK
  <2> QED
    BY <1>1, <2>1, <2>2, NotePartsNext
<1>7. SessionInv'
  <2> SUFFICES ASSUME NEW t \in Session
               PROVE  /\ Ordered(up'[t])
                      /\ Has(up'[t], {"update", "leave"}) => Joining(up'[t]) \/ t \in members
                      /\ Joining(up'[t]) => t \notin members /\ down'[t] = <<>>
                      /\ up'[t] # <<>> => t \in pool
                      /\ t[2] > link[t[1]] \/ mode[t[1]] = "closed" =>
                             up'[t] = <<>> /\ down'[t] = <<>> /\ t \notin members
    BY <1>1 DEF SessionInv
  <2>1. /\ Ordered(up[t])
        /\ Has(up[t], {"update", "leave"}) => Joining(up[t]) \/ t \in members
        /\ Joining(up[t]) => t \notin members /\ down[t] = <<>>
        /\ up[t] # <<>> => t \in pool
        /\ t[2] > link[t[1]] \/ mode[t[1]] = "closed" =>
               up[t] = <<>> /\ down[t] = <<>> /\ t \notin members
    BY <1>0 DEF SessionInv
  <2>2. t \notin members => down'[t] = down[t]
    BY <1>3
  <2>3. CASE up'[t] = up[t]
    BY <2>1, <2>2, <2>3
  <2>4. CASE up'[t] # up[t]
    BY <1>1, <1>5, <2>1, <2>2, <2>4
  <2> QED
    BY <2>3, <2>4
<1>8. ModeInv'
  <2> SUFFICES ASSUME NEW d \in Client
               PROVE  /\ mode[d] = "online" => /\ ~Has(up'[SessionOf(d)], {"leave", "disconnect"})
                                               /\ Joining(up'[SessionOf(d)]) \/ SessionOf(d) \in members
                      /\ mode[d] = "left" => ~Has(up'[SessionOf(d)], {"disconnect"})
                      /\ mode[d] \in {"online", "left"} => SessionOf(d) \in pool
                      /\ mode[d] = "closed" => link[d] = 1 /\ got[d] = {}
    BY <1>1, <1>4 DEF ModeInv
  <2> QED
    BY <1>0, <1>4, <1>5 DEF ModeInv
<1>9. \A d \in Client : Joined(d)' <=> Joined(d)
  BY <1>1, <1>4, <1>5 DEF Joined
<1>10. \A d \in Client : Joined(d) => SessionOf(d) \in members /\ log' = log \cup ops
  <2>1. \A d \in Client : Joined(d) => SessionOf(d) \in members
    BY <1>0 DEF Joined, ModeInv
  <2> QED
    BY <1>2, <2>1
<1>11. \A t \in Session : Ops(up[t]) \cup Appending(t) \subseteq got[t[1]]
  BY <1>0 DEF ConvergeInv
<1>12. ConvergeInv'
  <2>1. \A t \in Session : Ops(up'[t]) \cup Appending(t)' \subseteq got[t[1]]
    BY <1>1, <1>11
  <2>2. ASSUME NEW d \in Client, Joined(d)
        PROVE  /\ log' \subseteq got[d] \cup Carried(down'[SessionOf(d)])
               /\ Carried(down'[SessionOf(d)]) \subseteq log'
    <3>1. log \subseteq got[d] \cup Carried(down[SessionOf(d)]) /\ Carried(down[SessionOf(d)]) \subseteq log
      BY <1>0, <2>2 DEF ConvergeInv
    <3>2. ops \subseteq got[d] \cup Carried(down'[SessionOf(d)])
      <4>1. CASE SessionOf(d) = a
        BY <1>2, <1>4, <1>11, <4>1
      <4>2. CASE SessionOf(d) # a
        BY <1>3, <1>10, <2>2, <4>2
      <4> QED
        BY <4>1, <4>2
    <3> QED
      BY <1>3, <1>4, <1>10, <2>2, <3>1, <3>2
  <2>3. ASSUME NEW d \in Client, mode[d] = "online", link[d] = 1
        PROVE  IF Joining(up'[SessionOf(d)]) THEN got[d] \subseteq Ops(up'[SessionOf(d)])
               ELSE got[d] \subseteq log' \cup Ops(up'[SessionOf(d)]) \cup Appending(SessionOf(d))'
    <3>1. CASE Joining(up[SessionOf(d)])
      BY <1>0, <1>4, <1>5, <2>3, <3>1 DEF ConvergeInv
    <3>2. CASE ~Joining(up[SessionOf(d)])
      <4>1. got[d] \subseteq log \cup Ops(up[SessionOf(d)]) \cup Appending(SessionOf(d))
        BY <1>0, <2>3, <3>2 DEF ConvergeInv
      <4>2. log' = log \cup ops
        BY <1>10, <2>3, <3>2 DEF Joined
      <4>3. Ops(up[SessionOf(d)]) \cup Appending(SessionOf(d))
                \subseteq Ops(up'[SessionOf(d)]) \cup Appending(SessionOf(d))' \cup ops
        BY <1>1, <1>4
      <4> QED
        BY <1>4, <1>5, <3>2, <4>1, <4>2, <4>3
    <3> QED
      BY <3>1, <3>2
  <2>4. \A t : Appending(t)' = UNION {f.ops : f \in {g \in frames' : g.at = "append" /\ g.session = t}}
    BY DEF Appending
  <2>5. \A d \in Client : SessionOf(d)' = SessionOf(d)
    BY <1>4
  <2> QED
    BY <1>1, <1>9, <2>1, <2>2, <2>3, <2>4, <2>5 DEF ConvergeInv, Appending
<1>13. FilledInv'
  <2> SUFFICES ASSUME Without({"overlap", "reconnect"})'
               PROVE  /\ \A d, e \in Client : Around(d)' /\ Around(e)' => d = e
                      /\ \A b \in Client : \A d, e \in Client : Seed(d) \in got'[b] /\ Seed(e) \in got'[b] => d = e
                      /\ \A b \in Client : link'[b] = 1 /\ (Joining(up'[<<b, 1>>]) => got'[b] \cap Seeds = {})
    BY DEF FilledInv
  <2>1. Without({"overlap", "reconnect"})
    BY <1>1 DEF Without
  <2>2. ASSUME NEW d \in Client, MayFill(d)' PROVE MayFill(d)
    <3>1. mode[d] = "online" /\ SessionOf(d) \in Session
      BY <1>1, <1>4, <2>2 DEF MayFill
    <3>2. PICK k \in 1 .. Len(down'[SessionOf(d)]) :
              /\ down'[SessionOf(d)][k].kind = "state" /\ down'[SessionOf(d)][k].alone
              /\ down'[SessionOf(d)][k].ops = {}
      BY <1>4, <2>2 DEF MayFill
    <3>3. k \in 1 .. Len(down[SessionOf(d)]) /\ down'[SessionOf(d)][k] = down[SessionOf(d)][k]
      BY <1>3, <3>1, <3>2
    <3> QED
      BY <3>1, <3>2, <3>3 DEF MayFill
  <2>3. ASSUME NEW d \in Client, Seed(d) \in ops PROVE Around(d)
    BY <1>2, <2>3 DEF Around
  <2>4. ASSUME NEW d \in Client, Around(d)' PROVE Around(d)
    <3>1. CASE Seed(d) \in log'
      <4>1. Seed(d) \in log \/ Seed(d) \in ops
        BY <1>2, <3>1
      <4> QED
        BY <2>3, <4>1 DEF Around
    <3>2. ASSUME NEW t \in Session, Seed(d) \in Ops(up'[t]) \cup Appending(t)' PROVE Around(d)
      <4>1. Seed(d) \in Ops(up[t]) \cup Appending(t)
        BY <1>1, <3>2
      <4> QED
        BY <4>1 DEF Around
    <3>3. ASSUME NEW e \in Client, mode'[e] = "online", Seed(d) \in got'[e] \cup Carried(down'[SessionOf(e)'])
          PROVE  Around(d)
      <4>1. mode[e] = "online" /\ (Seed(d) \in got[e] \cup Carried(down[SessionOf(e)]) \/ Seed(d) \in ops)
        BY <1>1, <1>3, <1>4, <3>3
      <4> QED
        BY <2>3, <4>1 DEF Around
    <3> QED
      BY <2>2, <2>4, <3>1, <3>2, <3>3 DEF Around
  <2>5. ASSUME NEW b \in Client PROVE link[b] = 1 /\ (Joining(up'[<<b, 1>>]) => got[b] \cap Seeds = {})
    <3>1. link[b] = 1 /\ <<b, 1>> = SessionOf(b)
      BY <1>0, <2>1 DEF FilledInv, SessionOf
    <3>2. Joining(up'[<<b, 1>>]) => Joining(up[<<b, 1>>])
      BY <1>4, <1>5, <3>1
    <3> QED
      BY <1>0, <2>1, <3>1, <3>2 DEF FilledInv
  <2> QED
    BY <1>0, <1>1, <2>1, <2>4, <2>5 DEF FilledInv
<1> QED
  BY <1>1, <1>6, <1>7, <1>8, <1>12, <1>13 DEF NoteInv


\* What is scheduled is the text of an editor; what stop_item_tasks leaves was scheduled.
LEMMA ScheduledType ==
    ASSUME SavesOK, NEW f, f.session \in Session, f.data \subseteq SUBSET TextPiece, Scheduled(f), UNCHANGED note
    PROVE  SavesOK'
<1>1. CASE f.data = {}
  BY <1>1 DEF Scheduled, SavesOK
<1>2. CASE f.data # {}
  <2> DEFINE text == CHOOSE x \in f.data : TRUE
             m == [session |-> f.session, text |-> text]
             M == [session : Session, text : SUBSET TextPiece]
  <2>1. text \in f.data
    BY <1>2
  <2>2. m \in M
    BY <2>1
  <2>3. saves' = Append(saves, m)
    BY <1>2 DEF Scheduled
  <2>4. saves \in Seq(M) /\ note \subseteq TextPiece
    BY DEF SavesOK
  <2> HIDE DEF m, M
  <2>5. saves' \in Seq(M)
    BY <2>2, <2>3, <2>4, AppendProperties
  <2> QED
    BY <2>4, <2>5 DEF SavesOK, M
<1> QED
  BY <1>1, <1>2

LEMMA RestType == ASSUME NEW M, NEW q \in Seq(M), NEW r \in Rest(q) PROVE r \in Seq(M)
<1>1. PICK n \in 0 .. Len(q) : r \in {[i \in 1 .. n |-> q[p[i]]] : p \in Picks(n, Len(q))}
  BY DEF Rest
<1>2. PICK p \in Picks(n, Len(q)) : r = [i \in 1 .. n |-> q[p[i]]]
  BY <1>1
<1>3. n \in Nat /\ Len(q) \in Nat /\ p \in [1 .. n -> 1 .. Len(q)]
  BY <1>1, <1>2, LenProperties DEF Picks
<1>4. \A i \in 1 .. n : q[p[i]] \in M
  BY <1>3, ElementOfSeq
<1> QED
  BY <1>2, <1>3, <1>4, IsASeq

LEMMA FrameParts ==
    ASSUME NEW f \in Frame
    PROVE  /\ f.session \in Session /\ f.at \in {"append", "save", "leave"}
           /\ f.at # "leave" => /\ f.ops \subseteq Op /\ f.data \subseteq SUBSET TextPiece
                                /\ [f EXCEPT !.at = "save"] \in Frame
                                /\ [f EXCEPT !.at = "save"].at = "save"
                                /\ [f EXCEPT !.at = "save"].session = f.session
BY DEF Frame

LEMMA PublishFacts ==
    ASSUME NoteTypeOK, NEW f \in Frame, f.at = "append", NEW waiting \in SUBSET Frame,
           Publish(f, waiting), UNCHANGED note
    PROVE  /\ log' = log \cup f.ops
           /\ down' = [t \in Session |-> IF t \in members \ {f.session}
                                         THEN Append(down[t], [kind |-> "update", ops |-> f.ops])
                                         ELSE down[t]]
           /\ frames' \subseteq Frame /\ SavesOK' /\ waiting \subseteq frames'
           /\ \A g \in frames' : g \in waiting \/ (g.at = "save" /\ g = [f EXCEPT !.at = "save"])
<1>0. SavesOK
  BY NoteParts
<1>1. f.session \in Session /\ f.data \subseteq SUBSET TextPiece
      /\ [f EXCEPT !.at = "save"] \in Frame /\ [f EXCEPT !.at = "save"].at = "save"
  BY FrameParts
<1>2. SavesOK'
  <2>1. CASE members \ {f.session} # {}
    BY <1>0, <2>1 DEF Publish, SavesOK
  <2>2. CASE members \ {f.session} = {}
    BY <1>0, <1>1, <2>2, ScheduledType DEF Publish
  <2> QED
    BY <2>1, <2>2
<1>3. frames' = waiting \/ frames' = waiting \cup {[f EXCEPT !.at = "save"]}
  BY DEF Publish
<1>4. /\ log' = log \cup f.ops
      /\ down' = [t \in Session |-> IF t \in members \ {f.session}
                                    THEN Append(down[t], [kind |-> "update", ops |-> f.ops])
                                    ELSE down[t]]
  BY DEF Publish
<1> HIDE DEF Publish
<1> QED
  BY <1>1, <1>2, <1>3, <1>4

\* yjs_document_update.
LEMMA UpdateServes == ASSUME NoteInv, NEW s \in Session, HandleUpdate(s) PROVE \E ops \in SUBSET Op : ServeStep(s, ops)
<1>0. NoteTypeOK /\ ClearedInv /\ DocumentOK /\ SavesOK
  BY NoteParts DEF NoteInv
<1> DEFINE h == Head(up[s])
           f == [session |-> s, ops |-> h.ops, data |-> h.data, at |-> "append"]
<1>1. /\ Begins(s, "update")
      /\ UNCHANGED <<mode, link, synced, initial, got, after, members, pool, note>>
      /\ \/ Publish(f, frames)
         \/ /\ saves # <<>> /\ saves' \in Rest(Tail(saves))
            /\ frames' = frames \cup {f} /\ UNCHANGED <<log, down>>
  BY DEF HandleUpdate, client
<1>2. /\ h \in UpMessage /\ h.kind = "update"
      /\ up' \in [Session -> Seq(UpMessage)] /\ \A t \in Session \ {s} : up'[t] = up[t]
      /\ Ordered(up'[s]) /\ ~Joining(up'[s]) /\ ~Joining(up[s])
      /\ \A kinds : Has(up'[s], kinds) => Has(up[s], kinds)
      /\ Ops(up[s]) = Ops(up'[s]) \cup h.ops
      /\ s \in members /\ s \in pool /\ ~(s[2] > link[s[1]] \/ mode[s[1]] = "closed")
      /\ upset \subseteq upset' /\ upset' \subseteq Upsets
      /\ "overlap" \notin upset' => frames = {} /\ "overlap" \notin upset
  BY <1>1, BeginFacts
<1>3. h.ops \subseteq Op /\ h.data \subseteq SUBSET TextPiece
  BY <1>2, UpMessages
<1>4. f \in Frame /\ f.at = "append" /\ f.session = s /\ f.ops = h.ops /\ frames \subseteq Frame
  BY <1>0, <1>3 DEF Frame, DocumentOK
<1> HIDE DEF f, h
<1>5. CASE Publish(f, frames)
  <2>1. /\ log' = log \cup h.ops
        /\ down' = [t \in Session |-> IF t \in members \ {s}
                                      THEN Append(down[t], [kind |-> "update", ops |-> h.ops])
                                      ELSE down[t]]
        /\ frames' \subseteq Frame /\ SavesOK' /\ frames \subseteq frames'
        /\ \A g \in frames' : g \in frames \/ (g.at = "save" /\ g = [f EXCEPT !.at = "save"])
    BY <1>0, <1>1, <1>4, <1>5, PublishFacts
  <2>2. \A t : Appending(t)' = Appending(t)
    BY <2>1 DEF Appending
  <2>3. ClearedInv'
    <3> SUFFICES ASSUME "overlap" \notin upset'
                 PROVE  /\ \A g, k \in frames' : g = k
                        /\ \A g \in frames' : IF g.at = "leave" THEN members' # {} ELSE g.session \in members'
                        /\ log' # {} => members' # {}
      BY DEF ClearedInv
    <3>1. \A g \in frames' : g.at = "save" /\ g = [f EXCEPT !.at = "save"]
      BY <1>2, <2>1
    <3>2. [f EXCEPT !.at = "save"].session = s
      BY <1>4, FrameParts
    <3> QED
      BY <1>1, <1>2, <3>1, <3>2
  <2>4. ServeStep(s, h.ops)
    BY <1>1, <1>2, <1>3, <2>1, <2>2, <2>3 DEF ServeStep
  <2> QED
    BY <1>3, <2>4
<1>6. CASE saves # <<>> /\ saves' \in Rest(Tail(saves)) /\ frames' = frames \cup {f} /\ UNCHANGED <<log, down>>
  <2>1. SavesOK'
    <3> DEFINE M == [session : Session, text : SUBSET TextPiece]
    <3>1. saves \in Seq(M) /\ note \subseteq TextPiece
      BY <1>0 DEF SavesOK
    <3> HIDE DEF M
    <3>2. Tail(saves) \in Seq(M)
      BY <1>6, <3>1, HeadTailProperties
    <3>3. saves' \in Seq(M)
      BY <1>6, <3>2, RestType
    <3> QED
      BY <1>1, <3>1, <3>3 DEF SavesOK, M
  <2>2. /\ \A t : t # s => Appending(t)' = Appending(t)
        /\ Appending(s)' = Appending(s) \cup h.ops
    BY <1>4, <1>6 DEF Appending
  <2>3. ClearedInv'
    BY <1>1, <1>2, <1>4, <1>6 DEF ClearedInv
  <2>4. frames' \subseteq Frame
    BY <1>4, <1>6
  <2>5. ServeStep(s, {})
    BY <1>1, <1>2, <1>6, <2>1, <2>2, <2>3, <2>4 DEF ServeStep
  <2> QED
    BY <2>5
<1> QED
  BY <1>1, <1>5, <1>6


LEMMA ResumeServes ==
    ASSUME NoteInv, NEW f \in frames, ResumeUpdate(f) \/ ResumeLeave(f)
    PROVE  \E a \in Session, ops \in SUBSET Op : ServeStep(a, ops)
<1>0. NoteTypeOK /\ ClearedInv /\ QueuesOK /\ DocumentOK /\ SavesOK /\ f \in Frame
  BY NoteParts DEF NoteInv, DocumentOK
<1> DEFINE a == f.session
<1>1. /\ UNCHANGED <<mode, link, synced, initial, got, after, up, members, pool, note, upset>>
      /\ \/ f.at = "append" /\ Publish(f, frames \ {f})
         \/ /\ f.at = "save" /\ frames' = frames \ {f} /\ Scheduled(f) /\ UNCHANGED <<log, down>>
         \/ /\ f.at = "leave" /\ frames' = frames \ {f} /\ UNCHANGED <<down, saves>>
            /\ log' = IF members = {} THEN {} ELSE log
  BY DEF ResumeUpdate, ResumeLeave, client, ClearedIf
<1>2. a \in Session /\ frames \ {f} \subseteq Frame /\ up' \in [Session -> Seq(UpMessage)] /\ upset \subseteq Upsets
  BY <1>0, <1>1, FrameParts DEF DocumentOK, QueuesOK
<1>3. CASE f.at = "append" /\ Publish(f, frames \ {f})
  <2>1. /\ log' = log \cup f.ops
        /\ down' = [t \in Session |-> IF t \in members \ {a}
                                      THEN Append(down[t], [kind |-> "update", ops |-> f.ops])
                                      ELSE down[t]]
        /\ frames' \subseteq Frame /\ SavesOK' /\ frames \ {f} \subseteq frames'
        /\ \A g \in frames' : g \in frames \ {f} \/ (g.at = "save" /\ g = [f EXCEPT !.at = "save"])
    BY <1>0, <1>1, <1>2, <1>3, PublishFacts
  <2>2. f.ops \subseteq Op /\ [f EXCEPT !.at = "save"].session = a
    BY <1>0, <1>3, FrameParts
  <2>3. /\ \A t : t # a => Appending(t)' = Appending(t)
        /\ Appending(a)' \subseteq Appending(a) /\ Appending(a) \subseteq Appending(a)' \cup f.ops
        /\ f.ops \subseteq Appending(a)
    BY <1>3, <2>1 DEF Appending
  <2>4. ClearedInv'
    <3> SUFFICES ASSUME "overlap" \notin upset'
                 PROVE  /\ \A g, k \in frames' : g = k
                        /\ \A g \in frames' : IF g.at = "leave" THEN members' # {} ELSE g.session \in members'
                        /\ log' # {} => members' # {}
      BY DEF ClearedInv
    <3>1. f.session \in members /\ \A g \in frames : g = f
      BY <1>0, <1>1, <1>3 DEF ClearedInv
    <3>2. \A g \in frames' : g.at = "save" /\ g = [f EXCEPT !.at = "save"]
      BY <2>1, <3>1
    <3> QED
      BY <1>1, <2>2, <3>1, <3>2
  <2>5. ServeStep(a, f.ops)
    BY <1>1, <1>2, <2>1, <2>2, <2>3, <2>4 DEF ServeStep
  <2> QED
    BY <1>2, <2>2, <2>5
<1>4. CASE f.at # "append" /\ frames' = frames \ {f} /\ UNCHANGED down /\ log' \in {log, {}} /\ SavesOK'
           /\ (log' = log \/ members = {})
  <2>1. \A t : Appending(t)' = Appending(t)
    BY <1>4 DEF Appending
  <2>2. ClearedInv'
    BY <1>0, <1>1, <1>4 DEF ClearedInv
  <2>3. ServeStep(a, {})
    BY <1>1, <1>2, <1>4, <2>1, <2>2 DEF ServeStep
  <2> QED
    BY <1>2, <2>3
<1>5. CASE f.at = "save" /\ frames' = frames \ {f} /\ Scheduled(f) /\ UNCHANGED <<log, down>>
  <2>1. f.data \subseteq SUBSET TextPiece
    BY <1>0, <1>5, FrameParts
  <2>2. SavesOK'
    BY <1>0, <1>1, <1>2, <1>5, <2>1, ScheduledType
  <2> QED
    BY <1>4, <1>5, <2>2
<1>6. CASE f.at = "leave" /\ frames' = frames \ {f} /\ UNCHANGED <<down, saves>>
           /\ log' = IF members = {} THEN {} ELSE log
  <2>1. SavesOK'
    BY <1>0, <1>1, <1>6, SameSaves
  <2> QED
    BY <1>4, <1>6, <2>1
<1> QED
  BY <1>1, <1>3, <1>5, <1>6

LEMMA SaveServes == ASSUME NoteInv, Save PROVE \E a \in Session : ServeStep(a, {})
<1>0. NoteTypeOK /\ ClearedInv /\ QueuesOK /\ DocumentOK /\ SavesOK
  BY NoteParts DEF NoteInv
<1> DEFINE M == [session : Session, text : SUBSET TextPiece]
<1>1. /\ saves # <<>> /\ saves' = Tail(saves)
      /\ UNCHANGED <<mode, link, synced, initial, got, after, up, down, members, pool, log, frames>>
      /\ note' = note \/ note' = Head(saves).text
      /\ UpsetIf(Head(saves).session \notin pool, "lostSave")
  BY DEF Save, client, document
<1>2. saves \in Seq(M) /\ note \subseteq TextPiece
  BY <1>0 DEF SavesOK
<1>3. Head(saves) \in M /\ Tail(saves) \in Seq(M)
  <2> HIDE DEF M
  <2> QED
    BY <1>1, <1>2, HeadTailProperties
<1>4. SavesOK'
  <2>1. note' \subseteq TextPiece
    BY <1>1, <1>2, <1>3
  <2> QED
    BY <1>1, <1>3, <2>1 DEF SavesOK
<1>5. upset \subseteq upset' /\ upset' \subseteq Upsets
  <2>1. "lostSave" \in Upsets /\ upset \subseteq Upsets
    BY <1>0 DEF Upsets, DocumentOK
  <2> QED
    BY <1>1, <2>1, NoteUpset
<1>6. ClearedInv'
  BY <1>0, <1>1, <1>5 DEF ClearedInv
<1>7. \A t : Appending(t)' = Appending(t)
  BY <1>1 DEF Appending
<1>8. PICK a \in Session : a = Head(saves).session
  BY <1>3
<1>9. up' \in [Session -> Seq(UpMessage)] /\ frames' \subseteq Frame
  BY <1>0, <1>1 DEF QueuesOK, DocumentOK
<1> HIDE DEF M
<1>10. ServeStep(a, {})
  BY <1>1, <1>4, <1>5, <1>6, <1>7, <1>9 DEF ServeStep
<1> QED
  BY <1>10

--------------------------------------------------------------------------------
(* NoteSession: theorems *)

LEMMA NoteInitInv == NoteInit => NoteInv
<1> SUFFICES ASSUME NoteInit PROVE NoteInv
  OBVIOUS
<1>0. /\ mode = [c \in Client |-> "closed"] /\ link = [c \in Client |-> 1]
      /\ synced = {} /\ initial = [c \in Client |-> {}] /\ got = [c \in Client |-> {}]
      /\ after = [u \in Op |-> {}] /\ up = [s \in Session |-> <<>>] /\ down = [s \in Session |-> <<>>]
      /\ members = {} /\ pool = {} /\ log = {} /\ frames = {} /\ saves = <<>>
      /\ note = {Stored} /\ upset = {}
  BY DEF NoteInit
<1>1. ClientOK
  BY <1>0, BoundsAssumption DEF ClientOK
<1>2. QueuesOK
  BY <1>0, EmptySeq DEF QueuesOK
<1>3. DocumentOK /\ SavesOK
  BY <1>0, EmptySeq DEF DocumentOK, SavesOK, TextPiece
<1>4. SessionInv
  BY <1>0, NothingIn DEF SessionInv
<1>5. \A c \in Client : mode[c] = "closed" /\ got[c] = {} /\ link[c] = 1 /\ SessionOf(c) \in Session
  BY <1>0, <1>1, OwnSession
<1>6. ModeInv
  BY <1>5 DEF ModeInv
<1>7. \A t : Appending(t) = {}
  BY <1>0 DEF Appending
<1>8. ConvergeInv
  BY <1>0, <1>5, <1>7, NothingIn DEF ConvergeInv, Joined
<1>9. ClearedInv
  BY <1>0 DEF ClearedInv
<1>10. \A d \in Client : ~Around(d)
  BY <1>0, <1>5, <1>7, NothingIn DEF Around, MayFill
<1>11. FilledInv
  BY <1>5, <1>10 DEF FilledInv
<1> QED
  BY <1>1, <1>2, <1>3, <1>4, <1>6, <1>8, <1>9, <1>11, NoteParts DEF NoteInv

LEMMA NoteStepInv == NoteInv /\ [NoteNext]_noteVars => NoteInv'
<1> SUFFICES ASSUME NoteInv, [NoteNext]_noteVars PROVE NoteInv'
  OBVIOUS
<1>1. ASSUME NEW c \in Client, Mount(c) \/ Reconnect(c) PROVE NoteInv'
  BY <1>1, ComeCases, ComeKeeps
<1>2. ASSUME NEW c \in Client, (\E e \in Edit : Type(c, e)) \/ StateArrives(c) \/ UpdateArrives(c)
      PROVE  NoteInv'
  BY <1>2, EditKeeps
<1>3. ASSUME NEW c \in Client, Leave(c) \/ Drop(c) PROVE NoteInv'
  BY <1>3, LeaveGoes, DropGoes, GoKeeps
<1>4. ASSUME NEW s \in Session, HandleJoin(s) PROVE NoteInv'
  BY <1>4, JoinKeeps
<1>5. ASSUME NEW s \in Session, HandleUpdate(s) PROVE NoteInv'
  BY <1>5, UpdateServes, ServeKeeps
<1>6. ASSUME NEW s \in Session, HandleLeave(s) \/ HandleDisconnect(s) PROVE NoteInv'
  BY <1>6, LeaveExits, DisconnectExits, ExitKeeps
<1>7. ASSUME NEW f \in frames, ResumeUpdate(f) \/ ResumeLeave(f) PROVE NoteInv'
  BY <1>7, ResumeServes, ServeKeeps
<1>8. ASSUME Save PROVE NoteInv'
  BY <1>8, SaveServes, ServeKeeps
<1>9. CASE UNCHANGED noteVars
  <2>1. /\ UNCHANGED <<mode, link, synced, initial, got, after, up, down, members, pool, log, frames>>
        /\ UNCHANGED <<saves, note, upset>>
    BY <1>9 DEF noteVars, client, document
  <2>2. NoteTypeOK'
    BY <2>1 DEF NoteInv, NoteTypeOK
  <2>3. SessionInv' /\ ModeInv' /\ ClearedInv'
    BY <2>1 DEF NoteInv, SessionInv, ModeInv, ClearedInv, SessionOf
  <2>4. ConvergeInv'
    BY <2>1 DEF NoteInv, ConvergeInv, SessionOf, Joined, Appending
  <2>5. \A d \in Client : Around(d)' = Around(d)
    BY <2>1 DEF Around, MayFill, SessionOf, Appending
  <2>6. FilledInv'
    BY <2>1, <2>5 DEF NoteInv, FilledInv, Without
  <2> QED
    BY <2>2, <2>3, <2>4, <2>6 DEF NoteInv
<1> QED
  BY <1>1, <1>2, <1>3, <1>4, <1>5, <1>6, <1>7, <1>8, <1>9 DEF NoteNext, Step

LEMMA NoteInvAlways == NoteSpec => []NoteInv
BY NoteInitInv, NoteStepInv, PTL DEF NoteSpec

\* Every state the editors and the ydoc handlers reach has its type: the messages between
\* Collaboration.ts and socket/main.py, the handlers that wait and the saves that sleep;
\* and a session in the room of the document is in SESSION_POOL.
THEOREM NoteTypeCorrect == NoteSpec => []NoteTypeOK
<1>1. NoteInv => NoteTypeOK
  BY DEF NoteInv
<1> QED
  BY <1>1, NoteInvAlways, PTL

\* When nothing is under way, every editor that is connected has all the updates that
\* YdocManager holds, and YdocManager all of an editor that has kept its connection:
\* the state sent on joining, the updates sent to the room and those the provider sends
\* leave no gap, whatever joins, leaves, losses and overlapping handlers came before.
THEOREM ConvergedAlways == NoteSpec => []Converged
<1>1. NoteInv => Converged
  <2> SUFFICES ASSUME NoteInv, Quiet, NEW c \in Client, mode[c] = "online"
               PROVE  log \subseteq got[c] /\ (link[c] = 1 => got[c] \subseteq log)
    <3>1. NoteInv => synced \subseteq Client
      BY DEF NoteInv, NoteTypeOK
    <3> QED
      BY <3>1 DEF Converged
  <2>1. SessionOf(c) \in Session /\ ConvergeInv
    BY NoteParts, OwnSession DEF NoteInv
  <2>2. up[SessionOf(c)] = <<>> /\ down[SessionOf(c)] = <<>> /\ frames = {}
    BY <2>1 DEF Quiet
  <2>3. ~Joining(up[SessionOf(c)]) /\ Ops(up[SessionOf(c)]) = {} /\ Carried(down[SessionOf(c)]) = {}
    BY <2>2, NothingIn
  <2>4. Appending(SessionOf(c)) = {}
    BY <2>2 DEF Appending
  <2> QED
    BY <2>1, <2>3, <2>4 DEF ConvergeInv, Joined
<1> QED
  BY <1>1, NoteInvAlways, PTL

\* No editor ever shows the stored text twice: as long as no two handlers overlap and no
\* editor reconnects, at most one editor ever finds the document empty and itself alone
\* when the state of ydoc_document_join arrives, however joins, leaves and first updates meet.
THEOREM FilledOnceAlways == NoteSpec => []FilledOnce
<1>1. NoteInv => FilledOnce
  <2> SUFFICES ASSUME NoteInv, Without({"overlap", "reconnect"}), NEW c \in Client
               PROVE  Cardinality(Seen(got[c]) \cap Seeds) <= 1
    BY DEF FilledOnce
  <2> DEFINE filled == Seen(got[c]) \cap Seeds
  <2>1. \A x, y \in filled : x = y
    <3>1. \A d, e \in Client : Seed(d) \in got[c] /\ Seed(e) \in got[c] => d = e
      BY DEF NoteInv, FilledInv
    <3>2. \A x \in filled : x \in got[c] /\ \E d \in Client : x = Seed(d)
      BY DEF Seen, Seeds
    <3> QED
      BY <3>1, <3>2
  <2>2. filled = {} \/ \E x : filled = {x}
    BY <2>1
  <2> HIDE DEF filled
  <2>3. Cardinality(filled) \in {0, 1}
    BY <2>2, FS_EmptySet, FS_Singleton
  <2> QED
    BY <2>3 DEF filled
<1> QED
  BY <1>1, NoteInvAlways, PTL

\* When the last editor of a note has gone, by leaving or by a disconnect, YdocManager has
\* dropped the updates, so that the next editor starts from the stored note, as long as no
\* two handlers overlapped.
THEOREM LeftIsClearedAlways == NoteSpec => []LeftIsCleared
<1>1. NoteInv => LeftIsCleared
  BY DEF NoteInv, ClearedInv, LeftIsCleared, Without
<1> QED
  BY <1>1, NoteInvAlways, PTL

--------------------------------------------------------------------------------
(* NoteSession: every text is saved *)

\* The session of an editor that has kept its first connection.
Home(c) == <<c, 1>>

\* What stands in line to be published: the update of a handler that waits, at place 0, and
\* those in the queue of the session.
Places(q) == {k \in 1 .. Len(q) : q[k].kind = "update"}
LineUp(q) == {<<k, q[k].ops, q[k].data>> : k \in Places(q)}
LineAt(s, fr) == {<<0, f.ops, f.data>> : f \in {g \in fr : g.at = "append" /\ g.session = s}}
LineOf(s, fr, q) == LineAt(s, fr) \cup LineUp(q)
Line(s) == LineOf(s, frames, up[s])
Sum(L) == UNION {i[2] : i \in L}
Shift(L) == {<<i[1] - 1, i[2], i[3]>> : i \in L}

\* A line of updates of its own each, with one text each.
Fit(L) ==
    /\ \A i \in L : i[1] \in Int /\ i = <<i[1], i[2], i[3]>> /\ i[2] # {} /\ \E t : i[3] = {t}
    /\ \A i, j \in L : i # j => i[1] # j[1] /\ i[2] \cap j[2] = {}
LastOf(L, data) == \A i \in L : (\A j \in L : j[1] <= i[1]) => i[3] = data
UpTo(L, i) == {j \in L : j[1] <= i[1]}

\* What a set of operations shows that has all that its members were made after.
Words(S, ini) == (S \cap Edit) \cup UNION {ini[c] : c \in {d \in Client : Seed(d) \in S}}
ClosedIn(S, aft) == \A u \in S : aft[u] \subseteq S
Chain(L, S, aft) == \A i \in L : ClosedIn(S \cup Sum(UpTo(L, i)), aft)
DownChain(q, S, aft) == \A n \in 0 .. Len(q) : ClosedIn(S \cup UNION {q[k].ops : k \in 1 .. n}, aft)

AllOf(g) == {Stored} \cup (Edit \cap UNION {g[c] : c \in Client})
LiveOf(lg, fr, u) == lg \cup UNION {Sum(LineOf(s, fr, u[s])) : s \in Session}
Live == LiveOf(log, frames, up)
Known == UNION {got[c] : c \in Client}

KnownInv ==
    /\ log \subseteq Known /\ \A c \in Client : Carried(down[Home(c)]) \subseteq Known
    /\ \A c \in Client : after[Seed(c)] = {} /\ (Seed(c) \in Known => mode[c] # "closed")

StartInv ==
    \A c \in Client :
        /\ Joining(up[Home(c)]) => got[c] = {}
        /\ \A k \in 1 .. Len(down[Home(c)]) : down[Home(c)][k].kind = "state" => k = 1 /\ got[c] = {}

LineInv ==
    /\ \A s \in Session : Fit(Line(s))
    /\ \A f \in frames : f.at # "leave" => saves = <<>>
    /\ \A f \in frames : f.at = "save" => f.ops # {} /\ f.ops \subseteq log /\ \E t : f.data = {t}
    /\ Len(saves) <= 1

CausalInv ==
    /\ ClosedIn(log, after)
    /\ \A c \in Client : /\ ClosedIn(got[c], after)
                         /\ mode[c] = "online" => DownChain(down[Home(c)], got[c], after)
    /\ \A s \in Session : Chain(Line(s), log, after)

LastInv ==
    \A c \in Client : mode[c] = "online" => LastOf(Line(Home(c)), {Words(got[c], initial)})

\* An editor that has gone while updates of its own are in line: nobody who is there has them,
\* and if their last text is not all there is, somebody is there to repeat them.
Present(c) == mode[c] = "online" /\ ~Joining(up[Home(c)])
GoneInv ==
    \A c \in Client : mode[c] # "online" /\ Line(Home(c)) # {} =>
        /\ Sum(Line(Home(c))) \cap log = {}
        /\ \A e \in Client \ {c} : IF mode[e] = "online" THEN got[e] \cap Sum(Line(Home(c))) = {}
                                   ELSE Line(Home(e)) = {}
        /\ LastOf(Line(Home(c)), {AllOf(got)}) \/ \E e \in Client \ {c} : Present(e)

TextInv == Live # {} => Words(Live, initial) = AllOf(got)

MayIn(q) == \E k \in 1 .. Len(q) : q[k].kind = "state" /\ q[k].alone /\ q[k].ops = {}
BlankInv == \A c \in Client : mode[c] = "online" /\ MayIn(down[Home(c)]) => Live = {}

\* The text that will be stored is all there is, unless an update is in line or an editor
\* will repeat one.
StateOps(q) == UNION {q[k].ops : k \in {i \in 1 .. Len(q) : q[i].kind = "state"}}
EchoIn(q, g) == ~(Ops(q) \subseteq g \cup StateOps(q))
LatestIs(fr, sv, nt, t) ==
    IF \E f \in fr : f.at = "save" THEN \A f \in fr : f.at = "save" => f.data = {t}
    ELSE IF sv # <<>> THEN sv[1].text = t ELSE nt = t
Pending == \E s \in Session : Line(s) # {}
SavedInv ==
    \/ Pending
    \/ \E c \in Client : mode[c] = "online" /\ EchoIn(down[Home(c)], got[c])
    \/ LatestIs(frames, saves, note, AllOf(got))

CalmParts == KnownInv /\ StartInv /\ LineInv /\ CausalInv /\ LastInv /\ GoneInv /\ TextInv /\ BlankInv /\ SavedInv
CalmInv == upset = {} => CalmParts

\* The lemmas about lines.
LEMMA SumParts ==
    ASSUME NEW L, NEW M
    PROVE  /\ Sum(L \cup M) = Sum(L) \cup Sum(M) /\ Sum({}) = {} /\ Sum(Shift(L)) = Sum(L)
           /\ \A k, ops, data : Sum({<<k, ops, data>>}) = ops
           /\ Fit(L) /\ Sum(L) = {} => L = {}
<1>1. Sum(Shift(L)) = Sum(L)
  <2>1. ASSUME NEW i \in L PROVE \E j \in Shift(L) : j[2] = i[2]
    <3>1. <<i[1] - 1, i[2], i[3]>> \in Shift(L) /\ <<i[1] - 1, i[2], i[3]>>[2] = i[2]
      BY DEF Shift
    <3> QED
      BY <3>1
  <2>2. \A j \in Shift(L) : \E i \in L : j[2] = i[2]
    BY DEF Shift
  <2> QED
    BY <2>1, <2>2 DEF Sum
<1>2. Sum(L \cup M) = Sum(L) \cup Sum(M) /\ Sum({}) = {}
  BY DEF Sum
<1>3. \A k, ops, data : Sum({<<k, ops, data>>}) = ops
  BY DEF Sum
<1>4. Fit(L) /\ Sum(L) = {} => L = {}
  BY DEF Fit, Sum
<1> QED
  BY <1>1, <1>2, <1>3, <1>4

\* One place down in the line, nothing else changes.
LEMMA ShiftKeeps ==
    ASSUME NEW L, Fit(L)
    PROVE  /\ Fit(Shift(L)) /\ (L = {} <=> Shift(L) = {})
           /\ \A data : LastOf(L, data) <=> LastOf(Shift(L), data)
           /\ \A S, aft : Chain(L, S, aft) => Chain(Shift(L), S, aft)
<1> DEFINE low(i) == <<i[1] - 1, i[2], i[3]>>
<1>0. /\ \A i \in L : i[1] \in Int /\ i = <<i[1], i[2], i[3]>> /\ i[2] # {} /\ \E t : i[3] = {t}
      /\ \A i, j \in L : i # j => i[1] # j[1] /\ i[2] \cap j[2] = {}
  BY DEF Fit
<1>1. /\ \A i \in L : low(i) \in Shift(L) /\ low(i)[1] = i[1] - 1 /\ low(i)[2] = i[2] /\ low(i)[3] = i[3]
      /\ \A j \in Shift(L) : \E i \in L : j = low(i)
  BY DEF Shift
<1> HIDE DEF low
<1>2. Fit(Shift(L))
  <2>1. ASSUME NEW i \in L
        PROVE  /\ low(i)[1] \in Int /\ low(i) = <<low(i)[1], low(i)[2], low(i)[3]>>
               /\ low(i)[2] # {} /\ \E t : low(i)[3] = {t}
    <3>1. low(i) = <<low(i)[1], low(i)[2], low(i)[3]>>
      BY <1>1 DEF low
    <3>2. i[1] \in Int /\ i[2] # {} /\ \E t : i[3] = {t}
      BY <1>0
    <3>3. low(i)[1] = i[1] - 1 /\ low(i)[2] = i[2] /\ low(i)[3] = i[3]
      BY <1>1
    <3>4. low(i)[1] \in Int
      BY <3>2, <3>3
    <3>5. low(i)[2] # {} /\ \E t : low(i)[3] = {t}
      BY <3>2, <3>3
    <3> QED
      BY <3>1, <3>4, <3>5
  <2>2. ASSUME NEW i \in L, NEW j \in L, low(i) # low(j)
        PROVE  low(i)[1] # low(j)[1] /\ low(i)[2] \cap low(j)[2] = {}
    <3>1. i # j
      BY <2>2
    <3> QED
      BY <1>0, <1>1, <3>1
  <2>3. ASSUME NEW j \in Shift(L)
        PROVE  j[1] \in Int /\ j = <<j[1], j[2], j[3]>> /\ j[2] # {} /\ \E t : j[3] = {t}
    <3>1. PICK i \in L : j = low(i)
      BY <1>1
    <3> QED
      BY <2>1, <3>1
  <2>4. ASSUME NEW j \in Shift(L), NEW k \in Shift(L), j # k PROVE j[1] # k[1] /\ j[2] \cap k[2] = {}
    <3>1. PICK h \in L, i \in L : j = low(h) /\ k = low(i)
      BY <1>1
    <3> QED
      BY <2>2, <2>4, <3>1
  <2> QED
    BY <2>3, <2>4 DEF Fit
<1>3. L = {} <=> Shift(L) = {}
  BY <1>1
<1>4. ASSUME NEW i \in L PROVE /\ \A j \in L : j[1] <= i[1] <=> low(j)[1] <= low(i)[1]
                               /\ Sum(UpTo(Shift(L), low(i))) = Sum(UpTo(L, i))
  <2>1. \A j \in L : j[1] <= i[1] <=> low(j)[1] <= low(i)[1]
    BY <1>0, <1>1
  <2>2. \A j \in UpTo(L, i) : low(j) \in UpTo(Shift(L), low(i)) /\ low(j)[2] = j[2]
    BY <1>1, <2>1 DEF UpTo
  <2>3. \A k \in UpTo(Shift(L), low(i)) : \E j \in UpTo(L, i) : k[2] = j[2]
    BY <1>1, <2>1 DEF UpTo
  <2> QED
    BY <2>1, <2>2, <2>3 DEF Sum
<1>5. \A data : LastOf(L, data) <=> LastOf(Shift(L), data)
  BY <1>1, <1>4 DEF LastOf
<1>6. \A S, aft : Chain(L, S, aft) => Chain(Shift(L), S, aft)
  BY <1>1, <1>4 DEF Chain
<1> QED
  BY <1>2, <1>3, <1>5, <1>6

\* The first of the line goes.
LEMMA FirstGoes ==
    ASSUME NEW L, Fit(L), NEW p \in L, \A i \in L : p[1] <= i[1]
    PROVE  /\ Fit(L \ {p}) /\ Sum(L) = p[2] \cup Sum(L \ {p}) /\ p[2] \cap Sum(L \ {p}) = {}
           /\ \A data : LastOf(L, data) => LastOf(L \ {p}, data)
           /\ \A data : LastOf(L, data) /\ L = {p} => p[3] = data
           /\ \A S, aft : Chain(L, S, aft) => Chain(L \ {p}, S \cup p[2], aft) /\ ClosedIn(S \cup p[2], aft)
<1>0. /\ \A i \in L : i[1] \in Int /\ i = <<i[1], i[2], i[3]>> /\ i[2] # {} /\ \E t : i[3] = {t}
      /\ \A i, j \in L : i # j => i[1] # j[1] /\ i[2] \cap j[2] = {}
  BY DEF Fit
<1>1. Fit(L \ {p})
  BY <1>0 DEF Fit
<1>2. Sum(L) = p[2] \cup Sum(L \ {p}) /\ p[2] \cap Sum(L \ {p}) = {}
  BY <1>0 DEF Sum
<1>3. \A data : LastOf(L, data) => LastOf(L \ {p}, data)
  <2> SUFFICES ASSUME NEW data, LastOf(L, data), NEW i \in L \ {p}, \A j \in L \ {p} : j[1] <= i[1] PROVE i[3] = data
    BY DEF LastOf
  <2>1. \A j \in L : j[1] <= i[1]
    OBVIOUS
  <2> QED
    BY <2>1 DEF LastOf
<1>4. \A data : LastOf(L, data) /\ L = {p} => p[3] = data
  <2>1. p[1] <= p[1]
    BY <1>0
  <2> QED
    BY <2>1 DEF LastOf
<1>5. ASSUME NEW S, NEW aft, Chain(L, S, aft) PROVE Chain(L \ {p}, S \cup p[2], aft) /\ ClosedIn(S \cup p[2], aft)
  <2>1. UpTo(L, p) = {p}
    <3>1. \A i \in L : i[1] <= p[1] => i[1] = p[1]
      BY <1>0
    <3> QED
      BY <1>0, <3>1 DEF UpTo
  <2>2. Sum({p}) = p[2]
    BY DEF Sum
  <2>3. ASSUME NEW i \in L \ {p} PROVE Sum(UpTo(L, i)) = p[2] \cup Sum(UpTo(L \ {p}, i))
    <3>1. UpTo(L, i) = {p} \cup UpTo(L \ {p}, i)
      BY DEF UpTo
    <3> QED
      BY <2>2, <3>1 DEF Sum
  <2>4. ASSUME NEW i \in L \ {p} PROVE ClosedIn(S \cup p[2] \cup Sum(UpTo(L \ {p}, i)), aft)
    <3>1. ClosedIn(S \cup Sum(UpTo(L, i)), aft)
      BY <1>5 DEF Chain
    <3>2. S \cup Sum(UpTo(L, i)) = S \cup p[2] \cup Sum(UpTo(L \ {p}, i))
      BY <2>3
    <3> QED
      BY <3>1, <3>2
  <2> QED
    BY <1>5, <2>1, <2>2, <2>4 DEF Chain
<1> QED
  BY <1>1, <1>2, <1>3, <1>4, <1>5

\* One more at the end of the line.
LEMMA LastComes ==
    ASSUME NEW L, Fit(L), NEW n \in Int, \A i \in L : i[1] < n, NEW ops, ops # {}, ops \cap Sum(L) = {}, NEW t
    PROVE  LET M == L \cup {<<n, ops, {t}>>} IN
           /\ Fit(M) /\ Sum(M) = Sum(L) \cup ops /\ LastOf(M, {t}) /\ M # {}
           /\ \A S, aft : Chain(L, S, aft) /\ ClosedIn(S \cup Sum(L) \cup ops, aft) => Chain(M, S, aft)
<1> DEFINE m == <<n, ops, {t}>>
           M == L \cup {m}
<1>0. /\ \A i \in L : i[1] \in Int /\ i = <<i[1], i[2], i[3]>> /\ i[2] # {} /\ \E u : i[3] = {u}
      /\ \A i, j \in L : i # j => i[1] # j[1] /\ i[2] \cap j[2] = {}
  BY DEF Fit
<1>1. m[1] = n /\ m[2] = ops /\ m[3] = {t} /\ m = <<m[1], m[2], m[3]>>
  OBVIOUS
<1>2. Sum(M) = Sum(L) \cup ops
  <2>1. Sum({m}) = ops
    BY DEF Sum
  <2> QED
    BY <2>1 DEF Sum
<1> HIDE DEF m
<1>3. \A i \in L : i[1] # m[1] /\ i[2] \cap m[2] = {}
  BY <1>0, <1>1 DEF Sum
<1>4. Fit(M)
  <2>1. \A i \in M : i[1] \in Int /\ i = <<i[1], i[2], i[3]>> /\ i[2] # {} /\ \E u : i[3] = {u}
    BY <1>0, <1>1
  <2>2. \A i, j \in M : i # j => i[1] # j[1] /\ i[2] \cap j[2] = {}
    BY <1>0, <1>3
  <2> HIDE DEF M
  <2> QED
    BY <2>1, <2>2 DEF Fit
<1>5. LastOf(M, {t})
  <2> SUFFICES ASSUME NEW i \in M, \A j \in M : j[1] <= i[1] PROVE i[3] = {t}
    BY DEF LastOf
  <2>1. i \notin L
    BY <1>0, <1>1
  <2> QED
    BY <1>1, <2>1
<1>6. ASSUME NEW S, NEW aft, Chain(L, S, aft), ClosedIn(S \cup Sum(L) \cup ops, aft) PROVE Chain(M, S, aft)
  <2>1. ASSUME NEW i \in L PROVE UpTo(M, i) = UpTo(L, i)
    BY <1>0, <1>1 DEF UpTo
  <2>2. UpTo(M, m) = M
    <3>1. \A i \in L : i[1] <= m[1]
      BY <1>0, <1>1
    <3> QED
      BY <1>1, <3>1 DEF UpTo
  <2>3. S \cup Sum(M) = S \cup Sum(L) \cup ops
    BY <1>2
  <2> HIDE DEF M
  <2>4. \A i \in M : i \in L \/ i = m
    BY DEF M
  <2> QED
    BY <1>6, <2>1, <2>2, <2>3, <2>4 DEF Chain
<1> QED
  BY <1>2, <1>4, <1>5, <1>6 DEF m

\* What is in line is what is under way from a session.
LEMMA LineSums ==
    ASSUME NEW s, NEW fr, NEW q
    PROVE  Sum(LineOf(s, fr, q)) = Ops(q) \cup UNION {f.ops : f \in {g \in fr : g.at = "append" /\ g.session = s}}
<1>1. \A x : x \in Sum(LineUp(q)) <=> x \in Ops(q)
  <2>1. ASSUME NEW x, x \in Sum(LineUp(q)) PROVE x \in Ops(q)
    BY <2>1 DEF Sum, LineUp, Places, Ops
  <2>2. ASSUME NEW x, x \in Ops(q) PROVE x \in Sum(LineUp(q))
    <3>1. PICK k \in Places(q) : x \in q[k].ops
      BY <2>2 DEF Places, Ops
    <3>2. <<k, q[k].ops, q[k].data>> \in LineUp(q)
      BY DEF LineUp
    <3> QED
      BY <3>1, <3>2 DEF Sum
  <2> QED
    BY <2>1, <2>2
<1>2. \A x : x \in Sum(LineAt(s, fr)) <=> x \in UNION {f.ops : f \in {g \in fr : g.at = "append" /\ g.session = s}}
  <2>1. ASSUME NEW x, x \in Sum(LineAt(s, fr))
        PROVE  \E f \in {g \in fr : g.at = "append" /\ g.session = s} : x \in f.ops
    BY <2>1 DEF Sum, LineAt
  <2>2. ASSUME NEW x, NEW f \in {g \in fr : g.at = "append" /\ g.session = s}, x \in f.ops
        PROVE  x \in Sum(LineAt(s, fr))
    <3>1. <<0, f.ops, f.data>> \in LineAt(s, fr)
      BY DEF LineAt
    <3> QED
      BY <2>2, <3>1 DEF Sum
  <2> QED
    BY <2>1, <2>2
<1> QED
  BY <1>1, <1>2, SumParts DEF LineOf

\* A message more at the end of the queue.
LEMMA LineUpAppend ==
    ASSUME NEW q \in Seq(UpMessage), NEW m \in UpMessage
    PROVE  /\ m.kind = "update" => LineUp(Append(q, m)) = LineUp(q) \cup {<<Len(q) + 1, m.ops, m.data>>}
           /\ m.kind # "update" => LineUp(Append(q, m)) = LineUp(q)
           /\ \A i \in LineUp(q) : i[1] \in 1 .. Len(q)
<1> DEFINE a == Append(q, m)
<1>1. /\ Len(q) \in Nat /\ Len(a) = Len(q) + 1
      /\ \A k \in 1 .. Len(q) : a[k] = q[k]
      /\ a[Len(q) + 1] = m
  BY AppendPlaces
<1> HIDE DEF a
<1>2. 1 .. Len(a) = (1 .. Len(q)) \cup {Len(q) + 1}
  BY <1>1
<1>3. Places(a) = Places(q) \cup (IF m.kind = "update" THEN {Len(q) + 1} ELSE {})
  BY <1>1, <1>2 DEF Places
<1>4. \A k \in Places(q) : a[k] = q[k]
  BY <1>1 DEF Places
<1>5. m.kind = "update" => LineUp(a) = LineUp(q) \cup {<<Len(q) + 1, m.ops, m.data>>}
  BY <1>1, <1>3, <1>4 DEF LineUp
<1>6. m.kind # "update" => LineUp(a) = LineUp(q)
  BY <1>3, <1>4 DEF LineUp
<1>7. \A i \in LineUp(q) : i[1] \in 1 .. Len(q)
  BY DEF LineUp, Places
<1> QED
  BY <1>5, <1>6, <1>7 DEF a

\* The queue without its first message.
LEMMA LineUpTail ==
    ASSUME NEW q \in Seq(UpMessage), q # <<>>
    PROVE  LET p == <<1, q[1].ops, q[1].data>> IN
           /\ q[1].kind # "update" => LineUp(Tail(q)) = Shift(LineUp(q))
           /\ q[1].kind = "update" => /\ p \in LineUp(q)
                                      /\ LineUp(Tail(q)) = Shift(LineUp(q) \ {p})
                                      /\ {<<0, q[1].ops, q[1].data>>} \cup LineUp(Tail(q)) = Shift(LineUp(q))
           /\ \A i \in LineUp(q) : 1 <= i[1]
<1> DEFINE t == Tail(q)
           p == <<1, q[1].ops, q[1].data>>
           item(k) == <<k, q[k].ops, q[k].data>>
           low(k) == <<k - 1, q[k].ops, q[k].data>>
<1>1. /\ Len(t) = Len(q) - 1 /\ Len(q) \in Nat \ {0}
      /\ \A k \in 1 .. Len(t) : t[k] = q[k + 1]
  <2>1. Len(q) \in Nat /\ Len(q) # 0
    BY EmptySeq, LenProperties
  <2> QED
    BY <2>1, HeadTailProperties
<1> HIDE DEF t
<1>2. /\ \A k \in Places(t) : k + 1 \in Places(q) /\ k + 1 # 1 /\ t[k] = q[k + 1]
      /\ \A k \in Places(q) : k = 1 \/ (k - 1 \in Places(t) /\ t[k - 1] = q[k])
      /\ 1 \in Places(q) <=> q[1].kind = "update"
      /\ \A k \in Places(q) : k \in Nat /\ 1 <= k
  BY <1>1 DEF Places
<1>3. LineUp(t) = {low(k) : k \in Places(q) \ {1}}
  <2>1. ASSUME NEW i \in LineUp(t) PROVE i \in {low(k) : k \in Places(q) \ {1}}
    <3>1. PICK k \in Places(t) : i = <<k, t[k].ops, t[k].data>>
      BY DEF LineUp
    <3>2. k + 1 \in Places(q) \ {1} /\ t[k] = q[k + 1] /\ (k + 1) - 1 = k
      BY <1>2 DEF Places
    <3>3. i = low(k + 1)
      BY <3>1, <3>2
    <3> QED
      BY <3>2, <3>3
  <2>2. ASSUME NEW k \in Places(q) \ {1} PROVE low(k) \in LineUp(t)
    <3>1. k - 1 \in Places(t) /\ t[k - 1] = q[k]
      BY <1>2
    <3> QED
      BY <3>1 DEF LineUp
  <2> QED
    BY <2>1, <2>2
<1>4. LineUp(q) = {item(k) : k \in Places(q)}
  BY DEF LineUp
<1>5. ASSUME NEW S \in SUBSET Places(q) PROVE Shift({item(k) : k \in S}) = {low(k) : k \in S}
  <2>1. ASSUME NEW i \in Shift({item(k) : k \in S}) PROVE i \in {low(k) : k \in S}
    <3>1. PICK k \in S : i = <<item(k)[1] - 1, item(k)[2], item(k)[3]>>
      BY DEF Shift
    <3>2. item(k)[1] = k /\ item(k)[2] = q[k].ops /\ item(k)[3] = q[k].data
      OBVIOUS
    <3>3. i = low(k)
      BY <3>1, <3>2
    <3> QED
      BY <3>3
  <2>2. ASSUME NEW k \in S PROVE low(k) \in Shift({item(j) : j \in S})
    <3>1. item(k)[1] = k /\ item(k)[2] = q[k].ops /\ item(k)[3] = q[k].data
      OBVIOUS
    <3>2. low(k) = <<item(k)[1] - 1, item(k)[2], item(k)[3]>> /\ item(k) \in {item(j) : j \in S}
      BY <3>1
    <3> HIDE DEF item, low
    <3> QED
      BY <3>2 DEF Shift
  <2> QED
    BY <2>1, <2>2
<1>6. q[1].kind # "update" => LineUp(t) = Shift(LineUp(q))
  <2> SUFFICES ASSUME q[1].kind # "update" PROVE LineUp(t) = Shift(LineUp(q))
    OBVIOUS
  <2>1. Places(q) \ {1} = Places(q)
    BY <1>2
  <2> QED
    BY <1>3, <1>4, <1>5, <2>1
<1>7. q[1].kind = "update" => /\ p \in LineUp(q) /\ LineUp(t) = Shift(LineUp(q) \ {p})
                              /\ {<<0, q[1].ops, q[1].data>>} \cup LineUp(t) = Shift(LineUp(q))
  <2> SUFFICES ASSUME q[1].kind = "update"
               PROVE  /\ p \in LineUp(q) /\ LineUp(t) = Shift(LineUp(q) \ {p})
                      /\ {<<0, q[1].ops, q[1].data>>} \cup LineUp(t) = Shift(LineUp(q))
    OBVIOUS
  <2>1. 1 \in Places(q) /\ item(1) = p /\ low(1) = <<0, q[1].ops, q[1].data>>
    BY <1>2
  <2>2. LineUp(q) \ {p} = {item(k) : k \in Places(q) \ {1}}
    BY <1>4, <2>1
  <2>3. LineUp(t) = Shift(LineUp(q) \ {p})
    BY <1>3, <1>5, <2>2
  <2>4. {low(k) : k \in Places(q)} = {low(1)} \cup {low(k) : k \in Places(q) \ {1}}
    BY <2>1
  <2> QED
    BY <1>3, <1>4, <1>5, <2>1, <2>3, <2>4
<1>8. \A i \in LineUp(q) : 1 <= i[1]
  BY <1>2 DEF LineUp
<1> QED
  BY <1>6, <1>7, <1>8 DEF t, p

\* A queue that loses none of its updates.
LEMMA LineUpCut ==
    ASSUME NEW q \in Seq(UpMessage), NEW n \in 0 .. Len(q), ~HasUpdate(SubSeq(q, n + 1, Len(q)))
    PROVE  LineUp(SubSeq(q, 1, n)) = LineUp(q)
<1> DEFINE p == SubSeq(q, 1, n)
           r == SubSeq(q, n + 1, Len(q))
<1>1. Len(q) \in Nat /\ n \in Nat /\ n <= Len(q)
  BY LenProperties
<1>2. Len(p) = n /\ \A k \in 1 .. n : p[k] = q[k]
  <2>1. \A k \in 1 .. n : k \in 1 .. Len(q) /\ q[k] \in UpMessage
    BY <1>1, ElementOfSeq
  <2> QED
    BY <1>1, <2>1, SubSeqProperties
<1>3. ASSUME NEW k \in n + 1 .. Len(q) PROVE q[k].kind # "update"
  <2>1. \A j \in n + 1 .. Len(q) : j \in 1 .. Len(q) /\ q[j] \in UpMessage
    BY <1>1, ElementOfSeq
  <2>2. Len(r) = Len(q) - n /\ \A j \in 1 .. Len(q) - n : r[j] = q[n + j]
    BY <1>1, <1>3, <2>1, SubSeqProperties
  <2>3. r \in Seq(UpMessage)
    BY <1>1, <1>3, <2>1, SubSeqProperties
  <2>4. k - n \in DOMAIN r /\ r[k - n] = q[k]
    <3>1. k - n \in 1 .. Len(q) - n /\ n + (k - n) = k
      BY <1>1, <1>3
    <3>2. DOMAIN r = 1 .. Len(r)
      BY <2>3, LenProperties
    <3> QED
      BY <2>2, <3>1, <3>2
  <2> QED
    BY <2>4 DEF HasUpdate
<1> HIDE DEF p
<1>4. Places(p) = Places(q)
  BY <1>1, <1>2, <1>3 DEF Places
<1>5. \A k \in Places(p) : p[k] = q[k]
  BY <1>2 DEF Places
<1> QED
  BY <1>4, <1>5 DEF LineUp, p

\* Sets of operations that have what their members were made after.
LEMMA ClosedFacts ==
    ASSUME NEW S, NEW T, NEW aft
    PROVE  /\ ClosedIn({}, aft)
           /\ ClosedIn(S, aft) /\ ClosedIn(T, aft) => ClosedIn(S \cup T, aft)
           /\ ClosedIn(S, after) => Seen(S) = S /\ Text(S) = Words(S, initial)
           /\ \A other : (\A u \in S : other[u] = aft[u]) => (ClosedIn(S, other) <=> ClosedIn(S, aft))
<1>1. ClosedIn({}, aft) /\ (ClosedIn(S, aft) /\ ClosedIn(T, aft) => ClosedIn(S \cup T, aft))
  BY DEF ClosedIn
<1>2. ClosedIn(S, after) => Seen(S) = S /\ Text(S) = Words(S, initial)
  <2>1. ClosedIn(S, after) => Seen(S) = S
    BY DEF ClosedIn, Seen
  <2> QED
    BY <2>1 DEF Text, Words
<1>3. \A other : (\A u \in S : other[u] = aft[u]) => (ClosedIn(S, other) <=> ClosedIn(S, aft))
  BY DEF ClosedIn
<1> QED
  BY <1>1, <1>2, <1>3

\* A line that leaves no gap, whichever part of it is published.
LEMMA ChainFacts ==
    ASSUME NEW L, NEW S, NEW aft, Chain(L, S, aft)
    PROVE  /\ \A T : S \subseteq T /\ ClosedIn(T, aft) => Chain(L, T, aft)
           /\ Fit(L) /\ ClosedIn(S, aft) => ClosedIn(S \cup Sum(L), aft)
           /\ \A other : (\A u \in S \cup Sum(L) : other[u] = aft[u]) => Chain(L, S, other)
<1>1. ASSUME NEW T, S \subseteq T, ClosedIn(T, aft), NEW i \in L PROVE ClosedIn(T \cup Sum(UpTo(L, i)), aft)
  <2>1. ClosedIn(S \cup Sum(UpTo(L, i)), aft)
    BY DEF Chain
  <2> QED
    BY <1>1, <2>1 DEF ClosedIn
<1>2. ASSUME Fit(L), ClosedIn(S, aft), NEW u \in Sum(L) PROVE aft[u] \subseteq S \cup Sum(L)
  <2>1. PICK i \in L : u \in i[2]
    BY DEF Sum
  <2>2. i \in UpTo(L, i)
    <3>1. i[1] \in Int
      BY <1>2 DEF Fit
    <3> QED
      BY <3>1 DEF UpTo
  <2>3. u \in Sum(UpTo(L, i))
    BY <2>1, <2>2 DEF Sum
  <2>4. aft[u] \subseteq S \cup Sum(UpTo(L, i))
    BY <2>3 DEF Chain, ClosedIn
  <2>5. Sum(UpTo(L, i)) \subseteq Sum(L)
    BY DEF Sum, UpTo
  <2> QED
    BY <2>4, <2>5
<1>3. ASSUME NEW other, \A u \in S \cup Sum(L) : other[u] = aft[u], NEW i \in L
      PROVE  ClosedIn(S \cup Sum(UpTo(L, i)), other)
  <2>1. Sum(UpTo(L, i)) \subseteq Sum(L)
    BY DEF Sum, UpTo
  <2>2. ClosedIn(S \cup Sum(UpTo(L, i)), aft)
    BY DEF Chain
  <2> QED
    BY <1>3, <2>1, <2>2 DEF ClosedIn
<1>4. \A T : S \subseteq T /\ ClosedIn(T, aft) => Chain(L, T, aft)
  BY <1>1 DEF Chain
<1>5. Fit(L) /\ ClosedIn(S, aft) => ClosedIn(S \cup Sum(L), aft)
  BY <1>2 DEF ClosedIn
<1>6. \A other : (\A u \in S \cup Sum(L) : other[u] = aft[u]) => Chain(L, S, other)
  BY <1>3 DEF Chain
<1> QED
  BY <1>4, <1>5, <1>6

\* What the editor has after each message that is on its way to it.
LEMMA DownFacts ==
    ASSUME NEW q \in Seq(DownMessage), NEW S, NEW aft
    PROVE  /\ DownChain(<<>>, S, aft) <=> ClosedIn(S, aft)
           /\ DownChain(q, S, aft) => ClosedIn(S \cup Carried(q), aft)
           /\ \A T : DownChain(q, S, aft) /\ ClosedIn(T, aft) /\ S \subseteq T => DownChain(q, T, aft)
           /\ \A other : DownChain(q, S, aft) /\ (\A u \in S \cup Carried(q) : other[u] = aft[u])
                             => DownChain(q, S, other)
<1>1. Len(q) \in Nat /\ Len(<<>>) = 0
  BY LenProperties, EmptySeq
<1> DEFINE Part(n) == UNION {q[k].ops : k \in 1 .. n}
<1>2. Part(Len(q)) = Carried(q) /\ \A n \in 0 .. Len(q) : Part(n) \subseteq Carried(q)
  <2>1. \A n \in 0 .. Len(q) : \A k \in 1 .. n : k \in 1 .. Len(q)
    BY <1>1
  <2> QED
    BY <2>1 DEF Carried
<1>3. DownChain(q, S, aft) <=> \A n \in 0 .. Len(q) : ClosedIn(S \cup Part(n), aft)
  BY DEF DownChain
<1>4. DownChain(<<>>, S, aft) <=> ClosedIn(S, aft)
  <2>1. \A n \in 0 .. 0 : n = 0 /\ 1 .. n = {}
    OBVIOUS
  <2>2. \A n \in 0 .. 0 : UNION {<<>>[k].ops : k \in 1 .. n} = {}
    BY <2>1
  <2>3. \A n \in 0 .. 0 : S \cup UNION {<<>>[k].ops : k \in 1 .. n} = S
    BY <2>2
  <2>4. 0 \in 0 .. 0
    OBVIOUS
  <2>5. DownChain(<<>>, S, aft) <=> \A n \in 0 .. 0 : ClosedIn(S \cup UNION {<<>>[k].ops : k \in 1 .. n}, aft)
    BY <1>1 DEF DownChain
  <2> QED
    BY <2>3, <2>4, <2>5
<1>5. DownChain(q, S, aft) => ClosedIn(S \cup Carried(q), aft)
  <2>1. Len(q) \in 0 .. Len(q)
    BY <1>1
  <2> QED
    BY <1>2, <1>3, <2>1
<1>6. ASSUME NEW T, DownChain(q, S, aft), ClosedIn(T, aft), S \subseteq T PROVE DownChain(q, T, aft)
  <2>1. ASSUME NEW n \in 0 .. Len(q) PROVE ClosedIn(T \cup Part(n), aft)
    <3>1. ClosedIn(S \cup Part(n), aft)
      BY <1>3, <1>6
    <3> HIDE DEF Part
    <3> QED
      BY <1>6, <3>1 DEF ClosedIn
  <2> QED
    BY <2>1 DEF DownChain
<1>7. ASSUME NEW other, DownChain(q, S, aft), \A u \in S \cup Carried(q) : other[u] = aft[u] PROVE DownChain(q, S, other)
  <2>1. ASSUME NEW n \in 0 .. Len(q) PROVE ClosedIn(S \cup Part(n), other)
    <3>1. ClosedIn(S \cup Part(n), aft) /\ Part(n) \subseteq Carried(q)
      BY <1>2, <1>3, <1>7
    <3> HIDE DEF Part
    <3> QED
      BY <1>7, <3>1 DEF ClosedIn
  <2> QED
    BY <2>1 DEF DownChain
<1> QED
  BY <1>4, <1>5, <1>6, <1>7

\* The message at the head of the queue has come.
LEMMA DownTail ==
    ASSUME NEW q \in Seq(DownMessage), q # <<>>
    PROVE  /\ \A S, aft : DownChain(q, S, aft) =>
                  ClosedIn(S \cup q[1].ops, aft) /\ DownChain(Tail(q), S \cup q[1].ops, aft)
           /\ q[1].kind = "state" => Ops(q) = Ops(Tail(q)) /\ StateOps(q) = StateOps(Tail(q)) \cup q[1].ops
           /\ q[1].kind = "update" => Ops(q) = Ops(Tail(q)) \cup q[1].ops /\ StateOps(q) = StateOps(Tail(q))
           /\ \A k \in 1 .. Len(Tail(q)) : k + 1 \in 1 .. Len(q) /\ Tail(q)[k] = q[k + 1]
           /\ MayIn(Tail(q)) => MayIn(q)
           /\ 1 \in 1 .. Len(q) /\ q[1].kind \in {"state", "update"}
<1> DEFINE t == Tail(q)
<1>1. /\ Len(t) = Len(q) - 1 /\ Len(q) \in Nat \ {0} /\ q[1] \in DownMessage
      /\ \A k \in 1 .. Len(t) : t[k] = q[k + 1]
  <2>1. Len(q) \in Nat /\ Len(q) # 0
    BY EmptySeq, LenProperties
  <2> QED
    BY <2>1, HeadTailProperties, ElementOfSeq
<1>2. /\ q[1].kind = "update" => Ops(q) = Ops(t) \cup q[1].ops
      /\ q[1].kind # "update" => Ops(q) = Ops(t)
  BY TailQueue
<1> HIDE DEF t
<1>3. /\ \A k \in 1 .. Len(t) : k + 1 \in 1 .. Len(q) /\ t[k] = q[k + 1]
      /\ \A k \in 1 .. Len(q) : k = 1 \/ (k - 1 \in 1 .. Len(t) /\ t[k - 1] = q[k])
      /\ 1 \in 1 .. Len(q) /\ q[1].kind \in {"state", "update"}
  BY <1>1, UpMessages
<1>4. ASSUME NEW x PROVE x \in StateOps(q) <=> x \in StateOps(t) \/ (q[1].kind = "state" /\ x \in q[1].ops)
  <2>1. \A r : x \in StateOps(r) <=> \E k \in 1 .. Len(r) : r[k].kind = "state" /\ x \in r[k].ops
    BY DEF StateOps
  <2>2. x \in StateOps(q) => x \in StateOps(t) \/ (q[1].kind = "state" /\ x \in q[1].ops)
    BY <1>3, <2>1
  <2>3. x \in StateOps(t) => x \in StateOps(q)
    BY <1>3, <2>1
  <2>4. q[1].kind = "state" /\ x \in q[1].ops => x \in StateOps(q)
    BY <1>3, <2>1
  <2> QED
    BY <2>2, <2>3, <2>4
<1>5. MayIn(t) => MayIn(q)
  BY <1>3 DEF MayIn
<1>6. ASSUME NEW S, NEW aft, DownChain(q, S, aft)
      PROVE  ClosedIn(S \cup q[1].ops, aft) /\ DownChain(t, S \cup q[1].ops, aft)
  <2>1. ASSUME NEW n \in 0 .. Len(t)
        PROVE  ClosedIn((S \cup q[1].ops) \cup UNION {t[k].ops : k \in 1 .. n}, aft)
    <3>1. n + 1 \in 0 .. Len(q)
      BY <1>1
    <3>2. \A k \in 1 .. n + 1 : k = 1 \/ (k - 1 \in 1 .. n /\ t[k - 1] = q[k])
      BY <1>1
    <3>3. \A k \in 1 .. n : k + 1 \in 1 .. n + 1 /\ t[k] = q[k + 1]
      BY <1>1
    <3>4. 1 \in 1 .. n + 1
      BY <1>1
    <3>5. UNION {q[k].ops : k \in 1 .. n + 1} = q[1].ops \cup UNION {t[k].ops : k \in 1 .. n}
      BY <3>2, <3>3, <3>4
    <3>6. ClosedIn(S \cup UNION {q[k].ops : k \in 1 .. n + 1}, aft)
      BY <1>6, <3>1 DEF DownChain
    <3> QED
      BY <3>5, <3>6 DEF ClosedIn
  <2>2. ClosedIn(S \cup q[1].ops, aft)
    <3>1. 1 \in 0 .. Len(q) /\ 1 .. 1 = {1}
      BY <1>1
    <3>2. ClosedIn(S \cup UNION {q[k].ops : k \in 1 .. 1}, aft)
      BY <1>6, <3>1 DEF DownChain
    <3> QED
      BY <3>1, <3>2
  <2> QED
    BY <2>1, <2>2 DEF DownChain
<1> QED
  BY <1>1, <1>2, <1>3, <1>4, <1>5, <1>6 DEF t

\* An update more is on its way.
LEMMA DownAppend ==
    ASSUME NEW q \in Seq(DownMessage), NEW ops \in SUBSET Op
    PROVE  LET m == [kind |-> "update", ops |-> ops]
               a == Append(q, m)
           IN
           /\ a \in Seq(DownMessage) /\ Ops(a) = Ops(q) \cup ops /\ StateOps(a) = StateOps(q)
           /\ Carried(a) = Carried(q) \cup ops /\ (MayIn(a) <=> MayIn(q))
           /\ \A k \in 1 .. Len(a) : a[k].kind = "state" => k \in 1 .. Len(q) /\ q[k].kind = "state"
           /\ \A S, aft : DownChain(q, S, aft) /\ ClosedIn(S \cup Carried(q) \cup ops, aft) => DownChain(a, S, aft)
<1> DEFINE m == [kind |-> "update", ops |-> ops]
           a == Append(q, m)
<1>1. m \in DownMessage /\ m.kind = "update" /\ m.ops = ops
  BY UpMessages
<1> HIDE DEF m
<1>2. /\ a \in Seq(DownMessage) /\ Len(q) \in Nat /\ Len(a) = Len(q) + 1
      /\ \A k \in 1 .. Len(q) : a[k] = q[k]
      /\ a[Len(q) + 1] = m
  BY <1>1, AppendPlaces
<1>3. Ops(a) = Ops(q) \cup ops /\ Carried(a) = Carried(q) \cup ops
  BY <1>1, AppendQueue
<1> HIDE DEF a
<1>4. \A k \in 1 .. Len(a) : k = Len(q) + 1 \/ (k \in 1 .. Len(q) /\ a[k] = q[k])
  BY <1>2
<1>5. \A k \in 1 .. Len(q) : k \in 1 .. Len(a)
  BY <1>2
<1>6. \A k \in 1 .. Len(a) : a[k].kind = "state" => k \in 1 .. Len(q) /\ q[k].kind = "state"
  BY <1>1, <1>2, <1>4
<1>7. \A x : x \in StateOps(a) <=> x \in StateOps(q)
  <2>1. \A x, r : x \in StateOps(r) <=> \E k \in 1 .. Len(r) : r[k].kind = "state" /\ x \in r[k].ops
    BY DEF StateOps
  <2> QED
    BY <1>2, <1>4, <1>5, <1>6, <2>1
<1>8. MayIn(a) <=> MayIn(q)
  BY <1>2, <1>4, <1>5, <1>6 DEF MayIn
<1>9. ASSUME NEW S, NEW aft, DownChain(q, S, aft), ClosedIn(S \cup Carried(q) \cup ops, aft) PROVE DownChain(a, S, aft)
  <2>1. ASSUME NEW n \in 0 .. Len(a) PROVE ClosedIn(S \cup UNION {a[k].ops : k \in 1 .. n}, aft)
    <3>1. CASE n = Len(a)
      <4>1. UNION {a[k].ops : k \in 1 .. n} = Carried(a)
        BY <3>1 DEF Carried
      <4>2. S \cup Carried(a) = S \cup Carried(q) \cup ops
        BY <1>3
      <4> QED
        BY <1>9, <4>1, <4>2
    <3>2. CASE n # Len(a)
      <4>1. n \in 0 .. Len(q) /\ \A k \in 1 .. n : a[k] = q[k]
        BY <1>2, <3>2
      <4>2. UNION {a[k].ops : k \in 1 .. n} = UNION {q[k].ops : k \in 1 .. n}
        BY <4>1
      <4> QED
        BY <1>9, <4>1, <4>2 DEF DownChain
    <3> QED
      BY <3>1, <3>2
  <2> QED
    BY <2>1 DEF DownChain
<1>10. StateOps(a) = StateOps(q)
  BY <1>7
<1> QED
  BY <1>2, <1>3, <1>6, <1>8, <1>9, <1>10 DEF a, m

--------------------------------------------------------------------------------
(* NoteSession: behaviours without upsets *)

\* Every editor has its first session only, and one handler waits at most.
LEMMA CalmFacts ==
    ASSUME NoteInv, upset = {}
    PROVE  /\ \A c \in Client : /\ Home(c) \in Session /\ SessionOf(c) = Home(c) /\ Home(c)[1] = c
                                /\ up[Home(c)] \in Seq(UpMessage) /\ down[Home(c)] \in Seq(DownMessage)
           /\ \A s \in Session : s[1] \in Client /\ (s # Home(s[1]) => up[s] = <<>> /\ down[s] = <<>> /\ s \notin members)
           /\ \A f, g \in frames : f = g
           /\ \A f \in frames : /\ f \in Frame /\ f.session \in Session
                                /\ f.at # "leave" => f.session \in members
                                /\ f.at = "leave" => members # {}
           /\ log # {} => members # {}
           /\ members \subseteq Session
           /\ \A c, d \in Client : /\ mode[c] = "online" /\ MayIn(down[Home(c)])
                                   /\ mode[d] = "online" /\ MayIn(down[Home(d)])
                                   => c = d
<1>0. /\ NoteTypeOK /\ SessionInv /\ ModeInv /\ ConvergeInv /\ ClearedInv /\ FilledInv
      /\ ClientOK /\ QueuesOK /\ DocumentOK /\ SavesOK
  BY NoteParts DEF NoteInv
<1>1. "overlap" \notin upset /\ Without({"overlap", "reconnect"})
  BY DEF Without
<1>2. \A c \in Client : link[c] = 1
  BY <1>0, <1>1 DEF FilledInv
<1>3. \A c \in Client : SessionOf(c) = Home(c) /\ Home(c) \in Session /\ Home(c)[1] = c
  BY <1>0, <1>2, OwnSession DEF SessionOf, Home
<1>4. ASSUME NEW s \in Session
      PROVE  s[1] \in Client /\ (s # Home(s[1]) => up[s] = <<>> /\ down[s] = <<>> /\ s \notin members)
  <2>1. s[1] \in Client /\ s[2] \in Nat \ {0} /\ s = <<s[1], s[2]>>
    BY SessionParts
  <2>2. s # Home(s[1]) => s[2] > link[s[1]]
    BY <1>2, <2>1 DEF Home
  <2> QED
    BY <1>0, <2>1, <2>2 DEF SessionInv
<1>5. /\ \A f, g \in frames : f = g
      /\ \A f \in frames : f \in Frame /\ IF f.at = "leave" THEN members # {} ELSE f.session \in members
      /\ log # {} => members # {}
  BY <1>0, <1>1 DEF ClearedInv, DocumentOK
<1>6. \A f \in frames : f.session \in Session
  BY <1>5, FrameParts
<1>7. ASSUME NEW c \in Client, NEW d \in Client, mode[c] = "online", MayIn(down[Home(c)]),
             mode[d] = "online", MayIn(down[Home(d)])
      PROVE  c = d
  <2>1. Around(c) /\ Around(d)
    BY <1>3, <1>7 DEF Around, MayFill, MayIn
  <2> QED
    BY <1>0, <1>1, <2>1 DEF FilledInv
<1>8. \A c \in Client : up[Home(c)] \in Seq(UpMessage) /\ down[Home(c)] \in Seq(DownMessage)
  BY <1>0, <1>3 DEF QueuesOK
<1>9. members \subseteq Session
  BY <1>0 DEF DocumentOK
<1> QED
  BY <1>3, <1>4, <1>5, <1>6, <1>7, <1>8, <1>9

\* Who has something in line has joined; what an editor has is in the log or in its line.
LEMMA CalmLines ==
    ASSUME NoteInv, upset = {}, StartInv, LineInv
    PROVE  /\ \A s \in Session : /\ Sum(Line(s)) \subseteq got[s[1]] /\ Sum(Line(s)) \subseteq Known
                                 /\ Fit(Line(s))
                                 /\ Line(s) # {} => s \in members /\ s = Home(s[1]) /\ ~Joining(up[s]) /\ Sum(Line(s)) # {}
                                 /\ s \in members => s = Home(s[1]) /\ ~Joining(up[s])
           /\ \A c \in Client : mode[c] = "online" /\ ~Joining(up[Home(c)]) =>
                  /\ log \subseteq got[c] \cup Carried(down[Home(c)]) /\ Carried(down[Home(c)]) \subseteq log
                  /\ got[c] \subseteq log \cup Sum(Line(Home(c))) /\ Home(c) \in members
           /\ \A c \in Client : Joining(up[Home(c)]) =>
                  got[c] = {} /\ down[Home(c)] = <<>> /\ Home(c) \notin members /\ Line(Home(c)) = {}
           /\ Live = log \cup UNION {Sum(Line(s)) : s \in Session}
           /\ members = {} => Live = {}
           /\ Live = {} => ~Pending
<1>0. SessionInv /\ ModeInv /\ ConvergeInv /\ QueuesOK
  BY NoteParts DEF NoteInv
<1>1. /\ \A c \in Client : Home(c) \in Session /\ SessionOf(c) = Home(c) /\ Home(c)[1] = c
      /\ \A s \in Session : s[1] \in Client /\ (s # Home(s[1]) => up[s] = <<>> /\ down[s] = <<>> /\ s \notin members)
      /\ \A f \in frames : f.at # "leave" => f.session \in members
      /\ log # {} => members # {}
  BY CalmFacts
<1>2. ASSUME NEW s \in Session PROVE Sum(Line(s)) = Ops(up[s]) \cup Appending(s)
  BY LineSums DEF Line, Appending
<1>3. \A s \in Session : Sum(Line(s)) \subseteq got[s[1]]
  BY <1>0, <1>2 DEF ConvergeInv
<1>4. \A s \in Session : Sum(Line(s)) \subseteq Known
  BY <1>1, <1>3 DEF Known
<1>5. \A s \in Session : Fit(Line(s))
  BY DEF LineInv
<1>6. \A s \in Session : Line(s) # {} => Sum(Line(s)) # {}
  BY <1>5, SumParts
<1>7. \A s \in Session : s \in members => s = Home(s[1]) /\ ~Joining(up[s])
  BY <1>0, <1>1 DEF SessionInv
<1>8. ASSUME NEW c \in Client, Joining(up[Home(c)])
      PROVE  got[c] = {} /\ down[Home(c)] = <<>> /\ Home(c) \notin members /\ Line(Home(c)) = {}
  <2>1. got[c] = {}
    BY <1>8 DEF StartInv
  <2>2. Sum(Line(Home(c))) = {}
    BY <1>1, <1>3, <2>1
  <2> QED
    BY <1>0, <1>1, <1>6, <1>8, <2>1, <2>2 DEF SessionInv
<1>9. ASSUME NEW s \in Session, Line(s) # {} PROVE s \in members
  <2>1. CASE LineAt(s, frames) # {}
    <3>1. \E f \in frames : f.at = "append" /\ f.session = s
      BY <2>1 DEF LineAt
    <3> QED
      BY <1>1, <3>1
  <2>2. CASE LineUp(up[s]) # {}
    <3>1. PICK k \in 1 .. Len(up[s]) : up[s][k].kind = "update"
      BY <2>2 DEF LineUp, Places
    <3>2. Has(up[s], {"update", "leave"})
      BY <3>1 DEF Has
    <3>3. up[s] # <<>>
      BY <3>2, NothingIn
    <3>4. s = Home(s[1])
      BY <1>1, <3>3
    <3>5. ~Joining(up[s])
      BY <1>1, <1>8, <1>9, <3>4
    <3> QED
      BY <1>0, <3>2, <3>5 DEF SessionInv
  <2> QED
    BY <1>9, <2>1, <2>2 DEF Line, LineOf
<1>10. ASSUME NEW c \in Client, mode[c] = "online", ~Joining(up[Home(c)])
       PROVE  /\ log \subseteq got[c] \cup Carried(down[Home(c)]) /\ Carried(down[Home(c)]) \subseteq log
              /\ got[c] \subseteq log \cup Sum(Line(Home(c))) /\ Home(c) \in members
  <2>1. SessionOf(c) = Home(c) /\ link[c] = 1 /\ Home(c) \in Session
    BY <1>1 DEF SessionOf, Home
  <2>2. Joined(c)
    BY <1>10, <2>1 DEF Joined
  <2>3. log \subseteq got[c] \cup Carried(down[Home(c)]) /\ Carried(down[Home(c)]) \subseteq log
    BY <1>0, <2>1, <2>2 DEF ConvergeInv
  <2>4. got[c] \subseteq log \cup Ops(up[Home(c)]) \cup Appending(Home(c))
    BY <1>0, <1>10, <2>1 DEF ConvergeInv
  <2>5. Home(c) \in members
    BY <1>0, <1>10, <2>1 DEF ModeInv
  <2> QED
    BY <1>2, <2>1, <2>3, <2>4, <2>5
<1>11. Live = log \cup UNION {Sum(Line(s)) : s \in Session}
  BY DEF Live, LiveOf, Line
<1>12. members = {} => Live = {}
  <2> SUFFICES ASSUME members = {} PROVE Live = {}
    OBVIOUS
  <2>1. \A s \in Session : Line(s) = {}
    BY <1>9
  <2>2. \A s \in Session : Sum(Line(s)) = {}
    BY <2>1, SumParts
  <2> QED
    BY <1>1, <1>11, <2>2
<1>13. Live = {} => ~Pending
  BY <1>6, <1>11 DEF Pending
<1> QED
  BY <1>3, <1>4, <1>5, <1>6, <1>7, <1>8, <1>9, <1>10, <1>11, <1>12, <1>13

\* Lines that stay, or move up by a place.
LEMMA LinesStay ==
    ASSUME LineInv, \A s \in Session : Line(s)' = Line(s) \/ Line(s)' = Shift(Line(s))
    PROVE  /\ \A s \in Session : /\ Fit(Line(s)') /\ Sum(Line(s)') = Sum(Line(s)) /\ (Line(s)' = {} <=> Line(s) = {})
                                 /\ \A data : LastOf(Line(s), data) <=> LastOf(Line(s)', data)
                                 /\ \A S, aft : Chain(Line(s), S, aft) => Chain(Line(s)', S, aft)
           /\ Live' = log' \cup UNION {Sum(Line(s)) : s \in Session}
           /\ Pending' <=> Pending
<1>1. ASSUME NEW s \in Session
      PROVE  /\ Fit(Line(s)') /\ Sum(Line(s)') = Sum(Line(s)) /\ (Line(s)' = {} <=> Line(s) = {})
             /\ \A data : LastOf(Line(s), data) <=> LastOf(Line(s)', data)
             /\ \A S, aft : Chain(Line(s), S, aft) => Chain(Line(s)', S, aft)
  <2>1. Fit(Line(s))
    BY DEF LineInv
  <2>2. CASE Line(s)' = Line(s)
    BY <2>1, <2>2
  <2>3. CASE Line(s)' = Shift(Line(s))
    BY <2>1, <2>3, ShiftKeeps, SumParts
  <2> QED
    BY <2>2, <2>3
<1>2. Live' = log' \cup UNION {Sum(Line(s)') : s \in Session}
  BY DEF Live, LiveOf, Line
<1>3. Live' = log' \cup UNION {Sum(Line(s)) : s \in Session}
  BY <1>1, <1>2
<1>4. Pending' <=> Pending
  BY <1>1 DEF Pending
<1> QED
  BY <1>1, <1>3, <1>4

--------------------------------------------------------------------------------
(* NoteSession: steps of the server without upsets *)

\* A handler that publishes nothing, or a save: no line loses anything, and an editor is at
\* most given the state it asked for.
ServerKeep ==
    /\ UNCHANGED <<mode, initial, got, after>>
    /\ \A s \in Session : Line(s)' = Line(s) \/ Line(s)' = Shift(Line(s))
    /\ \A c \in Client : Joining(up'[Home(c)]) => Joining(up[Home(c)])
    /\ log' = log \/ (log' = {} /\ ~Pending)
    /\ \A c \in Client :
          \/ down'[Home(c)] = down[Home(c)]
          \/ /\ log' = log /\ Joining(up[Home(c)]) /\ ~Joining(up'[Home(c)])
             /\ \E alone \in BOOLEAN : /\ down'[Home(c)] = Append(<<>>, State(log, alone))
                                       /\ alone /\ log = {} => Live = {}
    /\ \A f \in frames' : f.at # "leave" => saves' = <<>>
    /\ \A f \in frames' : f.at = "save" => f.ops # {} /\ f.ops \subseteq log' /\ \E t : f.data = {t}
    /\ Len(saves') <= 1
    /\ Pending \/ (LatestIs(frames, saves, note, AllOf(got)) => LatestIs(frames', saves', note', AllOf(got)))

\* The queue of an editor that has just been given the state.
LEMMA StateQueue ==
    ASSUME NEW alone \in BOOLEAN, NEW S, S \subseteq Op
    PROVE  LET q == Append(<<>>, State(S, alone)) IN
           /\ q \in Seq(DownMessage) /\ Carried(q) = S
           /\ \A k \in 1 .. Len(q) : k = 1 /\ q[k] = State(S, alone) /\ q[k].kind = "state"
           /\ \A aft : ClosedIn({}, aft) /\ ClosedIn(S, aft) => DownChain(q, {}, aft)
           /\ MayIn(q) => alone /\ S = {}
<1> DEFINE m == State(S, alone)
           q == Append(<<>>, m)
<1>1. m \in DownMessage /\ m.kind = "state" /\ m.ops = S /\ m.alone = alone
  <2>1. m \in DownMessage
    BY UpMessages
  <2> QED
    BY <2>1 DEF State
<1> HIDE DEF m
<1>2. q \in Seq(DownMessage) /\ Carried(q) = S /\ \A k \in 1 .. Len(q) : q[k] = m
  BY <1>1, OneMessage
<1>3. Len(q) = 1
  <2>1. <<>> \in Seq(DownMessage) /\ Len(<<>>) = 0
    BY EmptySeq
  <2> QED
    BY <1>1, <2>1, AppendPlaces
<1> HIDE DEF q
<1>4. MayIn(q) => alone /\ S = {}
  BY <1>1, <1>2 DEF MayIn
<1>5. ASSUME NEW aft, ClosedIn({}, aft), ClosedIn(S, aft) PROVE DownChain(q, {}, aft)
  <2>1. ASSUME NEW n \in 0 .. Len(q) PROVE ClosedIn({} \cup UNION {q[k].ops : k \in 1 .. n}, aft)
    <3>1. CASE n = 0
      <4>1. 1 .. n = {}
        BY <3>1
      <4>2. {} \cup UNION {q[k].ops : k \in 1 .. n} = {}
        BY <4>1
      <4> QED
        BY <1>5, <4>2
    <3>2. CASE n = 1
      <4>1. {} \cup UNION {q[k].ops : k \in 1 .. n} = S
        BY <1>2, <1>3, <3>2 DEF Carried
      <4> QED
        BY <1>5, <4>1
    <3> QED
      BY <1>3, <2>1, <3>1, <3>2
  <2> QED
    BY <2>1 DEF DownChain
<1>6. \A k \in 1 .. Len(q) : k = 1 /\ q[k] = m /\ q[k].kind = "state"
  BY <1>1, <1>2, <1>3
<1> QED
  BY <1>2, <1>4, <1>5, <1>6 DEF q, m

\* Such a step keeps everything.
LEMMA ServerKeepCalm ==
    ASSUME NoteInv, upset = {}, CalmParts, ServerKeep
    PROVE  CalmParts'
<1>0. KnownInv /\ StartInv /\ LineInv /\ CausalInv /\ LastInv /\ GoneInv /\ TextInv /\ BlankInv /\ SavedInv
  BY DEF CalmParts
<1>1. /\ UNCHANGED <<mode, initial, got, after>>
      /\ \A c \in Client : Joining(up'[Home(c)]) => Joining(up[Home(c)])
      /\ log' = log \/ (log' = {} /\ ~Pending)
      /\ \A f \in frames' : f.at # "leave" => saves' = <<>>
      /\ \A f \in frames' : f.at = "save" => f.ops # {} /\ f.ops \subseteq log' /\ \E t : f.data = {t}
      /\ Len(saves') <= 1
      /\ Pending \/ (LatestIs(frames, saves, note, AllOf(got)) => LatestIs(frames', saves', note', AllOf(got)))
      /\ \A s \in Session : Line(s)' = Line(s) \/ Line(s)' = Shift(Line(s))
  BY DEF ServerKeep
<1>2. /\ \A s \in Session : /\ Fit(Line(s)') /\ Sum(Line(s)') = Sum(Line(s)) /\ (Line(s)' = {} <=> Line(s) = {})
                            /\ \A data : LastOf(Line(s), data) <=> LastOf(Line(s)', data)
                            /\ \A S, aft : Chain(Line(s), S, aft) => Chain(Line(s)', S, aft)
      /\ Live' = log' \cup UNION {Sum(Line(s)) : s \in Session}
      /\ Pending' <=> Pending
  BY <1>0, <1>1, LinesStay
<1>3. /\ \A c \in Client : /\ Home(c) \in Session /\ Home(c)[1] = c
                           /\ down[Home(c)] \in Seq(DownMessage)
      /\ \A c \in Client : Joining(up[Home(c)]) => got[c] = {} /\ down[Home(c)] = <<>>
      /\ Live = log \cup UNION {Sum(Line(s)) : s \in Session}
      /\ Live = {} => ~Pending
      /\ log \subseteq Op
  <2>1. log \subseteq Op
    BY NoteParts DEF NoteInv, DocumentOK
  <2> QED
    BY <1>0, <2>1, CalmFacts, CalmLines
<1>4. ASSUME NEW c \in Client, down'[Home(c)] # down[Home(c)]
      PROVE  /\ log' = log /\ got[c] = {} /\ down[Home(c)] = <<>> /\ ~Joining(up'[Home(c)])
             /\ Carried(down'[Home(c)]) = log
             /\ \A k \in 1 .. Len(down'[Home(c)]) : k = 1
             /\ DownChain(down'[Home(c)], {}, after)
             /\ MayIn(down'[Home(c)]) => Live = {}
  <2>1. log' = log /\ Joining(up[Home(c)]) /\ ~Joining(up'[Home(c)])
    BY <1>4 DEF ServerKeep
  <2>2. PICK alone \in BOOLEAN : /\ down'[Home(c)] = Append(<<>>, State(log, alone))
                                 /\ alone /\ log = {} => Live = {}
    BY <1>4 DEF ServerKeep
  <2>3. ClosedIn({}, after) /\ ClosedIn(log, after)
    BY <1>0, ClosedFacts DEF CausalInv
  <2> QED
    BY <1>3, <2>1, <2>2, <2>3, StateQueue
<1>5. Live' = Live \/ Live' = {}
  <2>1. log' = log => Live' = Live
    BY <1>2, <1>3
  <2>2. ~Pending => \A s \in Session : Sum(Line(s)) = {}
    BY SumParts DEF Pending
  <2> QED
    BY <1>1, <1>2, <2>1, <2>2
<1>6. KnownInv'
  <2>1. Known' = Known
    BY <1>1 DEF Known
  <2> QED
    BY <1>0, <1>1, <1>4, <2>1 DEF KnownInv
<1>7. StartInv'
  BY <1>0, <1>1, <1>4 DEF StartInv
<1>8. LineInv'
  BY <1>1, <1>2 DEF LineInv
<1>9. CausalInv'
  <2>1. ClosedIn(log, after)' /\ \A c \in Client : ClosedIn(got[c], after)'
    BY <1>0, <1>1, ClosedFacts DEF CausalInv
  <2>2. ASSUME NEW c \in Client, mode'[c] = "online" PROVE DownChain(down'[Home(c)], got'[c], after')
    BY <1>0, <1>1, <1>4, <2>2 DEF CausalInv
  <2>3. ASSUME NEW s \in Session PROVE Chain(Line(s)', log', after')
    <3>1. CASE log' = log
      BY <1>0, <1>1, <1>2, <3>1 DEF CausalInv
    <3>2. CASE ~Pending
      BY <1>2, <3>2 DEF Pending, Chain
    <3> QED
      BY <1>1, <3>1, <3>2
  <2> QED
    BY <2>1, <2>2, <2>3 DEF CausalInv
<1>10. LastInv'
  BY <1>0, <1>1, <1>2, <1>3 DEF LastInv
<1>11. GoneInv'
  <2> SUFFICES ASSUME NEW c \in Client, mode'[c] # "online", Line(Home(c))' # {}
               PROVE  /\ Sum(Line(Home(c))') \cap log' = {}
                      /\ \A e \in Client \ {c} : IF mode'[e] = "online" THEN got'[e] \cap Sum(Line(Home(c))') = {}
                                                 ELSE Line(Home(e))' = {}
                      /\ LastOf(Line(Home(c))', {AllOf(got')}) \/ \E e \in Client \ {c} : Present(e)'
    BY DEF GoneInv
  <2>1. mode[c] # "online" /\ Line(Home(c)) # {}
    BY <1>1, <1>2, <1>3
  <2>2. /\ Sum(Line(Home(c))) \cap log = {}
        /\ \A e \in Client \ {c} : IF mode[e] = "online" THEN got[e] \cap Sum(Line(Home(c))) = {}
                                   ELSE Line(Home(e)) = {}
        /\ LastOf(Line(Home(c)), {AllOf(got)}) \/ \E e \in Client \ {c} : Present(e)
    BY <1>0, <2>1 DEF GoneInv
  <2>3. \A e \in Client : Present(e) => Present(e)'
    BY <1>1 DEF Present
  <2>4. Sum(Line(Home(c))') = Sum(Line(Home(c))) /\ \A data : LastOf(Line(Home(c)), data) <=> LastOf(Line(Home(c))', data)
    BY <1>2, <1>3
  <2>5. Sum(Line(Home(c))') \cap log' = {}
    BY <1>1, <2>2, <2>4
  <2>6. \A e \in Client \ {c} : IF mode'[e] = "online" THEN got'[e] \cap Sum(Line(Home(c))') = {}
                                ELSE Line(Home(e))' = {}
    BY <1>1, <1>2, <1>3, <2>2, <2>4
  <2>7. LastOf(Line(Home(c))', {AllOf(got')}) \/ \E e \in Client \ {c} : Present(e)'
    BY <1>1, <2>2, <2>3, <2>4
  <2> QED
    BY <2>5, <2>6, <2>7
<1>12. TextInv'
  BY <1>0, <1>1, <1>5 DEF TextInv
<1>13. BlankInv'
  BY <1>0, <1>1, <1>4, <1>5 DEF BlankInv
<1>14. SavedInv'
  <2>1. CASE Pending
    BY <1>2, <2>1 DEF SavedInv
  <2>2. CASE \E c \in Client : mode[c] = "online" /\ EchoIn(down[Home(c)], got[c])
    <3>1. PICK c \in Client : mode[c] = "online" /\ EchoIn(down[Home(c)], got[c])
      BY <2>2
    <3>2. down[Home(c)] # <<>>
      BY <3>1, NothingIn DEF EchoIn
    <3>3. down'[Home(c)] = down[Home(c)]
      BY <1>4, <3>2
    <3>4. mode'[c] = "online" /\ EchoIn(down'[Home(c)], got'[c])
      BY <1>1, <3>1, <3>3
    <3> QED
      BY <3>4 DEF SavedInv
  <2>3. CASE LatestIs(frames, saves, note, AllOf(got)) /\ ~Pending
    BY <1>1, <2>3 DEF SavedInv
  <2> QED
    BY <1>0, <2>1, <2>2, <2>3 DEF SavedInv
<1> QED
  BY <1>6, <1>7, <1>8, <1>9, <1>10, <1>11, <1>12, <1>13, <1>14 DEF CalmParts

\* The lines, when a handler starts that publishes nothing.
LEMMA BeginLines ==
    ASSUME NoteInv, NEW s \in Session, NEW kind \in {"join", "leave", "disconnect"}, Begins(s, kind),
           upset' = {}, \A f \in frames' : f \in frames \/ f.at = "leave"
    PROVE  /\ upset = {} /\ frames = {}
           /\ \A t \in Session : Line(t)' = Line(t) \/ Line(t)' = Shift(Line(t))
           /\ \A c \in Client : Joining(up'[Home(c)]) => Joining(up[Home(c)]) /\ Home(c) # s
<1>0. QueuesOK
  BY NoteParts DEF NoteInv
<1>1. /\ up[s] # <<>> /\ Head(up[s]) = up[s][1] /\ Head(up[s]).kind = kind
      /\ \A t \in Session \ {s} : up'[t] = up[t]
      /\ ~Joining(up'[s]) /\ upset \subseteq upset' /\ ("overlap" \notin upset' => frames = {})
  BY BeginFacts
<1>2. upset = {} /\ frames = {}
  BY <1>1
<1>3. up'[s] = Tail(up[s])
  BY <1>0 DEF Begins, QueuesOK
<1>4. up[s][1].kind # "update" /\ up[s] \in Seq(UpMessage)
  BY <1>0, <1>1 DEF QueuesOK
<1>5. LineUp(Tail(up[s])) = Shift(LineUp(up[s]))
  BY <1>1, <1>4, LineUpTail
<1>6. \A t : LineAt(t, frames) = {} /\ LineAt(t, frames') = {}
  BY <1>2 DEF LineAt
<1>7. \A t \in Session : Line(t) = LineUp(up[t]) /\ Line(t)' = LineUp(up'[t])
  BY <1>6 DEF Line, LineOf
<1>8. \A c \in Client : Home(c) \in Session
  BY <1>2, CalmFacts
<1> QED
  BY <1>1, <1>2, <1>3, <1>5, <1>7, <1>8

\* ydoc_document_join: the joining editor had nothing, and is given the whole log.
LEMMA JoinServerKeep ==
    ASSUME NoteInv, CalmInv, NEW s \in Session, HandleJoin(s), upset' = {}
    PROVE  upset = {} /\ ServerKeep
<1>1. /\ Begins(s, "join") /\ members' = members \cup {s}
      /\ down' = [down EXCEPT ![s] = Append(@, State(log, members \subseteq {s}))]
      /\ UNCHANGED <<mode, link, synced, initial, got, after, pool, log, frames, saves, note>>
  BY DEF HandleJoin, client
<1>2. /\ upset = {} /\ frames = {}
      /\ \A t \in Session : Line(t)' = Line(t) \/ Line(t)' = Shift(Line(t))
      /\ \A c \in Client : Joining(up'[Home(c)]) => Joining(up[Home(c)]) /\ Home(c) # s
  BY <1>1, BeginLines
<1>3. StartInv /\ LineInv /\ QueuesOK
  BY <1>2, NoteParts DEF CalmInv, CalmParts, NoteInv
<1>4. Joining(up[s])
  BY <1>1, BeginFacts
<1>5. ASSUME NEW c \in Client, down'[Home(c)] # down[Home(c)]
      PROVE  /\ log' = log /\ Joining(up[Home(c)]) /\ ~Joining(up'[Home(c)])
             /\ \E alone \in BOOLEAN : /\ down'[Home(c)] = Append(<<>>, State(log, alone))
                                       /\ alone /\ log = {} => Live = {}
  <2>1. Home(c) \in Session /\ Home(c)[1] = c
    BY <1>2, CalmFacts
  <2>2. Home(c) = s
    BY <1>1, <1>5, <2>1
  <2>3. down[s] = <<>> /\ Line(s) = {}
    BY <1>2, <1>3, <1>4, <2>2, CalmLines
  <2>4. down'[s] = Append(<<>>, State(log, members \subseteq {s}))
    BY <1>1, <1>3, <2>3 DEF QueuesOK
  <2>5. ASSUME members \subseteq {s}, log = {} PROVE Live = {}
    <3>1. \A t \in Session : Line(t) # {} => t \in members
      BY <1>2, <1>3, CalmLines
    <3>2. \A t \in Session : Line(t) = {}
      BY <2>3, <2>5, <3>1
    <3>3. \A t \in Session : Sum(Line(t)) = {}
      BY <3>2, SumParts
    <3>4. Live = log \cup UNION {Sum(Line(t)) : t \in Session}
      BY <1>2, <1>3, CalmLines
    <3> QED
      BY <2>5, <3>3, <3>4
  <2> QED
    BY <1>1, <1>2, <1>4, <2>2, <2>4, <2>5
<1>6. /\ \A f \in frames' : f.at # "leave" => saves' = <<>>
      /\ \A f \in frames' : f.at = "save" => f.ops # {} /\ f.ops \subseteq log' /\ \E t : f.data = {t}
      /\ Len(saves') <= 1
  BY <1>1, <1>3 DEF LineInv
<1>7. LatestIs(frames', saves', note', AllOf(got)) <=> LatestIs(frames, saves, note, AllOf(got))
  BY <1>1
<1> QED
  BY <1>1, <1>2, <1>5, <1>6, <1>7 DEF ServerKeep

\* yjs_document_leave and disconnect: the log is only dropped when nothing is in line.
LEMMA ExitServerKeep ==
    ASSUME NoteInv, CalmInv, NEW s \in Session, HandleLeave(s) \/ HandleDisconnect(s), upset' = {}
    PROVE  upset = {} /\ ServerKeep
<1>1. PICK kind \in {"leave", "disconnect"} : Begins(s, kind)
  BY DEF HandleLeave, HandleDisconnect
<1>2. ExitStep(s)
  BY LeaveExits, DisconnectExits
<1>3. /\ UNCHANGED <<mode, link, synced, initial, got, after, down, saves, note>>
      /\ ~Has(up'[s], {"update", "leave"})
      /\ members' = members \ {s}
      /\ log' = log \/ (log' = {} /\ members' = {})
      /\ \/ UNCHANGED frames
         \/ members' # {} /\ frames' = frames \cup {[session |-> s, at |-> "leave"]}
  BY <1>2 DEF ExitStep
<1>4. \A f \in frames' : f \in frames \/ f.at = "leave"
  BY <1>3
<1>5. /\ upset = {} /\ frames = {}
      /\ \A t \in Session : Line(t)' = Line(t) \/ Line(t)' = Shift(Line(t))
      /\ \A c \in Client : Joining(up'[Home(c)]) => Joining(up[Home(c)])
  BY <1>1, <1>4, BeginLines
<1>6. StartInv /\ LineInv
  BY <1>5 DEF CalmInv, CalmParts
<1>7. members' = {} => ~Pending
  <2>1. Line(s)' = {}
    <3>1. Places(up'[s]) = {}
      BY <1>3 DEF Places, Has
    <3>2. LineUp(up'[s]) = {}
      BY <3>1 DEF LineUp
    <3>3. LineAt(s, frames') = {}
      BY <1>4, <1>5 DEF LineAt
    <3> QED
      BY <3>2, <3>3 DEF Line, LineOf
  <2>2. Line(s) = {}
    BY <1>5, <1>6, <2>1, LinesStay
  <2>3. \A t \in Session : Line(t) # {} => t \in members
    BY <1>5, <1>6, CalmLines
  <2> QED
    BY <1>3, <2>2, <2>3 DEF Pending
<1>8. /\ \A f \in frames' : f.at = "leave"
      /\ Len(saves') <= 1
  BY <1>3, <1>4, <1>5, <1>6 DEF LineInv
<1>9. LatestIs(frames', saves', note', AllOf(got)) <=> LatestIs(frames, saves, note, AllOf(got))
  BY <1>3, <1>5, <1>8 DEF LatestIs
<1> QED
  BY <1>3, <1>5, <1>7, <1>8, <1>9 DEF ServerKeep

\* What stop_item_tasks leaves of no saves.
LEMMA NoRest == \A r \in Rest(<<>>) : r = <<>>
<1>1. Len(<<>>) = 0
  BY EmptySeq
<1> SUFFICES ASSUME NEW r \in Rest(<<>>) PROVE r = <<>>
  OBVIOUS
<1>2. PICK n \in 0 .. 0 : r \in {[i \in 1 .. n |-> <<>>[p[i]]] : p \in Picks(n, 0)}
  BY <1>1 DEF Rest
<1>3. PICK p \in Picks(n, 0) : r = [i \in 1 .. n |-> <<>>[p[i]]]
  BY <1>2
<1>4. 1 .. n = {} /\ n = 0
  OBVIOUS
<1>5. r \in Seq({}) /\ DOMAIN r = {}
  BY <1>3, <1>4, IsASeq
<1>6. Len(r) \in Nat /\ DOMAIN r = 1 .. Len(r)
  BY <1>5, LenProperties
<1>7. Len(r) = 0
  BY <1>5, <1>6
<1> QED
  BY <1>5, <1>7, EmptySeq

\* The line of a session whose oldest message is an update: the update is its first.
LEMMA UpdateLine ==
    ASSUME NoteInv, NEW s \in Session, Begins(s, "update"), upset' = {}
    PROVE  LET h == Head(up[s])
               p == <<1, h.ops, h.data>>
           IN
           /\ upset = {} /\ frames = {} /\ up'[s] = Tail(up[s]) /\ \A t \in Session \ {s} : up'[t] = up[t]
           /\ \A t \in Session : Line(t) = LineUp(up[t])
           /\ p \in Line(s) /\ (\A i \in Line(s) : p[1] <= i[1])
           /\ LineUp(up'[s]) = Shift(Line(s) \ {p})
           /\ {<<0, h.ops, h.data>>} \cup LineUp(up'[s]) = Shift(Line(s))
           /\ ~Joining(up'[s]) /\ ~Joining(up[s])
<1>0. QueuesOK
  BY NoteParts DEF NoteInv
<1>1. /\ up[s] # <<>> /\ Head(up[s]) = up[s][1] /\ Head(up[s]).kind = "update"
      /\ \A t \in Session \ {s} : up'[t] = up[t]
      /\ ~Joining(up'[s]) /\ (Joining(up[s]) <=> "update" = "join")
      /\ upset \subseteq upset' /\ ("overlap" \notin upset' => frames = {})
  BY BeginFacts
<1>2. upset = {} /\ frames = {}
  BY <1>1
<1>3. up'[s] = Tail(up[s]) /\ up[s] \in Seq(UpMessage)
  BY <1>0 DEF Begins, QueuesOK
<1>4. \A t : LineAt(t, frames) = {}
  BY <1>2 DEF LineAt
<1>5. \A t \in Session : Line(t) = LineUp(up[t])
  BY <1>4 DEF Line, LineOf
<1>6. LET p == <<1, up[s][1].ops, up[s][1].data>> IN
      /\ p \in LineUp(up[s])
      /\ LineUp(Tail(up[s])) = Shift(LineUp(up[s]) \ {p})
      /\ {<<0, up[s][1].ops, up[s][1].data>>} \cup LineUp(Tail(up[s])) = Shift(LineUp(up[s]))
      /\ \A i \in LineUp(up[s]) : 1 <= i[1]
  BY <1>1, <1>3, LineUpTail
<1> QED
  BY <1>1, <1>2, <1>3, <1>5, <1>6

\* yjs_document_update that waits for the save it cancels.
Waits(s) ==
    /\ Begins(s, "update")
    /\ saves # <<>> /\ saves' \in Rest(Tail(saves))
    /\ frames' = frames \cup {[session |-> s, ops |-> Head(up[s]).ops, data |-> Head(up[s]).data, at |-> "append"]}
    /\ UNCHANGED <<mode, link, synced, initial, got, after, down, members, pool, log, note>>

\* One save sleeps at most.
LEMMA OneSave ==
    ASSUME NoteInv, LineInv, saves # <<>>
    PROVE  Tail(saves) = <<>> /\ Head(saves) = saves[1]
<1> DEFINE M == [session : Session, text : SUBSET TextPiece]
<1>1. saves \in Seq(M)
  BY NoteParts DEF NoteInv, SavesOK
<1> HIDE DEF M
<1>2. Len(saves) <= 1
  BY DEF LineInv
<1>3. Len(saves) \in Nat /\ Len(saves) # 0
  BY <1>1, EmptySeq, LenProperties
<1>4. Tail(saves) \in Seq(M) /\ Len(Tail(saves)) = Len(saves) - 1
  BY <1>1, HeadTailProperties
<1>5. Len(Tail(saves)) = 0
  BY <1>2, <1>3, <1>4
<1>6. Head(saves) = saves[1]
  BY <1>1, TailQueue
<1> QED
  BY <1>4, <1>5, <1>6, EmptySeq

\* yjs_document_update that cancels a save: an update is in line, so what is stored is not the last text.
LEMMA WaitServerKeep ==
    ASSUME NoteInv, CalmInv, NEW s \in Session, Waits(s), upset' = {}
    PROVE  upset = {} /\ ServerKeep
<1> DEFINE h == Head(up[s])
           f == [session |-> s, ops |-> h.ops, data |-> h.data, at |-> "append"]
           p == <<1, h.ops, h.data>>
<1>1. /\ saves # <<>> /\ saves' \in Rest(Tail(saves))
      /\ frames' = frames \cup {f}
      /\ UNCHANGED <<mode, link, synced, initial, got, after, down, members, pool, log, note>>
  BY DEF Waits
<1>2. /\ upset = {} /\ frames = {} /\ \A t \in Session \ {s} : up'[t] = up[t]
      /\ \A t \in Session : Line(t) = LineUp(up[t])
      /\ p \in Line(s) /\ ~Joining(up'[s])
      /\ {<<0, h.ops, h.data>>} \cup LineUp(up'[s]) = Shift(Line(s))
  BY UpdateLine DEF Waits
<1>3. LineInv
  BY <1>2 DEF CalmInv, CalmParts
<1>4. saves' = <<>>
  BY <1>1, <1>3, OneSave, NoRest
<1>5. f.at = "append" /\ f.session = s /\ f.ops = h.ops /\ f.data = h.data
  OBVIOUS
<1>6. frames' = {f}
  BY <1>1, <1>2
<1> HIDE DEF f, h
<1>7. LineAt(s, frames') = {<<0, h.ops, h.data>>} /\ \A t : t # s => LineAt(t, frames') = {}
  BY <1>5, <1>6 DEF LineAt
<1>8. \A t \in Session : Line(t)' = Line(t) \/ Line(t)' = Shift(Line(t))
  <2>1. ASSUME NEW t \in Session, t # s PROVE Line(t)' = Line(t)
    BY <1>2, <1>7, <2>1 DEF Line, LineOf
  <2>2. Line(s)' = Shift(Line(s))
    BY <1>2, <1>7 DEF Line, LineOf
  <2> QED
    BY <2>1, <2>2
<1>9. Pending
  BY <1>2 DEF Pending
<1>10. Len(saves') <= 1
  BY <1>4, EmptySeq
<1>11. \A c \in Client : Joining(up'[Home(c)]) => Joining(up[Home(c)])
  BY <1>2, CalmFacts
<1>12. \A g \in frames' : g.at = "append"
  BY <1>5, <1>6
<1> QED
  BY <1>1, <1>2, <1>4, <1>8, <1>9, <1>10, <1>11, <1>12 DEF ServerKeep

\* The save of an update is scheduled, the leave of an editor ends, a save is written.
LEMMA ScheduleServerKeep ==
    ASSUME NoteInv, CalmInv, upset' = {},
           NEW f \in frames, f.at = "save", frames' = frames \ {f}, Scheduled(f),
           UNCHANGED <<client, up, down, members, pool, log, note, upset>>
    PROVE  upset = {} /\ ServerKeep
<1>1. UNCHANGED <<mode, link, synced, initial, got, after, up, down, members, pool, log, note>> /\ upset = {}
  BY DEF client
<1>2. LineInv
  BY <1>1 DEF CalmInv, CalmParts
<1>3. frames = {f} /\ frames' = {}
  <2>1. \A g \in frames : g = f
    BY <1>1, CalmFacts
  <2> QED
    BY <2>1
<1>4. PICK t : f.data = {t}
  BY <1>2 DEF LineInv
<1>5. saves = <<>>
  BY <1>2 DEF LineInv
<1>6. saves' = Append(<<>>, [session |-> f.session, text |-> t])
  <2>1. (CHOOSE x \in f.data : TRUE) = t
    BY <1>4
  <2>2. f.data # {}
    BY <1>4
  <2> QED
    BY <1>5, <2>1, <2>2 DEF Scheduled
<1> DEFINE m == [session |-> f.session, text |-> t]
<1>7. Len(saves') = 1 /\ saves'[1] = m /\ saves' # <<>>
  <2> HIDE DEF m
  <2>1. <<>> \in Seq({m}) /\ Len(<<>>) = 0 /\ m \in {m}
    BY EmptySeq
  <2> QED
    BY <1>6, <2>1, AppendPlaces DEF m
<1>8. \A s \in Session : Line(s)' = Line(s)
  <2>1. \A s : LineAt(s, frames) = {} /\ LineAt(s, frames') = {}
    BY <1>3 DEF LineAt
  <2> QED
    BY <1>1, <2>1 DEF Line, LineOf
<1>9. LatestIs(frames, saves, note, AllOf(got)) => LatestIs(frames', saves', note', AllOf(got))
  <2> SUFFICES ASSUME LatestIs(frames, saves, note, AllOf(got)) PROVE LatestIs(frames', saves', note', AllOf(got))
    OBVIOUS
  <2>1. f.data = {AllOf(got)}
    BY DEF LatestIs
  <2>2. t = AllOf(got)
    BY <1>4, <2>1
  <2>3. saves'[1].text = t
    BY <1>7
  <2> QED
    BY <1>3, <1>7, <2>2, <2>3 DEF LatestIs
<1>10. Len(saves') <= 1
  BY <1>7
<1> HIDE DEF m
<1> QED
  BY <1>1, <1>3, <1>8, <1>9, <1>10 DEF ServerKeep

\* The end of yjs_document_leave.
LEMMA ResumeLeaveServerKeep ==
    ASSUME NoteInv, CalmInv, upset' = {}, NEW f \in frames, ResumeLeave(f)
    PROVE  upset = {} /\ ServerKeep
<1>1. /\ UNCHANGED <<mode, link, synced, initial, got, after, up, down, members, pool, saves, note>> /\ upset = {}
      /\ f.at = "leave" /\ frames' = frames \ {f} /\ log' = IF members = {} THEN {} ELSE log
  BY DEF ResumeLeave, client, ClearedIf
<1>2. LineInv
  BY <1>1 DEF CalmInv, CalmParts
<1>3. frames' = {} /\ frames = {f} /\ log' = log
  <2>1. (\A g \in frames : g = f) /\ members # {}
    BY <1>1, CalmFacts
  <2> QED
    BY <1>1, <2>1
<1>4. \A s \in Session : Line(s)' = Line(s)
  <2>1. \A s : LineAt(s, frames) = {} /\ LineAt(s, frames') = {}
    BY <1>1, <1>3 DEF LineAt
  <2> QED
    BY <1>1, <2>1 DEF Line, LineOf
<1>5. LatestIs(frames, saves, note, AllOf(got)) => LatestIs(frames', saves', note', AllOf(got))
  BY <1>1, <1>3 DEF LatestIs
<1>6. Len(saves') <= 1
  BY <1>1, <1>2 DEF LineInv
<1> QED
  BY <1>1, <1>3, <1>4, <1>5, <1>6 DEF ServerKeep

\* document_save_handler: the text that was scheduled becomes the note.
LEMMA SaveServerKeep ==
    ASSUME NoteInv, CalmInv, upset' = {}, Save
    PROVE  upset = {} /\ ServerKeep
<1>1. /\ saves # <<>> /\ saves' = Tail(saves)
      /\ UNCHANGED <<mode, link, synced, initial, got, after, up, down, members, pool, log, frames>>
      /\ note' = IF Head(saves).session \in pool THEN Head(saves).text ELSE note
      /\ UpsetIf(Head(saves).session \notin pool, "lostSave")
  BY DEF Save, client, document
<1>2. upset = {} /\ Head(saves).session \in pool
  BY <1>1 DEF UpsetIf
<1>3. LineInv
  BY <1>2 DEF CalmInv, CalmParts
<1>4. saves' = <<>> /\ note' = saves[1].text
  BY <1>1, <1>2, <1>3, OneSave
<1>5. \A g \in frames : g.at = "leave"
  BY <1>1, <1>3 DEF LineInv
<1>6. \A s \in Session : Line(s)' = Line(s)
  BY <1>1 DEF Line
<1>7. LatestIs(frames, saves, note, AllOf(got)) => LatestIs(frames', saves', note', AllOf(got))
  BY <1>1, <1>4, <1>5 DEF LatestIs
<1>8. Len(saves') <= 1
  BY <1>4, EmptySeq
<1> QED
  BY <1>1, <1>2, <1>5, <1>6, <1>7, <1>8 DEF ServerKeep
\* The first update in the line of session a is published.
Publishes(a, p) ==
    /\ p \in Line(a) /\ \A i \in Line(a) : p[1] <= i[1]
    /\ UNCHANGED <<mode, initial, got, after, members>>
    /\ Line(a)' = Line(a) \ {p} \/ Line(a)' = Shift(Line(a) \ {p})
    /\ \A s \in Session \ {a} : Line(s)' = Line(s)
    /\ \A c \in Client : Joining(up'[Home(c)]) => Joining(up[Home(c)])
    /\ log' = log \cup p[2]
    /\ down' = [s \in Session |-> IF s \in members \ {a}
                                  THEN Append(down[s], [kind |-> "update", ops |-> p[2]])
                                  ELSE down[s]]
    /\ \/ saves' = <<>> /\ \E g : frames' = {g} /\ g.at = "save" /\ g.ops = p[2] /\ g.data = p[3]
       \/ frames' = {} /\ saves' # <<>> /\ Len(saves') = 1 /\ p[3] = {saves'[1].text}

\* The first update of a line is published and its text scheduled.  If nothing else is in line
\* and no editor will repeat any of it, its author had all there is.
LEMMA PublishCalm ==
    ASSUME NoteInv, upset = {}, CalmParts, NEW a \in Session, NEW p, Publishes(a, p)
    PROVE  CalmParts'
<1>0. /\ KnownInv /\ StartInv /\ LineInv /\ CausalInv /\ LastInv /\ GoneInv /\ TextInv /\ BlankInv /\ SavedInv
      /\ ClientOK
  BY NoteParts DEF CalmParts, NoteInv
<1> DEFINE msg == [kind |-> "update", ops |-> p[2]]
           others == members \ {a}
           owner == a[1]
<1>1. /\ p \in Line(a) /\ (\A i \in Line(a) : p[1] <= i[1])
      /\ UNCHANGED <<mode, initial, got, after, members>>
      /\ Line(a)' = Line(a) \ {p} \/ Line(a)' = Shift(Line(a) \ {p})
      /\ \A s \in Session \ {a} : Line(s)' = Line(s)
      /\ \A c \in Client : Joining(up'[Home(c)]) => Joining(up[Home(c)])
      /\ log' = log \cup p[2]
      /\ down' = [s \in Session |-> IF s \in others THEN Append(down[s], msg) ELSE down[s]]
      /\ \/ saves' = <<>> /\ \E g : frames' = {g} /\ g.at = "save" /\ g.ops = p[2] /\ g.data = p[3]
         \/ frames' = {} /\ saves' # <<>> /\ Len(saves') = 1 /\ p[3] = {saves'[1].text}
  BY DEF Publishes
<1>2. /\ \A c \in Client : /\ Home(c) \in Session /\ Home(c)[1] = c
                           /\ down[Home(c)] \in Seq(DownMessage)
      /\ \A c, d \in Client : Home(c) = Home(d) => c = d
  <2>1. \A c, d \in Client : Home(c) = Home(d) => c = d
    BY DEF Home
  <2> QED
    BY <2>1, CalmFacts
<1>3. /\ \A s \in Session : /\ Sum(Line(s)) \subseteq got[s[1]] /\ Sum(Line(s)) \subseteq Known /\ Fit(Line(s))
                            /\ s \in members => s = Home(s[1]) /\ ~Joining(up[s])
      /\ \A c \in Client : mode[c] = "online" /\ ~Joining(up[Home(c)]) =>
             /\ log \subseteq got[c] \cup Carried(down[Home(c)]) /\ Carried(down[Home(c)]) \subseteq log
             /\ got[c] \subseteq log \cup Sum(Line(Home(c))) /\ Home(c) \in members
      /\ Live = log \cup UNION {Sum(Line(s)) : s \in Session}
  BY <1>0, CalmLines
<1>4. a \in members /\ a = Home(owner) /\ ~Joining(up[a]) /\ owner \in Client
  <2>1. Line(a) # {}
    BY <1>1
  <2> QED
    BY <1>0, <2>1, CalmLines, SessionParts
<1>5. /\ p[2] # {} /\ p[2] \subseteq Sum(Line(a)) /\ p[2] \subseteq Op
      /\ \E t : p[3] = {t}
  <2>1. p[2] # {} /\ \E t : p[3] = {t}
    <3>1. Fit(Line(a)) /\ p \in Line(a)
      BY <1>1, <1>3
    <3> QED
      BY <3>1 DEF Fit
  <2>2. p[2] \subseteq Sum(Line(a))
    BY <1>1 DEF Sum
  <2>3. got[owner] \subseteq Op
    BY <1>0, <1>4 DEF ClientOK
  <2> QED
    BY <1>3, <2>1, <2>2, <2>3
<1>6. /\ Fit(Line(a)') /\ Sum(Line(a)) = p[2] \cup Sum(Line(a)') /\ p[2] \cap Sum(Line(a)') = {}
      /\ Line(a)' = {} <=> Line(a) = {p}
      /\ \A data : LastOf(Line(a), data) => LastOf(Line(a)', data)
      /\ \A data : LastOf(Line(a), data) /\ Line(a) = {p} => p[3] = data
      /\ \A S, aft : Chain(Line(a), S, aft) => Chain(Line(a)', S \cup p[2], aft) /\ ClosedIn(S \cup p[2], aft)
  <2> DEFINE M == Line(a) \ {p}
  <2>1. /\ Fit(M) /\ Sum(Line(a)) = p[2] \cup Sum(M) /\ p[2] \cap Sum(M) = {}
        /\ \A data : LastOf(Line(a), data) => LastOf(M, data)
        /\ \A data : LastOf(Line(a), data) /\ Line(a) = {p} => p[3] = data
        /\ \A S, aft : Chain(Line(a), S, aft) => Chain(M, S \cup p[2], aft) /\ ClosedIn(S \cup p[2], aft)
    BY <1>1, <1>3, FirstGoes
  <2>2. M = {} <=> Line(a) = {p}
    BY <1>1
  <2> HIDE DEF M
  <2>3. CASE Line(a)' = M
    BY <2>1, <2>2, <2>3
  <2>4. CASE Line(a)' = Shift(M)
    BY <2>1, <2>2, <2>4, ShiftKeeps, SumParts
  <2> QED
    BY <1>1, <2>3, <2>4 DEF M
<1>7. \A s \in Session : Fit(Line(s)') /\ Sum(Line(s)') \subseteq Sum(Line(s)) /\ (Line(s)' # {} => Line(s) # {})
  <2>1. Line(a) # {}
    BY <1>1
  <2> QED
    BY <1>1, <1>3, <1>6, <2>1
<1>8. Live' = Live
  <2>1. Live' = log' \cup UNION {Sum(Line(s)') : s \in Session}
    BY DEF Live, LiveOf, Line
  <2>2. \A x : x \in Live' => x \in Live
    BY <1>1, <1>3, <1>5, <1>7, <2>1
  <2>3. ASSUME NEW s \in Session, NEW x \in Sum(Line(s)) PROVE x \in Live'
    BY <1>1, <1>6, <2>1, <2>3
  <2>4. \A x : x \in Live => x \in Live'
    BY <1>1, <1>3, <2>1, <2>3
  <2> QED
    BY <2>2, <2>4
<1>9. ASSUME NEW c \in Client
      PROVE  /\ Home(c) \in others =>
                    /\ Ops(down'[Home(c)]) = Ops(down[Home(c)]) \cup p[2]
                    /\ Carried(down'[Home(c)]) = Carried(down[Home(c)]) \cup p[2]
                    /\ StateOps(down'[Home(c)]) = StateOps(down[Home(c)])
                    /\ (MayIn(down'[Home(c)]) <=> MayIn(down[Home(c)]))
                    /\ \A k \in 1 .. Len(down'[Home(c)]) : down'[Home(c)][k].kind = "state" =>
                           k \in 1 .. Len(down[Home(c)]) /\ down[Home(c)][k].kind = "state"
                    /\ \A S, aft : DownChain(down[Home(c)], S, aft)
                                   /\ ClosedIn(S \cup Carried(down[Home(c)]) \cup p[2], aft)
                                   => DownChain(down'[Home(c)], S, aft)
             /\ Home(c) \notin others => down'[Home(c)] = down[Home(c)]
  <2>1. Home(c) \in Session /\ down[Home(c)] \in Seq(DownMessage) /\ p[2] \in SUBSET Op
    BY <1>2, <1>5
  <2>2. Home(c) \notin others => down'[Home(c)] = down[Home(c)]
    BY <1>1, <2>1
  <2>3. Home(c) \in others => down'[Home(c)] = Append(down[Home(c)], msg)
    BY <1>1, <2>1
  <2>4. CASE Home(c) \in others
    <3> DEFINE q == down[Home(c)]
    <3>1. q \in Seq(DownMessage)
      BY <2>1
    <3>2. down'[Home(c)] = Append(q, msg)
      BY <2>3, <2>4
    <3> HIDE DEF q
    <3>3. /\ Ops(Append(q, msg)) = Ops(q) \cup p[2] /\ StateOps(Append(q, msg)) = StateOps(q)
          /\ Carried(Append(q, msg)) = Carried(q) \cup p[2] /\ (MayIn(Append(q, msg)) <=> MayIn(q))
          /\ \A k \in 1 .. Len(Append(q, msg)) : Append(q, msg)[k].kind = "state" =>
                 k \in 1 .. Len(q) /\ q[k].kind = "state"
          /\ \A S, aft : DownChain(q, S, aft) /\ ClosedIn(S \cup Carried(q) \cup p[2], aft)
                         => DownChain(Append(q, msg), S, aft)
      BY <2>1, <3>1, DownAppend
    <3> HIDE DEF msg
    <3> QED
      BY <2>4, <3>2, <3>3 DEF q
  <2> QED
    BY <2>2, <2>4
<1> HIDE DEF msg, others, owner
<1>10. KnownInv'
  <2>1. Known' = Known
    BY <1>1 DEF Known
  <2>2. log' \subseteq Known
    BY <1>0, <1>1, <1>3, <1>5 DEF KnownInv
  <2>3. ASSUME NEW c \in Client PROVE Carried(down'[Home(c)]) \subseteq Known
    BY <1>0, <1>3, <1>5, <1>9 DEF KnownInv
  <2> QED
    BY <1>0, <1>1, <2>1, <2>2, <2>3 DEF KnownInv
<1>11. StartInv'
  <2> SUFFICES ASSUME NEW c \in Client
               PROVE  /\ Joining(up'[Home(c)]) => got'[c] = {}
                      /\ \A k \in 1 .. Len(down'[Home(c)]) : down'[Home(c)][k].kind = "state" => k = 1 /\ got'[c] = {}
    BY DEF StartInv
  <2>1. Joining(up'[Home(c)]) => got'[c] = {}
    BY <1>0, <1>1 DEF StartInv
  <2>2. ASSUME NEW k \in 1 .. Len(down'[Home(c)]), down'[Home(c)][k].kind = "state" PROVE k = 1 /\ got'[c] = {}
    <3>1. k \in 1 .. Len(down[Home(c)]) /\ down[Home(c)][k].kind = "state"
      BY <1>9, <2>2
    <3> QED
      BY <1>0, <1>1, <3>1 DEF StartInv
  <2> QED
    BY <2>1, <2>2
<1>12. LineInv'
  <2>1. \A f \in frames' : f.at # "leave" => saves' = <<>>
    BY <1>1
  <2>2. \A f \in frames' : f.at = "save" => f.ops # {} /\ f.ops \subseteq log' /\ \E t : f.data = {t}
    BY <1>1, <1>5
  <2>3. Len(saves') <= 1
    <3>1. Len(<<>>) = 0
      BY EmptySeq
    <3>2. saves' = <<>> => Len(saves') = 0
      BY <3>1
    <3>3. saves' = <<>> \/ Len(saves') = 1
      BY <1>1
    <3>4. Len(saves') = 0 \/ Len(saves') = 1
      BY <3>2, <3>3, Zenon
    <3>5. \A n : n = 0 \/ n = 1 => n <= 1
      OBVIOUS
    <3> QED
      BY <3>4, <3>5, Zenon
  <2> QED
    BY <1>7, <2>1, <2>2, <2>3 DEF LineInv
<1>13. ClosedIn(log', after) /\ Chain(Line(a)', log', after)
  BY <1>0, <1>1, <1>6 DEF CausalInv
<1>14. CausalInv'
  <2>1. \A c \in Client : ClosedIn(got[c], after)
    BY <1>0 DEF CausalInv
  <2>2. ASSUME NEW c \in Client, mode[c] = "online" PROVE DownChain(down'[Home(c)], got[c], after)
    <3>1. DownChain(down[Home(c)], got[c], after)
      BY <1>0, <2>2 DEF CausalInv
    <3>2. ASSUME Home(c) \in others PROVE ClosedIn(got[c] \cup Carried(down[Home(c)]) \cup p[2], after)
      <4>1. ~Joining(up[Home(c)])
        BY <1>2, <1>3, <3>2 DEF others
      <4>2. log \subseteq got[c] \cup Carried(down[Home(c)])
        BY <1>3, <2>2, <4>1
      <4>3. ClosedIn(got[c] \cup Carried(down[Home(c)]), after)
        BY <1>2, <3>1, DownFacts
      <4>4. ClosedIn((got[c] \cup Carried(down[Home(c)])) \cup log', after)
        BY <1>13, <4>3, ClosedFacts
      <4>5. (got[c] \cup Carried(down[Home(c)])) \cup log' = got[c] \cup Carried(down[Home(c)]) \cup p[2]
        BY <1>1, <4>2
      <4> QED
        BY <4>4, <4>5
    <3> QED
      BY <1>9, <3>1, <3>2
  <2>3. ASSUME NEW s \in Session PROVE Chain(Line(s)', log', after)
    <3>1. CASE s = a
      BY <1>13, <3>1
    <3>2. CASE s # a
      <4>1. Chain(Line(s), log, after) /\ log \subseteq log'
        BY <1>0, <1>1 DEF CausalInv
      <4>2. Chain(Line(s), log', after)
        BY <1>13, <4>1, ChainFacts
      <4> QED
        BY <1>1, <3>2, <4>2
    <3> QED
      BY <3>1, <3>2
  <2> QED
    BY <1>1, <1>13, <2>1, <2>2, <2>3 DEF CausalInv
<1>15. LastInv'
  <2> SUFFICES ASSUME NEW c \in Client, mode'[c] = "online"
               PROVE  LastOf(Line(Home(c))', {Words(got'[c], initial')})
    BY DEF LastInv
  <2>1. LastOf(Line(Home(c)), {Words(got[c], initial)})
    BY <1>0, <1>1 DEF LastInv
  <2> QED
    BY <1>1, <1>2, <1>6, <2>1
<1>16. GoneInv'
  <2> SUFFICES ASSUME NEW c \in Client, mode'[c] # "online", Line(Home(c))' # {}
               PROVE  /\ Sum(Line(Home(c))') \cap log' = {}
                      /\ \A e \in Client \ {c} : IF mode'[e] = "online" THEN got'[e] \cap Sum(Line(Home(c))') = {}
                                                 ELSE Line(Home(e))' = {}
                      /\ LastOf(Line(Home(c))', {AllOf(got')}) \/ \E e \in Client \ {c} : Present(e)'
    BY DEF GoneInv
  <2>1. mode[c] # "online" /\ Line(Home(c)) # {} /\ Home(c) \in Session
    BY <1>1, <1>2, <1>7
  <2>2. /\ Sum(Line(Home(c))) \cap log = {}
        /\ \A e \in Client \ {c} : IF mode[e] = "online" THEN got[e] \cap Sum(Line(Home(c))) = {}
                                   ELSE Line(Home(e)) = {}
        /\ LastOf(Line(Home(c)), {AllOf(got)}) \/ \E e \in Client \ {c} : Present(e)
    BY <1>0, <2>1 DEF GoneInv
  <2>3. Sum(Line(Home(c))') \cap p[2] = {}
    <3>1. CASE c = owner
      BY <1>4, <1>6, <3>1
    <3>2. CASE c # owner
      <4>1. Line(Home(owner)) # {}
        BY <1>1, <1>4
      <4>2. mode[owner] = "online"
        BY <1>4, <2>2, <3>2, <4>1
      <4>3. got[owner] \cap Sum(Line(Home(c))) = {}
        BY <1>4, <2>2, <3>2, <4>2
      <4>4. p[2] \subseteq got[owner]
        BY <1>3, <1>5 DEF owner
      <4> QED
        BY <1>7, <2>1, <4>3, <4>4
    <3> QED
      BY <3>1, <3>2
  <2>4. Sum(Line(Home(c))') \cap log' = {}
    BY <1>1, <1>7, <2>1, <2>2, <2>3
  <2>5. \A e \in Client \ {c} : IF mode'[e] = "online" THEN got'[e] \cap Sum(Line(Home(c))') = {}
                                ELSE Line(Home(e))' = {}
    BY <1>1, <1>2, <1>7, <2>1, <2>2
  <2>6. \A e \in Client : Present(e) => Present(e)'
    BY <1>1 DEF Present
  <2>7. LastOf(Line(Home(c)), {AllOf(got)}) => LastOf(Line(Home(c))', {AllOf(got')})
    BY <1>1, <1>2, <1>6
  <2> QED
    BY <2>2, <2>4, <2>5, <2>6, <2>7
<1>17. TextInv'
  BY <1>0, <1>1, <1>8 DEF TextInv
<1>18. BlankInv'
  BY <1>0, <1>1, <1>8, <1>9 DEF BlankInv
<1>19. SavedInv'
  <2> SUFFICES ASSUME ~Pending',
                      \A c \in Client : mode'[c] = "online" => ~EchoIn(down'[Home(c)], got'[c])
               PROVE  LatestIs(frames', saves', note', AllOf(got'))
    BY DEF SavedInv
  <2>1. Line(a) = {p} /\ \A s \in Session \ {a} : Line(s) = {}
    BY <1>1, <1>6 DEF Pending
  <2>2. p[3] = {AllOf(got)}
    <3>1. Live = log \cup p[2]
      <4>1. Sum(Line(a)) = p[2]
        BY <1>6, <2>1, SumParts
      <4>2. \A s \in Session \ {a} : Sum(Line(s)) = {}
        BY <2>1, SumParts
      <4> QED
        BY <1>3, <4>1, <4>2
    <3>2. CASE mode[owner] = "online"
      <4>1. p[3] = {Words(got[owner], initial)}
        BY <1>0, <1>4, <1>6, <2>1, <3>2 DEF LastInv
      <4>2. /\ log \subseteq got[owner] \cup Carried(down[Home(owner)])
            /\ got[owner] \subseteq log \cup Sum(Line(Home(owner)))
            /\ p[2] \subseteq got[owner]
        <5>1. p[2] \subseteq got[owner]
          BY <1>3, <1>5 DEF owner
        <5>2. ~Joining(up[Home(owner)])
          BY <1>4
        <5> QED
          BY <1>3, <1>4, <3>2, <5>1, <5>2
      <4>3. Carried(down[Home(owner)]) \subseteq got[owner]
        <5>1. down'[Home(owner)] = down[Home(owner)]
          BY <1>4, <1>9 DEF others
        <5>2. ~EchoIn(down[Home(owner)], got[owner])
          BY <1>1, <1>4, <3>2, <5>1
        <5>3. \A k \in 1 .. Len(down[Home(owner)]) : down[Home(owner)][k].kind # "state"
          BY <1>0, <1>4, <1>5, <4>2 DEF StartInv
        <5>4. \A k \in 1 .. Len(down[Home(owner)]) : down[Home(owner)][k].kind = "update"
          <6>1. \A k \in 1 .. Len(down[Home(owner)]) : down[Home(owner)][k] \in DownMessage
            BY <1>2, <1>4, ElementOfSeq
          <6> QED
            BY <5>3, <6>1, UpMessages
        <5>5. StateOps(down[Home(owner)]) = {} /\ Ops(down[Home(owner)]) = Carried(down[Home(owner)])
          BY <5>3, <5>4 DEF StateOps, Ops, Carried
        <5> QED
          BY <5>2, <5>5 DEF EchoIn
      <4>4. got[owner] = Live
        <5>1. Sum(Line(Home(owner))) = p[2]
          BY <1>4, <2>1, SumParts, <1>6
        <5> QED
          BY <3>1, <4>2, <4>3, <5>1
      <4>5. Live # {}
        BY <1>5, <3>1
      <4> QED
        BY <1>0, <4>1, <4>4, <4>5 DEF TextInv
    <3>3. CASE mode[owner] # "online"
      <4>1. /\ Sum(Line(Home(owner))) \cap log = {}
            /\ \A e \in Client \ {owner} : mode[e] = "online" => got[e] \cap Sum(Line(Home(owner))) = {}
            /\ LastOf(Line(Home(owner)), {AllOf(got)}) \/ \E e \in Client \ {owner} : Present(e)
        BY <1>0, <1>1, <1>4, <3>3 DEF GoneInv
      <4>2. ASSUME NEW e \in Client \ {owner}, Present(e) PROVE FALSE
        <5>1. /\ mode[e] = "online" /\ ~Joining(up[Home(e)]) /\ Home(e) # a
          BY <1>2, <1>4, <4>2 DEF Present
        <5>2. Home(e) \in others /\ Carried(down[Home(e)]) \subseteq log
          BY <1>3, <5>1 DEF others
        <5>3. StateOps(down[Home(e)]) \subseteq Carried(down[Home(e)])
          BY DEF StateOps, Carried
        <5>4. p[2] \cap (got[e] \cup StateOps(down[Home(e)])) = {}
          BY <1>4, <1>5, <4>1, <5>1, <5>2, <5>3
        <5>5. p[2] \subseteq Ops(down'[Home(e)]) /\ StateOps(down'[Home(e)]) = StateOps(down[Home(e)])
          BY <1>9, <5>2
        <5>6. EchoIn(down'[Home(e)], got[e])
          BY <1>5, <5>4, <5>5 DEF EchoIn
        <5> QED
          BY <1>1, <5>1, <5>6
      <4> QED
        BY <1>4, <1>6, <2>1, <4>1, <4>2
    <3> QED
      BY <3>2, <3>3
  <2>3. CASE saves' = <<>> /\ \E g : frames' = {g} /\ g.at = "save" /\ g.ops = p[2] /\ g.data = p[3]
    BY <1>1, <2>2, <2>3 DEF LatestIs
  <2>4. CASE frames' = {} /\ saves' # <<>> /\ Len(saves') = 1 /\ p[3] = {saves'[1].text}
    BY <1>1, <2>2, <2>4 DEF LatestIs
  <2> QED
    BY <1>1, <2>3, <2>4
<1> QED
  BY <1>10, <1>11, <1>12, <1>14, <1>15, <1>16, <1>17, <1>18, <1>19 DEF CalmParts

\* A handler keeps its update while it sends it.
LEMMA FrameText ==
    ASSUME NEW f \in Frame, f.at = "append"
    PROVE  /\ [f EXCEPT !.at = "save"].at = "save" /\ [f EXCEPT !.at = "save"].ops = f.ops
           /\ [f EXCEPT !.at = "save"].data = f.data
BY DEF Frame

\* append_to_updates when no other handler waits and no save sleeps.
LEMMA PublishEnds ==
    ASSUME saves = <<>>, NEW f \in Frame, f.at = "append", NEW t, f.data = {t}, Publish(f, {})
    PROVE  /\ log' = log \cup f.ops
           /\ down' = [s \in Session |-> IF s \in members \ {f.session}
                                         THEN Append(down[s], [kind |-> "update", ops |-> f.ops])
                                         ELSE down[s]]
           /\ \/ saves' = <<>> /\ \E g : frames' = {g} /\ g.at = "save" /\ g.ops = f.ops /\ g.data = f.data
              \/ frames' = {} /\ saves' # <<>> /\ Len(saves') = 1 /\ f.data = {saves'[1].text}
<1>1. CASE members \ {f.session} # {}
  <2>1. saves' = <<>> /\ frames' = {[f EXCEPT !.at = "save"]}
    BY <1>1 DEF Publish
  <2>2. \E g : frames' = {g} /\ g.at = "save" /\ g.ops = f.ops /\ g.data = f.data
    BY <2>1, FrameText
  <2> QED
    BY <2>1, <2>2 DEF Publish
<1>2. CASE members \ {f.session} = {}
  <2> DEFINE m == [session |-> f.session, text |-> t]
  <2>1. frames' = {} /\ Scheduled(f)
    BY <1>2 DEF Publish
  <2>2. (CHOOSE x \in f.data : TRUE) = t /\ f.data # {}
    OBVIOUS
  <2>3. saves' = Append(<<>>, m)
    BY <2>1, <2>2 DEF Scheduled
  <2>4. m.text = t
    OBVIOUS
  <2> HIDE DEF m
  <2>5. <<>> \in Seq({m}) /\ Len(<<>>) = 0 /\ m \in {m}
    BY EmptySeq
  <2>6. Len(saves') = 1 /\ saves'[1] = m /\ saves' # <<>>
    BY <2>3, <2>5, AppendPlaces
  <2>7. f.data = {saves'[1].text}
    BY <2>4, <2>6
  <2> QED
    BY <2>1, <2>6, <2>7 DEF Publish
<1> QED
  BY <1>1, <1>2

\* yjs_document_update publishes the first update in line, or waits for a cancelled save.
LEMMA UpdatePublishes ==
    ASSUME NoteInv, CalmInv, NEW s \in Session, HandleUpdate(s), upset' = {}
    PROVE  upset = {} /\ (ServerKeep \/ \E p : Publishes(s, p))
<1> DEFINE h == Head(up[s])
           f == [session |-> s, ops |-> h.ops, data |-> h.data, at |-> "append"]
           p == <<1, h.ops, h.data>>
<1>1. /\ Begins(s, "update")
      /\ UNCHANGED <<mode, link, synced, initial, got, after, members, pool, note>>
      /\ \/ (saves = <<>> \/ frames # {}) /\ Publish(f, frames)
         \/ /\ saves # <<>> /\ saves' \in Rest(Tail(saves))
            /\ frames' = frames \cup {f} /\ UNCHANGED <<log, down>>
  BY DEF HandleUpdate, client
<1>2. /\ upset = {} /\ frames = {} /\ \A t \in Session \ {s} : up'[t] = up[t]
      /\ \A t \in Session : Line(t) = LineUp(up[t])
      /\ p \in Line(s) /\ (\A i \in Line(s) : p[1] <= i[1]) /\ ~Joining(up'[s])
      /\ LineUp(up'[s]) = Shift(Line(s) \ {p})
  BY <1>1, UpdateLine
<1>3. LineInv
  BY <1>2 DEF CalmInv, CalmParts
<1>4. CASE saves # <<>> /\ saves' \in Rest(Tail(saves)) /\ frames' = frames \cup {f} /\ UNCHANGED <<log, down>>
  <2>1. Waits(s)
    BY <1>1, <1>4 DEF Waits
  <2> QED
    BY <2>1, WaitServerKeep
<1>5. CASE saves = <<>> /\ Publish(f, {})
  <2>1. p[2] = h.ops /\ p[3] = h.data
    OBVIOUS
  <2>2. PICK t : h.data = {t}
    <3>1. Fit(Line(s)) /\ p \in Line(s)
      BY <1>2, <1>3 DEF LineInv
    <3>2. \E t : p[3] = {t}
      BY <3>1 DEF Fit
    <3> QED
      BY <2>1, <3>2
  <2>3. f \in Frame /\ f.at = "append" /\ f.session = s /\ f.ops = h.ops /\ f.data = h.data
    <3>1. h \in UpMessage /\ h.kind = "update"
      BY <1>1, BeginFacts
    <3>2. h.ops \subseteq Op /\ h.data \subseteq SUBSET TextPiece
      BY <3>1, UpMessages
    <3> QED
      BY <3>2 DEF Frame
  <2> HIDE DEF f, p, h
  <2>4. /\ log' = log \cup f.ops
        /\ down' = [t1 \in Session |-> IF t1 \in members \ {f.session}
                                       THEN Append(down[t1], [kind |-> "update", ops |-> f.ops])
                                       ELSE down[t1]]
        /\ \/ saves' = <<>> /\ \E g : frames' = {g} /\ g.at = "save" /\ g.ops = f.ops /\ g.data = f.data
           \/ frames' = {} /\ saves' # <<>> /\ Len(saves') = 1 /\ f.data = {saves'[1].text}
    BY <1>5, <2>2, <2>3, PublishEnds
  <2>5. \A t1 : LineAt(t1, frames') = {}
    BY <2>4 DEF LineAt
  <2>6. \A t1 \in Session : Line(t1)' = LineUp(up'[t1])
    BY <2>5 DEF Line, LineOf
  <2>7. \A c \in Client : Joining(up'[Home(c)]) => Joining(up[Home(c)])
    BY <1>2, CalmFacts
  <2>8. Publishes(s, p)
    BY <1>1, <1>2, <2>1, <2>3, <2>4, <2>6, <2>7 DEF Publishes
  <2> QED
    BY <1>2, <2>8
<1> QED
  BY <1>1, <1>2, <1>4, <1>5

\* A handler that goes on publishes its update, or schedules the save.
LEMMA ResumePublishes ==
    ASSUME NoteInv, CalmInv, NEW f \in frames, ResumeUpdate(f), upset' = {}
    PROVE  upset = {} /\ (ServerKeep \/ \E a \in Session : \E p : Publishes(a, p))
<1>1. /\ UNCHANGED <<mode, link, synced, initial, got, after, up, members, pool, note, upset>> /\ upset = {}
      /\ \/ f.at = "append" /\ Publish(f, frames \ {f})
         \/ f.at = "save" /\ frames' = frames \ {f} /\ Scheduled(f) /\ UNCHANGED <<log, down>>
  BY DEF ResumeUpdate, client
<1>2. CASE f.at = "save" /\ frames' = frames \ {f} /\ Scheduled(f) /\ UNCHANGED <<log, down>>
  BY <1>1, <1>2, ScheduleServerKeep DEF client
<1>3. CASE f.at = "append" /\ Publish(f, frames \ {f})
  <2> DEFINE a == f.session
             p == <<0, f.ops, f.data>>
  <2>1. f \in Frame /\ a \in Session /\ frames = {f}
    <3>1. f \in Frame /\ a \in Session /\ \A g \in frames : g = f
      BY <1>1, CalmFacts
    <3> QED
      BY <3>1
  <2>2. LineInv
    BY <1>1 DEF CalmInv, CalmParts
  <2>3. saves = <<>>
    BY <1>3, <2>2 DEF LineInv
  <2>4. LineAt(a, frames) = {p} /\ \A t : t # a => LineAt(t, frames) = {}
    BY <1>3, <2>1 DEF LineAt
  <2>5. Line(a) = {p} \cup LineUp(up[a]) /\ \A t \in Session \ {a} : Line(t) = LineUp(up[t])
    BY <2>1, <2>4 DEF Line, LineOf
  <2>6. p[1] = 0 /\ p[2] = f.ops /\ p[3] = f.data
    OBVIOUS
  <2>7. \A i \in LineUp(up[a]) : 0 <= i[1] /\ i[1] # 0
    BY DEF LineUp, Places
  <2>8. PICK t : f.data = {t}
    <3>1. Fit(Line(a)) /\ p \in Line(a)
      BY <2>1, <2>2, <2>5 DEF LineInv
    <3>2. \E t : p[3] = {t}
      BY <3>1 DEF Fit
    <3> QED
      BY <2>6, <3>2
  <2>9. Publish(f, {})
    <3>1. frames \ {f} = {}
      BY <2>1
    <3> QED
      BY <1>3, <3>1
  <2> HIDE DEF p, a
  <2>10. /\ log' = log \cup f.ops
         /\ down' = [s \in Session |-> IF s \in members \ {f.session}
                                       THEN Append(down[s], [kind |-> "update", ops |-> f.ops])
                                       ELSE down[s]]
         /\ \/ saves' = <<>> /\ \E g : frames' = {g} /\ g.at = "save" /\ g.ops = f.ops /\ g.data = f.data
            \/ frames' = {} /\ saves' # <<>> /\ Len(saves') = 1 /\ f.data = {saves'[1].text}
    BY <1>3, <2>1, <2>3, <2>8, <2>9, PublishEnds
  <2>11. \A s : LineAt(s, frames') = {}
    BY <2>10 DEF LineAt
  <2>12. \A s \in Session : Line(s)' = LineUp(up[s])
    BY <1>1, <2>11 DEF Line, LineOf
  <2>13. LineUp(up[a]) = Line(a) \ {p}
    BY <2>5, <2>6, <2>7
  <2>14. \A i \in Line(a) : p[1] <= i[1]
    <3>1. 0 <= 0
      OBVIOUS
    <3> QED
      BY <2>5, <2>6, <2>7, <3>1
  <2>15. Line(a)' = Line(a) \ {p} /\ (\A s \in Session \ {a} : Line(s)' = Line(s)) /\ p \in Line(a)
    BY <2>1, <2>5, <2>12, <2>13
  <2>16. Publishes(a, p)
    BY <1>1, <2>6, <2>10, <2>14, <2>15 DEF Publishes, a
  <2> QED
    BY <1>1, <2>1, <2>16
<1> QED
  BY <1>1, <1>2, <1>3

--------------------------------------------------------------------------------
(* NoteSession: steps of the editors without upsets *)

\* Texts that nothing in a set of operations fills in do not matter to what it shows.
LEMMA WordsSame ==
    ASSUME NEW S, NEW ini, NEW other, \A c \in Client : Seed(c) \in S => other[c] = ini[c]
    PROVE  Words(S, other) = Words(S, ini)
<1>1. {other[c] : c \in {d \in Client : Seed(d) \in S}} = {ini[c] : c \in {d \in Client : Seed(d) \in S}}
  OBVIOUS
<1> QED
  BY <1>1 DEF Words

\* The editor that comes has nothing yet.
LEMMA MountCalm ==
    ASSUME NoteInv, CalmInv, NEW c \in Client, Mount(c), upset' = {}
    PROVE  CalmParts'
<1>1. /\ mode[c] = "closed" /\ mode' = [mode EXCEPT ![c] = "online"]
      /\ initial' = [initial EXCEPT ![c] = note]
      /\ up' = [up EXCEPT ![SessionOf(c)] = Append(@, [kind |-> "join"])]
      /\ UNCHANGED <<link, synced, got, after, down, members, log, frames, saves, note, upset>>
  BY DEF Mount, EmitTo
<1>2. upset = {} /\ CalmParts
  BY <1>1 DEF CalmInv
<1>3. /\ KnownInv /\ StartInv /\ LineInv /\ CausalInv /\ LastInv /\ GoneInv /\ TextInv /\ BlankInv /\ SavedInv
      /\ ClientOK /\ QueuesOK /\ SessionInv /\ ModeInv
  BY <1>2, NoteParts DEF CalmParts, NoteInv
<1>4. \A d \in Client : Home(d) \in Session /\ SessionOf(d) = Home(d) /\ Home(d)[1] = d
  BY <1>2, CalmFacts
<1>5. got[c] = {} /\ up[Home(c)] = <<>> /\ down[Home(c)] = <<>>
  BY <1>1, <1>3, <1>4 DEF ModeInv, SessionInv
<1>6. /\ up'[Home(c)] = Append(<<>>, [kind |-> "join"])
      /\ \A s \in Session \ {Home(c)} : up'[s] = up[s]
  BY <1>1, <1>3, <1>4, <1>5 DEF QueuesOK
<1>7. \A s \in Session : Line(s)' = Line(s)
  <2>1. LineUp(Append(<<>>, [kind |-> "join"])) = LineUp(<<>>)
    <3> DEFINE m == [kind |-> "join"]
    <3>1. m \in UpMessage /\ m.kind # "update" /\ <<>> \in Seq(UpMessage)
      BY UpMessages, EmptySeq
    <3> HIDE DEF m
    <3>2. LineUp(Append(<<>>, m)) = LineUp(<<>>)
      BY <3>1, LineUpAppend
    <3> QED
      BY <3>2 DEF m
  <2>2. \A s \in Session : LineUp(up'[s]) = LineUp(up[s])
    BY <1>5, <1>6, <2>1
  <2> QED
    BY <1>1, <2>2 DEF Line, LineOf
<1>8. Known' = Known /\ Live' = Live /\ (Pending' <=> Pending) /\ Seed(c) \notin Known
  <2>1. Known' = Known
    BY <1>1 DEF Known
  <2>2. Live = log \cup UNION {Sum(Line(s)) : s \in Session}
    BY DEF Live, LiveOf, Line
  <2>3. Live' = log' \cup UNION {Sum(Line(s)') : s \in Session}
    BY DEF Live, LiveOf, Line
  <2>4. Live' = Live
    BY <1>1, <1>7, <2>2, <2>3
  <2>5. Pending' <=> Pending
    BY <1>7 DEF Pending
  <2>6. Seed(c) \notin Known
    BY <1>1, <1>3 DEF KnownInv
  <2> QED
    BY <2>1, <2>4, <2>5, <2>6
<1>9. Live \subseteq Known /\ \A d \in Client : got[d] \subseteq Known
  <2>1. /\ \A s \in Session : Sum(Line(s)) \subseteq Known
        /\ Live = log \cup UNION {Sum(Line(s)) : s \in Session}
    BY <1>2, <1>3, CalmLines
  <2> QED
    BY <1>3, <2>1 DEF KnownInv, Known
<1>10. \A S : S \subseteq Known => Words(S, initial') = Words(S, initial)
  <2>1. \A d \in Client \ {c} : initial'[d] = initial[d]
    BY <1>1, <1>3 DEF ClientOK
  <2>2. ASSUME NEW S, S \subseteq Known PROVE \A d \in Client : Seed(d) \in S => initial'[d] = initial[d]
    BY <1>8, <2>1, <2>2
  <2> QED
    BY <2>2, WordsSame
<1>11. mode'[c] = "online" /\ \A d \in Client \ {c} : mode'[d] = mode[d]
  BY <1>1, <1>3 DEF ClientOK
<1>12. KnownInv'
  BY <1>1, <1>3, <1>8, <1>11 DEF KnownInv
<1>13. StartInv'
  BY <1>1, <1>3, <1>4, <1>5, <1>6 DEF StartInv, Home
<1>14. LineInv'
  BY <1>1, <1>3, <1>7 DEF LineInv
<1>15. CausalInv'
  <2>1. DownChain(down[Home(c)], got[c], after)
    <3>1. DownChain(<<>>, {}, after) <=> ClosedIn({}, after)
      <4>1. <<>> \in Seq(DownMessage)
        BY EmptySeq
      <4> QED
        BY <4>1, DownFacts
    <3> QED
      BY <1>5, <3>1, ClosedFacts
  <2> QED
    BY <1>1, <1>3, <1>7, <1>11, <2>1 DEF CausalInv
<1>16. LastInv'
  <2>1. Line(Home(c)) = {}
    <3>1. Sum(Line(Home(c))) \subseteq got[Home(c)[1]] /\ Fit(Line(Home(c)))
      BY <1>2, <1>3, <1>4, CalmLines
    <3>2. Sum(Line(Home(c))) = {}
      BY <1>4, <1>5, <3>1
    <3> QED
      BY <3>1, <3>2, SumParts
  <2>2. \A data : LastOf({}, data)
    BY DEF LastOf
  <2>3. \A d \in Client : Words(got[d], initial') = Words(got[d], initial)
    BY <1>9, <1>10
  <2> QED
    BY <1>1, <1>3, <1>4, <1>7, <1>11, <2>1, <2>2, <2>3 DEF LastInv
<1>17. GoneInv'
  <2> SUFFICES ASSUME NEW d \in Client, mode'[d] # "online", Line(Home(d))' # {}
               PROVE  /\ Sum(Line(Home(d))') \cap log' = {}
                      /\ \A e \in Client \ {d} : IF mode'[e] = "online" THEN got'[e] \cap Sum(Line(Home(d))') = {}
                                                 ELSE Line(Home(e))' = {}
                      /\ LastOf(Line(Home(d))', {AllOf(got')}) \/ \E e \in Client \ {d} : Present(e)'
    BY DEF GoneInv
  <2>1. mode[d] # "online" /\ Line(Home(d)) # {} /\ d # c
    BY <1>4, <1>7, <1>11
  <2>2. /\ Sum(Line(Home(d))) \cap log = {}
        /\ \A e \in Client \ {d} : IF mode[e] = "online" THEN got[e] \cap Sum(Line(Home(d))) = {}
                                   ELSE Line(Home(e)) = {}
        /\ LastOf(Line(Home(d)), {AllOf(got)}) \/ \E e \in Client \ {d} : Present(e)
    BY <1>3, <2>1 DEF GoneInv
  <2>3. \A e \in Client : Present(e) => Present(e)'
    <3>1. ASSUME NEW e \in Client, Present(e) PROVE Present(e)'
      <4>1. e # c
        BY <1>1, <3>1 DEF Present
      <4>2. Home(e) # Home(c)
        BY <4>1 DEF Home
      <4>3. up'[Home(e)] = up[Home(e)]
        BY <1>4, <1>6, <4>2
      <4> QED
        BY <1>11, <3>1, <4>1, <4>3 DEF Present
    <3> QED
      BY <3>1
  <2> QED
    BY <1>1, <1>4, <1>5, <1>7, <1>11, <2>2, <2>3
<1>18. TextInv'
  BY <1>1, <1>3, <1>8, <1>9, <1>10 DEF TextInv
<1>19. BlankInv'
  <2>1. ~MayIn(<<>>)
    <3>1. Len(<<>>) = 0
      BY EmptySeq
    <3> QED
      BY <3>1 DEF MayIn
  <2> QED
    BY <1>1, <1>3, <1>5, <1>8, <1>11, <2>1 DEF BlankInv
<1>20. SavedInv'
  BY <1>1, <1>3, <1>8, <1>11 DEF SavedInv
<1> QED
  BY <1>12, <1>13, <1>14, <1>15, <1>16, <1>17, <1>18, <1>19, <1>20 DEF CalmParts

\* What is under way from a session is what is in its line.
LEMMA UnderWayLine ==
    ASSUME NoteInv, NEW s \in Session
    PROVE  UnderWay(s) = Sum(Line(s)) /\ \A c \in Client : HasUpdate(down[Home(c)]) <=> Has(down[Home(c)], {"update"})
<1>0. QueuesOK
  BY NoteParts DEF NoteInv
<1>1. up[s] \in Seq(UpMessage) /\ DOMAIN up[s] = 1 .. Len(up[s])
  <2>1. up[s] \in Seq(UpMessage)
    BY <1>0 DEF QueuesOK
  <2> QED
    BY <2>1, LenProperties
<1>2. UnderWay(s) = Ops(up[s]) \cup UNION {f.ops : f \in {g \in frames : g.at = "append" /\ g.session = s}}
  <2> DEFINE A == {up[s][k].ops : k \in {i \in 1 .. Len(up[s]) : up[s][i].kind = "update"}}
             B == {f.ops : f \in {g \in frames : g.at = "append" /\ g.session = s}}
             C == {up[s][k].ops : k \in {i \in DOMAIN up[s] : up[s][i].kind = "update"}}
  <2>1. C = A
    BY <1>1
  <2>2. UnderWay(s) = UNION (A \cup B)
    <3>1. UnderWay(s) = UNION (C \cup B)
      BY Zenon DEF UnderWay
    <3> HIDE DEF A, B, C
    <3> QED
      BY <2>1, <3>1
  <2>3. Ops(up[s]) = UNION A
    BY DEF Ops
  <2> HIDE DEF A, B
  <2>4. UNION (A \cup B) = (UNION A) \cup (UNION B)
    OBVIOUS
  <2>5. UnderWay(s) = Ops(up[s]) \cup UNION B
    BY <2>2, <2>3, <2>4
  <2> QED
    BY Zenon, <2>5 DEF B
<1>3. UnderWay(s) = Sum(Line(s))
  BY <1>2, LineSums DEF Line
<1>4. ASSUME NEW c \in Client PROVE HasUpdate(down[Home(c)]) <=> Has(down[Home(c)], {"update"})
  <2>1. Home(c) \in Session
    BY BoundsAssumption DEF Home, Session
  <2>2. down[Home(c)] \in Seq(DownMessage)
    BY <1>0, <2>1 DEF QueuesOK
  <2>3. DOMAIN down[Home(c)] = 1 .. Len(down[Home(c)])
    BY <2>2, LenProperties
  <2> QED
    BY <2>3 DEF HasUpdate, Has
<1> QED
  BY <1>3, <1>4

\* An editor that goes: what it sent stays in line.
Goes(c) ==
    /\ UNCHANGED <<initial, got, after, log, frames, saves, note>>
    /\ \E to \in {"left", "offline", "gone"} : mode' = [mode EXCEPT ![c] = to]
    /\ mode[c] # "closed"
    /\ \A s \in Session : Line(s)' = Line(s)
    /\ \A d \in Client : Joining(up'[Home(d)]) => Joining(up[Home(d)])
    /\ \A d \in Client \ {c} : down'[Home(d)] = down[Home(d)]
    /\ down'[Home(c)] \in {<<>>, down[Home(c)]}
    /\ mode[c] = "online" => ~Hasty(c)

\* An editor that leaves, or is cut off without a loss, after it has seen what others sent.
LEMMA GoGoes ==
    ASSUME NoteInv, NEW c \in Client, Leave(c) \/ Drop(c), upset' = {}
    PROVE  upset = {} /\ Goes(c)
<1>0. ClientOK /\ QueuesOK
  BY NoteParts DEF NoteInv
<1>1. GoStep(c)
  BY LeaveGoes, DropGoes
<1>2. upset = {}
  BY <1>1 DEF GoStep
<1>3. \A d \in Client : Home(d) \in Session /\ SessionOf(d) = Home(d) /\ Home(d)[1] = d
  BY <1>2, CalmFacts
<1> DEFINE s == Home(c)
<1>4. s \in Session /\ SessionOf(c) = s /\ up[s] \in Seq(UpMessage)
  BY <1>0, <1>3 DEF QueuesOK
<1>5. /\ UNCHANGED <<initial, got, after, log, frames, saves, note>>
      /\ \E to \in {"left", "offline", "gone"} : mode' = [mode EXCEPT ![c] = to]
      /\ mode[c] \in {"online", "left", "offline"}
      /\ \A t \in Session \ {s} : up'[t] = up[t] /\ down'[t] = down[t]
      /\ Joining(up'[s]) => Joining(up[s])
      /\ down'[s] \in {<<>>, down[s]}
  BY <1>1, <1>4 DEF GoStep, document
<1> HIDE DEF s
<1>6. LineUp(up'[s]) = LineUp(up[s]) /\ (mode[c] = "online" => ~Hasty(c))
  <2>1. CASE Leave(c) /\ mode[c] = "online"
    <3> DEFINE m == [kind |-> "leave"]
    <3>1. m \in UpMessage /\ m.kind # "update"
      BY UpMessages
    <3>2. up' = [up EXCEPT ![s] = Append(@, m)] /\ UpsetIf(Hasty(c), "hasty")
      BY <1>4, <2>1 DEF Leave, EmitTo
    <3> HIDE DEF m
    <3>3. up'[s] = Append(up[s], m)
      BY <1>0, <1>4, <3>2 DEF QueuesOK
    <3>4. ~Hasty(c)
      BY <3>2 DEF UpsetIf
    <3> QED
      BY <1>4, <3>1, <3>3, <3>4, LineUpAppend
  <2>2. CASE Leave(c) /\ mode[c] # "online"
    BY <2>2 DEF Leave
  <2>3. CASE Drop(c)
    <3> DEFINE m == [kind |-> "disconnect"]
    <3>1. m \in UpMessage /\ m.kind # "update"
      BY UpMessages
    <3>2. PICK n \in 0 .. Len(up[s]) :
              LET lost == HasUpdate(SubSeq(up[s], n + 1, Len(up[s]))) IN
              /\ up' = [up EXCEPT ![s] = Append(SubSeq(@, 1, n), m)]
              /\ UpsetIf(lost \/ (mode[c] = "online" /\ Hasty(c)), IF lost THEN "lostUpdate" ELSE "hasty")
      BY <1>4, <2>3 DEF Drop
    <3> HIDE DEF m
    <3>3. up'[s] = Append(SubSeq(up[s], 1, n), m)
      BY <1>0, <1>4, <3>2 DEF QueuesOK
    <3>4. ~HasUpdate(SubSeq(up[s], n + 1, Len(up[s]))) /\ ~(mode[c] = "online" /\ Hasty(c))
      BY <3>2 DEF UpsetIf
    <3>5. LineUp(SubSeq(up[s], 1, n)) = LineUp(up[s])
      BY <1>4, <3>4, LineUpCut
    <3>6. SubSeq(up[s], 1, n) \in Seq(UpMessage)
      BY <1>4, CutQueue
    <3>7. LineUp(Append(SubSeq(up[s], 1, n), m)) = LineUp(SubSeq(up[s], 1, n))
      BY <3>1, <3>6, LineUpAppend
    <3> QED
      BY <3>3, <3>4, <3>5, <3>7
  <2> QED
    BY <2>1, <2>2, <2>3
<1>7. \A t \in Session : Line(t)' = Line(t)
  <2>1. \A t \in Session : LineUp(up'[t]) = LineUp(up[t])
    BY <1>5, <1>6
  <2> QED
    BY <1>5, <2>1 DEF Line, LineOf
<1>8. \A d \in Client \ {c} : Home(d) \in Session \ {s}
  BY <1>3 DEF s
<1> QED
  BY <1>2, <1>4, <1>5, <1>6, <1>7, <1>8 DEF Goes, s

\* If updates of it are in line, nobody else has any, and its last text is all there is.
LEMMA GoCalm ==
    ASSUME NoteInv, CalmInv, NEW c \in Client, Leave(c) \/ Drop(c), upset' = {}
    PROVE  CalmParts'
<1>1. upset = {} /\ CalmParts /\ Goes(c)
  BY GoGoes DEF CalmInv
<1>2. /\ UNCHANGED <<initial, got, after, log, frames, saves, note>>
      /\ mode[c] # "closed"
      /\ \A s \in Session : Line(s)' = Line(s)
      /\ \A d \in Client : Joining(up'[Home(d)]) => Joining(up[Home(d)])
      /\ \A d \in Client \ {c} : down'[Home(d)] = down[Home(d)]
      /\ down'[Home(c)] \in {<<>>, down[Home(c)]}
      /\ mode[c] = "online" => ~Hasty(c)
  BY <1>1 DEF Goes
<1>3. /\ KnownInv /\ StartInv /\ LineInv /\ CausalInv /\ LastInv /\ GoneInv /\ TextInv /\ BlankInv /\ SavedInv
      /\ ClientOK /\ QueuesOK /\ SessionInv /\ ModeInv
  BY <1>1, NoteParts DEF CalmParts, NoteInv
<1>4. mode'[c] \in {"left", "offline", "gone"} /\ \A d \in Client \ {c} : mode'[d] = mode[d]
  BY <1>1, <1>3 DEF Goes, ClientOK
<1>5. \A d \in Client : Home(d) \in Session /\ SessionOf(d) = Home(d) /\ Home(d)[1] = d /\ down[Home(d)] \in Seq(DownMessage)
  BY <1>1, CalmFacts
<1>6. Known' = Known /\ Live' = Live /\ (Pending' <=> Pending)
  <2>1. Known' = Known
    BY <1>2 DEF Known
  <2>2. Live = log \cup UNION {Sum(Line(s)) : s \in Session}
    BY DEF Live, LiveOf, Line
  <2>3. Live' = log' \cup UNION {Sum(Line(s)') : s \in Session}
    BY DEF Live, LiveOf, Line
  <2>4. Live' = Live
    BY <1>2, <2>2, <2>3
  <2>5. Pending' <=> Pending
    BY <1>2 DEF Pending
  <2> QED
    BY <2>1, <2>4, <2>5
<1>7. KnownInv'
  <2>1. \A d \in Client : Carried(down'[Home(d)]) \subseteq Carried(down[Home(d)])
    BY <1>2, NothingIn
  <2>2. \A d \in Client : mode'[d] = "closed" => mode[d] = "closed"
    BY <1>4
  <2> QED
    BY <1>2, <1>3, <1>6, <2>1, <2>2 DEF KnownInv
<1>8. StartInv'
  <2>1. Len(<<>>) = 0
    BY EmptySeq
  <2>2. \A d \in Client : down'[Home(d)] = down[Home(d)] \/ Len(down'[Home(d)]) = 0
    BY <1>2, <2>1
  <2>3. ASSUME NEW d \in Client, NEW k \in 1 .. Len(down'[Home(d)]) PROVE down'[Home(d)] = down[Home(d)]
    BY <2>2, <2>3
  <2> QED
    BY <1>2, <1>3, <2>3 DEF StartInv
<1>9. LineInv'
  BY <1>2, <1>3 DEF LineInv
<1>10. CausalInv'
  BY <1>2, <1>3, <1>4 DEF CausalInv
<1>11. LastInv'
  BY <1>2, <1>3, <1>4, <1>5 DEF LastInv
<1>12. GoneInv'
  <2> SUFFICES ASSUME NEW d \in Client, mode'[d] # "online", Line(Home(d))' # {}
               PROVE  /\ Sum(Line(Home(d))') \cap log' = {}
                      /\ \A e \in Client \ {d} : IF mode'[e] = "online" THEN got'[e] \cap Sum(Line(Home(d))') = {}
                                                 ELSE Line(Home(e))' = {}
                      /\ LastOf(Line(Home(d))', {AllOf(got')}) \/ \E e \in Client \ {d} : Present(e)'
    BY DEF GoneInv
  <2>1. Line(Home(d))' = Line(Home(d)) /\ Line(Home(d)) # {} /\ log' = log /\ got' = got
    BY <1>2, <1>5
  <2>2. CASE mode[c] # "online"
    <3>1. \A e \in Client : (mode'[e] = "online" <=> mode[e] = "online") /\ (Present(e) => Present(e)')
      BY <1>2, <1>4, <2>2 DEF Present
    <3>2. /\ Sum(Line(Home(d))) \cap log = {}
          /\ \A e \in Client \ {d} : IF mode[e] = "online" THEN got[e] \cap Sum(Line(Home(d))) = {}
                                     ELSE Line(Home(e)) = {}
          /\ LastOf(Line(Home(d)), {AllOf(got)}) \/ \E e \in Client \ {d} : Present(e)
      BY <1>3, <2>1, <3>1 DEF GoneInv
    <3> QED
      BY <1>2, <1>5, <2>1, <3>1, <3>2
  <2>3. CASE mode[c] = "online"
    <3>1. ~Hasty(c)
      BY <1>2, <2>3
    <3>2. /\ ~Has(down[Home(c)], {"update"})
          /\ \A s \in Session : UnderWay(s) # {} => s = Home(c) /\ \A e \in Client \ {c} : mode[e] # "online"
          /\ UnderWay(Home(c)) \cap log = {}
      BY <1>5, <3>1, UnderWayLine DEF Hasty
    <3>3. /\ \A s \in Session : UnderWay(s) = Sum(Line(s)) /\ (Line(s) # {} => Sum(Line(s)) # {})
          /\ \A s \in Session : Line(s) # {} => ~Joining(up[s])
      BY <1>1, <1>3, UnderWayLine, CalmLines
    <3>4. \A s \in Session : Line(s) # {} => s = Home(c) /\ \A e \in Client \ {c} : mode[e] # "online"
      BY <3>2, <3>3
    <3>5. Home(d) = Home(c) /\ \A e \in Client \ {c} : mode[e] # "online"
      BY <1>5, <2>1, <3>4
    <3>6. d = c
      BY <1>5, <3>5
    <3>7. Sum(Line(Home(c))) \cap log = {}
      BY <1>5, <3>2, <3>3
    <3>8. \A e \in Client \ {c} : Line(Home(e)) = {}
      <4>1. \A e \in Client \ {c} : Home(e) # Home(c) /\ Home(e) \in Session
        BY <1>5
      <4> QED
        BY <3>4, <4>1
    <3>9. got[c] = Live /\ Live # {}
      <4>1. /\ Sum(Line(Home(c))) \subseteq got[c] /\ Sum(Line(Home(c))) # {}
            /\ log \subseteq got[c] \cup Carried(down[Home(c)])
            /\ got[c] \subseteq log \cup Sum(Line(Home(c)))
            /\ Live = log \cup UNION {Sum(Line(s)) : s \in Session}
        <5>1. ~Joining(up[Home(c)])
          BY <1>5, <2>1, <3>3, <3>5
        <5>2. Home(c)[1] = c /\ Home(c) \in Session /\ Line(Home(c)) # {}
          BY <1>5, <2>1, <3>5
        <5> QED
          BY <1>1, <1>3, <2>3, <5>1, <5>2, CalmLines
      <4>2. \A s \in Session : Sum(Line(s)) \subseteq Sum(Line(Home(c)))
        BY <3>4, SumParts
      <4>3. Live = log \cup Sum(Line(Home(c)))
        BY <1>5, <4>1, <4>2
      <4>4. Carried(down[Home(c)]) = {}
        <5>1. \A k \in 1 .. Len(down[Home(c)]) : down[Home(c)][k].kind # "state"
          BY <1>3, <4>1 DEF StartInv
        <5>2. \A k \in 1 .. Len(down[Home(c)]) : down[Home(c)][k].kind \in {"state", "update"}
          <6>1. \A k \in 1 .. Len(down[Home(c)]) : down[Home(c)][k] \in DownMessage
            BY <1>5, ElementOfSeq
          <6> QED
            BY <6>1, UpMessages
        <5>3. \A k \in 1 .. Len(down[Home(c)]) : down[Home(c)][k].kind # "update"
          BY <3>2 DEF Has
        <5>4. \A k \in 1 .. Len(down[Home(c)]) : FALSE
          BY <5>1, <5>2, <5>3
        <5> QED
          BY <5>4 DEF Carried
      <4> QED
        BY <4>1, <4>3, <4>4
    <3>10. LastOf(Line(Home(c)), {AllOf(got)})
      <4>1. Words(got[c], initial) = AllOf(got)
        BY <1>3, <3>9 DEF TextInv
      <4> QED
        BY <1>3, <2>3, <4>1 DEF LastInv
    <3> QED
      BY <1>2, <1>4, <1>5, <2>1, <3>5, <3>6, <3>7, <3>8, <3>10
  <2> QED
    BY <2>2, <2>3
<1>13. TextInv'
  BY <1>2, <1>3, <1>6 DEF TextInv
<1>14. BlankInv'
  BY <1>2, <1>3, <1>4, <1>6 DEF BlankInv
<1>15. SavedInv'
  <2>1. CASE Pending
    BY <1>6, <2>1 DEF SavedInv
  <2>2. CASE \E d \in Client : mode[d] = "online" /\ EchoIn(down[Home(d)], got[d])
    <3>1. PICK d \in Client : mode[d] = "online" /\ EchoIn(down[Home(d)], got[d])
      BY <2>2
    <3>2. CASE d = c
      <4>1. ~Has(down[Home(c)], {"update"})
        BY <1>2, <1>5, <3>1, <3>2, UnderWayLine DEF Hasty
      <4>2. Ops(down[Home(c)]) = {}
        BY <4>1 DEF Has, Ops
      <4> QED
        BY <3>1, <3>2, <4>2 DEF EchoIn
    <3>3. CASE d # c
      BY <1>2, <1>4, <3>1, <3>3 DEF SavedInv
    <3> QED
      BY <3>2, <3>3
  <2>3. CASE LatestIs(frames, saves, note, AllOf(got))
    BY <1>2, <2>3 DEF SavedInv
  <2> QED
    BY <1>3, <2>1, <2>2, <2>3 DEF SavedInv
<1> QED
  BY <1>7, <1>8, <1>9, <1>10, <1>11, <1>12, <1>13, <1>14, <1>15 DEF CalmParts

\* An editor takes the oldest message that is on its way to it.
Takes(c) ==
    /\ mode[c] = "online" /\ down[Home(c)] # <<>>
    /\ UNCHANGED <<mode, initial, after, log, frames, saves, note>>
    /\ down'[Home(c)] = Tail(down[Home(c)]) /\ \A d \in Client \ {c} : down'[Home(d)] = down[Home(d)]
    /\ got'[c] = got[c] \cup down[Home(c)][1].ops /\ \A d \in Client \ {c} : got'[d] = got[d]
    /\ \A d \in Client : Joining(up'[Home(d)]) <=> Joining(up[Home(d)])

\* What is on its way to an editor is in the log already.
LEMMA TakesKeep ==
    ASSUME NoteInv, upset = {}, CalmParts, NEW c \in Client, Takes(c)
    PROVE  /\ KnownInv' /\ StartInv' /\ Known' = Known /\ AllOf(got') = AllOf(got)
           /\ down[Home(c)][1].ops \subseteq log /\ ~Joining(up[Home(c)])
           /\ ClosedIn(log, after)'
           /\ \A d \in Client : /\ ClosedIn(got[d], after)'
                                /\ mode'[d] = "online" => DownChain(down[Home(d)], got[d], after)'
           /\ \A d \in Client : MayIn(down'[Home(d)]) => MayIn(down[Home(d)])
           /\ \A S : S \cap log = {} /\ got[c] \cap S = {} => got'[c] \cap S = {}
<1>1. /\ mode[c] = "online" /\ down[Home(c)] # <<>>
      /\ UNCHANGED <<mode, initial, after, log, frames, saves, note>>
      /\ down'[Home(c)] = Tail(down[Home(c)]) /\ \A d \in Client \ {c} : down'[Home(d)] = down[Home(d)]
      /\ got'[c] = got[c] \cup down[Home(c)][1].ops /\ \A d \in Client \ {c} : got'[d] = got[d]
      /\ \A d \in Client : Joining(up'[Home(d)]) <=> Joining(up[Home(d)])
  BY DEF Takes
<1>2. KnownInv /\ StartInv /\ LineInv /\ CausalInv
  BY DEF CalmParts
<1> DEFINE q == down[Home(c)]
           first == q[1].ops
<1>3. q \in Seq(DownMessage) /\ q # <<>> /\ ~Joining(up[Home(c)]) /\ Carried(q) \subseteq log
  BY <1>1, <1>2, CalmFacts, CalmLines
<1>4. /\ \A S, aft : DownChain(q, S, aft) =>
             ClosedIn(S \cup first, aft) /\ DownChain(Tail(q), S \cup first, aft)
      /\ \A k \in 1 .. Len(Tail(q)) : k + 1 \in 1 .. Len(q) /\ Tail(q)[k] = q[k + 1]
      /\ MayIn(Tail(q)) => MayIn(q)
  BY <1>3, DownTail
<1>5. Carried(q) = Carried(Tail(q)) \cup first
  BY <1>3, TailQueue
<1>6. first \subseteq log /\ first \subseteq Known /\ Carried(Tail(q)) \subseteq Carried(q)
  BY <1>2, <1>3, <1>5 DEF KnownInv
<1>7. ASSUME NEW k \in 1 .. Len(Tail(q)) PROVE Tail(q)[k].kind # "state"
  <2>1. k + 1 \in 1 .. Len(q) /\ Tail(q)[k] = q[k + 1] /\ k + 1 # 1
    BY <1>4
  <2> QED
    BY <1>2, <2>1 DEF StartInv
<1>8. down'[Home(c)] = Tail(q) /\ got'[c] = got[c] \cup first
  BY <1>1
<1> HIDE DEF q, first
<1>9. Known' = Known
  <2>1. \A x : x \in Known' <=> \E d \in Client : x \in got'[d]
    BY DEF Known
  <2>2. \A x : x \in Known <=> \E d \in Client : x \in got[d]
    BY DEF Known
  <2>3. \A x : x \in Known' <=> x \in Known
    BY <1>1, <1>6, <1>8, <2>1, <2>2
  <2> QED
    BY <2>3
<1>10. AllOf(got') = AllOf(got)
  BY <1>9 DEF AllOf, Known
<1>11. KnownInv'
  <2>1. \A d \in Client : Carried(down'[Home(d)]) \subseteq Known
    BY <1>1, <1>2, <1>6, <1>8 DEF KnownInv, q
  <2> QED
    BY <1>1, <1>2, <1>9, <2>1 DEF KnownInv
<1>12. StartInv'
  BY <1>1, <1>2, <1>3, <1>7, <1>8 DEF StartInv
<1>13. \A d \in Client : /\ ClosedIn(got[d], after)'
                         /\ mode'[d] = "online" => DownChain(down[Home(d)], got[d], after)'
  <2>1. DownChain(q, got[c], after)
    BY <1>1, <1>2 DEF CausalInv, q
  <2>2. ClosedIn(got[c] \cup first, after) /\ DownChain(Tail(q), got[c] \cup first, after)
    BY <1>4, <2>1
  <2>3. ClosedIn(got'[c], after') /\ DownChain(down'[Home(c)], got'[c], after')
    BY <1>1, <1>8, <2>2
  <2> QED
    BY <1>1, <1>2, <2>3 DEF CausalInv
<1>14. \A d \in Client : MayIn(down'[Home(d)]) => MayIn(down[Home(d)])
  BY <1>1, <1>4, <1>8 DEF q
<1> QED
  BY <1>1, <1>2, <1>3, <1>6, <1>8, <1>9, <1>10, <1>11, <1>12, <1>13, <1>14 DEF CausalInv, q, first

\* What the editor takes adds nothing that it would have to send.
LEMMA TakeCalm ==
    ASSUME NoteInv, upset = {}, CalmParts, NEW c \in Client, Takes(c), UNCHANGED up,
           down[Home(c)][1].kind = "update" => down[Home(c)][1].ops \subseteq got[c]
    PROVE  CalmParts'
<1>1. /\ mode[c] = "online" /\ down[Home(c)] # <<>>
      /\ UNCHANGED <<mode, initial, after, log, frames, saves, note>>
      /\ down'[Home(c)] = Tail(down[Home(c)]) /\ \A d \in Client \ {c} : down'[Home(d)] = down[Home(d)]
      /\ got'[c] = got[c] \cup down[Home(c)][1].ops /\ \A d \in Client \ {c} : got'[d] = got[d]
  BY DEF Takes
<1>2. KnownInv /\ StartInv /\ LineInv /\ CausalInv /\ LastInv /\ GoneInv /\ TextInv /\ BlankInv /\ SavedInv
  BY DEF CalmParts
<1>3. /\ KnownInv' /\ StartInv' /\ Known' = Known /\ AllOf(got') = AllOf(got)
      /\ ClosedIn(log, after)'
      /\ \A d \in Client : /\ ClosedIn(got[d], after)'
                           /\ mode'[d] = "online" => DownChain(down[Home(d)], got[d], after)'
      /\ \A d \in Client : MayIn(down'[Home(d)]) => MayIn(down[Home(d)])
      /\ \A S : S \cap log = {} /\ got[c] \cap S = {} => got'[c] \cap S = {}
  BY TakesKeep
<1>4. \A d \in Client : Home(d) \in Session /\ Home(d)[1] = d
  BY CalmFacts
<1>5. (\A s \in Session : Line(s)' = Line(s)) /\ Live' = Live /\ (Pending' <=> Pending)
  <2>1. \A s \in Session : Line(s)' = Line(s)
    BY <1>1 DEF Line
  <2> QED
    BY <1>1, <2>1 DEF Live, Pending
<1>6. LineInv'
  BY <1>1, <1>2, <1>5 DEF LineInv
<1>7. CausalInv'
  BY <1>1, <1>2, <1>3, <1>5 DEF CausalInv
<1>8. got'[c] = got[c] \/ (got[c] = {} /\ Line(Home(c)) = {})
  <2>1. down[Home(c)] \in Seq(DownMessage)
    BY CalmFacts
  <2>2. 1 \in 1 .. Len(down[Home(c)]) /\ down[Home(c)][1].kind \in {"state", "update"}
    BY <1>1, <2>1, DownTail
  <2>3. CASE down[Home(c)][1].kind = "state"
    <3>1. got[c] = {}
      BY <1>2, <2>2, <2>3 DEF StartInv
    <3>2. Sum(Line(Home(c))) \subseteq got[Home(c)[1]] /\ (Line(Home(c)) # {} => Sum(Line(Home(c))) # {})
      BY <1>2, <1>4, CalmLines
    <3> QED
      BY <1>4, <3>1, <3>2
  <2>4. CASE down[Home(c)][1].kind = "update"
    BY <1>1, <2>4
  <2> QED
    BY <2>2, <2>3, <2>4
<1>9. LastInv'
  <2>1. \A data : LastOf({}, data)
    BY DEF LastOf
  <2>2. ASSUME NEW d \in Client, mode'[d] = "online" PROVE LastOf(Line(Home(d))', {Words(got'[d], initial')})
    <3>1. Line(Home(d))' = Line(Home(d)) /\ LastOf(Line(Home(d)), {Words(got[d], initial)})
      BY <1>1, <1>2, <1>4, <1>5, <2>2 DEF LastInv
    <3>2. got'[d] = got[d] \/ Line(Home(d)) = {}
      BY <1>1, <1>8
    <3> QED
      BY <1>1, <2>1, <3>1, <3>2
  <2> QED
    BY <2>2 DEF LastInv
<1>10. GoneInv'
  <2> SUFFICES ASSUME NEW d \in Client, mode'[d] # "online", Line(Home(d))' # {}
               PROVE  /\ Sum(Line(Home(d))') \cap log' = {}
                      /\ \A e \in Client \ {d} : IF mode'[e] = "online" THEN got'[e] \cap Sum(Line(Home(d))') = {}
                                                 ELSE Line(Home(e))' = {}
                      /\ LastOf(Line(Home(d))', {AllOf(got')}) \/ \E e \in Client \ {d} : Present(e)'
    BY DEF GoneInv
  <2>1. mode[d] # "online" /\ Line(Home(d)) # {} /\ d # c
    BY <1>1, <1>4, <1>5
  <2>2. /\ Sum(Line(Home(d))) \cap log = {}
        /\ \A e \in Client \ {d} : IF mode[e] = "online" THEN got[e] \cap Sum(Line(Home(d))) = {}
                                   ELSE Line(Home(e)) = {}
        /\ LastOf(Line(Home(d)), {AllOf(got)}) \/ \E e \in Client \ {d} : Present(e)
    BY <1>2, <2>1 DEF GoneInv
  <2>3. \A e \in Client : Present(e) => Present(e)'
    BY <1>1 DEF Present
  <2>4. got'[c] \cap Sum(Line(Home(d))) = {}
    BY <1>1, <1>3, <2>1, <2>2
  <2> QED
    BY <1>1, <1>3, <1>4, <1>5, <2>2, <2>3, <2>4
<1>11. TextInv'
  BY <1>1, <1>2, <1>3, <1>5 DEF TextInv
<1>12. BlankInv'
  BY <1>1, <1>2, <1>3, <1>5 DEF BlankInv
<1>13. SavedInv'
  <2>1. CASE Pending
    BY <1>5, <2>1 DEF SavedInv
  <2>2. CASE \E d \in Client : mode[d] = "online" /\ EchoIn(down[Home(d)], got[d])
    <3>1. PICK d \in Client : mode[d] = "online" /\ EchoIn(down[Home(d)], got[d])
      BY <2>2
    <3>2. EchoIn(down[Home(c)], got[c]) => EchoIn(down'[Home(c)], got'[c])
      <4>1. down[Home(c)] \in Seq(DownMessage)
        BY CalmFacts
      <4> DEFINE q == down[Home(c)]
      <4>2. /\ q[1].kind = "state" => Ops(q) = Ops(Tail(q)) /\ StateOps(q) = StateOps(Tail(q)) \cup q[1].ops
            /\ q[1].kind = "update" => Ops(q) = Ops(Tail(q)) \cup q[1].ops /\ StateOps(q) = StateOps(Tail(q))
            /\ q[1].kind \in {"state", "update"}
        BY <1>1, <4>1, DownTail
      <4> QED
        BY <1>1, <4>2 DEF EchoIn
    <3> QED
      BY <1>1, <3>1, <3>2 DEF SavedInv
  <2>3. CASE LatestIs(frames, saves, note, AllOf(got))
    BY <1>1, <1>3, <2>3 DEF SavedInv
  <2> QED
    BY <1>2, <2>1, <2>2, <2>3 DEF SavedInv
<1> QED
  BY <1>3, <1>6, <1>7, <1>9, <1>10, <1>11, <1>12, <1>13 DEF CalmParts

\* An update more in the line of an editor.
LEMMA EmitLine ==
    ASSUME NoteInv, upset = {}, LineInv, NEW c \in Client, NEW ops \in SUBSET Op, NEW t \in SUBSET TextPiece,
           EmitTo(c, Update(ops, {t})), UNCHANGED <<log, frames>>,
           ops # {}, ops \cap Sum(Line(Home(c))) = {}
    PROVE  /\ Fit(Line(Home(c))') /\ Sum(Line(Home(c))') = Sum(Line(Home(c))) \cup ops
           /\ LastOf(Line(Home(c))', {t}) /\ Line(Home(c))' # {}
           /\ \A S, aft : /\ Chain(Line(Home(c)), S, aft) /\ ClosedIn(S \cup Sum(Line(Home(c))) \cup ops, aft)
                          => Chain(Line(Home(c))', S, aft)
           /\ \A s \in Session \ {Home(c)} : Line(s)' = Line(s)
           /\ Live' = Live \cup ops /\ Pending'
           /\ \A d \in Client : Joining(up'[Home(d)]) <=> Joining(up[Home(d)])
<1> DEFINE h == Home(c)
           m == Update(ops, {t})
           n == Len(up[h]) + 1
<1>1. /\ \A d \in Client : Home(d) \in Session /\ SessionOf(d) = Home(d)
      /\ up[h] \in Seq(UpMessage)
  BY CalmFacts
<1>2. m \in UpMessage /\ m.kind = "update" /\ m.ops = ops /\ m.data = {t}
  <2>1. {t} \in SUBSET SUBSET TextPiece
    OBVIOUS
  <2>2. m \in UpMessage
    BY <2>1, UpMessages
  <2> QED
    BY <2>2 DEF Update
<1>3. QueuesOK
  BY NoteParts DEF NoteInv
<1> HIDE DEF m
<1>4. up'[h] = Append(up[h], m) /\ \A s \in Session \ {h} : up'[s] = up[s]
  BY <1>1, <1>3 DEF EmitTo, QueuesOK, m
<1>5. n \in Int /\ LineUp(up'[h]) = LineUp(up[h]) \cup {<<n, ops, {t}>>} /\ \A i \in LineUp(up[h]) : i[1] \in 1 .. Len(up[h])
  <2>1. Len(up[h]) \in Nat /\ n = Len(up[h]) + 1
    BY <1>1, LenProperties
  <2>2. LineUp(Append(up[h], m)) = LineUp(up[h]) \cup {<<Len(up[h]) + 1, m.ops, m.data>>}
    BY <1>1, <1>2, LineUpAppend
  <2>3. \A i \in LineUp(up[h]) : i[1] \in 1 .. Len(up[h])
    BY <1>1, <1>2, LineUpAppend
  <2> HIDE DEF n
  <2>4. LineUp(up'[h]) = LineUp(up[h]) \cup {<<n, ops, {t}>>}
    BY <1>2, <1>4, <2>1, <2>2
  <2>5. n \in Int
    BY <2>1
  <2> QED
    BY <2>3, <2>4, <2>5
<1>6. Line(h)' = Line(h) \cup {<<n, ops, {t}>>}
  BY <1>5 DEF Line, LineOf
<1>7. \A i \in Line(h) : i[1] < n
  <2>1. Len(up[h]) \in Nat
    BY <1>1, LenProperties
  <2>2. \A i \in LineAt(h, frames) : i[1] = 0
    BY DEF LineAt
  <2>3. \A i \in Line(h) : i \in LineUp(up[h]) \/ i \in LineAt(h, frames)
    BY DEF Line, LineOf
  <2> QED
    BY <1>5, <2>1, <2>2, <2>3
<1>8. Fit(Line(h))
  BY <1>1 DEF LineInv
<1>9. ops \cap Sum(Line(h)) = {} /\ h \in Session
  BY <1>1
<1> HIDE DEF n, h
<1>10. LET M == Line(h) \cup {<<n, ops, {t}>>} IN
       /\ Fit(M) /\ Sum(M) = Sum(Line(h)) \cup ops /\ LastOf(M, {t}) /\ M # {}
       /\ \A S, aft : Chain(Line(h), S, aft) /\ ClosedIn(S \cup Sum(Line(h)) \cup ops, aft) => Chain(M, S, aft)
  BY <1>5, <1>7, <1>8, <1>9, LastComes
<1>11. /\ Fit(Line(h)') /\ Sum(Line(h)') = Sum(Line(h)) \cup ops /\ LastOf(Line(h)', {t}) /\ Line(h)' # {}
       /\ \A S, aft : Chain(Line(h), S, aft) /\ ClosedIn(S \cup Sum(Line(h)) \cup ops, aft) => Chain(Line(h)', S, aft)
  BY <1>6, <1>10
<1>12. \A s \in Session \ {h} : Line(s)' = Line(s)
  BY <1>4 DEF Line, LineOf
<1>13. Live' = Live \cup ops
  <2>1. Live = log \cup UNION {Sum(Line(s)) : s \in Session}
    BY DEF Live, LiveOf, Line
  <2>2. Live' = log \cup UNION {Sum(Line(s)') : s \in Session}
    BY DEF Live, LiveOf, Line
  <2>3. \A x : x \in Live <=> x \in log \/ \E s \in Session : x \in Sum(Line(s))
    BY <2>1
  <2>4. \A x : x \in Live' <=> x \in log \/ \E s \in Session : x \in Sum(Line(s)')
    BY <2>2
  <2>5. \A s \in Session : Sum(Line(s)') = IF s = h THEN Sum(Line(s)) \cup ops ELSE Sum(Line(s))
    BY <1>11, <1>12
  <2>6. \A x : x \in Live' <=> x \in Live \/ x \in ops
    BY <1>9, <2>3, <2>4, <2>5
  <2> QED
    BY <2>6
<1>14. Pending'
  BY <1>9, <1>11 DEF Pending
<1>15. \A d \in Client : Joining(up'[Home(d)]) <=> Joining(up[Home(d)])
  <2>1. Joining(Append(up[h], m)) <=> Joining(up[h])
    BY <1>1, <1>2, AppendQueue DEF h
  <2>2. \A s \in Session : Joining(up'[s]) <=> Joining(up[s])
    BY <1>4, <2>1
  <2> QED
    BY <1>1, <2>2
<1> QED
  BY <1>11, <1>12, <1>13, <1>14, <1>15 DEF h

\* The update of an editor stands in its line: what is left to show of the step.
LEMMA SentCalm ==
    ASSUME NoteInv, upset = {}, CalmParts, NEW c \in Client, NEW ops \in SUBSET Op, NEW t \in SUBSET TextPiece,
           EmitTo(c, Update(ops, {t})), ops # {}, ops \cap Sum(Line(Home(c))) = {},
           UNCHANGED <<mode, initial, log, frames, saves, note>>,
           mode[c] = "online", ~Joining(up[Home(c)]),
           \A d \in Client \ {c} : got'[d] = got[d],
           \A d \in Client \ {c} : Line(Home(d)) # {} =>
               (got[c] \cap Sum(Line(Home(d))) = {} /\ log \cap Sum(Line(Home(d))) = {}
                    => got'[c] \cap Sum(Line(Home(d))) = {}),
           t = Words(got'[c], initial),
           \A s \in Session : Chain(Line(s), log, after'),
           ClosedIn(log \cup Sum(Line(Home(c))) \cup ops, after')
    PROVE  /\ LineInv' /\ LastInv' /\ GoneInv' /\ SavedInv'
           /\ \A s \in Session : Chain(Line(s), log, after)'
           /\ Live' = Live \cup ops
           /\ \A d \in Client : Joining(up'[Home(d)]) <=> Joining(up[Home(d)])
<1>1. LineInv /\ LastInv /\ GoneInv
  BY DEF CalmParts
<1>2. /\ Fit(Line(Home(c))') /\ LastOf(Line(Home(c))', {t})
      /\ \A S, aft : /\ Chain(Line(Home(c)), S, aft) /\ ClosedIn(S \cup Sum(Line(Home(c))) \cup ops, aft)
                     => Chain(Line(Home(c))', S, aft)
      /\ \A s \in Session \ {Home(c)} : Line(s)' = Line(s)
      /\ Live' = Live \cup ops /\ Pending'
      /\ \A d \in Client : Joining(up'[Home(d)]) <=> Joining(up[Home(d)])
  BY <1>1, EmitLine
<1>3. \A d \in Client : Home(d) \in Session /\ Home(d)[1] = d
  BY CalmFacts
<1>4. \A d \in Client \ {c} : Line(Home(d))' = Line(Home(d))
  BY <1>2, <1>3
<1>5. LineInv'
  <2>1. \A s \in Session : Fit(Line(s))'
    BY <1>1, <1>2 DEF LineInv
  <2> QED
    BY <1>1, <2>1 DEF LineInv
<1>6. LastInv'
  BY <1>1, <1>2, <1>4 DEF LastInv
<1>7. GoneInv'
  <2> SUFFICES ASSUME NEW d \in Client, mode'[d] # "online", Line(Home(d))' # {}
               PROVE  /\ Sum(Line(Home(d))') \cap log' = {}
                      /\ \A e \in Client \ {d} : IF mode'[e] = "online" THEN got'[e] \cap Sum(Line(Home(d))') = {}
                                                 ELSE Line(Home(e))' = {}
                      /\ LastOf(Line(Home(d))', {AllOf(got')}) \/ \E e \in Client \ {d} : Present(e)'
    BY DEF GoneInv
  <2>1. mode[d] # "online" /\ d # c /\ Line(Home(d))' = Line(Home(d)) /\ Line(Home(d)) # {}
    BY <1>4
  <2>2. /\ Sum(Line(Home(d))) \cap log = {}
        /\ \A e \in Client \ {d} : IF mode[e] = "online" THEN got[e] \cap Sum(Line(Home(d))) = {}
                                   ELSE Line(Home(e)) = {}
    BY <1>1, <2>1 DEF GoneInv
  <2>3. Present(c)'
    BY <1>2 DEF Present
  <2>4. \A e \in Client \ {d} : IF mode'[e] = "online" THEN got'[e] \cap Sum(Line(Home(d))') = {}
                                ELSE Line(Home(e))' = {}
    <3>1. got'[c] \cap Sum(Line(Home(d))) = {}
      BY <2>1, <2>2
    <3> QED
      BY <1>4, <2>1, <2>2, <3>1
  <2> QED
    BY <2>1, <2>2, <2>3, <2>4
<1>8. SavedInv'
  BY <1>2 DEF SavedInv
<1>9. \A s \in Session : Chain(Line(s), log, after)'
  BY <1>2, <1>3
<1> QED
  BY <1>2, <1>5, <1>6, <1>7, <1>8, <1>9

\* What is typed was made after all that the editor has, which is in the log or in its line.
LEMMA TypeCalm ==
    ASSUME NoteInv, CalmInv, NEW c \in Client, NEW e \in Edit, Type(c, e), upset' = {}
    PROVE  CalmParts'
<1>1. /\ mode[c] \in {"online", "offline"}
      /\ \A d \in Client : e \notin got[d]
      /\ after' = [after EXCEPT ![e] = Seen(got[c])]
      /\ got' = [got EXCEPT ![c] = @ \cup {e}]
      /\ UNCHANGED <<mode, link, synced, initial, down, document, frames, saves, note>>
  BY DEF Type
<1>2. /\ mode[c] = "online" /\ upset = {} /\ Seen(got[c]) # {}
      /\ EmitTo(c, Update({e}, {Text(got[c]) \cup {e}}))
  BY DEF Type, UpsetIf
<1>3. CalmParts
  BY <1>2 DEF CalmInv
<1>4. /\ KnownInv /\ StartInv /\ LineInv /\ CausalInv /\ LastInv /\ GoneInv /\ TextInv /\ BlankInv
      /\ ClientOK /\ QueuesOK
  BY <1>3, NoteParts DEF CalmParts, NoteInv
<1>5. \A d \in Client : Home(d) \in Session /\ Home(d)[1] = d /\ down[Home(d)] \in Seq(DownMessage)
  BY <1>2, CalmFacts
<1>6. /\ e \in Op /\ e \notin Known /\ \A d \in Client : e # Seed(d)
      /\ got[c] # {} /\ ~Joining(up[Home(c)])
      /\ UNCHANGED <<mode, initial, log, frames, saves, note, down>>
  <2>1. e \notin Known
    BY <1>1 DEF Known
  <2>2. got[c] # {}
    BY <1>2 DEF Seen
  <2>3. ~Joining(up[Home(c)])
    BY <1>4, <2>2 DEF StartInv
  <2> QED
    BY <1>1, <2>1, <2>2, <2>3, SeedOps DEF document
<1>7. /\ got'[c] = got[c] \cup {e} /\ \A d \in Client \ {c} : got'[d] = got[d]
      /\ after'[e] = got[c] /\ \A u \in Op \ {e} : after'[u] = after[u]
  <2>1. Seen(got[c]) = got[c]
    BY <1>4, ClosedFacts DEF CausalInv
  <2> QED
    BY <1>1, <1>4, <1>6, <2>1 DEF ClientOK
<1>8. /\ \A s \in Session : Sum(Line(s)) \subseteq Known /\ Fit(Line(s))
      /\ got[c] \subseteq log \cup Sum(Line(Home(c))) /\ Live = log \cup UNION {Sum(Line(s)) : s \in Session}
  BY <1>2, <1>4, <1>6, CalmLines
<1>9. /\ log \subseteq Known /\ \A d \in Client : got[d] \subseteq Known /\ Carried(down[Home(d)]) \subseteq Known
      /\ Known \subseteq Op
  BY <1>4 DEF KnownInv, Known, ClientOK
<1>10. \A u \in Known : after'[u] = after[u]
  BY <1>6, <1>7, <1>9
<1>11. Known' = Known \cup {e} /\ AllOf(got') = AllOf(got) \cup {e}
  <2>1. \A x : x \in Known' <=> \E d \in Client : x \in got'[d]
    BY DEF Known
  <2>2. \A x : x \in Known <=> \E d \in Client : x \in got[d]
    BY DEF Known
  <2>3. \A x : x \in Known' <=> x \in Known \/ x = e
    BY <1>7, <2>1, <2>2
  <2>4. Known' = Known \cup {e}
    BY <2>3
  <2>5. AllOf(got') = {Stored} \cup (Edit \cap Known') /\ AllOf(got) = {Stored} \cup (Edit \cap Known)
    BY DEF AllOf, Known
  <2> QED
    BY <2>4, <2>5
<1>12. \A S : Words(S \cup {e}, initial) = Words(S, initial) \cup {e}
  <2>1. ASSUME NEW S PROVE {d \in Client : Seed(d) \in S \cup {e}} = {d \in Client : Seed(d) \in S}
    BY <1>6
  <2> QED
    BY <2>1 DEF Words
<1>13. Live # {}
  <2>1. Sum(Line(Home(c))) \subseteq Live /\ log \subseteq Live
    BY <1>5, <1>8
  <2> QED
    BY <1>6, <1>8, <2>1
<1>14. \A s \in Session : Chain(Line(s), log, after')
  <2>1. ASSUME NEW s \in Session PROVE Chain(Line(s), log, after')
    <3>1. Chain(Line(s), log, after)
      BY <1>4 DEF CausalInv
    <3>2. \A u \in log \cup Sum(Line(s)) : after'[u] = after[u]
      BY <1>8, <1>9, <1>10
    <3> QED
      BY <3>1, <3>2, ChainFacts
  <2> QED
    BY <2>1
<1>15. ClosedIn(log \cup Sum(Line(Home(c))) \cup {e}, after')
  <2>1. ClosedIn(log, after) /\ Chain(Line(Home(c)), log, after) /\ Fit(Line(Home(c)))
    BY <1>4, <1>5, <1>8 DEF CausalInv
  <2>2. ClosedIn(log \cup Sum(Line(Home(c))), after)
    BY <2>1, ChainFacts
  <2>3. \A u \in log \cup Sum(Line(Home(c))) : after'[u] = after[u]
    BY <1>5, <1>8, <1>9, <1>10
  <2> QED
    BY <1>7, <1>8, <2>2, <2>3 DEF ClosedIn
<1>16. /\ LineInv' /\ LastInv' /\ GoneInv' /\ SavedInv'
       /\ \A s \in Session : Chain(Line(s), log, after)'
       /\ Live' = Live \cup {e}
       /\ \A d \in Client : Joining(up'[Home(d)]) <=> Joining(up[Home(d)])
  <2> DEFINE t == Text(got[c]) \cup {e}
  <2>1. t \in SUBSET TextPiece /\ {e} \in SUBSET Op /\ {e} # {}
    <3>1. Text(got[c]) \subseteq TextPiece
      BY <1>4, TextType
    <3> QED
      BY <1>6, <3>1 DEF TextPiece
  <2>2. t = Words(got'[c], initial)
    <3>1. Text(got[c]) = Words(got[c], initial)
      BY <1>4, ClosedFacts DEF CausalInv
    <3> QED
      BY <1>7, <1>12, <3>1
  <2>3. \A s \in Session : e \notin Sum(Line(s))
    BY <1>6, <1>8
  <2>4. {e} \cap Sum(Line(Home(c))) = {}
    BY <1>5, <2>3
  <2>5. \A d \in Client \ {c} : Line(Home(d)) # {} =>
            (got[c] \cap Sum(Line(Home(d))) = {} /\ log \cap Sum(Line(Home(d))) = {}
                => got'[c] \cap Sum(Line(Home(d))) = {})
    BY <1>5, <1>7, <2>3
  <2>6. EmitTo(c, Update({e}, {t}))
    BY <1>2
  <2> HIDE DEF t
  <2> QED
    BY <1>2, <1>3, <1>6, <1>7, <1>14, <1>15, <2>1, <2>2, <2>4, <2>5, <2>6, SentCalm
<1>17. KnownInv'
  BY <1>4, <1>6, <1>7, <1>9, <1>11, SeedOps DEF KnownInv
<1>18. StartInv'
  BY <1>4, <1>6, <1>7, <1>16 DEF StartInv
<1>19. CausalInv'
  <2>1. ClosedIn(log, after)'
    BY <1>4, <1>6, <1>9, <1>10, ClosedFacts DEF CausalInv
  <2>2. ASSUME NEW d \in Client
        PROVE  /\ ClosedIn(got[d], after')
               /\ mode[d] = "online" => DownChain(down[Home(d)], got[d], after')
    <3>1. ClosedIn(got[d], after')
      BY <1>4, <1>9, <1>10, ClosedFacts DEF CausalInv
    <3>2. ASSUME mode[d] = "online" PROVE DownChain(down[Home(d)], got[d], after')
      <4>1. DownChain(down[Home(d)], got[d], after)
        BY <1>4, <3>2 DEF CausalInv
      <4>2. \A u \in got[d] \cup Carried(down[Home(d)]) : after'[u] = after[u]
        BY <1>9, <1>10
      <4> QED
        BY <1>5, <4>1, <4>2, DownFacts
    <3> QED
      BY <3>1, <3>2
  <2>3. ClosedIn(got'[c], after')
    BY <1>7, <2>2 DEF ClosedIn
  <2>4. DownChain(down[Home(c)], got'[c], after')
    BY <1>2, <1>5, <1>7, <2>2, <2>3, DownFacts
  <2>5. \A d \in Client : /\ ClosedIn(got[d], after)'
                          /\ mode'[d] = "online" => DownChain(down[Home(d)], got[d], after)'
    BY <1>6, <1>7, <2>2, <2>3, <2>4
  <2> QED
    BY <1>16, <2>1, <2>5 DEF CausalInv
<1>20. TextInv'
  BY <1>4, <1>6, <1>11, <1>12, <1>13, <1>16 DEF TextInv
<1>21. BlankInv'
  BY <1>4, <1>6, <1>13 DEF BlankInv
<1> QED
  BY <1>16, <1>17, <1>18, <1>19, <1>20, <1>21 DEF CalmParts

\* An empty document is filled: nobody has anything, and the note is all there is.
LEMMA FillCalm ==
    ASSUME NoteInv, CalmInv, NEW c \in Client, upset' = {}, mode[c] = "online", down[Home(c)] # <<>>,
           down[Home(c)][1].kind = "state", down[Home(c)][1].alone, down[Home(c)][1].ops = {},
           Fills(c), Taken(c), UNCHANGED <<mode, link, initial, after, document, frames, saves, note>>
    PROVE  CalmParts'
<1>1. /\ got' = [got EXCEPT ![c] = @ \cup {Seed(c)}]
      /\ EmitTo(c, Update({Seed(c)}, {Text(got[c] \cup {Seed(c)})}))
      /\ upset = {} /\ note = initial[c] /\ saves = <<>>
  BY DEF Fills, UpsetIf
<1>2. /\ KnownInv /\ StartInv /\ LineInv /\ CausalInv /\ LastInv /\ GoneInv /\ TextInv /\ BlankInv /\ SavedInv
      /\ ClientOK /\ QueuesOK /\ CalmParts
  BY <1>1, NoteParts DEF CalmInv, CalmParts, NoteInv
<1>3. /\ \A d \in Client : Home(d) \in Session /\ SessionOf(d) = Home(d) /\ Home(d)[1] = d /\ down[Home(d)] \in Seq(DownMessage)
      /\ \A a, d \in Client : /\ mode[a] = "online" /\ MayIn(down[Home(a)])
                              /\ mode[d] = "online" /\ MayIn(down[Home(d)])
                              => a = d
  BY <1>1, CalmFacts
<1> DEFINE q == down[Home(c)]
<1>4. /\ \A S, aft : DownChain(q, S, aft) => DownChain(Tail(q), S \cup q[1].ops, aft)
      /\ \A k \in 1 .. Len(Tail(q)) : k + 1 \in 1 .. Len(q) /\ Tail(q)[k] = q[k + 1]
      /\ 1 \in 1 .. Len(q)
  BY <1>3, DownTail
<1>5. MayIn(q) /\ got[c] = {} /\ ~Joining(up[Home(c)])
  <2>1. MayIn(q)
    BY <1>4 DEF MayIn
  <2>2. got[c] = {}
    BY <1>2, <1>4 DEF StartInv
  <2>3. ~Joining(up[Home(c)])
    BY <1>1, <1>2, CalmLines
  <2> QED
    BY <2>1, <2>2, <2>3
<1>6. /\ Live = {} /\ ~Pending /\ log = {} /\ \A s \in Session : Line(s) = {} /\ Sum(Line(s)) = {}
  <2>1. Live = {}
    BY <1>2, <1>5 DEF BlankInv
  <2>2. ~Pending /\ Live = log \cup UNION {Sum(Line(s)) : s \in Session}
    BY <1>1, <1>2, <2>1, CalmLines
  <2>3. log = {}
    BY <2>1, <2>2
  <2> QED
    BY <2>1, <2>2, <2>3, SumParts DEF Pending
<1>7. \A d \in Client : mode[d] = "online" => got[d] = {} /\ Ops(down[Home(d)]) = {}
  <2>1. ASSUME NEW d \in Client, mode[d] = "online" PROVE got[d] = {} /\ Ops(down[Home(d)]) = {}
    <3>1. CASE Joining(up[Home(d)])
      BY <1>1, <1>2, <3>1, CalmLines, NothingIn
    <3>2. CASE ~Joining(up[Home(d)])
      <4>1. Carried(down[Home(d)]) \subseteq log /\ got[d] \subseteq log \cup Sum(Line(Home(d)))
        BY <1>1, <1>2, <2>1, <3>2, CalmLines
      <4>2. Ops(down[Home(d)]) \subseteq Carried(down[Home(d)])
        BY DEF Ops, Carried
      <4> QED
        BY <1>3, <1>6, <4>1, <4>2
    <3> QED
      BY <3>1, <3>2
  <2> QED
    BY <2>1
<1>8. note = AllOf(got)
  <2>1. LatestIs(frames, saves, note, AllOf(got))
    BY <1>2, <1>6, <1>7 DEF SavedInv, EchoIn
  <2>2. \A f \in frames : f.at # "save"
    BY <1>2, <1>6 DEF LineInv
  <2> QED
    BY <1>1, <2>1, <2>2 DEF LatestIs
<1>9. /\ got'[c] = {Seed(c)} /\ \A d \in Client \ {c} : got'[d] = got[d]
      /\ down'[Home(c)] = Tail(q) /\ \A d \in Client \ {c} : down'[Home(d)] = down[Home(d)]
      /\ UNCHANGED <<mode, initial, after, log, frames, saves, note>>
  <2>1. \A d \in Client \ {c} : Home(d) # Home(c)
    BY <1>3
  <2> QED
    BY <1>1, <1>2, <1>3, <1>5, <2>1 DEF Taken, document, ClientOK, QueuesOK
<1> HIDE DEF q
<1>10. Known' = Known \cup {Seed(c)} /\ AllOf(got') = AllOf(got)
  <2>1. \A x : x \in Known' <=> \E d \in Client : x \in got'[d]
    BY DEF Known
  <2>2. \A x : x \in Known <=> \E d \in Client : x \in got[d]
    BY DEF Known
  <2>3. \A x : x \in Known' <=> x \in Known \/ x = Seed(c)
    BY <1>5, <1>9, <2>1, <2>2
  <2>4. Known' = Known \cup {Seed(c)}
    BY <2>3
  <2>5. AllOf(got') = {Stored} \cup (Edit \cap Known') /\ AllOf(got) = {Stored} \cup (Edit \cap Known)
    BY DEF AllOf, Known
  <2> QED
    BY <2>4, <2>5, SeedOps
<1>11. Words({Seed(c)}, initial) = initial[c] /\ after[Seed(c)] = {} /\ ClosedIn({Seed(c)}, after)
  <2>1. {d \in Client : Seed(d) \in {Seed(c)}} = {c} /\ {Seed(c)} \cap Edit = {}
    BY SeedOps
  <2>2. Words({Seed(c)}, initial) = initial[c]
    BY <2>1 DEF Words
  <2>3. after[Seed(c)] = {}
    BY <1>2 DEF KnownInv
  <2> QED
    BY <2>2, <2>3 DEF ClosedIn
<1> DEFINE t == Text(got[c] \cup {Seed(c)})
<1>12. t \in SUBSET TextPiece /\ t = Words(got'[c], initial) /\ EmitTo(c, Update({Seed(c)}, {t}))
  <2>1. t \in SUBSET TextPiece
    BY <1>2, TextType
  <2>2. got[c] \cup {Seed(c)} = {Seed(c)}
    BY <1>5
  <2>3. Text({Seed(c)}) = Words({Seed(c)}, initial)
    BY <1>11, ClosedFacts
  <2> QED
    BY <1>1, <1>9, <2>1, <2>2, <2>3
<1> HIDE DEF t
<1>13. /\ LineInv' /\ LastInv' /\ GoneInv' /\ SavedInv'
       /\ \A s \in Session : Chain(Line(s), log, after)'
       /\ Live' = Live \cup {Seed(c)}
       /\ \A d \in Client : Joining(up'[Home(d)]) <=> Joining(up[Home(d)])
  <2>1. {Seed(c)} \in SUBSET Op /\ {Seed(c)} # {} /\ {Seed(c)} \cap Sum(Line(Home(c))) = {}
    BY <1>3, <1>6, SeedOps
  <2>2. \A s \in Session : Chain(Line(s), log, after')
    BY <1>6 DEF Chain
  <2>3. ClosedIn(log \cup Sum(Line(Home(c))) \cup {Seed(c)}, after')
    BY <1>3, <1>6, <1>9, <1>11
  <2>4. \A d \in Client : Line(Home(d)) = {}
    BY <1>3, <1>6
  <2> QED
    BY <1>1, <1>2, <1>5, <1>9, <1>12, <2>1, <2>2, <2>3, <2>4, SentCalm
<1>14. \A k \in 1 .. Len(Tail(q)) : Tail(q)[k].kind # "state"
  <2>1. ASSUME NEW k \in 1 .. Len(Tail(q)) PROVE Tail(q)[k].kind # "state"
    <3>1. k + 1 \in 1 .. Len(q) /\ Tail(q)[k] = q[k + 1] /\ k + 1 # 1
      BY <1>4, <2>1
    <3> QED
      BY <1>2, <3>1 DEF StartInv, q
  <2> QED
    BY <2>1
<1>15. KnownInv'
  <2>1. Carried(Tail(q)) \subseteq Carried(q)
    BY <1>3, TailQueue DEF q
  <2>2. \A d \in Client : Carried(down'[Home(d)]) \subseteq Known
    BY <1>2, <1>9, <2>1 DEF KnownInv, q
  <2>3. \A d \in Client : Seed(d) \in Known' => mode[d] # "closed"
    BY <1>2, <1>10, SeedOps DEF KnownInv
  <2> QED
    BY <1>2, <1>9, <1>10, <2>2, <2>3 DEF KnownInv
<1>16. StartInv'
  <2>1. ASSUME NEW d \in Client
        PROVE  /\ Joining(up'[Home(d)]) => got'[d] = {}
               /\ \A k \in 1 .. Len(down'[Home(d)]) : down'[Home(d)][k].kind = "state" => k = 1 /\ got'[d] = {}
    <3>1. CASE d = c
      <4>1. ~Joining(up'[Home(d)])
        BY <1>5, <1>13, <3>1
      <4> QED
        BY <1>9, <1>14, <3>1, <4>1
    <3>2. CASE d # c
      BY <1>2, <1>9, <1>13, <3>2 DEF StartInv
    <3> QED
      BY <3>1, <3>2
  <2> QED
    BY <2>1 DEF StartInv
<1>17. CausalInv'
  <2>1. DownChain(q, {}, after)
    BY <1>2, <1>5 DEF CausalInv, q
  <2>2. q[1].ops = {} /\ {} \cup {} = {}
    BY DEF q
  <2>3. DownChain(Tail(q), {}, after)
    BY <1>4, <2>1, <2>2
  <2>4. Tail(q) \in Seq(DownMessage)
    BY <1>3, TailQueue DEF q
  <2>5. DownChain(Tail(q), {Seed(c)}, after)
    BY <1>11, <2>3, <2>4, DownFacts
  <2>6. \A d \in Client : /\ ClosedIn(got[d], after)'
                          /\ mode'[d] = "online" => DownChain(down[Home(d)], got[d], after)'
    BY <1>2, <1>9, <1>11, <2>5 DEF CausalInv
  <2> QED
    BY <1>2, <1>9, <1>13, <2>6 DEF CausalInv
<1>18. TextInv'
  BY <1>1, <1>6, <1>8, <1>9, <1>10, <1>11, <1>13 DEF TextInv
<1>19. BlankInv'
  <2>1. ~MayIn(Tail(q))
    BY <1>14 DEF MayIn
  <2>2. ASSUME NEW d \in Client, mode'[d] = "online", MayIn(down'[Home(d)]) PROVE FALSE
    <3>1. d # c
      BY <1>9, <2>1, <2>2
    <3>2. mode[d] = "online" /\ MayIn(down[Home(d)])
      BY <1>9, <2>2, <3>1
    <3> QED
      BY <1>3, <1>5, <3>1, <3>2 DEF q
  <2> QED
    BY <2>2 DEF BlankInv
<1> QED
  BY <1>13, <1>15, <1>16, <1>17, <1>18, <1>19 DEF CalmParts

\* What an update of others makes visible is sent once more, with all that the editor shows.
LEMMA EchoCalm ==
    ASSUME NoteInv, upset = {}, CalmParts, NEW c \in Client, Takes(c), down[Home(c)][1].kind = "update",
           NEW ops, ops = down[Home(c)][1].ops \ got[c], ops # {}, EmitTo(c, Update(ops, {Text(got'[c])}))
    PROVE  CalmParts'
<1>1. /\ mode[c] = "online" /\ down[Home(c)] # <<>>
      /\ UNCHANGED <<mode, initial, after, log, frames, saves, note>>
      /\ got'[c] = got[c] \cup down[Home(c)][1].ops /\ \A d \in Client \ {c} : got'[d] = got[d]
  BY DEF Takes
<1>2. /\ KnownInv /\ StartInv /\ LineInv /\ CausalInv /\ LastInv /\ GoneInv /\ TextInv /\ BlankInv /\ SavedInv
      /\ ClientOK /\ QueuesOK /\ log \subseteq Op
  BY NoteParts DEF CalmParts, NoteInv, DocumentOK
<1>3. /\ KnownInv' /\ StartInv' /\ Known' = Known /\ AllOf(got') = AllOf(got)
      /\ down[Home(c)][1].ops \subseteq log /\ ~Joining(up[Home(c)])
      /\ ClosedIn(log, after)'
      /\ \A d \in Client : /\ ClosedIn(got[d], after)'
                           /\ mode'[d] = "online" => DownChain(down[Home(d)], got[d], after)'
      /\ \A d \in Client : MayIn(down'[Home(d)]) => MayIn(down[Home(d)])
      /\ \A S : S \cap log = {} /\ got[c] \cap S = {} => got'[c] \cap S = {}
  BY TakesKeep
<1>4. \A d \in Client : Home(d) \in Session /\ Home(d)[1] = d
  BY CalmFacts
<1>5. /\ ops \subseteq log /\ ops \in SUBSET Op
      /\ Sum(Line(Home(c))) \subseteq got[c] /\ ops \cap Sum(Line(Home(c))) = {}
      /\ log \subseteq Live
  <2>1. Sum(Line(Home(c))) \subseteq got[Home(c)[1]] /\ Live = log \cup UNION {Sum(Line(s)) : s \in Session}
    BY <1>2, <1>4, CalmLines
  <2> QED
    BY <1>2, <1>3, <1>4, <2>1
<1> DEFINE t == Text(got'[c])
<1>6. t \in SUBSET TextPiece /\ t = Words(got'[c], initial)
  <2>1. ClosedIn(got'[c], after)
    BY <1>1, <1>3
  <2> QED
    BY <1>2, <2>1, TextType, ClosedFacts
<1>7. EmitTo(c, Update(ops, {t}))
  OBVIOUS
<1> HIDE DEF t
<1>8. \A s \in Session : Chain(Line(s), log, after')
  BY <1>1, <1>2 DEF CausalInv
<1>9. ClosedIn(log \cup Sum(Line(Home(c))) \cup ops, after')
  <2>1. ClosedIn(log, after') /\ Chain(Line(Home(c)), log, after') /\ Fit(Line(Home(c)))
    BY <1>1, <1>2, <1>4, <1>8 DEF LineInv, CausalInv
  <2>2. ClosedIn(log \cup Sum(Line(Home(c))), after')
    BY <2>1, ChainFacts
  <2>3. log \cup Sum(Line(Home(c))) \cup ops = log \cup Sum(Line(Home(c)))
    BY <1>5
  <2> QED
    BY <2>2, <2>3
<1>10. /\ LineInv' /\ LastInv' /\ GoneInv' /\ SavedInv'
       /\ \A s \in Session : Chain(Line(s), log, after)'
       /\ Live' = Live \cup ops
  <2>1. \A d \in Client \ {c} : Line(Home(d)) # {} =>
            (got[c] \cap Sum(Line(Home(d))) = {} /\ log \cap Sum(Line(Home(d))) = {}
                => got'[c] \cap Sum(Line(Home(d))) = {})
    BY <1>3
  <2>2. ~Joining(up[Home(c)])
    BY <1>3
  <2> QED
    BY <1>1, <1>5, <1>6, <1>7, <1>8, <1>9, <2>1, <2>2, SentCalm
<1>11. Live' = Live
  BY <1>5, <1>10
<1>12. CausalInv'
  BY <1>3, <1>10 DEF CausalInv
<1>13. TextInv'
  BY <1>1, <1>2, <1>3, <1>11 DEF TextInv
<1>14. BlankInv'
  BY <1>1, <1>2, <1>3, <1>11 DEF BlankInv
<1> QED
  BY <1>3, <1>10, <1>12, <1>13, <1>14 DEF CalmParts

\* A message from the server: state, or update of others.
LEMMA ArriveCalm ==
    ASSUME NoteInv, CalmInv, NEW c \in Client, StateArrives(c) \/ UpdateArrives(c), upset' = {}
    PROVE  CalmParts'
<1> DEFINE q == down[Home(c)]
<1>1. upset = {} /\ CalmParts
  <2>1. upset \subseteq upset'
    BY EditCases DEF NoteInv, EditStep
  <2> QED
    BY <2>1 DEF CalmInv
<1>2. /\ \A d \in Client : Home(d) \in Session /\ SessionOf(d) = Home(d) /\ Home(d)[1] = d
      /\ q \in Seq(DownMessage)
      /\ StartInv /\ CausalInv /\ ClientOK /\ QueuesOK
  BY <1>1, CalmFacts, NoteParts DEF NoteInv, CalmParts
<1>3. mode[c] = "online" /\ q # <<>> /\ Taken(c) /\ Message(c) = q[1]
      /\ UNCHANGED <<mode, link, initial, after, document, frames, saves, note>>
  <2>1. mode[c] = "online" /\ q # <<>> /\ Taken(c) /\ Message(c) = Head(q)
        /\ UNCHANGED <<mode, link, initial, after, document, frames, saves, note>>
    BY <1>2 DEF StateArrives, UpdateArrives, Arrives, Message
  <2> QED
    BY <1>2, <2>1, TailQueue
<1>4. down'[Home(c)] = Tail(q) /\ \A d \in Client \ {c} : down'[Home(d)] = down[Home(d)]
  <2>1. \A d \in Client \ {c} : Home(d) # Home(c)
    BY <1>2
  <2> QED
    BY <1>2, <1>3, <2>1 DEF Taken, QueuesOK
<1>5. ASSUME got' = [got EXCEPT ![c] = @ \cup q[1].ops],
             \A d \in Client : Joining(up'[Home(d)]) <=> Joining(up[Home(d)])
      PROVE  Takes(c)
  <2>1. got'[c] = got[c] \cup q[1].ops /\ \A d \in Client \ {c} : got'[d] = got[d]
    BY <1>2, <1>5 DEF ClientOK
  <2> QED
    BY <1>3, <1>4, <1>5, <2>1 DEF Takes, document
<1>6. ASSUME StateArrives(c) PROVE CalmParts'
  <2>1. q[1].kind = "state"
    BY <1>2, <1>3, <1>6 DEF StateArrives, Arrives, Message
  <2>2. got[c] = {}
    <3>1. 1 \in 1 .. Len(q)
      BY <1>2, <1>3, DownTail
    <3> QED
      BY <1>2, <2>1, <3>1 DEF StartInv
  <2>3. Seen(got[c]) = {}
    BY <2>2 DEF Seen
  <2>4. CASE q[1].ops # {}
    <3>1. got' = [got EXCEPT ![c] = @ \cup q[1].ops] /\ UNCHANGED up
      BY <1>3, <1>6, <2>4 DEF StateArrives
    <3> QED
      BY <1>1, <1>5, <2>1, <3>1, TakeCalm
  <2>5. CASE q[1].ops = {} /\ UNCHANGED <<got, up>>
    <3>1. got' = [got EXCEPT ![c] = @ \cup q[1].ops]
      BY <1>2, <2>5 DEF ClientOK
    <3> QED
      BY <1>1, <1>5, <2>1, <2>5, <3>1, TakeCalm
  <2>6. CASE q[1].ops = {} /\ q[1].alone /\ Fills(c)
    BY <1>3, <2>1, <2>6, FillCalm
  <2> QED
    BY <1>3, <1>6, <2>3, <2>4, <2>5, <2>6 DEF StateArrives
<1>7. ASSUME UpdateArrives(c) PROVE CalmParts'
  <2> DEFINE now == got[c] \cup q[1].ops
             new == q[1].ops \ got[c]
  <2>1. q[1].kind = "update"
    BY <1>2, <1>3, <1>7 DEF UpdateArrives, Arrives, Message
  <2>2. ClosedIn(got[c], after) /\ ClosedIn(now, after)
    <3>1. DownChain(q, got[c], after) /\ ClosedIn(got[c], after)
      BY <1>2, <1>3 DEF CausalInv
    <3> QED
      BY <1>2, <1>3, <3>1, DownTail
  <2>3. Seen(now) \ Seen(got[c]) = new
    <3>1. Seen(now) = now /\ Seen(got[c]) = got[c]
      BY <2>2, ClosedFacts
    <3> QED
      BY <3>1
  <2>4. got' = [got EXCEPT ![c] = now] /\ got'[c] = now
    BY <1>2, <1>3, <1>7 DEF UpdateArrives, ClientOK
  <2>5. IF new # {} THEN EmitTo(c, Update(new, {Text(now)})) ELSE UNCHANGED up
    BY <1>3, <1>7, <2>3 DEF UpdateArrives
  <2>6. CASE new = {}
    <3>1. UNCHANGED up /\ q[1].ops \subseteq got[c]
      BY <2>5, <2>6
    <3>2. Takes(c)
      BY <1>5, <2>4, <3>1
    <3> QED
      BY <1>1, <3>1, <3>2, TakeCalm
  <2>7. CASE new # {}
    <3>1. EmitTo(c, Update(new, {Text(got'[c])}))
      BY <2>4, <2>5, <2>7
    <3>2. \A d \in Client : Joining(up'[Home(d)]) <=> Joining(up[Home(d)])
      <4> DEFINE m == Update(new, {Text(got'[c])})
      <4>1. m \in UpMessage /\ m.kind = "update"
        <5>1. new \in SUBSET Op
          <6>1. q[1] \in DownMessage
            BY <1>2, <1>3, TailQueue
          <6> QED
            BY <6>1, UpMessages
        <5>2. {Text(got'[c])} \in SUBSET SUBSET TextPiece
          <6>1. Text(now) \subseteq TextPiece
            BY <1>2, TextType
          <6> QED
            BY <2>4, <6>1
        <5>3. m \in UpMessage
          BY <5>1, <5>2, UpMessages
        <5> QED
          BY <5>3 DEF Update
      <4>2. up' = [up EXCEPT ![Home(c)] = Append(@, m)]
        BY <1>2, <3>1 DEF EmitTo
      <4> HIDE DEF m
      <4>3. Joining(Append(up[Home(c)], m)) <=> Joining(up[Home(c)])
        BY <1>2, <4>1, AppendQueue DEF QueuesOK
      <4>4. \A s \in Session : up'[s] = IF s = Home(c) THEN Append(up[s], m) ELSE up[s]
        BY <1>2, <4>2 DEF QueuesOK
      <4> QED
        BY <1>2, <4>3, <4>4
    <3>3. Takes(c)
      BY <1>5, <2>4, <3>2
    <3> QED
      BY <1>1, <2>1, <2>7, <3>1, <3>3, EchoCalm
  <2> QED
    BY <2>6, <2>7
<1> QED
  BY <1>6, <1>7

\* Nobody has the note open.
LEMMA CalmInit == NoteInit => CalmInv
<1> SUFFICES ASSUME NoteInit PROVE CalmParts
  BY DEF CalmInv
<1>1. /\ mode = [c \in Client |-> "closed"] /\ got = [c \in Client |-> {}]
      /\ after = [u \in Op |-> {}] /\ up = [s \in Session |-> <<>>] /\ down = [s \in Session |-> <<>>]
      /\ log = {} /\ frames = {} /\ saves = <<>>
      /\ note = {Stored} /\ upset = {}
  BY DEF NoteInit
<1>2. NoteInv
  BY NoteInitInv
<1>3. \A c \in Client : /\ Home(c) \in Session /\ Home(c)[1] = c
                        /\ mode[c] = "closed" /\ got[c] = {} /\ after[Seed(c)] = {}
                        /\ up[Home(c)] = <<>> /\ down[Home(c)] = <<>>
  BY <1>1, <1>2, CalmFacts, SeedOps
<1>4. Len(<<>>) = 0 /\ Known = {}
  BY <1>3, EmptySeq DEF Known
<1>5. \A s \in Session : Line(s) = {} /\ Sum(Line(s)) = {} /\ Fit(Line(s))
  <2>1. Places(<<>>) = {}
    BY <1>4 DEF Places
  <2>2. LineUp(<<>>) = {}
    BY <2>1 DEF LineUp
  <2>3. \A s \in Session : LineUp(up[s]) = {} /\ LineAt(s, frames) = {}
    BY <1>1, <2>2 DEF LineAt
  <2>4. \A s \in Session : Line(s) = {}
    BY <2>3 DEF Line, LineOf
  <2> QED
    BY <2>4, SumParts DEF Fit
<1>6. Live = {}
  <2>1. Live = log \cup UNION {Sum(Line(s)) : s \in Session}
    BY DEF Live, LiveOf, Line
  <2> QED
    BY <1>1, <1>5, <2>1
<1>7. KnownInv
  BY <1>1, <1>3, <1>4, NothingIn DEF KnownInv
<1>8. StartInv
  BY <1>3, <1>4 DEF StartInv
<1>9. LineInv
  BY <1>1, <1>4, <1>5 DEF LineInv
<1>10. CausalInv
  BY <1>1, <1>3, <1>5, ClosedFacts DEF CausalInv, Chain
<1>11. LastInv /\ GoneInv /\ TextInv /\ BlankInv
  BY <1>3, <1>5, <1>6 DEF LastInv, GoneInv, TextInv, BlankInv
<1>12. SavedInv
  <2>1. AllOf(got) = {Stored}
    BY <1>4 DEF AllOf, Known
  <2> QED
    BY <1>1, <2>1 DEF SavedInv, LatestIs
<1> QED
  BY <1>7, <1>8, <1>9, <1>10, <1>11, <1>12 DEF CalmParts

\* Every step without an upset keeps the invariant.
LEMMA CalmStep == NoteInv /\ CalmInv /\ [NoteNext]_noteVars => CalmInv'
<1> SUFFICES ASSUME NoteInv, CalmInv, [NoteNext]_noteVars, upset' = {} PROVE CalmParts'
  BY DEF CalmInv
<1>1. ASSUME NEW c \in Client, Mount(c) PROVE CalmParts'
  BY <1>1, MountCalm
<1>2. ASSUME NEW c \in Client, NEW e \in Edit, Type(c, e) PROVE CalmParts'
  BY <1>2, TypeCalm
<1>3. ASSUME NEW c \in Client, StateArrives(c) \/ UpdateArrives(c) PROVE CalmParts'
  BY <1>3, ArriveCalm
<1>4. ASSUME NEW c \in Client, Leave(c) \/ Drop(c) PROVE CalmParts'
  BY <1>4, GoCalm
<1>5. ASSUME NEW c \in Client, Reconnect(c) PROVE CalmParts'
  BY <1>5 DEF Reconnect, UpsetIf
<1>6. ASSUME NEW s \in Session, HandleJoin(s) PROVE CalmParts'
  BY <1>6, JoinServerKeep, ServerKeepCalm DEF CalmInv
<1>7. ASSUME NEW s \in Session, HandleLeave(s) \/ HandleDisconnect(s) PROVE CalmParts'
  BY <1>7, ExitServerKeep, ServerKeepCalm DEF CalmInv
<1>8. ASSUME NEW s \in Session, HandleUpdate(s) PROVE CalmParts'
  <2>1. upset = {} /\ CalmParts /\ (ServerKeep \/ \E p : Publishes(s, p))
    BY <1>8, UpdatePublishes DEF CalmInv
  <2> QED
    BY <2>1, ServerKeepCalm, PublishCalm
<1>9. ASSUME NEW f \in frames, ResumeUpdate(f) PROVE CalmParts'
  <2>1. upset = {} /\ CalmParts /\ (ServerKeep \/ \E a \in Session : \E p : Publishes(a, p))
    BY <1>9, ResumePublishes DEF CalmInv
  <2> QED
    BY <2>1, ServerKeepCalm, PublishCalm
<1>10. ASSUME NEW f \in frames, ResumeLeave(f) PROVE CalmParts'
  BY <1>10, ResumeLeaveServerKeep, ServerKeepCalm DEF CalmInv
<1>11. ASSUME Save PROVE CalmParts'
  BY <1>11, SaveServerKeep, ServerKeepCalm DEF CalmInv
<1>12. CASE UNCHANGED noteVars
  <2>1. UNCHANGED <<mode, initial, got, after, up, down, log, frames, saves, note, upset>>
    BY <1>12 DEF noteVars, client, document
  <2>2. upset = {} /\ CalmParts
    BY <2>1 DEF CalmInv
  <2>3. \A s \in Session : Line(s)' = Line(s)
    BY <2>1 DEF Line
  <2>4. ServerKeep
    BY <2>1, <2>2, <2>3 DEF ServerKeep, CalmParts, LineInv
  <2> QED
    BY <2>2, <2>4, ServerKeepCalm
<1> QED
  BY <1>1, <1>2, <1>3, <1>4, <1>5, <1>6, <1>7, <1>8, <1>9, <1>10, <1>11, <1>12 DEF NoteNext, Step

\* When nothing is under way the stored note has all the text that was typed, as long as
\* nothing happened that the design does not absorb: debounced_save stores the text of one
\* editor and stop_item_tasks cancels the save before it, and yet the last save is that of
\* an editor that had everything, however updates, echoes, joins and departures meet.
THEOREM EverythingIsSavedAlways == NoteSpec => []EverythingIsSaved
<1>1. NoteInv /\ CalmInv => EverythingIsSaved
  <2> SUFFICES ASSUME NoteInv, CalmInv, Without(Upsets), Quiet PROVE note = {Stored} \cup Typed
    BY DEF EverythingIsSaved
  <2>1. upset = {}
    BY NoteParts DEF NoteInv, DocumentOK, Without
  <2>2. SavedInv
    BY <2>1 DEF CalmInv, CalmParts
  <2>3. /\ \A s \in Session : up[s] = <<>> /\ down[s] = <<>>
        /\ frames = {} /\ saves = <<>>
    BY DEF Quiet
  <2>4. ~Pending
    <3>1. Places(<<>>) = {}
      <4>1. Len(<<>>) = 0
        BY EmptySeq
      <4> QED
        BY <4>1 DEF Places
    <3>2. LineUp(<<>>) = {}
      BY <3>1 DEF LineUp
    <3>3. \A s \in Session : Line(s) = {}
      BY <2>3, <3>2 DEF Line, LineOf, LineAt
    <3> QED
      BY <3>3 DEF Pending
  <2>5. \A c \in Client : ~EchoIn(down[Home(c)], got[c])
    <3>1. \A c \in Client : Home(c) \in Session
      BY <2>1, CalmFacts
    <3> QED
      BY <2>3, <3>1, NothingIn DEF EchoIn
  <2>6. note = AllOf(got)
    BY <2>2, <2>3, <2>4, <2>5 DEF SavedInv, LatestIs
  <2> QED
    BY <2>6 DEF AllOf, Typed
<1> QED
  BY <1>1, CalmInit, CalmStep, NoteInvAlways, PTL DEF NoteSpec

================================================================================
