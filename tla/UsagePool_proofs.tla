--------------------------- MODULE UsagePool_proofs ---------------------------
(***************************************************************************)
(* Proofs about UsagePool, for any processes, models, sessions and times.  *)
(* Types and non-empty entries hold for any set of cleaners; that the      *)
(* cleaner survives, that fresh usage stays listed and that stale usage is *)
(* swept need the one cleaner CleanupLock promises.                        *)
(***************************************************************************)
EXTENDS UsagePool, TLAPS

--------------------------------------------------------------------------------
(* Entries and pools are partial functions *)

LEMMA EntryDef ==
    ASSUME NEW e
    PROVE  e \in Entry <=> /\ e = [s \in DOMAIN e |-> e[s]]
                           /\ DOMAIN e \subseteq Session
                           /\ \A s \in DOMAIN e : e[s] \in Times
<1>1. ASSUME e \in Entry PROVE /\ e = [s \in DOMAIN e |-> e[s]]
                               /\ DOMAIN e \subseteq Session
                               /\ \A s \in DOMAIN e : e[s] \in Times
  <2>1. PICK S \in SUBSET Session : e \in [S -> Times]
    BY <1>1 DEF Entry
  <2> QED
    BY <2>1
<1>2. ASSUME /\ e = [s \in DOMAIN e |-> e[s]]
             /\ DOMAIN e \subseteq Session
             /\ \A s \in DOMAIN e : e[s] \in Times
      PROVE  e \in Entry
  <2>1. e \in [DOMAIN e -> Times] /\ DOMAIN e \in SUBSET Session
    BY <1>2
  <2> QED
    BY <2>1 DEF Entry
<1> QED
  BY <1>1, <1>2

LEMMA PoolDef ==
    ASSUME NEW p
    PROVE  p \in Pool <=> /\ p = [m \in DOMAIN p |-> p[m]]
                          /\ DOMAIN p \subseteq Model
                          /\ \A m \in DOMAIN p : p[m] \in Entry
<1>1. ASSUME p \in Pool PROVE /\ p = [m \in DOMAIN p |-> p[m]]
                              /\ DOMAIN p \subseteq Model
                              /\ \A m \in DOMAIN p : p[m] \in Entry
  <2>1. PICK M \in SUBSET Model : p \in [M -> Entry]
    BY <1>1 DEF Pool
  <2> QED
    BY <2>1
<1>2. ASSUME /\ p = [m \in DOMAIN p |-> p[m]]
             /\ DOMAIN p \subseteq Model
             /\ \A m \in DOMAIN p : p[m] \in Entry
      PROVE  p \in Pool
  <2>1. p \in [DOMAIN p -> Entry] /\ DOMAIN p \in SUBSET Model
    BY <1>2
  <2> QED
    BY <2>1 DEF Pool
<1> QED
  BY <1>1, <1>2

\* Storing under a key and deleting it: what they change, for dictionaries of any kind.
LEMMA PutDrop ==
    ASSUME NEW f, NEW k, NEW v
    PROVE  /\ DOMAIN Put(f, k, v) = DOMAIN f \cup {k}
           /\ Put(f, k, v)[k] = v
           /\ \A x \in DOMAIN f \ {k} : Put(f, k, v)[x] = f[x]
           /\ Put(f, k, v) = [x \in DOMAIN Put(f, k, v) |-> Put(f, k, v)[x]]
           /\ DOMAIN Drop(f, k) = DOMAIN f \ {k}
           /\ \A x \in DOMAIN f \ {k} : Drop(f, k)[x] = f[x]
           /\ Drop(f, k) = [x \in DOMAIN Drop(f, k) |-> Drop(f, k)[x]]
BY DEF Put, Drop, Restrict

LEMMA PutEntry ==
    ASSUME NEW e \in Entry, NEW s \in Session, NEW a \in Times
    PROVE  Put(e, s, a) \in Entry
<1> PICK n : n = Put(e, s, a)
  OBVIOUS
<1>1. /\ DOMAIN n = DOMAIN e \cup {s} /\ n[s] = a
      /\ \A x \in DOMAIN e \ {s} : n[x] = e[x]
      /\ n = [x \in DOMAIN n |-> n[x]]
  BY DEF Put
<1>2. DOMAIN e \subseteq Session /\ \A x \in DOMAIN e : e[x] \in Times
  BY EntryDef
<1>3. DOMAIN n \subseteq Session /\ \A x \in DOMAIN n : n[x] \in Times
  BY <1>1, <1>2
<1>4. n \in Entry
  BY <1>1, <1>3, EntryDef
<1> QED
  BY <1>4

LEMMA PutDropPool ==
    ASSUME NEW p \in Pool, NEW m \in Model, NEW e \in Entry
    PROVE  Put(p, m, e) \in Pool /\ Drop(p, m) \in Pool
<1> PICK n, d : n = Put(p, m, e) /\ d = Drop(p, m)
  OBVIOUS
<1>1. /\ DOMAIN n = DOMAIN p \cup {m} /\ n[m] = e
      /\ \A x \in DOMAIN p \ {m} : n[x] = p[x]
      /\ n = [x \in DOMAIN n |-> n[x]]
      /\ DOMAIN d = DOMAIN p \ {m}
      /\ \A x \in DOMAIN p \ {m} : d[x] = p[x]
      /\ d = [x \in DOMAIN d |-> d[x]]
  BY DEF Put, Drop, Restrict
<1>2. DOMAIN p \subseteq Model /\ \A x \in DOMAIN p : p[x] \in Entry
  BY PoolDef
<1>3. n \in Pool
  <2>1. DOMAIN n \subseteq Model /\ \A x \in DOMAIN n : n[x] \in Entry
    BY <1>1, <1>2
  <2> QED
    BY <1>1, <2>1, PoolDef
<1>4. d \in Pool
  BY <1>1, <1>2, PoolDef
<1> QED
  BY <1>3, <1>4

\* The clean-up keeps exactly what has not timed out.
LEMMA UnexpiredEntry ==
    ASSUME NEW e \in Entry, NEW t \in Times
    PROVE  /\ Unexpired(e, t) \in Entry
           /\ DOMAIN Unexpired(e, t) = {s \in DOMAIN e : t - e[s] <= Timeout}
           /\ \A s \in DOMAIN Unexpired(e, t) : Unexpired(e, t)[s] = e[s]
<1> PICK n : n = Unexpired(e, t)
  OBVIOUS
<1>1. /\ DOMAIN n = {s \in DOMAIN e : t - e[s] <= Timeout}
      /\ \A s \in DOMAIN n : n[s] = e[s]
      /\ n = [s \in DOMAIN n |-> n[s]]
  BY DEF Unexpired, Restrict
<1>2. DOMAIN e \subseteq Session /\ \A x \in DOMAIN e : e[x] \in Times
  BY EntryDef
<1>3. n \in Entry
  BY <1>1, <1>2, EntryDef
<1> QED
  BY <1>1, <1>3

\* Times, and the entry without sessions.
LEMMA TimeFacts ==
    /\ Timeout \in Nat /\ Period \in Nat /\ Horizon \in Nat /\ 0 \in Times
    /\ \A a \in Times : a \in Nat /\ a <= Horizon
    /\ NoEntry \in Entry /\ DOMAIN NoEntry = {}
<1>1. NoEntry \in Entry
  <2>1. NoEntry \in [{} -> Times]
    BY DEF NoEntry
  <2> QED
    BY <2>1 DEF Entry
<1> QED
  BY <1>1, UsageTimeAssumption DEF Times, NoEntry

--------------------------------------------------------------------------------
(* Type correctness *)

LEMMA FrameFields ==
    ASSUME NEW f \in Frame
    PROVE  /\ f.op \in {"idle", "usage", "read", "store", "list", "clean"}
           /\ f = Idle <=> f.op = "idle"
           /\ f.op \in {"usage", "read", "store"} =>
                 f.sid \in Session /\ f.model \in Model /\ f.at \in Times
           /\ f.op = "store" => f.read \in Entry
           /\ f.op = "clean" => f.snapshot \in Pool
           /\ f.op = "clean" => f = [op |-> "clean", snapshot |-> f.snapshot]
BY DEF Frame, Idle

LEMMA MakeFrame ==
    /\ Idle \in Frame /\ Idle.op = "idle"
    /\ [op |-> "list"] \in Frame
    /\ \A s \in Session, m \in Model, a \in Times :
          [op |-> "usage", sid |-> s, model |-> m, at |-> a] \in Frame
    /\ \A s \in Session, m \in Model, a \in Times :
          [op |-> "read", sid |-> s, model |-> m, at |-> a] \in Frame
    /\ \A s \in Session, m \in Model, a \in Times, e \in Entry :
          [op |-> "store", sid |-> s, model |-> m, at |-> a, read |-> e] \in Frame
    /\ \A q \in Pool : [op |-> "clean", snapshot |-> q] \in Frame
BY DEF Frame, Idle

\* A usage handler runs where its session is connected, a pass only in a cleaner.
Homely == \A i \in Instance :
    /\ busy[i].op \in {"usage", "read", "store"} => HomeOf[busy[i].sid] = i
    /\ busy[i].op \in {"list", "clean"} => i \in Cleaner

Typed == TypeOK /\ Homely

LEMMA TypeInit == Init => Typed
<1> SUFFICES ASSUME Init PROVE Typed
  OBVIOUS
<1>1. pool \in Pool
  <2>1. pool = [m \in {} |-> NoEntry]
    BY DEF Init
  <2>2. DOMAIN pool = {} /\ pool = [m \in DOMAIN pool |-> pool[m]]
    BY <2>1
  <2> QED
    BY <2>2, PoolDef
<1>2. 0 \in Times /\ 0 \in 0 .. Horizon + Period /\ kept \in [Model -> Entry]
  BY TimeFacts DEF Init
<1> QED
  BY <1>1, <1>2 DEF Init, Typed, TypeOK, Homely, Frame, Idle

\* One turn of the clean-up of process i for model m: the entry is stored again, or
\* its key deleted, or the loop ends with a KeyError.
LEMMA CleanModelCases ==
    ASSUME Typed, NEW i \in Instance, NEW m \in Model, CleanModel(i, m),
           NEW q, q = busy[i].snapshot,
           NEW left, left = Unexpired(q[m], now[i]),
           NEW g, g = [op |-> "clean", snapshot |-> Drop(q, m)]
    PROVE  /\ busy[i].op = "clean" /\ m \in DOMAIN q /\ q \in Pool
           /\ q[m] \in Entry /\ left \in Entry
           /\ g \in Frame /\ g.op = "clean" /\ g.snapshot = Drop(q, m)
           /\ UNCHANGED <<connected, clock, now, wake, kept, elsewhere>>
           /\ \/ /\ DOMAIN left # {}
                 /\ pool' = Put(pool, m, left)
                 /\ busy' = [busy EXCEPT ![i] = g]
                 /\ raised' = raised
              \/ /\ DOMAIN left = {}
                 /\ m \in DOMAIN pool
                 /\ pool' = Drop(pool, m)
                 /\ busy' = [busy EXCEPT ![i] = g]
                 /\ raised' = raised
              \/ /\ DOMAIN left = {}
                 /\ m \notin DOMAIN pool
                 /\ pool' = pool
                 /\ busy' = [busy EXCEPT ![i] = Idle]
                 /\ raised' = raised \cup {i}
<1>1. busy \in [Instance -> Frame] /\ now[i] \in Times
  BY DEF Typed, TypeOK
<1>2. busy[i].op = "clean" /\ m \in DOMAIN q
  BY DEF CleanModel
<1>3. q \in Pool /\ busy[i] = [op |-> "clean", snapshot |-> q]
  BY <1>1, <1>2, FrameFields
<1>4. q[m] \in Entry
  BY <1>2, <1>3, PoolDef
<1>5. left \in Entry
  BY <1>1, <1>4, UnexpiredEntry
<1>6. Drop(q, m) \in Pool
  BY <1>3, <1>4, PutDropPool
<1>7. g \in Frame
  BY <1>6, MakeFrame
<1>8. [busy EXCEPT ![i].snapshot = Drop(@, m)] = [busy EXCEPT ![i] = g]
  <2>1. [busy[i] EXCEPT !.snapshot = Drop(q, m)] = g
    <3> PICK d : d = Drop(q, m)
      OBVIOUS
    <3>1. [[op |-> "clean", snapshot |-> q] EXCEPT !.snapshot = d]
             = [op |-> "clean", snapshot |-> d]
      OBVIOUS
    <3> QED
      BY <1>3, <3>1
  <2> QED
    BY <2>1, <1>1
<1> QED
  BY <1>2, <1>3, <1>4, <1>5, <1>7, <1>8 DEF CleanModel

LEMMA TypeStep == Typed /\ [Next]_vars => Typed'
<1> SUFFICES ASSUME Typed, [Next]_vars PROVE Typed'
  OBVIOUS
<1>0. /\ pool \in Pool /\ connected \subseteq Session /\ busy \in [Instance -> Frame]
      /\ clock \in Times /\ now \in [Instance -> Times]
      /\ wake \in [Instance -> 0 .. Horizon + Period] /\ raised \subseteq Cleaner
      /\ kept \in [Model -> Entry] /\ elsewhere \subseteq Model
      /\ Homely
  BY DEF Typed, TypeOK
<1>1. ASSUME NEW i \in Instance, NEW g \in Frame, busy' = [busy EXCEPT ![i] = g],
             g.op \in {"usage", "read", "store"} => HomeOf[g.sid] = i,
             g.op \in {"list", "clean"} => i \in Cleaner
      PROVE  busy' \in [Instance -> Frame] /\ Homely'
  BY <1>0, <1>1 DEF Homely
<1>2. \A i \in Instance : busy[i] \in Frame
  BY <1>0
<1>3. ASSUME NEW s \in Session, Connect(s) \/ Disconnect(s) PROVE Typed'
  BY <1>0, <1>3 DEF Connect, Disconnect, Typed, TypeOK, Homely
<1>4. ASSUME NEW s \in Session, NEW m \in Model, Usage(s, m) PROVE Typed'
  <2> PICK g : g = [op |-> "usage", sid |-> s, model |-> m, at |-> clock]
    OBVIOUS
  <2>1. g \in Frame /\ g.op = "usage" /\ g.sid = s
    BY <1>0, MakeFrame
  <2>2. /\ busy' = [busy EXCEPT ![HomeOf[s]] = g] /\ HomeOf[s] \in Instance
        /\ UNCHANGED <<pool, connected, clock, now, wake, raised, kept, elsewhere>>
    BY <1>4, HomeAssumption DEF Usage
  <2>3. busy' \in [Instance -> Frame] /\ Homely'
    BY <1>1, <2>1, <2>2
  <2> QED
    BY <1>0, <2>2, <2>3 DEF Typed, TypeOK
<1>5. ASSUME NEW i \in Instance, UsageHas(i) \/ UsageRead(i) PROVE Typed'
  <2> PICK s, m, a : s = busy[i].sid /\ m = busy[i].model /\ a = busy[i].at
    OBVIOUS
  <2>1. s \in Session /\ m \in Model /\ a \in Times /\ HomeOf[s] = i
    BY <1>0, <1>2, <1>5, FrameFields DEF UsageHas, UsageRead, Homely
  <2>2. \E e \in Entry : busy' \in
           {[busy EXCEPT ![i] = [op |-> "read", sid |-> s, model |-> m, at |-> a]],
            [busy EXCEPT ![i] = [op |-> "store", sid |-> s, model |-> m, at |-> a, read |-> e]],
            [busy EXCEPT ![i] = Idle]}
    <3>1. CASE UsageHas(i)
      BY <3>1, TimeFacts DEF UsageHas
    <3>2. CASE UsageRead(i) /\ m \in DOMAIN pool
      <4>1. pool[m] \in Entry
        BY <1>0, <3>2, PoolDef
      <4> QED
        BY <3>2, <4>1 DEF UsageRead
    <3>3. CASE UsageRead(i) /\ m \notin DOMAIN pool
      BY <3>3, TimeFacts DEF UsageRead
    <3> QED
      BY <1>5, <3>1, <3>2, <3>3
  <2>3. PICK g \in Frame : /\ busy' = [busy EXCEPT ![i] = g]
                           /\ g.op \in {"read", "store"} => g.sid = s
                           /\ g.op \in {"idle", "read", "store"}
    <3> PICK e \in Entry : busy' \in
           {[busy EXCEPT ![i] = [op |-> "read", sid |-> s, model |-> m, at |-> a]],
            [busy EXCEPT ![i] = [op |-> "store", sid |-> s, model |-> m, at |-> a, read |-> e]],
            [busy EXCEPT ![i] = Idle]}
      BY <2>2
    <3>1. /\ [op |-> "read", sid |-> s, model |-> m, at |-> a] \in Frame
          /\ [op |-> "store", sid |-> s, model |-> m, at |-> a, read |-> e] \in Frame
          /\ Idle \in Frame /\ Idle.op = "idle"
      BY <2>1, MakeFrame
    <3> QED
      BY <3>1
  <2>4. busy' \in [Instance -> Frame] /\ Homely'
    BY <1>1, <2>1, <2>3
  <2>5. UNCHANGED <<pool, connected, clock, now, wake, raised, kept, elsewhere>>
    BY <1>5 DEF UsageHas, UsageRead
  <2> QED
    BY <1>0, <2>4, <2>5 DEF Typed, TypeOK
<1>6. ASSUME NEW i \in Instance, UsageStore(i) PROVE Typed'
  <2> PICK s, m, a, r : /\ s = busy[i].sid /\ m = busy[i].model
                        /\ a = busy[i].at /\ r = busy[i].read
    OBVIOUS
  <2>1. s \in Session /\ m \in Model /\ a \in Times /\ r \in Entry
    BY <1>2, <1>6, FrameFields DEF UsageStore
  <2>2. Put(r, s, a) \in Entry /\ Put(kept[m], s, a) \in Entry
    BY <1>0, <2>1, PutEntry
  <2>3. pool' \in Pool
    BY <1>0, <1>6, <2>1, <2>2, PutDropPool DEF UsageStore
  <2>4. kept' \in [Model -> Entry] /\ elsewhere' \subseteq Model
    BY <1>0, <1>6, <2>1, <2>2, TimeFacts DEF UsageStore
  <2>5. /\ busy' = [busy EXCEPT ![i] = Idle] /\ UNCHANGED <<connected, clock, now, wake, raised>>
        /\ Idle \in Frame /\ Idle.op = "idle"
    BY <1>6, MakeFrame DEF UsageStore
  <2>6. busy' \in [Instance -> Frame] /\ Homely'
    BY <1>1, <2>5
  <2> QED
    BY <1>0, <2>3, <2>4, <2>5, <2>6 DEF Typed, TypeOK
<1>7. ASSUME NEW i \in Instance, CleanStart(i) \/ CleanList(i) PROVE Typed'
  <2>1. PICK g \in Frame : busy' = [busy EXCEPT ![i] = g] /\ g.op \in {"list", "clean"}
    BY <1>0, <1>7, MakeFrame DEF CleanStart, CleanList
  <2>2. i \in Cleaner
    BY <1>0, <1>7 DEF CleanStart, CleanList, Homely
  <2>3. busy' \in [Instance -> Frame] /\ Homely'
    BY <1>1, <2>1, <2>2
  <2>4. /\ now' \in [Instance -> Times] /\ elsewhere' \subseteq Model
        /\ UNCHANGED <<pool, connected, clock, wake, raised, kept>>
    BY <1>0, <1>7 DEF CleanStart, CleanList
  <2> QED
    BY <1>0, <2>3, <2>4 DEF Typed, TypeOK
<1>8. ASSUME NEW i \in Instance, NEW m \in Model, CleanModel(i, m) PROVE Typed'
  <2> PICK q, left, g : /\ q = busy[i].snapshot /\ left = Unexpired(q[m], now[i])
                        /\ g = [op |-> "clean", snapshot |-> Drop(q, m)]
    OBVIOUS
  <2>1. /\ busy[i].op = "clean" /\ left \in Entry /\ g \in Frame /\ g.op = "clean"
        /\ UNCHANGED <<connected, clock, now, wake, kept, elsewhere>>
        /\ pool' \in {Put(pool, m, left), Drop(pool, m), pool}
        /\ raised' \in {raised, raised \cup {i}}
        /\ busy' = [busy EXCEPT ![i] = g] \/ busy' = [busy EXCEPT ![i] = Idle]
    BY <1>8, CleanModelCases
  <2>2. i \in Cleaner
    BY <1>0, <2>1 DEF Homely
  <2>3. Idle \in Frame /\ Idle.op = "idle"
    BY MakeFrame
  <2>4. busy' \in [Instance -> Frame] /\ Homely'
    BY <1>1, <2>1, <2>2, <2>3
  <2>5. pool' \in Pool
    BY <1>0, <2>1, PutDropPool
  <2> QED
    BY <1>0, <2>1, <2>2, <2>4, <2>5 DEF Typed, TypeOK
<1>9. ASSUME NEW i \in Instance, CleanEnd(i) PROVE Typed'
  <2>1. /\ busy' = [busy EXCEPT ![i] = Idle]
        /\ UNCHANGED <<pool, connected, clock, now, raised, kept, elsewhere>>
        /\ Idle \in Frame /\ Idle.op = "idle" /\ wake' = [wake EXCEPT ![i] = clock + Period]
    BY <1>9, MakeFrame DEF CleanEnd
  <2>2. busy' \in [Instance -> Frame] /\ Homely'
    BY <1>1, <2>1
  <2>3. wake' \in [Instance -> 0 .. Horizon + Period]
    <3>1. clock + Period \in 0 .. Horizon + Period
      BY <1>0, TimeFacts
    <3> QED
      BY <1>0, <2>1, <3>1
  <2> QED
    BY <1>0, <2>1, <2>2, <2>3 DEF Typed, TypeOK
<1>10. CASE Tick
  <2>1. clock' \in Times
    BY <1>0, <1>10, TimeFacts DEF Tick, Times
  <2> QED
    BY <1>0, <1>10, <2>1 DEF Tick, Typed, TypeOK, Homely
<1>11. CASE UNCHANGED vars
  BY <1>0, <1>11 DEF vars, Typed, TypeOK, Homely
<1> QED
  BY <1>3, <1>4, <1>5, <1>6, <1>7, <1>8, <1>9, <1>10, <1>11 DEF Next

LEMMA TypedAlways == Spec => []Typed
BY TypeInit, TypeStep, PTL DEF Spec

\* Every reachable state is well typed, for any set of cleaners.
THEOREM TypeCorrect == Spec => []TypeOK
<1>1. Typed => TypeOK
  BY DEF Typed
<1> QED
  BY <1>1, TypedAlways, PTL

--------------------------------------------------------------------------------
(* What the steps do *)

\* The steps of usage handlers before their write, and of sessions.
Handle ==
    \/ \E s \in Session : \/ Connect(s) \/ Disconnect(s)
                          \/ \E m \in Model : Usage(s, m)
    \/ \E i \in Instance : UsageHas(i) \/ UsageRead(i)

\* What a handler at i before its write becomes: it keeps its model and time, and
\* holds the entry of the pool, or none if the model has no key.
HandlerAt(i) ==
    /\ busy[i].op \in {"idle", "usage", "read"}
    /\ \/ busy'[i] = Idle
       \/ /\ busy'[i].op \in {"usage", "read", "store"}
          /\ IF busy[i].op = "idle" THEN busy'[i].at = clock ELSE busy'[i].at = busy[i].at
          /\ busy'[i].op = "store" =>
                 IF busy'[i].model \in DOMAIN pool
                 THEN busy'[i].read = pool[busy'[i].model]
                 ELSE busy'[i].read = NoEntry

LEMMA HandlerFacts ==
    ASSUME Typed, Handle
    PROVE  /\ UNCHANGED <<pool, clock, now, wake, raised, kept, elsewhere>>
           /\ \A i \in Instance : busy'[i] = busy[i] \/ HandlerAt(i)
<1>0. busy \in [Instance -> Frame]
  BY DEF Typed, TypeOK
<1>1. ASSUME NEW s \in Session, Connect(s) \/ Disconnect(s)
      PROVE  /\ busy' = busy
             /\ UNCHANGED <<pool, clock, now, wake, raised, kept, elsewhere>>
  BY <1>1 DEF Connect, Disconnect
<1>2. ASSUME NEW s \in Session, NEW m \in Model, Usage(s, m)
      PROVE  /\ UNCHANGED <<pool, clock, now, wake, raised, kept, elsewhere>>
             /\ \A i \in Instance : busy'[i] = busy[i] \/ HandlerAt(i)
  <2>1. /\ busy' = [busy EXCEPT ![HomeOf[s]] =
                       [op |-> "usage", sid |-> s, model |-> m, at |-> clock]]
        /\ busy[HomeOf[s]] = Idle
    BY <1>2 DEF Usage, Free
  <2> QED
    BY <1>0, <1>2, <2>1 DEF Usage, HandlerAt, Idle
<1>3. ASSUME NEW j \in Instance, UsageHas(j)
      PROVE  /\ UNCHANGED <<pool, clock, now, wake, raised, kept, elsewhere>>
             /\ \A i \in Instance : busy'[i] = busy[i] \/ HandlerAt(i)
  <2> PICK m, x, a : m = busy[j].model /\ x = busy[j].sid /\ a = busy[j].at
    OBVIOUS
  <2>1. CASE m \in DOMAIN pool
    <3>1. busy' = [busy EXCEPT ![j] = [op |-> "read", sid |-> x, model |-> m, at |-> a]]
      BY <1>3, <2>1 DEF UsageHas
    <3>2. \A i \in Instance \ {j} : busy'[i] = busy[i]
      BY <1>0, <3>1
    <3>3. HandlerAt(j)
      BY <1>0, <1>3, <3>1 DEF UsageHas, HandlerAt
    <3>4. UNCHANGED <<pool, clock, now, wake, raised, kept, elsewhere>>
      BY <1>3 DEF UsageHas
    <3> QED
      BY <3>2, <3>3, <3>4
  <2>2. CASE m \notin DOMAIN pool
    <3>1. busy' = [busy EXCEPT ![j] =
                      [op |-> "store", sid |-> x, model |-> m, at |-> a, read |-> NoEntry]]
      BY <1>3, <2>2 DEF UsageHas
    <3>2. \A i \in Instance \ {j} : busy'[i] = busy[i]
      BY <1>0, <3>1
    <3>3. HandlerAt(j)
      BY <1>0, <1>3, <2>2, <3>1 DEF UsageHas, HandlerAt
    <3>4. UNCHANGED <<pool, clock, now, wake, raised, kept, elsewhere>>
      BY <1>3 DEF UsageHas
    <3> QED
      BY <3>2, <3>3, <3>4
  <2> QED
    BY <2>1, <2>2
<1>4. ASSUME NEW j \in Instance, UsageRead(j)
      PROVE  /\ UNCHANGED <<pool, clock, now, wake, raised, kept, elsewhere>>
             /\ \A i \in Instance : busy'[i] = busy[i] \/ HandlerAt(i)
  <2> PICK m, x, a : m = busy[j].model /\ x = busy[j].sid /\ a = busy[j].at
    OBVIOUS
  <2>1. CASE m \in DOMAIN pool
    <3>1. busy' = [busy EXCEPT ![j] =
                      [op |-> "store", sid |-> x, model |-> m, at |-> a, read |-> pool[m]]]
      BY <1>4, <2>1 DEF UsageRead
    <3>2. \A i \in Instance \ {j} : busy'[i] = busy[i]
      BY <1>0, <3>1
    <3>3. HandlerAt(j)
      BY <1>0, <1>4, <2>1, <3>1 DEF UsageRead, HandlerAt
    <3>4. UNCHANGED <<pool, clock, now, wake, raised, kept, elsewhere>>
      BY <1>4 DEF UsageRead
    <3> QED
      BY <3>2, <3>3, <3>4
  <2>2. CASE m \notin DOMAIN pool
    <3>1. busy' = [busy EXCEPT ![j] = Idle]
      BY <1>4, <2>2 DEF UsageRead
    <3>2. \A i \in Instance \ {j} : busy'[i] = busy[i]
      BY <1>0, <3>1
    <3>3. HandlerAt(j)
      BY <1>0, <1>4, <3>1 DEF UsageRead, HandlerAt
    <3>4. UNCHANGED <<pool, clock, now, wake, raised, kept, elsewhere>>
      BY <1>4 DEF UsageRead
    <3> QED
      BY <3>2, <3>3, <3>4
  <2> QED
    BY <2>1, <2>2
<1> QED
  BY <1>1, <1>2, <1>3, <1>4 DEF Handle

\* The write of a usage handler: the session is new in what was read.
LEMMA StoreFacts ==
    ASSUME Typed, NEW i \in Instance, UsageStore(i),
           NEW s, s = busy[i].sid, NEW m, m = busy[i].model,
           NEW a, a = busy[i].at, NEW r, r = busy[i].read
    PROVE  /\ busy[i].op = "store" /\ s \in Session /\ m \in Model /\ a \in Times
           /\ HomeOf[s] = i /\ r \in Entry
           /\ busy' = [busy EXCEPT ![i] = Idle] /\ UNCHANGED <<clock, now, wake, raised>>
           /\ DOMAIN pool' = DOMAIN pool \cup {m}
           /\ \A x \in DOMAIN pool \ {m} : pool'[x] = pool[x]
           /\ DOMAIN pool'[m] = DOMAIN r \cup {s} /\ pool'[m][s] = a
           /\ \A t \in DOMAIN r \ {s} : pool'[m][t] = r[t]
<1>1. busy[i] \in Frame /\ busy[i].op = "store"
  BY DEF Typed, TypeOK, UsageStore
<1>2. s \in Session /\ m \in Model /\ a \in Times /\ HomeOf[s] = i /\ r \in Entry
  BY <1>1, FrameFields DEF Typed, Homely
<1>3. /\ pool' = Put(pool, m, Put(r, s, a))
      /\ busy' = [busy EXCEPT ![i] = Idle] /\ UNCHANGED <<clock, now, wake, raised>>
  BY DEF UsageStore
<1>4. /\ DOMAIN pool' = DOMAIN pool \cup {m} /\ pool'[m] = Put(r, s, a)
      /\ \A x \in DOMAIN pool \ {m} : pool'[x] = pool[x]
  BY <1>3 DEF Put
<1>5. \A e : /\ DOMAIN Put(e, s, a) = DOMAIN e \cup {s} /\ Put(e, s, a)[s] = a
             /\ \A t \in DOMAIN e \ {s} : Put(e, s, a)[t] = e[t]
  BY DEF Put
<1> QED
  BY <1>1, <1>2, <1>3, <1>4, <1>5

\* What is remembered of that write.
LEMMA KeptFacts ==
    ASSUME Typed, NEW i \in Instance, UsageStore(i)
    PROVE  /\ \A x \in Model \ {busy[i].model} : kept'[x] = kept[x]
           /\ elsewhere \subseteq elsewhere'
           /\ \/ /\ i \in Cleaner
                 /\ kept'[busy[i].model] = Put(kept[busy[i].model], busy[i].sid, busy[i].at)
              \/ /\ i \notin Cleaner /\ busy[i].model \in elsewhere'
                 /\ kept'[busy[i].model] = NoEntry
<1>1. kept \in [Model -> Entry] /\ busy[i].model \in Model
  BY FrameFields DEF Typed, TypeOK, UsageStore
<1> QED
  BY <1>1 DEF UsageStore

\* One turn of the clean-up: what it leaves of the entry had not timed out when
\* the pass took the time.
LEMMA CleanFacts ==
    ASSUME Typed, NEW i \in Instance, NEW m \in Model, CleanModel(i, m),
           NEW q, q = busy[i].snapshot
    PROVE  /\ busy[i].op = "clean" /\ m \in DOMAIN q
           /\ UNCHANGED <<clock, now, wake, kept, elsewhere>>
           /\ \A x \in DOMAIN pool \ {m} : x \in DOMAIN pool' /\ pool'[x] = pool[x]
           /\ DOMAIN pool' \subseteq DOMAIN pool \cup {m}
           /\ m \in DOMAIN pool' => \A s \in DOMAIN pool'[m] : now[i] - pool'[m][s] <= Timeout
           /\ m \in DOMAIN pool' => DOMAIN pool'[m] # {}
           /\ \A s \in DOMAIN q[m] : now[i] - q[m][s] <= Timeout =>
                 /\ m \in DOMAIN pool' /\ s \in DOMAIN pool'[m]
                 /\ pool'[m][s] = q[m][s]
           /\ \/ /\ busy'[i].op = "clean" /\ raised' = raised
                 /\ DOMAIN busy'[i].snapshot = DOMAIN q \ {m}
                 /\ \A x \in DOMAIN q \ {m} : busy'[i].snapshot[x] = q[x]
              \/ busy'[i] = Idle /\ m \notin DOMAIN pool
           /\ \A j \in Instance \ {i} : busy'[j] = busy[j]
<1> PICK left, g : /\ left = Unexpired(q[m], now[i])
                   /\ g = [op |-> "clean", snapshot |-> Drop(q, m)]
  OBVIOUS
<1>1. /\ busy[i].op = "clean" /\ m \in DOMAIN q /\ q[m] \in Entry
      /\ g.op = "clean" /\ g.snapshot = Drop(q, m)
      /\ UNCHANGED <<connected, clock, now, wake, kept, elsewhere>>
      /\ \/ /\ DOMAIN left # {}
            /\ pool' = Put(pool, m, left)
            /\ busy' = [busy EXCEPT ![i] = g]
            /\ raised' = raised
         \/ /\ DOMAIN left = {}
            /\ m \in DOMAIN pool
            /\ pool' = Drop(pool, m)
            /\ busy' = [busy EXCEPT ![i] = g]
            /\ raised' = raised
         \/ /\ DOMAIN left = {}
            /\ m \notin DOMAIN pool
            /\ pool' = pool
            /\ busy' = [busy EXCEPT ![i] = Idle]
            /\ raised' = raised \cup {i}
  BY CleanModelCases
<1>2. /\ DOMAIN left = {s \in DOMAIN q[m] : now[i] - q[m][s] <= Timeout}
      /\ \A s \in DOMAIN left : left[s] = q[m][s]
  <2>1. now[i] \in Times
    BY DEF Typed, TypeOK
  <2> QED
    BY <1>1, <2>1, UnexpiredEntry
<1>3. /\ DOMAIN Drop(q, m) = DOMAIN q \ {m}
      /\ \A x \in DOMAIN q \ {m} : Drop(q, m)[x] = q[x]
  BY DEF Drop, Restrict
<1>4. busy \in [Instance -> Frame]
  BY DEF Typed, TypeOK
<1>5. /\ UNCHANGED <<clock, now, wake, kept, elsewhere>>
      /\ \A j \in Instance \ {i} : busy'[j] = busy[j]
  BY <1>1, <1>4
<1>6. CASE /\ DOMAIN left # {}
           /\ pool' = Put(pool, m, left)
           /\ busy' = [busy EXCEPT ![i] = g]
           /\ raised' = raised
  <2>1. /\ DOMAIN pool' = DOMAIN pool \cup {m} /\ pool'[m] = left
        /\ \A x \in DOMAIN pool \ {m} : pool'[x] = pool[x]
    BY <1>6 DEF Put
  <2>2. busy'[i] = g
    BY <1>4, <1>6
  <2> QED
    BY <1>1, <1>2, <1>3, <1>5, <1>6, <2>1, <2>2
<1>7. CASE /\ DOMAIN left = {}
           /\ m \in DOMAIN pool
           /\ pool' = Drop(pool, m)
           /\ busy' = [busy EXCEPT ![i] = g]
           /\ raised' = raised
  <2>1. /\ DOMAIN pool' = DOMAIN pool \ {m}
        /\ \A x \in DOMAIN pool \ {m} : pool'[x] = pool[x]
    BY <1>7 DEF Drop, Restrict
  <2>2. busy'[i] = g
    BY <1>4, <1>7
  <2> QED
    BY <1>1, <1>2, <1>3, <1>5, <1>7, <2>1, <2>2
<1>8. CASE /\ DOMAIN left = {}
           /\ m \notin DOMAIN pool
           /\ pool' = pool
           /\ busy' = [busy EXCEPT ![i] = Idle]
  <2>1. busy'[i] = Idle
    BY <1>4, <1>8
  <2> QED
    BY <1>1, <1>2, <1>5, <1>8, <2>1
<1> QED
  BY <1>1, <1>6, <1>7, <1>8

--------------------------------------------------------------------------------
(* Listed models *)

\* No step of any process leaves a key with an empty entry.
LEMMA ListedStep ==
    Typed /\ ListedModelsHaveSessions /\ [Next]_vars => ListedModelsHaveSessions'
<1> SUFFICES ASSUME Typed, ListedModelsHaveSessions, [Next]_vars
             PROVE  ListedModelsHaveSessions'
  OBVIOUS
<1> USE DEF ListedModelsHaveSessions
<1>1. ASSUME pool' = pool PROVE ListedModelsHaveSessions'
  BY <1>1
<1>2. ASSUME NEW i \in Instance, UsageStore(i) PROVE ListedModelsHaveSessions'
  <2> PICK s, m, a, r : /\ s = busy[i].sid /\ m = busy[i].model
                        /\ a = busy[i].at /\ r = busy[i].read
    OBVIOUS
  <2>1. /\ DOMAIN pool' = DOMAIN pool \cup {m}
        /\ \A x \in DOMAIN pool \ {m} : pool'[x] = pool[x]
        /\ DOMAIN pool'[m] = DOMAIN r \cup {s}
    BY <1>2, StoreFacts
  <2> QED
    BY <2>1
<1>3. ASSUME NEW i \in Instance, NEW m \in Model, CleanModel(i, m)
      PROVE  ListedModelsHaveSessions'
  <2> PICK q : q = busy[i].snapshot
    OBVIOUS
  <2>1. /\ \A x \in DOMAIN pool \ {m} : x \in DOMAIN pool' /\ pool'[x] = pool[x]
        /\ DOMAIN pool' \subseteq DOMAIN pool \cup {m}
        /\ m \in DOMAIN pool' => DOMAIN pool'[m] # {}
    BY <1>3, CleanFacts
  <2> QED
    BY <2>1
<1>4. CASE Tick
  BY <1>1, <1>4 DEF Tick
<1>5. ASSUME NEW i \in Instance,
             UsageHas(i) \/ UsageRead(i) \/ CleanStart(i) \/ CleanList(i) \/ CleanEnd(i)
      PROVE  pool' = pool
  BY <1>5 DEF UsageHas, UsageRead, CleanStart, CleanList, CleanEnd
<1>6. ASSUME NEW s \in Session, Connect(s) \/ Disconnect(s) \/ \E m \in Model : Usage(s, m)
      PROVE  pool' = pool
  BY <1>6 DEF Connect, Disconnect, Usage
<1>7. CASE UNCHANGED vars
  BY <1>7 DEF vars
<1> QED
  BY <1>1, <1>2, <1>3, <1>4, <1>5, <1>6, <1>7 DEF Next

\* get_models_in_use lists only models with a session, whatever processes read
\* and write in between and however many of them clean.
THEOREM ListedModelsHaveSessionsAlways == Spec => []ListedModelsHaveSessions
<1>1. Init => ListedModelsHaveSessions
  BY DEF Init, ListedModelsHaveSessions
<1> QED
  BY <1>1, TypedAlways, ListedStep, PTL DEF Spec

--------------------------------------------------------------------------------
(* One cleaner *)

\* The keys the cleaner still has to look at are in the pool.
SurviveInv(c) ==
    /\ raised = {}
    /\ busy[c].op = "clean" => DOMAIN busy[c].snapshot \subseteq DOMAIN pool

Holds(e, m, s) == s \in DOMAIN e /\ e[s] = kept[m][s]

\* A fresh usage is in the pool and in everything the cleaner's process has read.
FreshInv(c) ==
    /\ now[c] <= clock
    /\ \A m \in Model : \A s \in DOMAIN kept[m] : clock - kept[m][s] <= Timeout =>
          /\ m \in DOMAIN pool /\ Holds(pool[m], m, s)
          /\ busy[c].op = "store" /\ busy[c].model = m => Holds(busy[c].read, m, s)
          /\ busy[c].op = "clean" /\ m \in DOMAIN busy[c].snapshot
                => Holds(busy[c].snapshot[m], m, s)

Swept(c, e) == \A s \in DOMAIN e : now[c] - e[s] <= Timeout

\* Behind the pass entries are swept, and so is what a handler of the cleaner's
\* process has read; that handler took its time after the pass did.
SweptInv(c) ==
    /\ busy[c].op \in {"usage", "read", "store"} => now[c] <= busy[c].at
    /\ \A m \in Model \ elsewhere :
          /\ ~ Ahead(c, m) /\ m \in DOMAIN pool => Swept(c, pool[m])
          /\ busy[c].op = "store" /\ busy[c].model = m => Swept(c, busy[c].read)

\* Only the cleaner is in a pass, and times are numbers.
LEMMA OnlyCleaner ==
    ASSUME Typed, NEW c, Cleaner = {c}
    PROVE  /\ c \in Instance /\ now[c] \in Nat /\ clock \in Nat /\ Timeout \in Nat
           /\ busy \in [Instance -> Frame] /\ busy[c] \in Frame /\ Idle.op = "idle"
           /\ \A i \in Instance : busy[i].op \in {"list", "clean"} => i = c
           /\ \A m \in Model : \A s \in DOMAIN kept[m] : s \in Session /\ kept[m][s] \in Nat
           /\ DOMAIN pool \subseteq Model
<1>1. /\ c \in Instance /\ now \in [Instance -> Times] /\ clock \in Times /\ pool \in Pool
      /\ busy \in [Instance -> Frame] /\ kept \in [Model -> Entry] /\ Homely
  BY CleanerAssumption DEF Typed, TypeOK
<1>2. \A m \in Model : \A s \in DOMAIN kept[m] : s \in Session /\ kept[m][s] \in Times
  <2> SUFFICES ASSUME NEW m \in Model
               PROVE  \A s \in DOMAIN kept[m] : s \in Session /\ kept[m][s] \in Times
    OBVIOUS
  <2>1. kept[m] \in Entry
    BY <1>1
  <2> QED
    BY <2>1, EntryDef
<1>3. DOMAIN pool \subseteq Model
  BY <1>1, PoolDef
<1>4. now[c] \in Times
  BY <1>1
<1> QED
  BY <1>1, <1>2, <1>3, <1>4, TimeFacts, MakeFrame DEF Homely

\* With one cleaner the key a pass deletes is always there.
LEMMA SurviveStep ==
    ASSUME Typed, NEW c, Cleaner = {c}, SurviveInv(c), [Next]_vars
    PROVE  SurviveInv(c)'
<1>0. /\ c \in Instance /\ busy[c] \in Frame /\ busy \in [Instance -> Frame]
      /\ \A i \in Instance : busy[i].op \in {"list", "clean"} => i = c
      /\ Idle.op = "idle"
  BY OnlyCleaner
<1>1. CASE Handle
  <2>1. UNCHANGED <<pool, raised>> /\ (busy'[c] = busy[c] \/ busy'[c].op # "clean")
    BY <1>0, <1>1, HandlerFacts DEF HandlerAt
  <2> QED
    BY <2>1 DEF SurviveInv
<1>2. ASSUME NEW i \in Instance, UsageStore(i) PROVE SurviveInv(c)'
  <2> PICK s, m, a, r : /\ s = busy[i].sid /\ m = busy[i].model
                        /\ a = busy[i].at /\ r = busy[i].read
    OBVIOUS
  <2>1. /\ DOMAIN pool' = DOMAIN pool \cup {m} /\ busy' = [busy EXCEPT ![i] = Idle]
        /\ raised' = raised
    BY <1>2, StoreFacts
  <2>2. busy'[c] = busy[c] \/ busy'[c] = Idle
    BY <1>0, <2>1
  <2> QED
    BY <1>0, <2>1, <2>2 DEF SurviveInv
<1>3. ASSUME NEW i \in Instance, CleanStart(i) PROVE SurviveInv(c)'
  <2>1. i = c /\ busy'[c].op = "list" /\ UNCHANGED <<pool, raised>>
    BY <1>0, <1>3 DEF CleanStart
  <2> QED
    BY <2>1 DEF SurviveInv
<1>4. ASSUME NEW i \in Instance, CleanList(i) PROVE SurviveInv(c)'
  <2>1. i = c /\ busy'[c].snapshot = pool /\ UNCHANGED <<pool, raised>>
    BY <1>0, <1>4 DEF CleanList
  <2> QED
    BY <2>1 DEF SurviveInv
<1>5. ASSUME NEW i \in Instance, NEW m \in Model, CleanModel(i, m) PROVE SurviveInv(c)'
  <2> PICK q : q = busy[i].snapshot
    OBVIOUS
  <2>1. /\ busy[i].op = "clean" /\ m \in DOMAIN q
        /\ \A x \in DOMAIN pool \ {m} : x \in DOMAIN pool'
        /\ \/ /\ busy'[i].op = "clean" /\ raised' = raised
              /\ DOMAIN busy'[i].snapshot = DOMAIN q \ {m}
           \/ m \notin DOMAIN pool
    BY <1>5, CleanFacts
  <2>2. i = c
    BY <1>0, <2>1
  <2>3. m \in DOMAIN pool /\ DOMAIN q \subseteq DOMAIN pool
    BY <2>1, <2>2 DEF SurviveInv
  <2> QED
    BY <2>1, <2>2, <2>3 DEF SurviveInv
<1>6. ASSUME NEW i \in Instance, CleanEnd(i) PROVE SurviveInv(c)'
  <2>1. busy'[c] = busy[c] \/ busy'[c] = Idle
    BY <1>0, <1>6 DEF CleanEnd
  <2> QED
    BY <1>0, <1>6, <2>1 DEF SurviveInv, CleanEnd
<1>7. CASE Tick
  BY <1>7 DEF Tick, SurviveInv
<1>8. CASE UNCHANGED vars
  BY <1>8 DEF SurviveInv, vars
<1> QED
  BY <1>1, <1>2, <1>3, <1>4, <1>5, <1>6, <1>7, <1>8 DEF Next, Handle

\* What a session reports stays in the pool until it times out.
LEMMA FreshStep ==
    ASSUME Typed, NEW c, Cleaner = {c}, SurviveInv(c), FreshInv(c), [Next]_vars
    PROVE  FreshInv(c)'
<1>0. /\ c \in Instance /\ busy[c] \in Frame /\ busy \in [Instance -> Frame]
      /\ \A i \in Instance : busy[i].op \in {"list", "clean"} => i = c
      /\ Idle.op = "idle" /\ now[c] \in Nat /\ clock \in Nat /\ Timeout \in Nat
      /\ \A m \in Model : \A s \in DOMAIN kept[m] : s \in Session /\ kept[m][s] \in Nat
  BY OnlyCleaner
<1>1. CASE Handle
  <2>1. /\ UNCHANGED <<pool, clock, now, kept>>
        /\ busy'[c] = busy[c] \/ HandlerAt(c)
    BY <1>0, <1>1, HandlerFacts
  <2>2. CASE busy'[c] = busy[c]
    BY <2>1, <2>2 DEF FreshInv, Holds
  <2>3. CASE HandlerAt(c)
    <3>1. /\ busy'[c].op # "clean"
          /\ busy'[c].op = "store" /\ busy'[c].model \in DOMAIN pool
                => busy'[c].read = pool[busy'[c].model]
      BY <1>0, <2>3 DEF HandlerAt
    <3> QED
      BY <2>1, <3>1 DEF FreshInv, Holds
  <2> QED
    BY <2>1, <2>2, <2>3
<1>2. ASSUME NEW i \in Instance, UsageStore(i) PROVE FreshInv(c)'
  <2> PICK s, m, a, r : /\ s = busy[i].sid /\ m = busy[i].model
                        /\ a = busy[i].at /\ r = busy[i].read
    OBVIOUS
  <2>0. /\ busy[i].op = "store" /\ m \in Model
        /\ busy' = [busy EXCEPT ![i] = Idle] /\ UNCHANGED <<clock, now>>
        /\ DOMAIN pool' = DOMAIN pool \cup {m}
        /\ \A x \in DOMAIN pool \ {m} : pool'[x] = pool[x]
        /\ DOMAIN pool'[m] = DOMAIN r \cup {s} /\ pool'[m][s] = a
        /\ \A t \in DOMAIN r \ {s} : pool'[m][t] = r[t]
    BY <1>2, StoreFacts
  <2>1. /\ \A x \in Model \ {m} : kept'[x] = kept[x]
        /\ \/ /\ i \in Cleaner
              /\ DOMAIN kept'[m] = DOMAIN kept[m] \cup {s} /\ kept'[m][s] = a
              /\ \A t \in DOMAIN kept[m] \ {s} : kept'[m][t] = kept[m][t]
           \/ DOMAIN kept'[m] = {}
    <3>1. /\ \A x \in Model \ {m} : kept'[x] = kept[x]
          /\ (i \in Cleaner /\ kept'[m] = Put(kept[m], s, a)) \/ kept'[m] = NoEntry
      BY <1>2, KeptFacts
    <3> QED
      BY <3>1, TimeFacts DEF Put
  <2>2. (busy'[c] = busy[c] \/ busy'[c].op = "idle") /\ (i = c => busy'[c].op = "idle")
    BY <1>0, <2>0, <2>1
  <2>3. ASSUME NEW x \in Model, x # m, NEW t \in DOMAIN kept'[x],
               clock - kept'[x][t] <= Timeout
        PROVE  /\ x \in DOMAIN pool' /\ Holds(pool[x], x, t)'
               /\ busy'[c].op = "store" /\ busy'[c].model = x => Holds(busy[c].read, x, t)'
               /\ busy'[c].op = "clean" /\ x \in DOMAIN busy'[c].snapshot
                     => Holds(busy[c].snapshot[x], x, t)'
    <3>1. kept'[x] = kept[x] /\ t \in DOMAIN kept[x] /\ clock - kept[x][t] <= Timeout
      BY <2>0, <2>1, <2>3
    <3> QED
      BY <2>0, <2>1, <2>2, <2>3, <3>1 DEF FreshInv, Holds
  <2>4. ASSUME NEW t \in DOMAIN kept'[m], clock - kept'[m][t] <= Timeout
        PROVE  i = c /\ m \in DOMAIN pool' /\ Holds(pool[m], m, t)'
    <3>1. i = c
      BY <2>0, <2>1, <2>4
    <3>2. CASE t = s
      BY <2>0, <2>1, <3>1, <3>2 DEF Holds
    <3>3. CASE t # s
      <4>1. t \in DOMAIN kept[m] /\ kept'[m][t] = kept[m][t]
        BY <2>0, <2>1, <2>4, <3>1, <3>3
      <4>2. Holds(r, m, t)
        BY <2>0, <2>1, <2>4, <3>1, <4>1 DEF FreshInv
      <4> QED
        BY <2>0, <2>1, <3>1, <3>3, <4>1, <4>2 DEF Holds
    <3> QED
      BY <3>1, <3>2, <3>3
  <2> QED
    BY <2>0, <2>1, <2>2, <2>3, <2>4 DEF FreshInv
<1>3. ASSUME NEW i \in Instance, CleanStart(i) PROVE FreshInv(c)'
  <2>1. /\ i = c /\ busy'[c].op = "list" /\ UNCHANGED <<pool, kept, clock>>
    BY <1>0, <1>3 DEF CleanStart
  <2>2. now'[c] = clock
    BY <1>3, <2>1 DEF CleanStart, Typed, TypeOK
  <2> QED
    BY <1>0, <2>1, <2>2 DEF FreshInv, Holds
<1>4. ASSUME NEW i \in Instance, CleanList(i) PROVE FreshInv(c)'
  <2>1. /\ i = c /\ busy'[c].op = "clean" /\ busy'[c].snapshot = pool
        /\ UNCHANGED <<pool, kept, clock, now>>
    BY <1>0, <1>4 DEF CleanList
  <2> QED
    BY <2>1 DEF FreshInv, Holds
<1>5. ASSUME NEW i \in Instance, NEW m \in Model, CleanModel(i, m) PROVE FreshInv(c)'
  <2> PICK q : q = busy[i].snapshot
    OBVIOUS
  <2>1. /\ busy[i].op = "clean" /\ m \in DOMAIN q /\ UNCHANGED <<kept, clock, now>>
        /\ \A x \in DOMAIN pool \ {m} : x \in DOMAIN pool' /\ pool'[x] = pool[x]
        /\ \A s \in DOMAIN q[m] : now[i] - q[m][s] <= Timeout =>
              /\ m \in DOMAIN pool' /\ s \in DOMAIN pool'[m]
              /\ pool'[m][s] = q[m][s]
        /\ \/ /\ busy'[i].op = "clean"
              /\ DOMAIN busy'[i].snapshot = DOMAIN q \ {m}
              /\ \A x \in DOMAIN q \ {m} : busy'[i].snapshot[x] = q[x]
           \/ busy'[i] = Idle
    BY <1>5, CleanFacts
  <2>2. i = c
    BY <1>0, <2>1
  <2>3. ASSUME NEW x \in Model, NEW t \in DOMAIN kept'[x], clock' - kept'[x][t] <= Timeout
        PROVE  /\ x \in DOMAIN pool' /\ Holds(pool[x], x, t)'
               /\ busy'[c].op = "store" /\ busy'[c].model = x => Holds(busy[c].read, x, t)'
               /\ busy'[c].op = "clean" /\ x \in DOMAIN busy'[c].snapshot
                     => Holds(busy[c].snapshot[x], x, t)'
    <3>1. t \in DOMAIN kept[x] /\ kept[x][t] \in Nat /\ clock - kept[x][t] <= Timeout
      BY <1>0, <2>1, <2>3
    <3>2. /\ x \in DOMAIN pool /\ Holds(pool[x], x, t)
          /\ x \in DOMAIN q => Holds(q[x], x, t)
      BY <2>1, <2>2, <3>1 DEF FreshInv
    <3>3. x \in DOMAIN pool' /\ Holds(pool[x], x, t)'
      <4>1. CASE x = m
        <5>1. t \in DOMAIN q[m] /\ q[m][t] = kept[x][t]
          BY <2>1, <3>2, <4>1 DEF Holds
        <5>2. now[c] - q[m][t] <= Timeout
          BY <1>0, <3>1, <5>1 DEF FreshInv
        <5> QED
          BY <2>1, <2>2, <4>1, <5>1, <5>2 DEF Holds
      <4>2. CASE x # m
        BY <2>1, <3>2, <4>2 DEF Holds
      <4> QED
        BY <4>1, <4>2
    <3>4. busy'[c].op # "store"
      BY <1>0, <2>1, <2>2
    <3>5. busy'[c].op = "clean" /\ x \in DOMAIN busy'[c].snapshot
             => Holds(busy[c].snapshot[x], x, t)'
      BY <1>0, <2>1, <2>2, <3>2 DEF Holds
    <3> QED
      BY <3>3, <3>4, <3>5
  <2> QED
    BY <2>1, <2>3 DEF FreshInv
<1>6. ASSUME NEW i \in Instance, CleanEnd(i) PROVE FreshInv(c)'
  <2>1. (busy'[c] = busy[c] \/ busy'[c] = Idle) /\ UNCHANGED <<pool, kept, clock, now>>
    BY <1>0, <1>6 DEF CleanEnd
  <2> QED
    BY <1>0, <2>1 DEF FreshInv, Holds
<1>7. CASE Tick
  <2>1. clock' = clock + 1 /\ UNCHANGED <<pool, busy, kept, now>>
    BY <1>7 DEF Tick
  <2>2. ASSUME NEW m \in Model, NEW s \in DOMAIN kept[m], clock' - kept[m][s] <= Timeout
        PROVE  clock - kept[m][s] <= Timeout
    BY <1>0, <2>1, <2>2
  <2> QED
    BY <1>0, <2>1, <2>2 DEF FreshInv, Holds
<1>8. CASE UNCHANGED vars
  BY <1>8 DEF vars, FreshInv, Holds
<1> QED
  BY <1>1, <1>2, <1>3, <1>4, <1>5, <1>6, <1>7, <1>8 DEF Next, Handle

\* Behind the pass nothing is left that had timed out as the pass took the time.
LEMMA SweptStep ==
    ASSUME Typed, NEW c, Cleaner = {c}, SurviveInv(c), FreshInv(c), SweptInv(c), [Next]_vars
    PROVE  SweptInv(c)'
<1>0. /\ c \in Instance /\ busy[c] \in Frame /\ busy \in [Instance -> Frame]
      /\ \A i \in Instance : busy[i].op \in {"list", "clean"} => i = c
      /\ Idle.op = "idle" /\ now[c] \in Nat /\ clock \in Nat /\ Timeout \in Nat
  BY OnlyCleaner
<1>1. CASE Handle
  <2>1. /\ UNCHANGED <<pool, clock, now, elsewhere>>
        /\ busy'[c] = busy[c] \/ HandlerAt(c)
    BY <1>0, <1>1, HandlerFacts
  <2>2. CASE busy'[c] = busy[c]
    BY <2>1, <2>2 DEF SweptInv, Swept, Ahead
  <2>3. CASE HandlerAt(c)
    <3>1. busy'[c].op \in {"usage", "read", "store"} => now'[c] <= busy'[c].at
      BY <1>0, <2>1, <2>3 DEF HandlerAt, SweptInv, FreshInv
    <3>2. ASSUME NEW m \in Model \ elsewhere
          PROVE  ~ Ahead(c, m) /\ (m \in DOMAIN pool => Swept(c, pool[m]))
      BY <2>3 DEF HandlerAt, SweptInv, Ahead
    <3>3. /\ busy'[c].op = "store" /\ busy'[c].model \in DOMAIN pool
                => busy'[c].read = pool[busy'[c].model]
          /\ busy'[c].op = "store" /\ busy'[c].model \notin DOMAIN pool
                => DOMAIN busy'[c].read = {}
      BY <1>0, <2>3, TimeFacts DEF HandlerAt
    <3> QED
      BY <2>1, <3>1, <3>2, <3>3 DEF SweptInv, Swept
  <2> QED
    BY <2>1, <2>2, <2>3
<1>2. ASSUME NEW i \in Instance, UsageStore(i) PROVE SweptInv(c)'
  <2> PICK s, m, a, r : /\ s = busy[i].sid /\ m = busy[i].model
                        /\ a = busy[i].at /\ r = busy[i].read
    OBVIOUS
  <2>0. a \in Nat
    BY <1>2, <1>0, FrameFields, TimeFacts DEF UsageStore
  <2>1. /\ busy[i].op = "store" /\ m \in Model
        /\ busy' = [busy EXCEPT ![i] = Idle] /\ UNCHANGED <<clock, now>>
        /\ DOMAIN pool' = DOMAIN pool \cup {m}
        /\ \A x \in DOMAIN pool \ {m} : pool'[x] = pool[x]
        /\ DOMAIN pool'[m] = DOMAIN r \cup {s} /\ pool'[m][s] = a
        /\ \A t \in DOMAIN r \ {s} : pool'[m][t] = r[t]
    BY <1>2, StoreFacts
  <2>2. /\ busy'[c] = busy[c] \/ busy'[c].op = "idle"
        /\ i = c => busy'[c].op = "idle"
        /\ i # c => busy'[c] = busy[c]
    BY <1>0, <2>1
  <2>3. elsewhere \subseteq elsewhere' /\ (m \notin elsewhere' => i = c)
    BY <1>2, KeptFacts
  <2>4. ASSUME NEW x \in Model \ elsewhere', ~ Ahead(c, x)', x \in DOMAIN pool'
        PROVE  Swept(c, pool[x])'
    <3>1. ~ Ahead(c, x)
      BY <2>1, <2>2, <2>4 DEF Ahead
    <3>2. CASE x # m
      BY <2>1, <2>3, <2>4, <3>1, <3>2 DEF SweptInv, Swept
    <3>3. CASE x = m
      <4>1. i = c /\ m \notin elsewhere
        BY <2>3, <2>4, <3>3
      <4>2. now[c] <= a /\ Swept(c, r)
        BY <2>1, <4>1 DEF SweptInv
      <4>3. now[c] - a <= Timeout
        BY <1>0, <2>0, <4>2
      <4> QED
        BY <2>1, <3>3, <4>2, <4>3 DEF Swept
    <3> QED
      BY <3>2, <3>3
  <2>5. ASSUME NEW x \in Model \ elsewhere', busy'[c].op = "store", busy'[c].model = x
        PROVE  Swept(c, busy[c].read)'
    BY <2>1, <2>2, <2>3, <2>5 DEF SweptInv, Swept
  <2>6. busy'[c].op \in {"usage", "read", "store"} => now'[c] <= busy'[c].at
    BY <2>1, <2>2 DEF SweptInv
  <2> QED
    BY <2>4, <2>5, <2>6 DEF SweptInv
<1>3. ASSUME NEW i \in Instance, CleanStart(i) PROVE SweptInv(c)'
  <2>1. i = c /\ busy'[c].op = "list"
    BY <1>0, <1>3 DEF CleanStart
  <2> QED
    BY <2>1 DEF SweptInv, Ahead
<1>4. ASSUME NEW i \in Instance, CleanList(i) PROVE SweptInv(c)'
  <2>1. i = c /\ busy'[c].op = "clean" /\ busy'[c].snapshot = pool /\ pool' = pool
    BY <1>0, <1>4 DEF CleanList
  <2> QED
    BY <2>1 DEF SweptInv, Ahead
<1>5. ASSUME NEW i \in Instance, NEW m \in Model, CleanModel(i, m) PROVE SweptInv(c)'
  <2> PICK q : q = busy[i].snapshot
    OBVIOUS
  <2>1. /\ busy[i].op = "clean" /\ m \in DOMAIN q /\ UNCHANGED <<now, elsewhere>>
        /\ \A x \in DOMAIN pool \ {m} : x \in DOMAIN pool' /\ pool'[x] = pool[x]
        /\ DOMAIN pool' \subseteq DOMAIN pool \cup {m}
        /\ m \in DOMAIN pool' => \A s \in DOMAIN pool'[m] : now[i] - pool'[m][s] <= Timeout
        /\ \/ /\ busy'[i].op = "clean"
              /\ DOMAIN busy'[i].snapshot = DOMAIN q \ {m}
           \/ m \notin DOMAIN pool
    BY <1>5, CleanFacts
  <2>2. i = c
    BY <1>0, <2>1
  <2>3. busy'[c].op = "clean" /\ DOMAIN busy'[c].snapshot = DOMAIN q \ {m}
    BY <2>1, <2>2 DEF SurviveInv
  <2>4. ASSUME NEW x \in Model \ elsewhere', ~ Ahead(c, x)', x \in DOMAIN pool'
        PROVE  Swept(c, pool[x])'
    <3>1. CASE x = m
      BY <2>1, <2>2, <2>4, <3>1 DEF Swept
    <3>2. CASE x # m
      <4>1. ~ Ahead(c, x)
        BY <2>1, <2>2, <2>3, <2>4, <3>2 DEF Ahead
      <4> QED
        BY <2>1, <2>4, <3>2, <4>1 DEF SweptInv, Swept
    <3> QED
      BY <3>1, <3>2
  <2> QED
    BY <2>3, <2>4 DEF SweptInv
<1>6. ASSUME NEW i \in Instance, CleanEnd(i) PROVE SweptInv(c)'
  <2>1. /\ i = c /\ busy[c].op = "clean" /\ DOMAIN busy[c].snapshot = {}
        /\ busy'[c].op = "idle" /\ UNCHANGED <<pool, now, elsewhere>>
    BY <1>0, <1>6 DEF CleanEnd
  <2> QED
    BY <2>1 DEF SweptInv, Swept, Ahead
<1>7. CASE Tick
  BY <1>7 DEF Tick, SweptInv, Swept, Ahead
<1>8. CASE UNCHANGED vars
  BY <1>8 DEF vars, SweptInv, Swept, Ahead
<1> QED
  BY <1>1, <1>2, <1>3, <1>4, <1>5, <1>6, <1>7, <1>8 DEF Next, Handle

\* At first nothing is listed and no process is in a handler.
LEMMA CleanerInit ==
    ASSUME NEW c, Cleaner = {c}, Init
    PROVE  SurviveInv(c) /\ FreshInv(c) /\ SweptInv(c)
<1>1. c \in Instance
  BY CleanerAssumption
<1>2. /\ busy[c].op = "idle" /\ DOMAIN pool = {} /\ raised = {} /\ now[c] = 0 /\ clock = 0
      /\ \A m \in Model : DOMAIN kept[m] = {}
  BY <1>1, TimeFacts DEF Init, Idle
<1> QED
  BY <1>2 DEF SurviveInv, FreshInv, SweptInv

LEMMA CleanerAlways ==
    ASSUME NEW c, Cleaner = {c}
    PROVE  Spec => [](Typed /\ SurviveInv(c) /\ FreshInv(c) /\ SweptInv(c))
<1>1. Init => Typed /\ SurviveInv(c) /\ FreshInv(c) /\ SweptInv(c)
  BY TypeInit, CleanerInit
<1>2. Typed /\ SurviveInv(c) /\ FreshInv(c) /\ SweptInv(c) /\ [Next]_vars
         => (Typed /\ SurviveInv(c) /\ FreshInv(c) /\ SweptInv(c))'
  BY TypeStep, SurviveStep, FreshStep, SweptStep
<1> QED
  BY <1>1, <1>2, PTL DEF Spec

--------------------------------------------------------------------------------
(* The theorems *)

\* With one cleaner `del USAGE_POOL[model_id]` never raises: the loop goes on,
\* for any number of processes that write the pool while a pass runs.
THEOREM CleanerSurvivesAlways ==
    ASSUME NEW c, Cleaner = {c}
    PROVE  Spec => []CleanerSurvives
<1>1. SurviveInv(c) => CleanerSurvives
  BY DEF SurviveInv, CleanerSurvives
<1> QED
  BY <1>1, CleanerAlways, PTL

\* With one cleaner what a session at its process reported is listed until it
\* times out, unless another process stored the model since.
THEOREM FreshIsListedAlways ==
    ASSUME NEW c, Cleaner = {c}
    PROVE  Spec => []FreshIsListed
<1>1. FreshInv(c) => FreshIsListed
  BY DEF FreshInv, Holds, FreshIsListed
<1> QED
  BY <1>1, CleanerAlways, PTL

\* With one cleaner a pass leaves nothing behind that had timed out as it took
\* the time, however late it starts and however long it or a handler takes,
\* unless another process stored the model since the pass read the pool.
THEOREM StaleIsSweptAlways ==
    ASSUME NEW c, Cleaner = {c}
    PROVE  Spec => []StaleIsSwept
<1>1. Typed /\ SweptInv(c) => StaleIsSwept
  <2> SUFFICES ASSUME Typed, SweptInv(c), NEW m \in DOMAIN pool \ elsewhere, ~ Ahead(c, m)
               PROVE  Swept(c, pool[m])
    BY DEF StaleIsSwept, Swept
  <2>1. m \in Model
    BY OnlyCleaner
  <2> QED
    BY <2>1 DEF SweptInv
<1> QED
  BY <1>1, CleanerAlways, PTL

================================================================================
