------------------------------- MODULE UsagePool -------------------------------
(***************************************************************************)
(* The usage pool of socket/main.py: which sessions used which model in    *)
(* the last seconds.  The `usage` handler reads an entry of the pool and   *)
(* writes it back with its session added; the cleanup pass reads all       *)
(* entries and writes each back without the sessions that timed out.       *)
(*                                                                         *)
(* With Redis every access is a command and other processes run between    *)
(* two of them.  The calls block, so one process runs one handler at a     *)
(* time: one instance also is the program without Redis, where the pool is *)
(* a dictionary.  The clock is int(time.time()), the same for every        *)
(* process.  It advances between any two commands: a handler or a pass may *)
(* take any time, and a pass may start late.                               *)
(***************************************************************************)
EXTENDS Integers, Functions

CONSTANTS
    Instance,      \* server processes
    Cleaner,       \* instances whose cleanup loop runs (CleanupLock: one)
    Model,         \* models of the chat interface
    Session,       \* socket sessions
    HomeOf,        \* the instance a session is connected to
    Timeout,       \* a usage older than this has timed out (TIMEOUT_DURATION)
    Period,        \* least sleep between two passes (TIMEOUT_DURATION)
    Horizon        \* bound of the model: the last second of the clock

ASSUME CleanerAssumption == Cleaner \subseteq Instance
ASSUME HomeAssumption == HomeOf \in [Session -> Instance]
ASSUME UsageTimeAssumption == Timeout \in Nat /\ Period \in Nat /\ Horizon \in Nat

VARIABLES
    pool,          \* USAGE_POOL: model -> session -> updated_at
    connected,     \* keys of SESSION_POOL
    busy,          \* busy[i]: the frame of the handler instance i is in
    clock,         \* int(time.time())
    now,           \* now[i]: the local of the cleanup of i, set as a pass starts
    wake,          \* wake[i]: when the sleep of cleaner i may end
    raised,        \* cleaners whose loop ended with a KeyError
    \* What the properties speak of; no guard reads these.
    kept,          \* kept[m]: last usage of m by each session of a cleaner's process
                   \* that was stored after the last one from elsewhere
    elsewhere      \* models another process stored since a pass last read the pool

vars == <<pool, connected, busy, clock, now, wake, raised, kept, elsewhere>>

Times == 0 .. Horizon

Entry == UNION {[S -> Times] : S \in SUBSET Session}
Pool  == UNION {[M -> Entry] : M \in SUBSET Model}
NoEntry == [s \in {} |-> 0]

Idle == [op |-> "idle"]
Frame == {Idle}
         \cup [op : {"usage", "read"}, sid : Session, model : Model, at : Times]
         \cup [op : {"store"}, sid : Session, model : Model, at : Times, read : Entry]
         \cup [op : {"list"}]
         \cup [op : {"clean"}, snapshot : Pool]

Init ==
    /\ pool = [m \in {} |-> NoEntry]
    /\ connected = {}
    /\ busy = [i \in Instance |-> Idle]
    /\ clock = 0
    /\ now = [i \in Instance |-> 0]
    /\ wake = [i \in Instance |-> 0]
    /\ raised = {}
    /\ kept = [m \in Model |-> NoEntry]
    /\ elsewhere = {}

Free(i) == busy[i] = Idle
Put(f, k, v) == [x \in DOMAIN f \cup {k} |-> IF x = k THEN v ELSE f[x]]
Drop(f, k)   == Restrict(f, DOMAIN f \ {k})

--------------------------------------------------------------------------------
(* Sessions, as far as the pool sees them *)

Connect(s) ==
    /\ s \notin connected /\ Free(HomeOf[s])
    /\ connected' = connected \cup {s}
    /\ UNCHANGED <<pool, busy, clock, now, wake, raised, kept, elsewhere>>

\* Mutation of Disconnect: it drops the entries of the session, and the keys
\* that are left without one.
DisconnectDrops(s) ==
    /\ s \in connected /\ Free(HomeOf[s])
    /\ connected' = connected \ {s}
    /\ pool' = LET left == [m \in DOMAIN pool |-> Drop(pool[m], s)] IN
               Restrict(left, {m \in DOMAIN pool : DOMAIN left[m] # {}})
    /\ UNCHANGED <<busy, clock, now, wake, raised, kept, elsewhere>>

\* disconnect leaves the entries of the session to time out.
Disconnect(s) ==
    /\ s \in connected /\ Free(HomeOf[s])
    /\ connected' = connected \ {s}
    /\ UNCHANGED <<pool, busy, clock, now, wake, raised, kept, elsewhere>>

--------------------------------------------------------------------------------
(* usage *)

\* `sid in SESSION_POOL`, then current_time = int(time.time()).
Usage(s, m) ==
    /\ s \in connected /\ Free(HomeOf[s])
    /\ busy' = [busy EXCEPT ![HomeOf[s]] =
                   [op |-> "usage", sid |-> s, model |-> m, at |-> clock]]
    /\ UNCHANGED <<pool, connected, clock, now, wake, raised, kept, elsewhere>>

\* `model_id in USAGE_POOL`
UsageHas(i) ==
    /\ busy[i].op = "usage"
    /\ LET m == busy[i].model IN
        busy' = [busy EXCEPT ![i] =
           IF m \in DOMAIN pool
           THEN [op |-> "read", sid |-> @.sid, model |-> m, at |-> @.at]
           ELSE [op |-> "store", sid |-> @.sid, model |-> m, at |-> @.at, read |-> NoEntry]]
    /\ UNCHANGED <<pool, connected, clock, now, wake, raised, kept, elsewhere>>

\* USAGE_POOL[model_id]: a KeyError, and the end of the handler, if another
\* process has deleted the key since.
UsageRead(i) ==
    /\ busy[i].op = "read"
    /\ LET m == busy[i].model IN
        busy' = [busy EXCEPT ![i] =
           IF m \in DOMAIN pool
           THEN [op |-> "store", sid |-> @.sid, model |-> m, at |-> @.at, read |-> pool[m]]
           ELSE Idle]
    /\ UNCHANGED <<pool, connected, clock, now, wake, raised, kept, elsewhere>>

\* USAGE_POOL[model_id] = {**what was read, sid: current_time}
UsageStore(i) ==
    /\ busy[i].op = "store"
    /\ LET m == busy[i].model
           s == busy[i].sid
           a == busy[i].at IN
        /\ pool' = Put(pool, m, Put(busy[i].read, s, a))
        /\ IF i \in Cleaner
           THEN kept' = [kept EXCEPT ![m] = Put(@, s, a)] /\ UNCHANGED elsewhere
           ELSE kept' = [kept EXCEPT ![m] = NoEntry] /\ elsewhere' = elsewhere \cup {m}
    /\ busy' = [busy EXCEPT ![i] = Idle]
    /\ UNCHANGED <<connected, clock, now, wake, raised>>

--------------------------------------------------------------------------------
(* One pass of periodic_usage_pool_cleanup *)

\* The sleep is over, at its time or later: now = int(time.time()).
CleanStart(i) ==
    /\ i \in Cleaner \ raised
    /\ wake[i] <= clock /\ Free(i)
    /\ now' = [now EXCEPT ![i] = clock]
    /\ busy' = [busy EXCEPT ![i] = [op |-> "list"]]
    /\ UNCHANGED <<pool, connected, clock, wake, raised, kept, elsewhere>>

\* list(USAGE_POOL.items())
CleanList(i) ==
    /\ busy[i].op = "list"
    /\ busy' = [busy EXCEPT ![i] = [op |-> "clean", snapshot |-> pool]]
    /\ elsewhere' = {}
    /\ UNCHANGED <<pool, connected, clock, now, wake, raised, kept>>

\* Mutations of Unexpired: the comparison is off by one, either way.
UnexpiredLate(e, t)  == Restrict(e, {s \in DOMAIN e : t - e[s] <= Timeout + 1})
UnexpiredEarly(e, t) == Restrict(e, {s \in DOMAIN e : t - e[s] < Timeout})

\* The sessions of an entry whose updated_at has not timed out at time t.
Unexpired(e, t) == Restrict(e, {s \in DOMAIN e : t - e[s] <= Timeout})

\* Mutation of CleanModel: an entry without sessions is stored like any other.
CleanModelStores(i, m) ==
    /\ busy[i].op = "clean"
    /\ m \in DOMAIN busy[i].snapshot
    /\ pool' = Put(pool, m, Unexpired(busy[i].snapshot[m], now[i]))
    /\ busy' = [busy EXCEPT ![i].snapshot = Drop(@, m)]
    /\ UNCHANGED <<connected, clock, now, wake, raised, kept, elsewhere>>

\* One turn of the loop: store what has not timed out, or delete the key.
CleanModel(i, m) ==
    /\ busy[i].op = "clean"
    /\ m \in DOMAIN busy[i].snapshot
    /\ LET left == Unexpired(busy[i].snapshot[m], now[i]) IN
        IF DOMAIN left # {}
        THEN /\ pool' = Put(pool, m, left)
             /\ busy' = [busy EXCEPT ![i].snapshot = Drop(@, m)]
             /\ UNCHANGED raised
        ELSE IF m \in DOMAIN pool
        THEN /\ pool' = Drop(pool, m)
             /\ busy' = [busy EXCEPT ![i].snapshot = Drop(@, m)]
             /\ UNCHANGED raised
        ELSE /\ raised' = raised \cup {i}
             /\ busy' = [busy EXCEPT ![i] = Idle]
             /\ UNCHANGED pool
    /\ UNCHANGED <<connected, clock, now, wake, kept, elsewhere>>

\* asyncio.sleep(TIMEOUT_DURATION), which lasts that long or longer.
CleanEnd(i) ==
    /\ busy[i].op = "clean"
    /\ DOMAIN busy[i].snapshot = {}
    /\ busy' = [busy EXCEPT ![i] = Idle]
    /\ wake' = [wake EXCEPT ![i] = clock + Period]
    /\ UNCHANGED <<pool, connected, clock, now, raised, kept, elsewhere>>

--------------------------------------------------------------------------------
\* A second passes, whatever handlers and passes are in progress or due.
Tick ==
    /\ clock < Horizon
    /\ clock' = clock + 1
    /\ UNCHANGED <<pool, connected, busy, now, wake, raised, kept, elsewhere>>

Next ==
    \/ \E s \in Session : \/ Connect(s) \/ Disconnect(s)
                          \/ \E m \in Model : Usage(s, m)
    \/ \E i \in Instance : \/ UsageHas(i) \/ UsageRead(i) \/ UsageStore(i)
                           \/ CleanStart(i) \/ CleanList(i) \/ CleanEnd(i)
                           \/ \E m \in Model : CleanModel(i, m)
    \/ Tick

Spec == Init /\ [][Next]_vars

--------------------------------------------------------------------------------
(* Properties *)

TypeOK ==
    /\ pool \in Pool
    /\ connected \subseteq Session
    /\ busy \in [Instance -> Frame]
    /\ clock \in Times
    /\ now \in [Instance -> Times]
    /\ wake \in [Instance -> 0 .. Horizon + Period]
    /\ raised \subseteq Cleaner
    /\ kept \in [Model -> Entry]
    /\ elsewhere \subseteq Model

\* The loop that cleans the pool survives: with one cleaner, the key it deletes
\* always is there, whatever usage handlers of other processes did since the
\* pool was read, so `del USAGE_POOL[model_id]` raises no KeyError.
CleanerSurvives == raised = {}

\* get_models_in_use lists no model without a session: write-backs of stale
\* reads never leave a key with an empty entry.
ListedModelsHaveSessions == \A m \in DOMAIN pool : DOMAIN pool[m] # {}

\* The pass of cleaner i has yet to look at model m.
Ahead(i, m) ==
    \/ busy[i].op = "list"
    \/ busy[i].op = "clean" /\ m \in DOMAIN busy[i].snapshot

\* A model stops being in use: what had timed out as the latest pass took the
\* time is gone once the pass has looked at the model, however late or long the
\* pass was, unless another process stored an entry since the pass read the pool
\* (it may have read it before).
StaleIsSwept ==
    raised = {} => \A i \in Cleaner : \A m \in DOMAIN pool \ elsewhere :
        ~ Ahead(i, m) => \A s \in DOMAIN pool[m] : now[i] - pool[m][s] <= Timeout

\* What a session reported is in the pool until it times out: in one process
\* neither another session's write nor a clean-up pass takes it away earlier,
\* also when other processes use other models and used this one before.
FreshIsListed ==
    \A m \in Model : \A s \in DOMAIN kept[m] :
        clock - kept[m][s] <= Timeout =>
            /\ m \in DOMAIN pool
            /\ s \in DOMAIN pool[m]
            /\ pool[m][s] = kept[m][s]

================================================================================
