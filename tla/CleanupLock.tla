----------------------------- MODULE CleanupLock -----------------------------
(***************************************************************************)
(* RedisLock and periodic_usage_pool_cleanup: of the server processes that *)
(* share a Redis, one cleans the usage pool.  The lock is a key with a     *)
(* time to live that its holder renews before each pass.                   *)
(*                                                                         *)
(* Time is discrete.  A timer counts down to the instant a sleep is over   *)
(* and below it while the process is late; a process does what is due, up  *)
(* to its next sleep, at most MaxLate ticks late.  The pass itself is      *)
(* UsagePool's; here it takes time and may raise.                          *)
(***************************************************************************)
EXTENDS Integers

CONSTANTS
    Instance,      \* server processes
    None,          \* the lock key does not exist
    Gone,          \* lock_id of a process that died: nobody has it any more
    LockTimeout,   \* WEBSOCKET_REDIS_LOCK_TIMEOUT
    Period,        \* TIMEOUT_DURATION
    MaxLate        \* how late a process may run what is due

ASSUME DistinctAssumption == None \notin Instance /\ Gone \notin Instance /\ None # Gone
ASSUME TimeAssumption ==
    LockTimeout \in Nat \ {0} /\ Period \in Nat \ {0} /\ MaxLate \in Nat

VARIABLES
    lock,          \* lock_id stored under the lock's key
    ttl,           \* ticks until Redis drops the key
    pc,            \* pc[i]: where the cleanup task of instance i is
    timer,         \* timer[i]: ticks until what i waits for is due
    attempt,       \* attempt[i]: failed attempts of aquire_lock
    delay,         \* delay[i]: retry_delay, drawn once
    witness        \* witness[i]: a live process set the key since the first attempt of i

vars == <<lock, ttl, pc, timer, attempt, delay, witness>>

\* "over": the cleanup task of the process raised or was cancelled.
PC == {"down", "trying", "cleaning", "pass", "releasing", "deleting", "gaveUp", "over"}

max_retries == 2

\* Mutation of Delays: retries come twice as fast.
ShortDelays == {d \in 1 .. LockTimeout : 4 * d >= LockTimeout}

\* random.uniform(LockTimeout / 2, LockTimeout)
Delays == {d \in 1 .. LockTimeout : 2 * d >= LockTimeout}

Init ==
    /\ lock = None
    /\ ttl = 0
    /\ pc = [i \in Instance |-> "down"]
    /\ timer = [i \in Instance |-> 0]
    /\ attempt = [i \in Instance |-> 0]
    /\ delay = [i \in Instance |-> LockTimeout]
    /\ witness = [i \in Instance |-> FALSE]

Due(i) == timer[i] <= 0

\* SET key lock_id EX LockTimeout
SetLock(i) ==
    /\ lock' = i
    /\ ttl' = LockTimeout
    /\ witness' = [j \in Instance |-> witness[j] \/ pc[j] = "trying"]

--------------------------------------------------------------------------------
(* periodic_usage_pool_cleanup *)

\* The process boots; lifespan starts the cleanup task.
Boot(i) ==
    /\ pc[i] = "down"
    /\ pc' = [pc EXCEPT ![i] = "trying"]
    /\ \E d \in Delays : delay' = [delay EXCEPT ![i] = d]
    /\ UNCHANGED <<lock, ttl, timer, attempt, witness>>

\* Mutation of Acquire: SET without NX.
AcquireAnyway(i) ==
    /\ pc[i] = "trying" /\ Due(i)
    /\ SetLock(i)
    /\ pc' = [pc EXCEPT ![i] = "cleaning"]
    /\ UNCHANGED <<timer, attempt, delay>>

\* aquire_lock: SET NX succeeds, and the loop is entered.
Acquire(i) ==
    /\ pc[i] = "trying" /\ Due(i)
    /\ lock = None
    /\ SetLock(i)
    /\ pc' = [pc EXCEPT ![i] = "cleaning"]
    /\ UNCHANGED <<timer, attempt, delay>>

\* aquire_lock fails: sleep, or return after the last attempt.
AcquireFails(i) ==
    /\ pc[i] = "trying" /\ Due(i)
    /\ lock # None
    /\ IF attempt[i] < max_retries
       THEN /\ attempt' = [attempt EXCEPT ![i] = @ + 1]
            /\ timer' = [timer EXCEPT ![i] = delay[i]]
            /\ UNCHANGED pc
       ELSE /\ pc' = [pc EXCEPT ![i] = "gaveUp"]
            /\ UNCHANGED <<attempt, timer>>
    /\ witness' = IF attempt[i] = 0 THEN [witness EXCEPT ![i] = FALSE] ELSE witness
    /\ UNCHANGED <<lock, ttl, delay>>

\* renew_lock: SET XX writes our id over whatever id is there.  Without a key
\* it fails, and the exception runs the finally clause.
Renew(i) ==
    /\ pc[i] = "cleaning" /\ Due(i)
    /\ IF lock # None
       THEN SetLock(i) /\ pc' = [pc EXCEPT ![i] = "pass"]
       ELSE pc' = [pc EXCEPT ![i] = "releasing"] /\ UNCHANGED <<lock, ttl, witness>>
    /\ UNCHANGED <<timer, attempt, delay>>

\* Mutation of FinishPass: the sleep is as long as the lock lives.
FinishPassLong(i) ==
    /\ pc[i] = "pass"
    /\ pc' = [pc EXCEPT ![i] = "cleaning"]
    /\ timer' = [timer EXCEPT ![i] = LockTimeout]
    /\ UNCHANGED <<lock, ttl, attempt, delay, witness>>

\* The pass is over: asyncio.sleep(TIMEOUT_DURATION).
FinishPass(i) ==
    /\ pc[i] = "pass"
    /\ pc' = [pc EXCEPT ![i] = "cleaning"]
    /\ timer' = [timer EXCEPT ![i] = Period]
    /\ UNCHANGED <<lock, ttl, attempt, delay, witness>>

\* The pass raises: a Redis error, or the KeyError of `del USAGE_POOL[...]`.
PassRaises(i) ==
    /\ pc[i] = "pass"
    /\ pc' = [pc EXCEPT ![i] = "releasing"]
    /\ UNCHANGED <<lock, ttl, timer, attempt, delay, witness>>

\* The process shuts down and cancels the task in its sleep.
Cancel(i) ==
    /\ pc[i] \in {"trying", "cleaning"}
    /\ pc' = [pc EXCEPT ![i] = IF @ = "cleaning" THEN "releasing" ELSE "over"]
    /\ timer' = [timer EXCEPT ![i] = IF Due(i) THEN @ ELSE 0]
    /\ UNCHANGED <<lock, ttl, attempt, delay, witness>>

\* release_lock: GET and compare.
ReleaseGet(i) ==
    /\ pc[i] = "releasing"
    /\ pc' = [pc EXCEPT ![i] = IF lock = i THEN "deleting" ELSE "over"]
    /\ UNCHANGED <<lock, ttl, timer, attempt, delay, witness>>

\* release_lock: DELETE, a command of its own.
ReleaseDelete(i) ==
    /\ pc[i] = "deleting"
    /\ pc' = [pc EXCEPT ![i] = "over"]
    /\ lock' = None
    /\ ttl' = 0
    /\ UNCHANGED <<timer, attempt, delay, witness>>

\* The process ends: it crashes anywhere, or exits after the task is over.
\* Its lock_id, drawn at boot, is never used again.
Stop(i) ==
    /\ pc[i] # "down"
    /\ pc' = [pc EXCEPT ![i] = "down"]
    /\ lock' = IF lock = i THEN Gone ELSE lock
    /\ timer' = [timer EXCEPT ![i] = 0]
    /\ attempt' = [attempt EXCEPT ![i] = 0]
    /\ delay' = [delay EXCEPT ![i] = LockTimeout]
    /\ witness' = [witness EXCEPT ![i] = FALSE]
    /\ UNCHANGED ttl

--------------------------------------------------------------------------------
(* Time *)

Timed(i) == pc[i] \in {"trying", "cleaning", "pass", "releasing", "deleting"}

\* A tick passes unless some process would be later than MaxLate.
Tick ==
    /\ \A i \in Instance : Timed(i) => timer[i] > -MaxLate
    /\ timer' = [i \in Instance |-> IF Timed(i) THEN timer[i] - 1 ELSE timer[i]]
    /\ ttl' = IF ttl > 0 THEN ttl - 1 ELSE 0
    /\ lock' = IF ttl > 1 THEN lock ELSE None
    /\ UNCHANGED <<pc, attempt, delay, witness>>

Next ==
    \/ \E i \in Instance :
          \/ Boot(i) \/ Acquire(i) \/ AcquireFails(i) \/ Renew(i) \/ FinishPass(i)
          \/ PassRaises(i) \/ Cancel(i) \/ ReleaseGet(i) \/ ReleaseDelete(i) \/ Stop(i)
    \/ Tick

Spec == Init /\ [][Next]_vars

--------------------------------------------------------------------------------
(* Properties *)

TypeOK ==
    /\ lock \in Instance \cup {None, Gone}
    /\ ttl \in 0 .. LockTimeout
    /\ pc \in [Instance -> PC]
    /\ timer \in [Instance -> Int]
    /\ attempt \in [Instance -> 0 .. max_retries]
    /\ delay \in [Instance -> Delays]
    /\ witness \in [Instance -> BOOLEAN]

\* A late renewal, a pass and a late wake-up fit in the life of the key.
Timely == Period + 2 * MaxLate < LockTimeout

Holds(i) == pc[i] \in {"cleaning", "pass"}

\* The loop of the cleanup runs in one process at a time, although renew_lock
\* does not look whose lock it renews: no holder lets the key expire.
OneCleaner == \A i, j \in Instance : Holds(i) /\ Holds(j) => i = j

\* The DELETE of release_lock, a round trip after its GET, removes the lock of
\* the process that releases, never one that another has taken in between.
ReleasesOwnLock == \A i \in Instance : pc[i] = "deleting" => lock = i

\* "Failed to acquire cleanup lock after retries. Skipping cleanup.": a process
\* skips only when a live one set the lock while it was retrying.  The retries
\* outlast the key of a cleaner that died before they began.
SkipsOnlyForLiveCleaner == \A i \in Instance : pc[i] = "gaveUp" => witness[i]

================================================================================
