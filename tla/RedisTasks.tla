------------------------------ MODULE RedisTasks ------------------------------
(***************************************************************************)
(* tasks.py with Redis: several server processes share one registry of     *)
(* running background tasks and stop each other's tasks over pub/sub.      *)
(*                                                                         *)
(* A step is the code between two awaits.  A Redis command is a message:   *)
(* one step sends it, another is the instant the server executes it, and   *)
(* commands of different coroutines travel on different pooled             *)
(* connections, so nothing orders them.  A pipeline is a MULTI/EXEC and    *)
(* executes in one instant.                                                *)
(***************************************************************************)
EXTENDS Naturals, FiniteSets

CONSTANTS
    Instance,      \* server processes
    Task,          \* task ids
    Item,          \* chats and documents a task belongs to
    Caller,        \* concurrent calls of stop_item_tasks
    NoInstance,    \* owner of a task that does not exist yet
    ItemOf,        \* the item a task id is created for (every caller names one)
    MaxFaults      \* bound on crashes, Redis errors and lost subscriptions

ASSUME ItemOfAssumption == ItemOf \in [Task -> Item]
ASSUME NoInstanceAssumption == NoInstance \notin Instance
ASSUME MaxFaultsAssumption == MaxFaults \in Nat

VARIABLES
    up,            \* instances whose process is alive
    listening,     \* instances whose redis_task_command_listener is subscribed
    inbox,         \* inbox[i]: stop commands published to i and not yet handled
    owner,         \* owner[t]: the instance that runs task t
    run,           \* run[t]: state of the coroutine
    cancelled,     \* tasks on which Task.cancel() was called while they ran
    tasks,         \* tasks[i]: keys of the dictionary `tasks` of instance i
    itemTasks,     \* itemTasks[i][x]: `item_tasks` of instance i
    save,          \* save[t]: progress of redis_save_task
    clean,         \* clean[t]: progress of cleanup_task
    hash,          \* Redis hash REDIS_TASKS_KEY
    members,       \* members[x]: Redis set REDIS_ITEM_TASKS_KEY:x
    caller,        \* caller[c]: task ids stop_item_tasks still has to publish
    faults         \* faults so far

vars == <<up, listening, inbox, owner, run, cancelled, tasks, itemTasks,
          save, clean, hash, members, caller, faults>>

coroutine == <<owner, run, cancelled>>
local     == <<tasks, itemTasks>>
redis     == <<hash, members>>
process   == <<up, listening>>

RunState   == {"new", "running", "done", "lost"}
SaveState  == {"none", "sent", "applied", "failed"}
CleanState == {"none", "sent", "empty", "local", "over", "failed"}

Live(t) == run[t] = "running"

\* Tasks whose creation returned to the client, or that an endpoint lists.
KnownTasks == {t \in Task : save[t] = "applied"} \cup hash

Init ==
    /\ up = Instance
    /\ listening = {}
    /\ inbox = [i \in Instance |-> {}]
    /\ owner = [t \in Task |-> NoInstance]
    /\ run = [t \in Task |-> "new"]
    /\ cancelled = {}
    /\ tasks = [i \in Instance |-> {}]
    /\ itemTasks = [i \in Instance |-> [x \in Item |-> {}]]
    /\ save = [t \in Task |-> "none"]
    /\ clean = [t \in Task |-> "none"]
    /\ hash = {}
    /\ members = [x \in Item |-> {}]
    /\ caller = [c \in Caller |-> {}]
    /\ faults = 0

Fault == faults < MaxFaults /\ faults' = faults + 1

--------------------------------------------------------------------------------
(* redis_task_command_listener *)

\* The listener is started at boot and subscribes some time later.
Subscribe(i) ==
    /\ i \in up \ listening
    /\ listening' = listening \cup {i}
    /\ UNCHANGED <<up, inbox, coroutine, local, save, clean, redis, caller, faults>>

\* Mutation of HandleStop: the listener takes one message and drops the rest.
HandleStopOnce(i, t) ==
    /\ t \in inbox[i]
    /\ inbox' = [inbox EXCEPT ![i] = {}]
    /\ cancelled' = IF t \in tasks[i] /\ Live(t)
                    THEN cancelled \cup {t} ELSE cancelled
    /\ UNCHANGED <<process, owner, run, local, save, clean, redis, caller, faults>>

\* One message of the channel: cancel the task if it is one of ours.
HandleStop(i, t) ==
    /\ t \in inbox[i]
    /\ inbox' = [inbox EXCEPT ![i] = @ \ {t}]
    /\ cancelled' = IF t \in tasks[i] /\ Live(t)
                    THEN cancelled \cup {t} ELSE cancelled
    /\ UNCHANGED <<process, owner, run, local, save, clean, redis, caller, faults>>

\* pubsub.listen() raises outside the try block: the listener task ends and
\* nothing restarts it while the process lives.
ListenerDies(i) ==
    /\ Fault
    /\ i \in listening
    /\ listening' = listening \ {i}
    /\ inbox' = [inbox EXCEPT ![i] = {}]
    /\ UNCHANGED <<up, coroutine, local, save, clean, redis, caller>>

--------------------------------------------------------------------------------
(* create_task and redis_save_task *)

\* Mutations of CreateTask: with Redis, the process keeps no table of its own;
\* an id is taken from the client and may come twice.
CreateTaskRemote(i, t) ==
    /\ i \in up
    /\ run[t] = "new"
    /\ owner' = [owner EXCEPT ![t] = i]
    /\ run' = [run EXCEPT ![t] = "running"]
    /\ save' = [save EXCEPT ![t] = "sent"]
    /\ UNCHANGED <<process, inbox, cancelled, local, clean, redis, caller, faults>>

CreateTaskAgain(i, t) ==
    /\ i \in up
    /\ ~Live(t)
    /\ owner' = [owner EXCEPT ![t] = i]
    /\ run' = [run EXCEPT ![t] = "running"]
    /\ tasks' = [tasks EXCEPT ![i] = @ \cup {t}]
    /\ itemTasks' = [itemTasks EXCEPT ![i][ItemOf[t]] = @ \cup {t}]
    /\ save' = [save EXCEPT ![t] = "sent"]
    /\ UNCHANGED <<process, inbox, cancelled, clean, redis, caller, faults>>

\* Up to the await of redis_save_task: start, register locally, send MULTI/EXEC.
CreateTask(i, t) ==
    /\ i \in up
    /\ run[t] = "new"
    /\ owner' = [owner EXCEPT ![t] = i]
    /\ run' = [run EXCEPT ![t] = "running"]
    /\ tasks' = [tasks EXCEPT ![i] = @ \cup {t}]
    /\ itemTasks' = [itemTasks EXCEPT ![i][ItemOf[t]] = @ \cup {t}]
    /\ save' = [save EXCEPT ![t] = "sent"]
    /\ UNCHANGED <<process, inbox, cancelled, clean, redis, caller, faults>>

\* hset and sadd; create_task returns the task id.
SaveTask(t) ==
    /\ save[t] = "sent"
    /\ save' = [save EXCEPT ![t] = "applied"]
    /\ hash' = hash \cup {t}
    /\ members' = [members EXCEPT ![ItemOf[t]] = @ \cup {t}]
    /\ UNCHANGED <<process, inbox, coroutine, local, clean, caller, faults>>

\* Redis refuses the command: create_task raises, the coroutine runs on.
SaveFails(t) ==
    /\ Fault
    /\ save[t] = "sent"
    /\ save' = [save EXCEPT ![t] = "failed"]
    /\ UNCHANGED <<process, inbox, coroutine, local, clean, redis, caller>>

--------------------------------------------------------------------------------
(* The coroutine, its done callback, cleanup_task and redis_cleanup_task *)

\* The coroutine ends, with or without a cancellation; the done callback
\* starts cleanup_task, which sends hdel, srem and scard.
Finish(t) ==
    /\ Live(t)
    /\ run' = [run EXCEPT ![t] = "done"]
    /\ clean' = [clean EXCEPT ![t] = "sent"]
    /\ UNCHANGED <<process, inbox, owner, cancelled, local, save, redis, caller, faults>>

\* Mutations of CleanupExec: only hdel is sent; hdel takes the whole item.
CleanupHashOnly(t) ==
    /\ clean[t] = "sent"
    /\ hash' = hash \ {t}
    /\ clean' = [clean EXCEPT ![t] = "local"]
    /\ UNCHANGED <<process, inbox, coroutine, local, save, members, caller, faults>>

CleanupWholeItem(t) ==
    /\ clean[t] = "sent"
    /\ hash' = {u \in hash : ItemOf[u] # ItemOf[t]}
    /\ members' = [members EXCEPT ![ItemOf[t]] = {}]
    /\ clean' = [clean EXCEPT ![t] = "local"]
    /\ UNCHANGED <<process, inbox, coroutine, local, save, caller, faults>>

\* hdel, srem, scard: the count decides whether a delete follows.
CleanupExec(t) ==
    /\ clean[t] = "sent"
    /\ hash' = hash \ {t}
    /\ members' = [members EXCEPT ![ItemOf[t]] = @ \ {t}]
    /\ clean' = [clean EXCEPT ![t] =
                    IF members'[ItemOf[t]] = {} THEN "empty" ELSE "local"]
    /\ UNCHANGED <<process, inbox, coroutine, local, save, caller, faults>>

\* The second execute: delete the item's set, whatever it holds by now.
CleanupDelete(t) ==
    /\ clean[t] = "empty"
    /\ members' = [members EXCEPT ![ItemOf[t]] = {}]
    /\ clean' = [clean EXCEPT ![t] = "local"]
    /\ UNCHANGED <<process, inbox, coroutine, local, save, hash, caller, faults>>

\* A Redis error in either execute: cleanup_task raises before the local pops.
CleanupFails(t) ==
    /\ Fault
    /\ clean[t] \in {"sent", "empty"}
    /\ clean' = [clean EXCEPT ![t] = "failed"]
    /\ UNCHANGED <<process, inbox, coroutine, local, save, redis, caller>>

\* Mutation of CleanupLocal: item_tasks is forgotten.
CleanupTasksOnly(t) ==
    /\ clean[t] = "local"
    /\ tasks' = [tasks EXCEPT ![owner[t]] = @ \ {t}]
    /\ clean' = [clean EXCEPT ![t] = "over"]
    /\ UNCHANGED <<process, inbox, coroutine, itemTasks, save, redis, caller, faults>>

\* tasks.pop and item_tasks[id].remove, in one step after the awaits.
CleanupLocal(t) ==
    /\ clean[t] = "local"
    /\ tasks' = [tasks EXCEPT ![owner[t]] = @ \ {t}]
    /\ itemTasks' = [itemTasks EXCEPT ![owner[t]][ItemOf[t]] = @ \ {t}]
    /\ clean' = [clean EXCEPT ![t] = "over"]
    /\ UNCHANGED <<process, inbox, coroutine, save, redis, caller, faults>>

--------------------------------------------------------------------------------
(* stop_task and stop_item_tasks *)

\* PUBLISH reaches the processes subscribed at that instant, and no other.
Publish(t) ==
    inbox' = [i \in Instance |-> IF i \in listening THEN inbox[i] \cup {t}
                                                    ELSE inbox[i]]

\* stop_task: the endpoint publishes and answers without waiting.
StopTask(t) ==
    /\ t \in KnownTasks
    /\ Publish(t)
    /\ UNCHANGED <<process, coroutine, local, save, clean, redis, caller, faults>>

\* stop_item_tasks: smembers, answered with a snapshot of the item's set.
ListItemTasks(c, x) ==
    /\ caller[c] = {}
    /\ caller' = [caller EXCEPT ![c] = members[x]]
    /\ UNCHANGED <<process, inbox, coroutine, local, save, clean, redis, faults>>

\* stop_item_tasks: one publish of its loop (a stop over Redis never fails).
StopListed(c, t) ==
    /\ t \in caller[c]
    /\ caller' = [caller EXCEPT ![c] = @ \ {t}]
    /\ Publish(t)
    /\ UNCHANGED <<process, coroutine, local, save, clean, redis, faults>>

--------------------------------------------------------------------------------
(* Processes *)

\* The process dies: its coroutines, tables, unsent commands and the calls it
\* was serving are gone; what it wrote to Redis stays.
Crash(i) ==
    /\ Fault
    /\ i \in up
    /\ up' = up \ {i}
    /\ listening' = listening \ {i}
    /\ inbox' = [inbox EXCEPT ![i] = {}]
    /\ tasks' = [tasks EXCEPT ![i] = {}]
    /\ itemTasks' = [itemTasks EXCEPT ![i] = [x \in Item |-> {}]]
    /\ run' = [t \in Task |->
                 IF owner[t] = i /\ run[t] = "running" THEN "lost" ELSE run[t]]
    /\ save' = [t \in Task |->
                 IF owner[t] = i /\ save[t] = "sent" THEN "failed" ELSE save[t]]
    /\ clean' = [t \in Task |->
                 IF owner[t] = i /\ clean[t] \in {"sent", "empty", "local"}
                 THEN "failed" ELSE clean[t]]
    /\ \E C \in SUBSET Caller :
          caller' = [c \in Caller |-> IF c \in C THEN {} ELSE caller[c]]
    /\ UNCHANGED <<owner, cancelled, redis>>

Restart(i) ==
    /\ i \in Instance \ up
    /\ up' = up \cup {i}
    /\ UNCHANGED <<listening, inbox, coroutine, local, save, clean, redis, caller, faults>>

Next ==
    \/ \E i \in Instance : Subscribe(i) \/ ListenerDies(i) \/ Crash(i) \/ Restart(i)
    \/ \E i \in Instance, t \in Task : CreateTask(i, t) \/ HandleStop(i, t)
    \/ \E t \in Task : \/ SaveTask(t) \/ SaveFails(t) \/ Finish(t)
                       \/ CleanupExec(t) \/ CleanupDelete(t) \/ CleanupFails(t)
                       \/ CleanupLocal(t) \/ StopTask(t)
    \/ \E c \in Caller : \/ \E x \in Item : ListItemTasks(c, x)
                         \/ \E t \in Task : StopListed(c, t)

Spec == Init /\ [][Next]_vars

\* A cancelled coroutine gets its CancelledError at its next await and ends.
FinishCancelled(t) == t \in cancelled /\ Finish(t)

\* Its end and then its clean-up, one step at a time.
EndTask(t) ==
    FinishCancelled(t) \/ CleanupExec(t) \/ CleanupDelete(t) \/ CleanupLocal(t)

\* The event loop runs what is ready and Redis answers; nothing forces a
\* client to create or stop, a coroutine to end by itself, or a fault.
Fairness ==
    /\ \A i \in Instance, t \in Task : WF_vars(HandleStop(i, t))
    /\ \A t \in Task : WF_vars(SaveTask(t)) /\ WF_vars(EndTask(t))
    /\ \A c \in Caller, t \in Task : WF_vars(StopListed(c, t))

FairSpec == Spec /\ Fairness

--------------------------------------------------------------------------------
(* Properties *)

TypeOK ==
    /\ up \subseteq Instance
    /\ listening \subseteq up
    /\ inbox \in [Instance -> SUBSET Task]
    /\ owner \in [Task -> Instance \cup {NoInstance}]
    /\ run \in [Task -> RunState]
    /\ cancelled \subseteq Task
    /\ tasks \in [Instance -> SUBSET Task]
    /\ itemTasks \in [Instance -> [Item -> SUBSET Task]]
    /\ save \in [Task -> SaveState]
    /\ clean \in [Task -> CleanState]
    /\ hash \subseteq Task
    /\ members \in [Item -> SUBSET Task]
    /\ caller \in [Caller -> SUBSET Task]
    /\ faults \in 0 .. MaxFaults

\* A task that one of the item sets lists is in the global table too: the two
\* are written by one transaction and erased by one transaction.
ListedTogether ==
    \A t \in Task : t \in members[ItemOf[t]] => t \in hash

\* A task whose create_task returned stays in the global table of Redis for as
\* long as its coroutine runs, whatever other tasks' clean-ups do meanwhile.
RunningIsListed ==
    \A t \in Task : Live(t) /\ save[t] = "applied" => t \in hash

\* The listener of the process that runs a task finds it by its id, from
\* before the id is known to any client until the coroutine ends.
RunningIsRegistered ==
    \A t \in Task : Live(t) => owner[t] \in up /\ t \in tasks[owner[t]]

\* The two local tables describe the same tasks: item_tasks never keeps an id
\* that tasks has dropped, nor the other way round.
LocalTablesAgree ==
    \A i \in Instance, t \in Task : t \in tasks[i] <=> t \in itemTasks[i][ItemOf[t]]

\* A stop on its way to task t: published to the owner's listener, or next in
\* the loop of a stop_item_tasks.
StopPending(t) ==
    \/ \E i \in Instance : owner[t] = i /\ t \in inbox[i]
    \/ \E c \in Caller : t \in caller[c]

\* A stop that a client asked for, directly or through its item, ends the task
\* wherever it runs, unless the owner's listener is not there to hear it or a
\* process dies with the call that still had to publish it.
StopEndsTask ==
    \A t \in Task :
        (Live(t) /\ StopPending(t)) ~> (~Live(t) \/ owner[t] \notin listening \/ up # Instance)

--------------------------------------------------------------------------------
(* Refinement: the registry is a TaskLifecycle *)

phaseOf(t) ==
    CASE run[t] = "new" -> "new"
      [] run[t] = "running" -> IF t \in cancelled THEN "stopping" ELSE "running"
      [] run[t] = "done" -> "ended"
      [] run[t] = "lost" -> "lost"

phaseBar == [t \in Task |-> phaseOf(t)]

Lifecycle == INSTANCE TaskLifecycle WITH phase <- phaseBar

\* Whatever the instances, messages and crashes do, each task only moves
\* through the life cycle of TaskLifecycle, and a cancelled one ends.
ImplementsLifecycle == Lifecycle!FairSpec

================================================================================
