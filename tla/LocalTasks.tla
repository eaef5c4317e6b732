------------------------------ MODULE LocalTasks ------------------------------
(***************************************************************************)
(* tasks.py without Redis: one server process, one asyncio event loop.     *)
(*                                                                         *)
(* The loop runs one handle at a time and takes handles in the order they  *)
(* became ready, so the model keeps the queue.  Everything a handle does   *)
(* up to its next suspension is one step, except that each turn of the     *)
(* loop of stop_item_tasks is a step of its own: a turn that does not      *)
(* suspend leaves the caller at the head of the queue.                     *)
(***************************************************************************)
EXTENDS Naturals, Sequences, SequencesExt

CONSTANTS
    Task,          \* task ids
    Item,          \* chats and documents a task belongs to
    Caller,        \* calls of stop_task and stop_item_tasks
    ItemOf,        \* the item a task id is created for (every caller names one)
    NoTask         \* a caller that awaits no task

ASSUME ItemOfAssumption == ItemOf \in [Task -> Item]
ASSUME NoTaskAssumption == NoTask \notin Task

VARIABLES
    ready,         \* handles the event loop will run, oldest first
    run,           \* run[t]: state of the coroutine of task t
    outcome,       \* outcome[t]: how it ended
    cancelling,    \* tasks with a CancelledError still to be thrown into them
    cancelCalls,   \* cancelCalls[t]: Task.cancel() calls made while t ran
    tasks,         \* keys of the dictionary `tasks`
    itemTasks,     \* itemTasks[x]: the list item_tasks[x], empty when no key
    call           \* call[c]: the frame of a stop_task or stop_item_tasks

vars == <<ready, run, outcome, cancelling, cancelCalls, tasks, itemTasks, call>>

coroutine == <<run, outcome, cancelling, cancelCalls>>

\* "starting": scheduled, and not one step of it has run yet.
RunState == {"new", "creating", "starting", "scheduled", "waiting", "done"}
Outcome  == {"none", "returned", "cancelled", "raised"}
Reply    == {"none", "stopped", "notFound", "noTasks", "raised"}

Handle(kind, x) == <<kind, x>>
Handles == ({"create", "run", "done", "cleanup"} \X Task) \cup ({"stop"} \X Caller)

Live(t) == run[t] \in {"starting", "scheduled", "waiting"}

\* A frame: the ids it iterates over, the index of the next one, the task it
\* awaits, and what it answered.  An item call iterates over the list object
\* of item_tasks itself; `attached` until that object is dropped from it.
Idle == [kind |-> "idle"]
Frame == [kind : {"item"}, item : Item, attached : BOOLEAN, next : Nat,
          awaits : Task \cup {NoTask}, reply : Reply, listed : SUBSET Task]
         \cup [kind : {"task"}, task : Task, next : Nat \ {0},
               awaits : Task \cup {NoTask}, reply : Reply]

Init ==
    /\ ready = <<>>
    /\ run = [t \in Task |-> "new"]
    /\ outcome = [t \in Task |-> "none"]
    /\ cancelling = {}
    /\ cancelCalls = [t \in Task |-> 0]
    /\ tasks = {}
    /\ itemTasks = [x \in Item |-> <<>>]
    /\ call = [c \in Caller |-> Idle]

AtHead(kind, x) == ready # <<>> /\ Head(ready) = Handle(kind, x)

--------------------------------------------------------------------------------
(* create_task *)

\* Mutation of CreateArrives: the id of an ended task comes again.
CreateArrivesAgain(t) ==
    /\ run[t] \in {"new", "done"}
    /\ run' = [run EXCEPT ![t] = "creating"]
    /\ ready' = Append(ready, Handle("create", t))
    /\ UNCHANGED <<outcome, cancelling, cancelCalls, tasks, itemTasks, call>>

\* A request or a socket event that will start task t reaches the loop.
CreateArrives(t) ==
    /\ run[t] = "new"
    /\ run' = [run EXCEPT ![t] = "creating"]
    /\ ready' = Append(ready, Handle("create", t))
    /\ UNCHANGED <<outcome, cancelling, cancelCalls, tasks, itemTasks, call>>

\* create_task has no await without Redis: schedule, register, return.
CreateTask(t) ==
    /\ AtHead("create", t)
    /\ run' = [run EXCEPT ![t] = "starting"]
    /\ tasks' = tasks \cup {t}
    /\ itemTasks' = [itemTasks EXCEPT ![ItemOf[t]] = Append(@, t)]
    /\ ready' = Append(Tail(ready), Handle("run", t))
    /\ UNCHANGED <<outcome, cancelling, cancelCalls, call>>

--------------------------------------------------------------------------------
(* The coroutine *)

\* What the coroutine waits for arrives.
Wake(t) ==
    /\ run[t] = "waiting"
    /\ run' = [run EXCEPT ![t] = "scheduled"]
    /\ ready' = Append(ready, Handle("run", t))
    /\ UNCHANGED <<outcome, cancelling, cancelCalls, tasks, itemTasks, call>>

\* A CancelledError thrown into a coroutine that has not started ends it.
NeverStarts(t) == run[t] = "starting" /\ t \in cancelling

\* A step of the coroutine that ends at another await.  A coroutine that
\* catches its CancelledError (the chat handler saves the message) goes on.
RunOn(t) ==
    /\ AtHead("run", t)
    /\ ~NeverStarts(t)
    /\ run' = [run EXCEPT ![t] = "waiting"]
    /\ cancelling' = cancelling \ {t}
    /\ ready' = Tail(ready)
    /\ UNCHANGED <<outcome, cancelCalls, tasks, itemTasks, call>>

Awaiting(t) == {c \in Caller : call[c] # Idle /\ call[c].awaits = t}

\* The coroutine ends.  Its done callbacks become ready in the order they were
\* added: the clean-up of create_task, then the callers that await the task.
End(t, how) ==
    /\ AtHead("run", t)
    /\ how = "cancelled" => t \in cancelling
    /\ NeverStarts(t) => how = "cancelled"
    /\ run' = [run EXCEPT ![t] = "done"]
    /\ outcome' = [outcome EXCEPT ![t] = how]
    /\ cancelling' = cancelling \ {t}
    /\ \E waiters \in SetToSeqs(Awaiting(t)) :
          ready' = Tail(ready) \o <<Handle("done", t)>>
                     \o [k \in 1 .. Len(waiters) |-> Handle("stop", waiters[k])]
    /\ UNCHANGED <<cancelCalls, tasks, itemTasks, call>>

\* The done callback: asyncio.create_task(cleanup_task(...)).
DoneCallback(t) ==
    /\ AtHead("done", t)
    /\ ready' = Append(Tail(ready), Handle("cleanup", t))
    /\ UNCHANGED <<coroutine, tasks, itemTasks, call>>

\* Emptying the list drops the object from item_tasks, and a frame that was
\* iterating over it keeps an empty list.
Detached(x) ==
    [c \in Caller |->
       IF call[c].kind = "item" /\ call[c].item = x /\ call[c].next > 0
       THEN [call[c] EXCEPT !.attached = FALSE] ELSE call[c]]

\* Mutation of CleanupTask: the item's list goes although it has other ids.
CleanupDropsList(t) ==
    /\ AtHead("cleanup", t)
    /\ tasks' = tasks \ {t}
    /\ itemTasks' = [itemTasks EXCEPT ![ItemOf[t]] = <<>>]
    /\ call' = Detached(ItemOf[t])
    /\ ready' = Tail(ready)
    /\ UNCHANGED coroutine

\* cleanup_task: no await without Redis.
CleanupTask(t) ==
    /\ AtHead("cleanup", t)
    /\ tasks' = tasks \ {t}
    /\ itemTasks' = [itemTasks EXCEPT ![ItemOf[t]] = RemoveFirst(@, t)]
    /\ call' = IF itemTasks'[ItemOf[t]] = <<>> THEN Detached(ItemOf[t]) ELSE call
    /\ ready' = Tail(ready)
    /\ UNCHANGED coroutine

--------------------------------------------------------------------------------
(* stop_task and stop_item_tasks *)

\* The endpoint or the document handler is called for an item, or for a task.
StopArrives(c) ==
    /\ call[c] = Idle
    /\ \/ \E x \in Item :
            call' = [call EXCEPT ![c] =
                       [kind |-> "item", item |-> x, attached |-> TRUE, next |-> 0,
                        awaits |-> NoTask, reply |-> "none", listed |-> {}]]
       \/ \E t \in Task :
            /\ run[t] \notin {"new", "creating"}
            /\ call' = [call EXCEPT ![c] =
                          [kind |-> "task", task |-> t, next |-> 1,
                           awaits |-> NoTask, reply |-> "none"]]
    /\ ready' = Append(ready, Handle("stop", c))
    /\ UNCHANGED <<coroutine, tasks, itemTasks>>

\* The list a frame iterates over, as it is now.
IdsOf(c) ==
    IF call[c].kind = "task" THEN <<call[c].task>>
    ELSE IF call[c].attached THEN itemTasks[call[c].item] ELSE <<>>

Answer(c, reply) ==
    /\ call' = [call EXCEPT ![c].reply = reply, ![c].awaits = NoTask]
    /\ ready' = Tail(ready)
    /\ UNCHANGED <<coroutine, tasks, itemTasks>>

\* stop_item_tasks fetches the list.
FetchIds(c) ==
    /\ AtHead("stop", c)
    /\ call[c].next = 0
    /\ IF IdsOf(c) = <<>>
       THEN Answer(c, "noTasks")
       ELSE /\ call' = [call EXCEPT ![c].next = 1, ![c].listed = Range(IdsOf(c))]
            /\ UNCHANGED <<ready, coroutine, tasks, itemTasks>>

\* The await of stop_task is over: the exception of the task is raised here,
\* its CancelledError is caught.
Resumed(c) ==
    /\ AtHead("stop", c)
    /\ call[c].awaits # NoTask
    /\ IF outcome[call[c].awaits] = "raised"
       THEN Answer(c, "raised")
       ELSE /\ call' = [call EXCEPT ![c].awaits = NoTask]
            /\ UNCHANGED <<ready, coroutine, tasks, itemTasks>>

Iterates(c) == AtHead("stop", c) /\ call[c].awaits = NoTask /\ call[c].next > 0

\* No id is left in the list.
AllStopped(c) ==
    /\ Iterates(c)
    /\ call[c].next > Len(IdsOf(c))
    /\ Answer(c, "stopped")

\* Mutation of StopNotFound: the loop tries the same id again.
StopNotFoundRetries(c) ==
    /\ Iterates(c)
    /\ call[c].next <= Len(IdsOf(c))
    /\ IdsOf(c)[call[c].next] \notin tasks
    /\ UNCHANGED vars

\* stop_task does not find the next id: its failure is the answer.
StopNotFound(c) ==
    /\ Iterates(c)
    /\ call[c].next <= Len(IdsOf(c))
    /\ IdsOf(c)[call[c].next] \notin tasks
    /\ Answer(c, "notFound")

\* Task.cancel(): a task that waits is scheduled with its CancelledError.
Cancel(t) ==
    IF Live(t)
    THEN /\ cancelling' = cancelling \cup {t}
         /\ cancelCalls' = [cancelCalls EXCEPT ![t] = @ + 1]
         /\ run' = [run EXCEPT ![t] = IF @ = "waiting" THEN "scheduled" ELSE @]
         /\ ready' = IF run[t] = "waiting"
                     THEN Append(Tail(ready), Handle("run", t)) ELSE Tail(ready)
    ELSE UNCHANGED <<cancelling, cancelCalls, run, ready>>

\* Mutations of StopNext: the id stays in `tasks` while the task is awaited;
\* the task is not awaited.
StopNextKeeps(c) ==
    /\ Iterates(c)
    /\ call[c].next <= Len(IdsOf(c))
    /\ LET t == IdsOf(c)[call[c].next] IN
        /\ t \in tasks
        /\ call' = [call EXCEPT ![c].next = @ + 1, ![c].awaits = t]
        /\ Cancel(t)
    /\ UNCHANGED <<outcome, tasks, itemTasks>>

StopNextReturns(c) ==
    /\ Iterates(c)
    /\ call[c].next <= Len(IdsOf(c))
    /\ LET t == IdsOf(c)[call[c].next] IN
        /\ t \in tasks
        /\ tasks' = tasks \ {t}
        /\ call' = [call EXCEPT ![c].reply = "stopped"]
        /\ Cancel(t)
    /\ UNCHANGED <<outcome, itemTasks>>

\* stop_task pops the next id, cancels the task and awaits it.  Awaiting a
\* task that is done does not suspend.
StopNext(c) ==
    /\ Iterates(c)
    /\ call[c].next <= Len(IdsOf(c))
    /\ LET t == IdsOf(c)[call[c].next] IN
        /\ t \in tasks
        /\ tasks' = tasks \ {t}
        /\ call' = [call EXCEPT ![c].next = @ + 1, ![c].awaits = t]
        /\ Cancel(t)
    /\ UNCHANGED <<outcome, itemTasks>>

Next ==
    \/ \E t \in Task :
          \/ CreateArrives(t) \/ CreateTask(t) \/ Wake(t) \/ RunOn(t)
          \/ \E how \in Outcome \ {"none"} : End(t, how)
          \/ DoneCallback(t) \/ CleanupTask(t)
    \/ \E c \in Caller :
          \/ StopArrives(c) \/ FetchIds(c) \/ Resumed(c)
          \/ AllStopped(c) \/ StopNotFound(c) \/ StopNext(c)

Spec == Init /\ [][Next]_vars

\* A handle at the head of the queue is run.
LoopStep ==
    \/ \E t \in Task : \/ CreateTask(t) \/ RunOn(t) \/ DoneCallback(t) \/ CleanupTask(t)
                       \/ \E how \in Outcome \ {"none"} : End(t, how)
    \/ \E c \in Caller : \/ FetchIds(c) \/ Resumed(c) \/ AllStopped(c)
                         \/ StopNotFound(c) \/ StopNext(c)

\* A cancelled coroutine ends: it has no unbounded work after its cancellation.
Ends(t) == cancelCalls[t] > 0 /\ \E how \in Outcome : End(t, how)
WakesCancelled(t) == cancelCalls[t] > 0 /\ Wake(t)

\* The loop runs ready handles; a cancelled coroutine that is waiting again
\* (it is saving) is woken, and does not wait for ever.
Fairness ==
    /\ WF_vars(LoopStep)
    /\ \A t \in Task : WF_vars(WakesCancelled(t)) /\ SF_vars(Ends(t))

FairSpec == Spec /\ Fairness

--------------------------------------------------------------------------------
(* Properties *)

TypeOK ==
    /\ ready \in Seq(Handles)
    /\ IsInjective(ready)
    /\ run \in [Task -> RunState]
    /\ outcome \in [Task -> Outcome]
    /\ cancelling \subseteq Task
    /\ cancelCalls \in [Task -> Nat]
    /\ tasks \subseteq Task
    /\ itemTasks \in [Item -> Seq(Task)]
    /\ call \in [Caller -> {Idle} \cup Frame]

\* However many stops are asked for, a task is cancelled once: the coroutine
\* that saves its work in an `except CancelledError` is not interrupted there.
CancelledAtMostOnce == \A t \in Task : cancelCalls[t] <= 1

\* A running task that `tasks` no longer names, so that list_tasks hides it and
\* no further stop can find it, was cancelled by a stop that still waits for it.
UnlistedIsBeingStopped ==
    \A t \in Task : Live(t) /\ t \notin tasks =>
        \E c \in Caller : call[c] # Idle /\ call[c].awaits = t /\ call[c].reply = "none"

\* The list of an item names every running task of the item: no clean-up of
\* another task, and no dropped list object, loses one.
ListedForItem ==
    \A t \in Task : Live(t) => t \in Range(itemTasks[ItemOf[t]])

\* A stop never hangs: each call is answered, although it awaits tasks that
\* are cancelled, that ended before, or that other calls wait for.
StopIsAnswered ==
    \A c \in Caller : (call[c] # Idle) ~> (call[c] # Idle /\ call[c].reply # "none")

\* stop_item_tasks: "Stop all tasks associated with a specific item ID."  The
\* answer says all tasks stopped: those listed when it began have ended.
ItemStopStopsAll ==
    \A c \in Caller :
        call[c].kind = "item" /\ call[c].reply = "stopped" =>
            \A t \in call[c].listed : run[t] = "done"

--------------------------------------------------------------------------------
(* Refinement: the tables and the loop implement a TaskLifecycle *)

phaseOf(t) ==
    CASE run[t] \in {"new", "creating"} -> "new"
      [] Live(t) -> IF cancelCalls[t] > 0 THEN "stopping" ELSE "running"
      [] run[t] = "done" -> "ended"

phaseBar == [t \in Task |-> phaseOf(t)]

Lifecycle == INSTANCE TaskLifecycle WITH phase <- phaseBar

\* A task is started once, ends once, and ends if it was asked to.
ImplementsLifecycle == Lifecycle!FairSpec

================================================================================
