----------------------------- MODULE TaskLifecycle -----------------------------
(***************************************************************************)
(* What tasks.py promises of a background task, without its tables,        *)
(* messages or instances: a task runs, may be asked to stop, and a task    *)
(* that was asked to stop ends.  RedisTasks and LocalTasks implement it.   *)
(***************************************************************************)
CONSTANT Task              \* task ids (uuid4: every id is used once)

VARIABLE phase             \* phase[t]: where task t is in its life

Phase == {"new", "running", "stopping", "ended", "lost"}

Init == phase = [t \in Task |-> "new"]

\* create_task: asyncio.create_task starts the coroutine.
Start(t) ==
    /\ phase[t] = "new"
    /\ phase' = [phase EXCEPT ![t] = "running"]

\* Task.cancel() on a running task.
RequestStop(t) ==
    /\ phase[t] = "running"
    /\ phase' = [phase EXCEPT ![t] = "stopping"]

\* The coroutine returns, raises, or handles its cancellation.
End(t) ==
    /\ phase[t] \in {"running", "stopping"}
    /\ phase' = [phase EXCEPT ![t] = "ended"]

\* The process that runs a set of tasks dies.
Lose(S) ==
    /\ S # {}
    /\ \A t \in S : phase[t] \in {"running", "stopping"}
    /\ phase' = [t \in Task |-> IF t \in S THEN "lost" ELSE phase[t]]

EndStopping(t) == phase[t] = "stopping" /\ End(t)

Next ==
    \/ \E t \in Task : Start(t) \/ RequestStop(t) \/ End(t)
    \/ \E S \in SUBSET Task : Lose(S)

Spec == Init /\ [][Next]_phase

\* A task that was asked to stop does not run for ever.
FairSpec == Spec /\ \A t \in Task : WF_phase(EndStopping(t))

================================================================================
