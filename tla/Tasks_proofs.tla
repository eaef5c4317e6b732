----------------------------- MODULE Tasks_proofs ------------------------------
(***************************************************************************)
(* Proofs about background tasks: the registry over Redis and the page     *)
(* that waits for their answers.                                           *)
(*                                                                         *)
(* RedisTasks, for any set of instances, tasks, items and callers and any  *)
(* number of faults: the type invariant, the four safety invariants, and   *)
(* that every behaviour is one of TaskLifecycle.                           *)
(*                                                                         *)
(* ChatTasks, for any number of answers, questions, requests and models:   *)
(* the type invariant, and that an answer for which nothing is under way   *)
(* is done.                                                                *)
(***************************************************************************)
EXTENDS RedisTasks, ChatTasks, SequenceTheorems, TLAPS

--------------------------------------------------------------------------------
(* RedisTasks: types *)

\* One step of any process, of Redis, or of a fault keeps every state well typed.
LEMMA TypeStep == TypeOK /\ [Next]_vars => TypeOK'
<1> SUFFICES ASSUME TypeOK, [Next]_vars PROVE TypeOK'
  OBVIOUS
<1> USE ItemOfAssumption, MaxFaultsAssumption
        DEF TypeOK, RunState, SaveState, CleanState, Live, KnownTasks, Fault,
            Publish, coroutine, local, redis, process
<1>1. ASSUME NEW i \in Instance, Subscribe(i) PROVE TypeOK'
  BY <1>1 DEF Subscribe
<1>2. ASSUME NEW i \in Instance, ListenerDies(i) PROVE TypeOK'
  BY <1>2 DEF ListenerDies
<1>3. ASSUME NEW i \in Instance, Crash(i) PROVE TypeOK'
  BY <1>3 DEF Crash
<1>4. ASSUME NEW i \in Instance, Restart(i) PROVE TypeOK'
  BY <1>4 DEF Restart
<1>5. ASSUME NEW i \in Instance, NEW t \in Task, CreateTask(i, t) PROVE TypeOK'
  BY <1>5 DEF CreateTask
<1>6. ASSUME NEW i \in Instance, NEW t \in Task, HandleStop(i, t) PROVE TypeOK'
  BY <1>6 DEF HandleStop
<1>7. ASSUME NEW t \in Task, SaveTask(t) PROVE TypeOK'
  BY <1>7 DEF SaveTask
<1>8. ASSUME NEW t \in Task, SaveFails(t) PROVE TypeOK'
  BY <1>8 DEF SaveFails
<1>9. ASSUME NEW t \in Task, Finish(t) PROVE TypeOK'
  BY <1>9 DEF Finish
<1>10. ASSUME NEW t \in Task, CleanupExec(t) PROVE TypeOK'
  BY <1>10 DEF CleanupExec
<1>11. ASSUME NEW t \in Task, CleanupDelete(t) PROVE TypeOK'
  BY <1>11 DEF CleanupDelete
<1>12. ASSUME NEW t \in Task, CleanupFails(t) PROVE TypeOK'
  BY <1>12 DEF CleanupFails
<1>13. ASSUME NEW t \in Task, CleanupLocal(t) PROVE TypeOK'
  <2>1. itemTasks' \in [Instance -> [Item -> SUBSET Task]]
    <3>1. CASE owner[t] \in Instance
      <4> DEFINE f == [itemTasks[owner[t]] EXCEPT ![ItemOf[t]] = @ \ {t}]
      <4>1. f \in [Item -> SUBSET Task]
        BY <3>1
      <4>2. itemTasks' = [itemTasks EXCEPT ![owner[t]] = f]
        BY <1>13 DEF CleanupLocal
      <4> HIDE DEF f
      <4> QED
        BY <3>1, <4>1, <4>2
    <3>2. CASE owner[t] \notin Instance
      <4>1. itemTasks' = itemTasks
        BY <1>13, <3>2 DEF CleanupLocal
      <4> QED
        BY <4>1
    <3> QED
      BY <3>1, <3>2
  <2>2. tasks' \in [Instance -> SUBSET Task]
    BY <1>13 DEF CleanupLocal
  <2> QED
    BY <1>13, <2>1, <2>2 DEF CleanupLocal
<1>14. ASSUME NEW t \in Task, StopTask(t) PROVE TypeOK'
  BY <1>14 DEF StopTask
<1>15. ASSUME NEW c \in Caller, NEW x \in Item, ListItemTasks(c, x) PROVE TypeOK'
  BY <1>15 DEF ListItemTasks
<1>16. ASSUME NEW c \in Caller, NEW t \in Task, StopListed(c, t) PROVE TypeOK'
  BY <1>16 DEF StopListed
<1>17. CASE UNCHANGED vars
  BY <1>17 DEF vars
<1> QED
  BY <1>1, <1>2, <1>3, <1>4, <1>5, <1>6, <1>7, <1>10, <1>11, <1>12, <1>13,
     <1>14, <1>15, <1>16, <1>17, <1>8, <1>9 DEF Next

\* Every state of the registry is well typed: whatever the interleaving, the
\* progress of each save and clean-up stays among the states of its coroutine.
THEOREM TypeCorrect == Spec => []TypeOK
<1>1. Init => TypeOK
  BY ItemOfAssumption, MaxFaultsAssumption
     DEF Init, TypeOK, RunState, SaveState, CleanState
<1> QED
  BY <1>1, TypeStep, PTL DEF Spec

--------------------------------------------------------------------------------
(* RedisTasks: the inductive invariant *)

\* A clean-up begins when the coroutine is over, and a coroutine never resumes.
CleanIsDone == \A t \in Task : clean[t] # "none" => run[t] = "done"

\* A task that was created has an owner for good.
OwnerIsKnown == \A t \in Task : run[t] # "new" => owner[t] \in Instance

\* Only a coroutine that runs is cancelled: no task is born cancelled.
CancelledRan == \A t \in cancelled : run[t] # "new"

\* None of the four safety invariants is inductive alone: that a clean-up erases
\* no running task needs CleanIsDone, and that it pops the tables of the right
\* process needs OwnerIsKnown.
IInv ==
    /\ TypeOK
    /\ CleanIsDone
    /\ OwnerIsKnown
    /\ CancelledRan
    /\ ListedTogether
    /\ RunningIsListed
    /\ RunningIsRegistered
    /\ LocalTablesAgree

\* The invariant holds before any task exists.
LEMMA InitIInv == Init => IInv
BY ItemOfAssumption, MaxFaultsAssumption
   DEF Init, IInv, TypeOK, RunState, SaveState, CleanState, CleanIsDone, OwnerIsKnown, CancelledRan,
       ListedTogether, RunningIsListed, RunningIsRegistered, LocalTablesAgree, Live

\* Each step preserves it.
LEMMA StepIInv == IInv /\ [Next]_vars => IInv'
<1> SUFFICES ASSUME IInv, [Next]_vars PROVE IInv'
  OBVIOUS
<1>0. TypeOK /\ TypeOK'
  BY TypeStep DEF IInv
<1> USE ItemOfAssumption, <1>0
        DEF IInv, CleanIsDone, OwnerIsKnown, CancelledRan, ListedTogether,
            RunningIsListed, RunningIsRegistered, LocalTablesAgree, Live, Fault, coroutine,
            local, redis, process
<1>1. ASSUME UNCHANGED <<up, owner, run, cancelled, tasks, itemTasks, save, clean, hash, members>>
      PROVE  IInv'
  BY <1>1
<1>2. ASSUME NEW i \in Instance, Subscribe(i) PROVE IInv'
  BY <1>1, <1>2 DEF Subscribe
<1>3. ASSUME NEW i \in Instance, ListenerDies(i) PROVE IInv'
  BY <1>1, <1>3 DEF ListenerDies
<1>4. ASSUME NEW i \in Instance, Crash(i) PROVE IInv'
  BY <1>4 DEF Crash, TypeOK, RunState, SaveState, CleanState
<1>5. ASSUME NEW i \in Instance, Restart(i) PROVE IInv'
  BY <1>5 DEF Restart, TypeOK, RunState, SaveState, CleanState
<1>6. ASSUME NEW i \in Instance, NEW t \in Task, CreateTask(i, t) PROVE IInv'
  BY <1>6 DEF CreateTask, TypeOK, RunState, SaveState, CleanState
<1>7. ASSUME NEW i \in Instance, NEW t \in Task, HandleStop(i, t) PROVE IInv'
  BY <1>7 DEF HandleStop, TypeOK
<1>8. ASSUME NEW t \in Task, SaveTask(t) PROVE IInv'
  BY <1>8 DEF SaveTask, TypeOK, RunState, SaveState, CleanState
<1>9. ASSUME NEW t \in Task, SaveFails(t) PROVE IInv'
  BY <1>9 DEF SaveFails, TypeOK, RunState, SaveState, CleanState
<1>10. ASSUME NEW t \in Task, Finish(t) PROVE IInv'
  BY <1>10 DEF Finish, TypeOK, RunState, SaveState, CleanState
<1>11. ASSUME NEW t \in Task, CleanupExec(t) PROVE IInv'
  BY <1>11 DEF CleanupExec, TypeOK, RunState, SaveState, CleanState
<1>12. ASSUME NEW t \in Task, CleanupDelete(t) PROVE IInv'
  BY <1>12 DEF CleanupDelete, TypeOK, RunState, SaveState, CleanState
<1>13. ASSUME NEW t \in Task, CleanupFails(t) PROVE IInv'
  BY <1>13 DEF CleanupFails, TypeOK, RunState, SaveState, CleanState
<1>14. ASSUME NEW t \in Task, CleanupLocal(t) PROVE IInv'
  BY <1>14 DEF CleanupLocal, TypeOK, RunState, SaveState, CleanState
<1>15. ASSUME NEW t \in Task, StopTask(t) PROVE IInv'
  BY <1>1, <1>15 DEF StopTask
<1>16. ASSUME NEW c \in Caller, NEW x \in Item, ListItemTasks(c, x) PROVE IInv'
  BY <1>1, <1>16 DEF ListItemTasks
<1>17. ASSUME NEW c \in Caller, NEW t \in Task, StopListed(c, t) PROVE IInv'
  BY <1>1, <1>17 DEF StopListed
<1>18. CASE UNCHANGED vars
  BY <1>1, <1>18 DEF vars
<1> QED
  BY <1>2, <1>3, <1>4, <1>5, <1>6, <1>7, <1>8, <1>9, <1>10, <1>11, <1>12, <1>13, <1>14, <1>15, <1>16, <1>17, <1>18 DEF Next

\* The inductive invariant holds in every state.
THEOREM Invariant == Spec => []IInv
BY InitIInv, StepIInv, PTL DEF Spec

--------------------------------------------------------------------------------
(* RedisTasks: safety *)

\* What the set of an item lists, the global table lists: redis_save_task and
\* redis_cleanup_task change both tables in one transaction.
THEOREM ListedTogetherAlways == Spec => []ListedTogether
<1>1. IInv => ListedTogether
  BY DEF IInv
<1> QED
  BY <1>1, Invariant, PTL

\* No clean-up of another task, crash or error takes a running task whose
\* create_task returned off the list of all tasks.
THEOREM RunningIsListedAlways == Spec => []RunningIsListed
<1>1. IInv => RunningIsListed
  BY DEF IInv
<1> QED
  BY <1>1, Invariant, PTL

\* A stop command finds the task it names in the process that runs it.
THEOREM RunningIsRegisteredAlways == Spec => []RunningIsRegistered
<1>1. IInv => RunningIsRegistered
  BY DEF IInv
<1> QED
  BY <1>1, Invariant, PTL

\* The dictionaries `tasks` and `item_tasks` of a process never disagree.
THEOREM LocalTablesAgreeAlways == Spec => []LocalTablesAgree
<1>1. IInv => LocalTablesAgree
  BY DEF IInv
<1> QED
  BY <1>1, Invariant, PTL

--------------------------------------------------------------------------------
(* RedisTasks: refinement *)

\* phaseBar only depends on run and cancelled.
LEMMA PhaseUnchanged ==
    ASSUME UNCHANGED <<run, cancelled>> PROVE UNCHANGED phaseBar
BY DEF phaseBar, phaseOf

\* What a step does to one task decides what it does to phaseBar.
LEMMA PhaseOfOne ==
    ASSUME NEW t \in Task, NEW p,
           \A u \in Task \ {t} : phaseOf(u)' = phaseOf(u),
           phaseOf(t)' = p
    PROVE  phaseBar' = [phaseBar EXCEPT ![t] = p]
BY DEF phaseBar

\* The registry implements the life cycle: messages, clean-ups, listeners and
\* restarts are invisible, a crash loses exactly the running tasks of its process.
THEOREM RefinesLifecycle == Spec => Lifecycle!Spec
<1>1. Init => Lifecycle!Init
  BY DEF Init, Lifecycle!Init, phaseBar, phaseOf
<1>2. IInv /\ [Next]_vars => [Lifecycle!Next]_phaseBar
  <2> SUFFICES ASSUME IInv, [Next]_vars PROVE [Lifecycle!Next]_phaseBar
    OBVIOUS
  <2> USE DEF coroutine, local, redis, process, Fault
  <2>1. ASSUME UNCHANGED <<run, cancelled>> PROVE UNCHANGED phaseBar
    BY <2>1, PhaseUnchanged
  <2>2. ASSUME NEW i \in Instance, NEW t \in Task, CreateTask(i, t)
        PROVE  Lifecycle!Start(t)
    <3>1. run[t] = "new" /\ t \notin cancelled /\ cancelled' = cancelled
          /\ run' = [run EXCEPT ![t] = "running"] /\ run \in [Task -> RunState]
      BY <2>2 DEF CreateTask, IInv, TypeOK, CancelledRan
    <3>2. phaseBar[t] = "new" /\ phaseOf(t)' = "running"
      BY <3>1 DEF phaseBar, phaseOf
    <3>3. \A u \in Task \ {t} : phaseOf(u)' = phaseOf(u)
      BY <3>1 DEF phaseOf
    <3> QED
      BY <3>2, <3>3, PhaseOfOne DEF Lifecycle!Start
  <2>3. ASSUME NEW i \in Instance, NEW t \in Task, HandleStop(i, t)
        PROVE  Lifecycle!RequestStop(t) \/ UNCHANGED phaseBar
    <3>1. CASE Live(t) /\ t \in tasks[i] /\ t \notin cancelled
      <4>1. run' = run /\ cancelled' = cancelled \cup {t} /\ run[t] = "running"
        BY <2>3, <3>1 DEF HandleStop, Live
      <4>2. phaseBar[t] = "running" /\ phaseOf(t)' = "stopping"
        BY <3>1, <4>1 DEF phaseBar, phaseOf
      <4>3. \A u \in Task \ {t} : phaseOf(u)' = phaseOf(u)
        BY <4>1 DEF phaseOf
      <4> QED
        BY <4>2, <4>3, PhaseOfOne DEF Lifecycle!RequestStop
    <3>2. CASE ~(Live(t) /\ t \in tasks[i] /\ t \notin cancelled)
      BY <2>1, <2>3, <3>2 DEF HandleStop
    <3> QED
      BY <3>1, <3>2
  <2>4. ASSUME NEW t \in Task, Finish(t) PROVE Lifecycle!End(t)
    <3>1. run[t] = "running" /\ cancelled' = cancelled
          /\ run' = [run EXCEPT ![t] = "done"] /\ run \in [Task -> RunState]
      BY <2>4 DEF Finish, Live, IInv, TypeOK
    <3>2. phaseBar[t] \in {"running", "stopping"} /\ phaseOf(t)' = "ended"
      BY <3>1 DEF phaseBar, phaseOf
    <3>3. \A u \in Task \ {t} : phaseOf(u)' = phaseOf(u)
      BY <3>1 DEF phaseOf
    <3> QED
      BY <3>2, <3>3, PhaseOfOne DEF Lifecycle!End
  <2>5. ASSUME NEW i \in Instance, Crash(i)
        PROVE  (\E S \in SUBSET Task : Lifecycle!Lose(S)) \/ UNCHANGED phaseBar
    <3> DEFINE S == {t \in Task : owner[t] = i /\ run[t] = "running"}
    <3>1. cancelled' = cancelled
          /\ run' = [t \in Task |-> IF t \in S THEN "lost" ELSE run[t]]
          /\ run \in [Task -> RunState]
      BY <2>5 DEF Crash, IInv, TypeOK
    <3>2. phaseBar' = [t \in Task |-> IF t \in S THEN "lost" ELSE phaseBar[t]]
      <4>1. ASSUME NEW t \in Task, t \in S PROVE phaseOf(t)' = "lost"
        BY <3>1, <4>1 DEF phaseOf
      <4>2. ASSUME NEW t \in Task, t \notin S PROVE phaseOf(t)' = phaseOf(t)
        BY <3>1, <4>2 DEF phaseOf, RunState
      <4> QED
        BY <4>1, <4>2 DEF phaseBar
    <3>3. \A t \in S : phaseBar[t] \in {"running", "stopping"}
      BY DEF phaseBar, phaseOf
    <3>4. CASE S = {}
      <4>1. run' = run
        BY <3>1, <3>4
      <4> QED
        BY <2>1, <3>1, <4>1
    <3>5. CASE S # {}
      BY <3>2, <3>3, <3>5 DEF Lifecycle!Lose
    <3> QED
      BY <3>4, <3>5
  <2>6. CASE \E i \in Instance : Subscribe(i) \/ ListenerDies(i) \/ Restart(i)
    BY <2>1, <2>6 DEF Subscribe, ListenerDies, Restart
  <2>7. CASE \E t \in Task : \/ SaveTask(t) \/ SaveFails(t) \/ CleanupExec(t)
                             \/ CleanupDelete(t) \/ CleanupFails(t)
                             \/ CleanupLocal(t) \/ StopTask(t)
    BY <2>1, <2>7 DEF SaveTask, SaveFails, CleanupExec, CleanupDelete, CleanupFails,
                      CleanupLocal, StopTask
  <2>8. CASE \E c \in Caller : \/ \E x \in Item : ListItemTasks(c, x)
                               \/ \E t \in Task : StopListed(c, t)
    BY <2>1, <2>8 DEF ListItemTasks, StopListed
  <2>9. CASE UNCHANGED vars
    BY <2>1, <2>9 DEF vars
  <2> QED
    BY <2>2, <2>3, <2>4, <2>5, <2>6, <2>7, <2>8, <2>9 DEF Next, Lifecycle!Next
<1> QED
  BY <1>1, <1>2, Invariant, PTL DEF Spec, Lifecycle!Spec

--------------------------------------------------------------------------------
(* ChatTasks: types *)

TreeOK ==
    /\ nodes \subseteq Answer
    /\ asks \in [Answer -> Question \cup {Null}]
    /\ above \in [Question -> Answer \cup {Null}]
    /\ made \in [answers : 0 .. MaxAnswers, questions : 0 .. MaxQuestions]
    /\ current \in Answer \cup {Null}

SendsOK ==
    /\ done \subseteq Answer
    /\ \A s \in sends : s.msgs \subseteq Answer /\ s.creating \in BOOLEAN
    /\ completing \subseteq SUBSET Answer
    /\ upset \subseteq Upsets

TasksOK ==
    /\ jobs \in [Job -> JobStates]
    /\ events \in Seq({"done", "cancel"} \X Answer)
    /\ taskIds \subseteq Job \cup {Over}
    /\ loop \in [on : BOOLEAN, todo : SUBSET (Job \cup {Over}), told : SUBSET Answer, same : BOOLEAN]

\* Answers that were made: each answers a question; only they are in the tree, asked for
\* or known to have a task.
Made == 1 .. made.answers
MadeInv ==
    /\ \A m \in Made : asks[m] # Null
    /\ nodes \subseteq Made
    /\ \A s \in sends : s.msgs \subseteq Made
    /\ \A j \in Job : jobs[j] # "idle" => j[1] \in Made
    /\ \A j \in Job : j \in taskIds \cup loop.todo => j[1] \in Made

LEMMA PageParts == PageTypeOK <=> TreeOK /\ SendsOK /\ TasksOK
BY DEF PageTypeOK, TreeOK, SendsOK, TasksOK

LEMMA PagePartsNext == PageTypeOK' <=> TreeOK' /\ SendsOK' /\ TasksOK'
BY DEF PageTypeOK, TreeOK, SendsOK, TasksOK

LEMMA SameTree == ASSUME TreeOK, UNCHANGED tree PROVE TreeOK'
BY DEF TreeOK, tree

LEMMA SameTasks == ASSUME TasksOK, UNCHANGED <<jobs, events, taskIds, loop>> PROVE TasksOK'
BY DEF TasksOK

LEMMA UpsetType == ASSUME upset \subseteq Upsets, NEW what \in SUBSET Upsets, Upset(what) PROVE upset' \subseteq Upsets
BY DEF Upset

LEMMA UpsetIfType ==
    ASSUME upset \subseteq Upsets, NEW what \in Upsets, NEW cond, UpsetIf(cond, what)
    PROVE  upset' \subseteq Upsets
BY DEF Upset, UpsetIf

\* Answers are made.
LEMMA NewAnswers ==
    ASSUME PageTypeOK, MadeInv, NEW q \in Question, NEW k \in 1 .. MaxModels, AddAnswers(q, k)
    PROVE  /\ nodes' \subseteq Answer /\ asks' \in [Answer -> Question \cup {Null}]
           /\ current' \in Answer
           /\ made.answers + k \in 0 .. MaxAnswers
           /\ New(k) \subseteq 1 .. made.answers + k /\ nodes' \subseteq 1 .. made.answers + k
           /\ \A m \in 1 .. made.answers + k : asks'[m] # Null
<1>1. made.answers \in Nat /\ k \in Nat \ {0} /\ MaxAnswers \in Nat
  BY BoundsAssumption, PageParts DEF TreeOK
<1>2. New(k) \subseteq Answer /\ nodes' = nodes \cup New(k) /\ current' = made.answers + k
      /\ asks' = [m \in Answer |-> IF m \in New(k) THEN q ELSE asks[m]]
  BY DEF AddAnswers
<1>3. made.answers + k \in New(k) /\ New(k) \subseteq 1 .. made.answers + k
  BY <1>1 DEF New
<1>4. made.answers + k \in Answer
  BY <1>2, <1>3
<1>5. Made \subseteq 1 .. made.answers + k /\ 1 .. made.answers + k = Made \cup New(k)
      /\ 1 .. made.answers + k \subseteq Answer
  BY <1>1, <1>4 DEF Made, New, Answer
<1>6. \A m \in 1 .. made.answers + k : asks'[m] # Null
  BY <1>2, <1>5 DEF MadeInv, Question, Null
<1>7. nodes' \subseteq 1 .. made.answers + k
  BY <1>2, <1>3, <1>5 DEF MadeInv
<1>8. nodes' \subseteq Answer /\ asks' \in [Answer -> Question \cup {Null}]
  BY <1>2, PageParts DEF TreeOK
<1>9. made.answers + k \in 0 .. MaxAnswers
  BY <1>1, <1>4 DEF Answer
<1> QED
  BY <1>2, <1>3, <1>4, <1>6, <1>7, <1>8, <1>9

LEMMA AnswersType ==
    ASSUME PageTypeOK, MadeInv, NEW q \in Question, NEW k \in 1 .. MaxModels, MoreAnswers(q, k)
    PROVE  /\ TreeOK' /\ nodes' \subseteq Made' /\ (\A m \in Made' : asks'[m] # Null)
           /\ New(k) \subseteq Made' /\ Made \subseteq Made' /\ New(k) \subseteq Answer
<1>1. AddAnswers(q, k) /\ made' = [made EXCEPT !.answers = @ + k] /\ UNCHANGED above
  BY DEF MoreAnswers
<1>2. made' \in [answers : 0 .. MaxAnswers, questions : 0 .. MaxQuestions] /\ made'.answers = made.answers + k
  BY <1>1, NewAnswers, PageParts DEF TreeOK
<1>3. Made' = 1 .. made.answers + k /\ Made \subseteq Made'
  BY <1>2, PageParts, BoundsAssumption DEF Made, TreeOK
<1> QED
  BY <1>1, <1>2, <1>3, NewAnswers, PageParts DEF TreeOK, AddAnswers

LEMMA QuestionType ==
    ASSUME PageTypeOK, MadeInv, NEW p \in Answer \cup {Null}, NEW k \in 1 .. MaxModels, AddQuestion(p, k)
    PROVE  /\ TreeOK' /\ nodes' \subseteq Made' /\ (\A m \in Made' : asks'[m] # Null)
           /\ New(k) \subseteq Made' /\ Made \subseteq Made' /\ New(k) \subseteq Answer
<1> DEFINE q == made.questions + 1
<1>1. q \in Question /\ AddAnswers(q, k) /\ above' = [above EXCEPT ![q] = p]
      /\ made' = [answers |-> made.answers + k, questions |-> q]
  BY DEF AddQuestion
<1> HIDE DEF q
<1>2. q \in 0 .. MaxQuestions
  BY <1>1, BoundsAssumption DEF Question
<1>3. made' \in [answers : 0 .. MaxAnswers, questions : 0 .. MaxQuestions] /\ made'.answers = made.answers + k
  BY <1>1, <1>2, NewAnswers
<1>4. Made' = 1 .. made.answers + k /\ Made \subseteq Made'
  BY <1>3, PageParts, BoundsAssumption DEF Made, TreeOK
<1>5. above' \in [Question -> Answer \cup {Null}]
  BY <1>1, PageParts DEF TreeOK
<1> QED
  BY <1>1, <1>3, <1>4, <1>5, NewAnswers DEF TreeOK, AddAnswers


\* What the user does to get answers; q or p is the question or answer they stand below.
Makes(k) ==
    \/ \E q \in Question : MoreAnswers(q, k)
    \/ \E p \in Answer \cup {Null} : AddQuestion(p, k)

LEMMA MakesType ==
    ASSUME PageTypeOK, MadeInv, NEW k \in 1 .. MaxModels, Makes(k)
    PROVE  /\ TreeOK' /\ nodes' \subseteq Made' /\ (\A m \in Made' : asks'[m] # Null)
           /\ New(k) \subseteq Made' /\ Made \subseteq Made' /\ New(k) \subseteq Answer
BY AnswersType, QuestionType DEF Makes

LEMMA InNodes ==
    ASSUME PageTypeOK, MadeInv, NEW m \in nodes
    PROVE  m \in Answer /\ asks[m] \in Question /\ above[asks[m]] \in Answer \cup {Null}
<1>1. m \in Answer /\ m \in Made
  BY PageParts DEF TreeOK, MadeInv
<1>2. asks[m] # Null
  BY <1>1 DEF MadeInv
<1> QED
  BY <1>1, <1>2, PageParts DEF TreeOK

\* A step that sends k answers for which the chat is stored first.
Sends(k) ==
    /\ Makes(k)
    /\ \E creating \in BOOLEAN : Send(k, creating)
    /\ UNCHANGED <<done, jobs, events, taskIds, loop, completing, upset>>

LEMMA ShownNodes == ASSUME NEW m \in Shown PROVE m \in nodes
BY DEF Shown

LEMMA SendSteps ==
    ASSUME PageTypeOK, MadeInv, NEW k \in 1 .. MaxModels,
           SubmitPrompt(k) \/ \E m \in Answer : EditQuestion(m, k) \/ SubmitMessage(m, k) \/ Regenerate(m, k)
    PROVE  Sends(k)
<1>1. CASE SubmitPrompt(k)
  <2>1. current \in Answer \cup {Null} /\ (current = Null) \in BOOLEAN
    BY PageParts DEF TreeOK
  <2> QED
    BY <1>1, <2>1 DEF SubmitPrompt, Sends, Makes
<1>2. ASSUME NEW m \in Answer, EditQuestion(m, k) PROVE Sends(k)
  BY <1>2, ShownNodes, InNodes DEF EditQuestion, Sends, Makes
<1>3. ASSUME NEW m \in Answer, SubmitMessage(m, k) PROVE Sends(k)
  BY <1>3 DEF SubmitMessage, Sends, Makes
<1>4. ASSUME NEW m \in Answer, Regenerate(m, k) PROVE Sends(k)
  BY <1>4, ShownNodes, InNodes DEF Regenerate, Offered, Sends, Makes
<1> QED
  BY <1>1, <1>2, <1>3, <1>4

LEMMA SendsType ==
    ASSUME PageTypeOK, MadeInv, NEW k \in 1 .. MaxModels, Sends(k)
    PROVE  PageTypeOK' /\ MadeInv'
<1>1. UNCHANGED <<done, jobs, events, taskIds, loop, completing, upset>>
  BY DEF Sends
<1>2. \A s \in sends' : (s \in sends \/ s.msgs = New(k)) /\ s.creating \in BOOLEAN
  BY PageParts DEF Sends, Send, SendsOK
<1>3. TreeOK' /\ nodes' \subseteq Made' /\ (\A m \in Made' : asks'[m] # Null)
      /\ New(k) \subseteq Made' /\ Made \subseteq Made' /\ New(k) \subseteq Answer
  BY MakesType DEF Sends
<1>4. SendsOK'
  BY <1>1, <1>2, <1>3, PageParts DEF SendsOK
<1>5. TasksOK'
  BY <1>1, PageParts, SameTasks
<1>6. MadeInv'
  BY <1>1, <1>2, <1>3 DEF MadeInv
<1> QED
  BY <1>3, <1>4, <1>5, <1>6, PagePartsNext

LEMMA FinishedMakes ==
    ASSUME PageTypeOK, MadeInv, AddFinished
    PROVE  1 \in 1 .. MaxModels /\ Makes(1) /\ done' = done \cup New(1)
           /\ UNCHANGED <<sends, jobs, events, taskIds, loop, completing, upset>>
<1>1. 1 \in 1 .. MaxModels
  BY BoundsAssumption
<1>2. ASSUME NEW m \in Answer, Offered(m), MoreAnswers(asks[m], 1) PROVE Makes(1)
  BY <1>2, ShownNodes, InNodes DEF Makes, Offered
<1>3. ASSUME AddQuestion(current, 1) PROVE Makes(1)
  BY <1>3, PageParts DEF Makes, TreeOK
<1>4. ASSUME NEW m \in Answer, AddQuestion(m, 1) PROVE Makes(1)
  BY <1>4 DEF Makes
<1> QED
  BY <1>1, <1>2, <1>3, <1>4 DEF AddFinished

LEMMA FinishedType == ASSUME PageTypeOK, MadeInv, AddFinished PROVE PageTypeOK' /\ MadeInv'
<1>1. TreeOK' /\ nodes' \subseteq Made' /\ (\A m \in Made' : asks'[m] # Null)
      /\ Made \subseteq Made' /\ New(1) \subseteq Answer
  BY FinishedMakes, MakesType
<1>2. UNCHANGED <<sends, jobs, events, taskIds, loop, completing, upset>> /\ done' = done \cup New(1)
  BY FinishedMakes
<1>3. SendsOK'
  BY <1>1, <1>2, PageParts DEF SendsOK
<1>4. TasksOK'
  BY <1>2, PageParts, SameTasks
<1>5. MadeInv'
  BY <1>1, <1>2 DEF MadeInv
<1> QED
  BY <1>1, <1>3, <1>4, <1>5, PagePartsNext

\* A step that only shows another branch, or deletes.
Prunes ==
    /\ nodes' \subseteq nodes /\ current' \in Answer \cup {Null}
    /\ asks' \in [Answer -> Question \cup {Null}] /\ above' \in [Question -> Answer \cup {Null}]
    /\ \A m \in Answer : asks[m] # Null => asks'[m] # Null
    /\ UNCHANGED <<made, done, sends, jobs, events, taskIds, loop, completing, upset>>

LEMMA PruneSteps ==
    ASSUME PageTypeOK, MadeInv,
           \/ \E m \in Answer : Show(m) \/ DeleteAnswer(m)
           \/ \E q \in Question : DeleteQuestion(q)
    PROVE  Prunes
<1>0. TreeOK
  BY PageParts
<1>1. ASSUME NEW m \in Answer, Show(m) PROVE Prunes
  BY <1>0, <1>1 DEF Show, Prunes, TreeOK
<1>2. ASSUME NEW m \in Answer, DeleteAnswer(m) PROVE Prunes
  <2>1. m \in nodes /\ asks[m] \in Question
    BY <1>2, ShownNodes, InNodes DEF DeleteAnswer, Offered
  <2>2. current' \in nodes'
    BY <1>2 DEF DeleteAnswer, Descend
  <2>3. asks[m] # Null
    BY <2>1 DEF Question, Null
  <2> QED
    BY <1>0, <1>2, <2>1, <2>2, <2>3 DEF DeleteAnswer, Prunes, TreeOK
<1>3. ASSUME NEW q \in Question, DeleteQuestion(q) PROVE Prunes
  <2>1. current' \in nodes'
    BY <1>3 DEF DeleteQuestion, Descend
  <2> QED
    BY <1>0, <1>3, <2>1 DEF DeleteQuestion, Prunes, TreeOK
<1> QED
  BY <1>1, <1>2, <1>3

LEMMA PrunesType == ASSUME PageTypeOK, MadeInv, Prunes PROVE PageTypeOK' /\ MadeInv'
<1>1. TreeOK'
  BY PageParts DEF Prunes, TreeOK
<1>2. SendsOK'
  BY PageParts DEF Prunes, SendsOK
<1>3. TasksOK'
  BY PageParts, SameTasks DEF Prunes
<1>4. Made' = Made
  BY DEF Prunes, Made
<1>5. Made \subseteq Answer
  BY PageParts, BoundsAssumption DEF TreeOK, Made, Answer
<1>6. MadeInv'
  BY <1>4, <1>5 DEF MadeInv, Prunes
<1> QED
  BY <1>1, <1>2, <1>3, <1>6, PagePartsNext


\* Steps that leave the tree alone.
LEMMA SameMade ==
    ASSUME MadeInv, UNCHANGED tree,
           \A s \in sends' : s.msgs \subseteq Made,
           \A j \in Job : jobs'[j] # "idle" => j[1] \in Made,
           \A j \in Job : j \in taskIds' \cup loop'.todo => j[1] \in Made
    PROVE  MadeInv'
BY DEF MadeInv, tree, Made

LEMMA StoreType ==
    ASSUME PageTypeOK, MadeInv, NEW s \in sends, ChatCreated(s) \/ ChatSaved(s) \/ StoringFails(s)
    PROVE  PageTypeOK' /\ MadeInv'
<1>1. UNCHANGED <<tree, done, events, taskIds, loop, completing>>
  BY DEF ChatCreated, ChatSaved, StoringFails
<1>2. s.msgs \subseteq Answer /\ s.msgs \subseteq Made
  BY PageParts DEF SendsOK, MadeInv
<1>3. \A t \in sends' : t \in sends \/ (t.msgs = s.msgs \cap nodes /\ t.creating = FALSE)
  BY DEF ChatCreated, ChatSaved, StoringFails
<1>4. jobs' \in [Job -> JobStates] /\ \A j \in Job : jobs'[j] = jobs[j] \/ j[1] \in s.msgs
  <2>1. CASE ChatSaved(s)
    <3> DEFINE js == {<<m, 1>> : m \in s.msgs}
    <3>1. \A j \in js : j[1] \in s.msgs
      OBVIOUS
    <3>2. jobs' = [j \in Job |-> IF j \in js THEN "posted" ELSE jobs[j]]
      BY <2>1 DEF ChatSaved, Ask
    <3> HIDE DEF js
    <3> QED
      BY <3>1, <3>2, PageParts DEF TasksOK, JobStates
  <2>2. CASE UNCHANGED jobs
    BY <2>2, PageParts DEF TasksOK
  <2> QED
    BY <2>1, <2>2 DEF ChatCreated, StoringFails
<1>5. upset' \subseteq Upsets
  <2>1. "saveFailed" \in Upsets /\ upset \subseteq Upsets
    BY PageParts DEF Upsets, SendsOK
  <2> QED
    BY <2>1, UpsetIfType DEF ChatCreated, ChatSaved, StoringFails
<1>6. SendsOK'
  BY <1>1, <1>2, <1>3, <1>5, PageParts DEF SendsOK
<1>7. TasksOK'
  BY <1>1, <1>4, PageParts DEF TasksOK
<1>8. MadeInv'
  BY <1>1, <1>2, <1>3, <1>4, SameMade DEF MadeInv
<1> QED
  BY <1>1, <1>6, <1>7, <1>8, PageParts, SameTree, PagePartsNext

LEMMA ContinueType == ASSUME PageTypeOK, MadeInv, ContinueResponse PROVE PageTypeOK' /\ MadeInv'
<1>1. UNCHANGED <<tree, sends, events, taskIds, loop, completing>> /\ done' \subseteq done /\ current \in nodes
  BY DEF ContinueResponse
<1>2. jobs' \in [Job -> JobStates] /\ \A j \in Job : jobs'[j] = jobs[j] \/ j[1] = current
  <2>1. CASE UNCHANGED jobs
    BY <2>1, PageParts DEF TasksOK
  <2>2. ASSUME NEW k \in 1 .. MaxAsks, Ask({<<current, k>>})
        PROVE  jobs' \in [Job -> JobStates] /\ \A j \in Job : jobs'[j] = jobs[j] \/ j[1] = current
    BY <2>2, PageParts DEF Ask, TasksOK, JobStates
  <2> QED
    BY <2>1, <2>2 DEF ContinueResponse
<1>3. upset' \subseteq Upsets
  <2>1. "modelGone" \in Upsets /\ upset \subseteq Upsets
    BY PageParts DEF Upsets, SendsOK
  <2> QED
    BY <2>1, UpsetIfType DEF ContinueResponse
<1>4. SendsOK'
  BY <1>1, <1>3, PageParts DEF SendsOK
<1>5. TasksOK'
  BY <1>1, <1>2, PageParts DEF TasksOK
<1>6. MadeInv'
  BY <1>1, <1>2, SameMade DEF MadeInv
<1> QED
  BY <1>1, <1>4, <1>5, <1>6, PageParts, SameTree, PagePartsNext

LEMMA AcceptType == ASSUME PageTypeOK, MadeInv, NEW j \in Job, Accept(j) PROVE PageTypeOK' /\ MadeInv'
<1>1. UNCHANGED <<tree, done, sends, events, taskIds, loop, completing, upset>>
      /\ jobs' = [jobs EXCEPT ![j] = "started"] /\ jobs[j] # "idle"
  BY DEF Accept
<1>2. SendsOK'
  BY <1>1, PageParts DEF SendsOK
<1>3. TasksOK'
  BY <1>1, PageParts DEF TasksOK, JobStates
<1>4. MadeInv'
  BY <1>1, SameMade, PageParts DEF MadeInv, TasksOK
<1> QED
  BY <1>1, <1>2, <1>3, <1>4, PageParts, SameTree, PagePartsNext

LEMMA AnsweredType == ASSUME PageTypeOK, MadeInv, NEW j \in Job, Answered(j) PROVE PageTypeOK' /\ MadeInv'
<1> DEFINE id == IF jobs[j] = "over" THEN Over ELSE j
<1>1. /\ UNCHANGED <<tree, done, sends, events, completing, upset>>
      /\ jobs[j] # "idle" /\ jobs' = [jobs EXCEPT ![j] = IF @ = "over" THEN "idle" ELSE "running"]
      /\ taskIds' = taskIds \cup {id}
      /\ loop' = loop \/ loop' = [loop EXCEPT !.todo = @ \cup {id}]
  BY DEF Answered, Waiting
<1>2. id \in Job \cup {Over} /\ (id \in Job => id = j \/ id = Over)
  OBVIOUS
<1>3. Over \notin Job
  BY DEF Over, Job, Answer
<1> HIDE DEF id
<1>4. loop'.todo \subseteq loop.todo \cup {id}
      /\ loop' \in [on : BOOLEAN, todo : SUBSET (Job \cup {Over}), told : SUBSET Answer, same : BOOLEAN]
  BY <1>1, <1>2, PageParts DEF TasksOK
<1>5. SendsOK'
  BY <1>1, PageParts DEF SendsOK
<1>6. jobs' \in [Job -> JobStates]
  BY <1>1, PageParts DEF TasksOK, JobStates
<1>7. TasksOK'
  BY <1>1, <1>2, <1>4, <1>6, PageParts DEF TasksOK
<1>8. j[1] \in Made
  BY <1>1 DEF MadeInv
<1>9. \A i \in Job : jobs'[i] # "idle" => i[1] \in Made
  BY <1>1, <1>8, PageParts DEF MadeInv, TasksOK
<1>10. \A i \in Job : i \in taskIds' \cup loop'.todo => i[1] \in Made
  BY <1>1, <1>2, <1>3, <1>4, <1>8 DEF MadeInv
<1>11. MadeInv'
  BY <1>1, <1>9, <1>10, SameMade DEF MadeInv
<1> QED
  BY <1>1, <1>5, <1>7, <1>11, PageParts, SameTree, PagePartsNext

LEMMA PostFailsType == ASSUME PageTypeOK, MadeInv, NEW j \in Job, PostFails(j) PROVE PageTypeOK' /\ MadeInv'
<1>1. /\ UNCHANGED <<asks, above, made, sends, events, taskIds, loop, completing>>
      /\ jobs[j] # "idle" /\ jobs' = [jobs EXCEPT ![j] = IF @ = "started" THEN "lost" ELSE "idle"]
      /\ nodes' = nodes \cup {j[1]} /\ done' = done \cup {j[1]} /\ current' \in {j[1], current}
  BY DEF PostFails, FailedJob, Waiting
<1>2. j[1] \in Answer /\ j[1] \in Made
  BY <1>1 DEF Job, MadeInv
<1>3. upset' \subseteq Upsets
  <2>1. "staleCopy" \in Upsets /\ upset \subseteq Upsets
    BY PageParts DEF Upsets, SendsOK
  <2> QED
    BY <2>1, UpsetIfType DEF PostFails
<1>4. TreeOK'
  BY <1>1, <1>2, PageParts DEF TreeOK
<1>5. SendsOK'
  BY <1>1, <1>2, <1>3, PageParts DEF SendsOK
<1>6. TasksOK'
  BY <1>1, PageParts DEF TasksOK, JobStates
<1>7. \A i \in Job : jobs'[i] # "idle" => i[1] \in Made
  BY <1>1, <1>2, PageParts DEF MadeInv, TasksOK
<1>8. MadeInv'
  BY <1>1, <1>2, <1>7 DEF MadeInv, Made
<1> QED
  BY <1>4, <1>5, <1>6, <1>8, PagePartsNext

LEMMA EventsType ==
    ASSUME events \in Seq({"done", "cancel"} \X Answer), events # <<>>
    PROVE  /\ Subject \in Answer /\ Tail(events) \in Seq({"done", "cancel"} \X Answer)
           /\ events[1][2] = Subject
           /\ Len(events) \in Nat \ {0} /\ Len(Tail(events)) = Len(events) - 1
           /\ \A i \in 1 .. Len(events) - 1 : Tail(events)[i] = events[i + 1]
<1>1. /\ Head(events) \in {"done", "cancel"} \X Answer
      /\ Tail(events) \in Seq({"done", "cancel"} \X Answer)
      /\ Len(Tail(events)) = Len(events) - 1
      /\ \A i \in 1 .. Len(Tail(events)) : Tail(events)[i] = events[i + 1]
  BY HeadTailProperties
<1>2. Len(events) \in Nat \ {0} /\ Head(events) = events[1]
  BY EmptySeq
<1> QED
  BY <1>1, <1>2 DEF Subject

LEMMA EmitType ==
    ASSUME events \in Seq({"done", "cancel"} \X Answer), NEW kind \in {"done", "cancel"}, NEW m \in Answer,
           Emit(kind, m)
    PROVE  /\ events' \in Seq({"done", "cancel"} \X Answer)
           /\ Len(events) \in Nat /\ Len(events') = Len(events) + 1
           /\ events'[Len(events) + 1][2] = m
           /\ \A i \in 1 .. Len(events) : events'[i] = events[i]
<1>1. <<kind, m>> \in {"done", "cancel"} \X Answer
  OBVIOUS
<1> QED
  BY <1>1, AppendProperties, LenProperties DEF Emit

LEMMA TaskEndsType == ASSUME PageTypeOK, MadeInv, NEW j \in Job, TaskEnds(j) PROVE PageTypeOK' /\ MadeInv'
<1> DEFINE renamed(ids) == IF j \in ids THEN (ids \ {j}) \cup {Over} ELSE ids
<1>1. /\ UNCHANGED <<tree, done, sends, completing, upset>>
      /\ jobs[j] # "idle" /\ jobs' = [jobs EXCEPT ![j] = IF @ = "started" THEN "over" ELSE "idle"]
      /\ taskIds' = renamed(taskIds) /\ loop' = [loop EXCEPT !.todo = renamed(@)]
  BY DEF TaskEnds
<1>2. events' \in Seq({"done", "cancel"} \X Answer)
  <2>1. events \in Seq({"done", "cancel"} \X Answer) /\ j[1] \in Answer
    BY PageParts DEF TasksOK, Job
  <2> QED
    BY <2>1, EmitType DEF TaskEnds
<1>3. Over \notin Job
  BY DEF Over, Job, Answer
<1>4. \A ids : renamed(ids) \subseteq ids \cup {Over}
  OBVIOUS
<1> HIDE DEF renamed
<1>5. loop'.todo \subseteq loop.todo \cup {Over}
      /\ loop' \in [on : BOOLEAN, todo : SUBSET (Job \cup {Over}), told : SUBSET Answer, same : BOOLEAN]
  BY <1>1, <1>4, PageParts DEF TasksOK
<1>6. SendsOK'
  BY <1>1, PageParts DEF SendsOK
<1>7. jobs' \in [Job -> JobStates]
  BY <1>1, PageParts DEF TasksOK, JobStates
<1>8. TasksOK'
  BY <1>1, <1>2, <1>4, <1>5, <1>7, PageParts DEF TasksOK
<1>9. \A i \in Job : jobs'[i] # "idle" => i[1] \in Made
  BY <1>1, PageParts DEF MadeInv, TasksOK
<1>10. \A i \in Job : i \in taskIds' \cup loop'.todo => i[1] \in Made
  BY <1>1, <1>3, <1>4, <1>5 DEF MadeInv
<1>11. MadeInv'
  BY <1>1, <1>9, <1>10, SameMade DEF MadeInv
<1> QED
  BY <1>1, <1>6, <1>8, <1>11, PageParts, SameTree, PagePartsNext

\* taskIds = null, as far as the types go.
LEMMA ForgetType ==
    ASSUME PageTypeOK, MadeInv, ForgetTasks \/ UNCHANGED <<taskIds, loop>>
    PROVE  /\ taskIds' \subseteq taskIds /\ loop'.todo = loop.todo /\ loop'.on = loop.on /\ loop'.told = loop.told
           /\ loop' \in [on : BOOLEAN, todo : SUBSET (Job \cup {Over}), told : SUBSET Answer, same : BOOLEAN]
BY PageParts DEF ForgetTasks, TasksOK

LEMMA HearsType ==
    ASSUME PageTypeOK, MadeInv, HandleDone \/ HandleCancel \/ LoseEvent
    PROVE  PageTypeOK' /\ MadeInv'
<1>1. events # <<>> /\ events' = Tail(events) /\ UNCHANGED <<tree, sends, jobs>>
  BY DEF HandleDone, HandleCancel, LoseEvent, Arrives
<1>2. ForgetTasks \/ UNCHANGED <<taskIds, loop>>
  BY DEF HandleDone, HandleCancel, LoseEvent
<1>3. TasksOK'
  BY <1>1, <1>2, EventsType, ForgetType, PageParts DEF TasksOK
<1>4. MadeInv'
  BY <1>1, <1>2, ForgetType, SameMade DEF MadeInv
<1>5. done' \subseteq Answer
  <2>1. Subject \in Answer /\ Stopped \subseteq Answer /\ done \subseteq Answer
    BY <1>1, EventsType, PageParts DEF TasksOK, SendsOK, TreeOK, Stopped, AnswersTo
  <2> QED
    BY <2>1 DEF HandleDone, HandleCancel, LoseEvent
<1>6. completing' \subseteq SUBSET Answer
  <2>1. Branch[Subject] \subseteq Answer
    <3>1. Subject \in Answer
      BY <1>1, EventsType, PageParts DEF TasksOK
    <3>2. \A m \in Answer : Branch[m] \subseteq Answer
      BY DEF Branch
    <3> QED
      BY <3>1, <3>2
  <2>2. completing' = completing \/ completing' = completing \cup {Branch[Subject]}
    BY DEF HandleDone, HandleCancel, LoseEvent
  <2>3. completing \subseteq SUBSET Answer
    BY PageParts DEF SendsOK
  <2> HIDE DEF Subject
  <2> QED
    BY <2>1, <2>2, <2>3
<1>7. upset' \subseteq Upsets
  <2>1. {"aside", "lostEvent"} \subseteq Upsets /\ upset \subseteq Upsets
    BY PageParts DEF Upsets, SendsOK
  <2> QED
    BY <2>1, UpsetIfType DEF HandleDone, HandleCancel, LoseEvent
<1>8. SendsOK'
  BY <1>1, <1>5, <1>6, <1>7, PageParts DEF SendsOK
<1> QED
  BY <1>1, <1>3, <1>4, <1>8, PageParts, SameTree, PagePartsNext

LEMMA CompletedType ==
    ASSUME PageTypeOK, MadeInv, NEW b \in completing, Completed(b)
    PROVE  PageTypeOK' /\ MadeInv'
<1>1. /\ completing' = completing \ {b} /\ UNCHANGED <<tree, done, sends, jobs, events, upset>>
      /\ ForgetTasks \/ UNCHANGED <<taskIds, loop>>
  BY DEF Completed
<1>2. TasksOK'
  BY <1>1, ForgetType, PageParts DEF TasksOK
<1>3. SendsOK'
  BY <1>1, PageParts DEF SendsOK
<1>4. MadeInv'
  BY <1>1, ForgetType, SameMade DEF MadeInv
<1> QED
  BY <1>1, <1>2, <1>3, <1>4, PageParts, SameTree, PagePartsNext

LEMMA StopType ==
    ASSUME PageTypeOK, MadeInv, StopResponse \/ StopReturns \/ \E j \in Job \cup {Over} : StopNext(j)
    PROVE  PageTypeOK' /\ MadeInv'
<1>1. CASE StopResponse
  <2>1. UNCHANGED <<tree, done, sends, jobs, events, taskIds, completing, upset>>
        /\ loop' = [on |-> TRUE, todo |-> taskIds, told |-> {}, same |-> TRUE]
    BY <1>1 DEF StopResponse
  <2>2. TasksOK'
    BY <2>1, PageParts DEF TasksOK
  <2>3. SendsOK'
    BY <2>1, PageParts DEF SendsOK
  <2>4. MadeInv'
    BY <2>1, SameMade DEF MadeInv
  <2> QED
    BY <2>1, <2>2, <2>3, <2>4, PageParts, SameTree, PagePartsNext
<1>2. CASE StopReturns
  <2>1. UNCHANGED <<tree, sends, jobs, events, completing>> /\ loop' = NoLoop /\ taskIds' = {}
        /\ done' = done \cup Stopped
    BY <1>2 DEF StopReturns
  <2>2. TasksOK'
    BY <2>1, PageParts DEF TasksOK, NoLoop
  <2>3. upset' \subseteq Upsets
    <3>1. "aside" \in Upsets /\ upset \subseteq Upsets
      BY PageParts DEF Upsets, SendsOK
    <3> QED
      BY <1>2, <3>1, UpsetIfType DEF StopReturns
  <2>4. Stopped \subseteq Answer
    BY PageParts DEF TreeOK, Stopped, AnswersTo
  <2>5. SendsOK'
    BY <2>1, <2>3, <2>4, PageParts DEF SendsOK
  <2>6. MadeInv'
    BY <2>1, SameMade DEF MadeInv, NoLoop
  <2> QED
    BY <2>1, <2>2, <2>5, <2>6, PageParts, SameTree, PagePartsNext
<1>3. ASSUME NEW j \in Job \cup {Over}, StopNext(j) PROVE PageTypeOK' /\ MadeInv'
  <2>1. /\ j \in loop.todo /\ UNCHANGED <<tree, done, sends, events, taskIds, completing, upset>>
        /\ loop' = [loop EXCEPT !.todo = @ \ {j}, !.told = @ \cup ({j[1]} \cap Answer)]
        /\ (j \in Job /\ jobs' = [jobs EXCEPT ![j] = "stopping"]) \/ UNCHANGED jobs
    BY <1>3 DEF StopNext
  <2>2. /\ loop' \in [on : BOOLEAN, todo : SUBSET (Job \cup {Over}), told : SUBSET Answer, same : BOOLEAN]
        /\ loop'.todo \subseteq loop.todo
    BY <2>1, PageParts DEF TasksOK
  <2>3. jobs' \in [Job -> JobStates]
    BY <2>1, PageParts DEF TasksOK, JobStates
  <2>4. TasksOK'
    BY <2>1, <2>2, <2>3, PageParts DEF TasksOK
  <2>5. SendsOK'
    BY <2>1, PageParts DEF SendsOK
  <2>6. \A i \in Job : jobs'[i] # "idle" => i[1] \in Made
    BY <2>1, PageParts DEF MadeInv, TasksOK
  <2>7. MadeInv'
    BY <2>1, <2>2, <2>6, SameMade DEF MadeInv
  <2> QED
    BY <2>1, <2>4, <2>5, <2>7, PageParts, SameTree, PagePartsNext
<1> QED
  BY <1>1, <1>2, <1>3


--------------------------------------------------------------------------------
(* ChatTasks: what is under way for an answer *)

\* As Coming, but without the tasks that have ended before the page knows their id: they
\* bring nothing more.
Expected(m) ==
    \/ \E s \in sends : m \in s.msgs
    \/ \E k \in 1 .. MaxAsks : jobs[<<m, k>>] \in {"posted", "started", "running", "lost"}
    \/ loop.on /\ m \in loop.told
    \/ \E i \in 1 .. Len(events) : events[i][2] = m

ExpectedInv ==
    /\ upset = {} => \A m \in nodes \ done : Expected(m)
    /\ loop.same \/ loop.todo # {} => loop.on

LEMMA Calm ==
    ASSUME NEW what, NEW cond, UpsetIf(cond, what), upset' = {}
    PROVE  upset = {} /\ ~cond
BY DEF UpsetIf, Upset

\* What was expected still is, if nothing of it goes.
LEMMA StillExpected ==
    ASSUME NEW m, Expected(m),
           \A s \in sends : m \in s.msgs => \E t \in sends' : m \in t.msgs,
           \A k \in 1 .. MaxAsks : jobs[<<m, k>>] \in {"posted", "started", "running", "lost"} =>
               jobs'[<<m, k>>] \in {"posted", "started", "running", "lost"},
           loop.on /\ m \in loop.told => loop'.on /\ m \in loop'.told,
           UNCHANGED events
    PROVE  Expected(m)'
BY DEF Expected

LEMMA ExpectedMade ==
    ASSUME PageTypeOK, MadeInv, ExpectedInv,
           AddFinished \/ Prunes \/ \E k \in 1 .. MaxModels : Sends(k)
    PROVE  ExpectedInv'
<1>1. CASE AddFinished
  <2>1. UNCHANGED <<sends, jobs, events, loop, upset>> /\ done' = done \cup New(1) /\ nodes' = nodes \cup New(1)
    BY <1>1, FinishedMakes DEF Makes, MoreAnswers, AddQuestion, AddAnswers
  <2> QED
    BY <2>1 DEF ExpectedInv, Expected
<1>2. CASE Prunes
  BY <1>2 DEF Prunes, ExpectedInv, Expected
<1>3. ASSUME NEW k \in 1 .. MaxModels, Sends(k) PROVE ExpectedInv'
  <2>1. UNCHANGED <<done, jobs, events, loop, upset>> /\ nodes' = nodes \cup New(k)
    BY <1>3 DEF Sends, Makes, MoreAnswers, AddQuestion, AddAnswers
  <2>2. PICK creating \in BOOLEAN : sends' = sends \cup {[msgs |-> New(k), creating |-> creating]}
    BY <1>3 DEF Sends, Send
  <2>3. sends \subseteq sends' /\ \E s \in sends' : s.msgs = New(k)
    <3>1. [msgs |-> New(k), creating |-> creating] \in sends' /\ sends \subseteq sends'
      BY <2>2
    <3>2. [msgs |-> New(k), creating |-> creating].msgs = New(k)
      OBVIOUS
    <3> QED
      BY <3>1, <3>2
  <2>4. ASSUME upset' = {}, NEW m \in nodes' \ done' PROVE Expected(m)'
    <3>1. CASE m \in New(k)
      BY <2>3, <3>1 DEF Expected
    <3>2. CASE m \notin New(k)
      <4>1. Expected(m)
        BY <2>1, <2>4, <3>2 DEF ExpectedInv
      <4> QED
        BY <2>1, <2>3, <4>1, StillExpected
    <3> QED
      BY <3>1, <3>2
  <2> QED
    BY <2>1, <2>4 DEF ExpectedInv
<1> QED
  BY <1>1, <1>2, <1>3

LEMMA ExpectedStored ==
    ASSUME PageTypeOK, ExpectedInv, NEW s \in sends, ChatCreated(s) \/ ChatSaved(s) \/ StoringFails(s)
    PROVE  ExpectedInv'
<1>1. UNCHANGED <<nodes, done, events, loop>>
  BY DEF ChatCreated, ChatSaved, StoringFails, tree
<1>2. ASSUME upset' = {}, NEW m \in nodes' \ done' PROVE Expected(m)'
  <2>1. upset = {} /\ m \in nodes
    BY <1>1, <1>2, Calm DEF ChatCreated, ChatSaved, StoringFails
  <2>2. Expected(m)
    BY <1>1, <1>2, <2>1 DEF ExpectedInv
  <2>3. CASE ChatCreated(s)
    <3>1. \A t \in sends : m \in t.msgs => \E u \in sends' : m \in u.msgs
      <4>1. sends' = (sends \ {s}) \cup {[msgs |-> s.msgs \cap nodes, creating |-> FALSE]}
        BY <2>3 DEF ChatCreated
      <4>2. m \in s.msgs => \E u \in sends' : m \in u.msgs
        BY <2>1, <4>1
      <4> QED
        BY <4>1, <4>2
    <3>2. UNCHANGED jobs
      BY <2>3 DEF ChatCreated
    <3> QED
      BY <1>1, <2>2, <3>1, <3>2, StillExpected
  <2>4. CASE ChatSaved(s)
    <3> DEFINE js == {<<x, 1>> : x \in s.msgs}
    <3>1. /\ sends' = sends \ {s}
          /\ js \subseteq Job
          /\ jobs' = [j \in Job |-> IF j \in js THEN "posted" ELSE jobs[j]]
      BY <2>4 DEF ChatSaved, Ask
    <3>2. m \in s.msgs => <<m, 1>> \in js /\ <<m, 1>> \in Job
      BY <3>1
    <3>3. m \in Answer
      BY <2>1, PageParts DEF TreeOK
    <3> HIDE DEF js
    <3>4. \A k \in 1 .. MaxAsks : <<m, k>> \in Job /\ jobs'[<<m, k>>] \in {"posted", jobs[<<m, k>>]}
      BY <3>1, <3>3 DEF Job
    <3>5. CASE m \in s.msgs
      <4>1. 1 \in 1 .. MaxAsks /\ jobs'[<<m, 1>>] = "posted"
        BY <3>1, <3>2, <3>5 DEF Job
      <4> QED
        BY <4>1 DEF Expected
    <3>6. CASE m \notin s.msgs
      <4>1. \A t \in sends : m \in t.msgs => \E u \in sends' : m \in u.msgs
        BY <3>1, <3>6
      <4> QED
        BY <1>1, <2>2, <3>4, <4>1, StillExpected
    <3> QED
      BY <3>5, <3>6
  <2>5. CASE StoringFails(s)
    <3>1. s.msgs = {} /\ sends' = sends \ {s} /\ UNCHANGED jobs
      BY <1>2, <2>5, Calm DEF StoringFails
    <3> QED
      BY <1>1, <2>2, <3>1, StillExpected
  <2> QED
    BY <2>3, <2>4, <2>5
<1> QED
  BY <1>1, <1>2 DEF ExpectedInv

LEMMA ExpectedContinue == ASSUME PageTypeOK, ExpectedInv, ContinueResponse PROVE ExpectedInv'
<1>1. UNCHANGED <<nodes, sends, events, loop>> /\ done' = done \ {current} /\ current \in nodes
  BY DEF ContinueResponse, tree
<1>2. ASSUME upset' = {}, NEW m \in nodes' \ done' PROVE Expected(m)'
  <2>1. PICK k \in 1 .. MaxAsks : Ask({<<current, k>>}) /\ UNCHANGED upset
    BY <1>2, Calm DEF ContinueResponse
  <2>2. m \in Answer /\ current \in Answer
    BY <1>1, <1>2, PageParts DEF TreeOK
  <2>3. jobs' = [j \in Job |-> IF j \in {<<current, k>>} THEN "posted" ELSE jobs[j]]
    BY <2>1 DEF Ask
  <2>4. CASE m = current
    <3>1. jobs'[<<m, k>>] = "posted"
      BY <2>2, <2>3, <2>4 DEF Job
    <3> QED
      BY <3>1 DEF Expected
  <2>5. CASE m # current
    <3>1. Expected(m)
      BY <1>1, <1>2, <2>1, <2>5 DEF ExpectedInv
    <3>2. \A i \in 1 .. MaxAsks : jobs'[<<m, i>>] \in {"posted", jobs[<<m, i>>]}
      BY <2>2, <2>3 DEF Job
    <3> QED
      BY <1>1, <3>1, <3>2, StillExpected
  <2> QED
    BY <2>4, <2>5
<1> QED
  BY <1>1, <1>2 DEF ExpectedInv

LEMMA ExpectedPosted ==
    ASSUME PageTypeOK, ExpectedInv, NEW j \in Job, Accept(j) \/ Answered(j) \/ PostFails(j)
    PROVE  ExpectedInv'
<1>1. /\ UNCHANGED <<sends, events>> /\ loop'.on = loop.on /\ loop'.told = loop.told
      /\ loop'.same = loop.same /\ (loop'.todo # {} => loop.todo # {} \/ loop.same)
  BY PageParts DEF Accept, Answered, PostFails, TasksOK
<1>2. upset' = {} => upset = {}
  BY Calm DEF Accept, Answered, PostFails
<1>3. \A m \in nodes' \ done' : m \in nodes \ done /\ (m = j[1] => ~PostFails(j))
  BY DEF Accept, Answered, PostFails, tree
<1>4. \A i \in Job : jobs[i] \in {"posted", "started", "running", "lost"} =>
          jobs'[i] \in {"posted", "started", "running", "lost"} \/ (i = j /\ PostFails(j))
  BY PageParts DEF Accept, Answered, PostFails, FailedJob, TasksOK, Waiting
<1>5. ASSUME upset' = {}, NEW m \in nodes' \ done' PROVE Expected(m)'
  <2>1. Expected(m)
    BY <1>2, <1>3, <1>5 DEF ExpectedInv
  <2>2. \A k \in 1 .. MaxAsks : <<m, k>> \in Job /\ (<<m, k>> = j => m = j[1])
    BY <1>3, <1>5, PageParts DEF Job, TreeOK
  <2> QED
    BY <1>1, <1>3, <1>4, <1>5, <2>1, <2>2, StillExpected
<1> QED
  BY <1>1, <1>5 DEF ExpectedInv

LEMMA ExpectedEnds == ASSUME PageTypeOK, ExpectedInv, NEW j \in Job, TaskEnds(j) PROVE ExpectedInv'
<1>1. /\ UNCHANGED <<nodes, done, sends, upset>> /\ loop'.on = loop.on /\ loop'.told = loop.told
      /\ loop'.same = loop.same /\ (loop'.todo # {} => loop.todo # {})
  BY PageParts DEF TaskEnds, tree, TasksOK
<1>2. events \in Seq({"done", "cancel"} \X Answer) /\ j[1] \in Answer
  BY PageParts DEF TasksOK, Job
<1>3. /\ Len(events) \in Nat /\ Len(events') \in {Len(events), Len(events) + 1}
      /\ \A i \in 1 .. Len(events) : events'[i] = events[i]
      /\ jobs[j] # "stopping" => Len(events') = Len(events) + 1 /\ events'[Len(events) + 1][2] = j[1]
  <2>1. CASE UNCHANGED events
    BY <1>2, <2>1, LenProperties DEF TaskEnds, Emit
  <2>2. ASSUME NEW kind \in {"done", "cancel"}, Emit(kind, j[1])
        PROVE  /\ Len(events) \in Nat /\ Len(events') = Len(events) + 1
               /\ \A i \in 1 .. Len(events) : events'[i] = events[i]
               /\ events'[Len(events) + 1][2] = j[1]
    BY <1>2, <2>2, EmitType
  <2> QED
    BY <2>1, <2>2 DEF TaskEnds
<1>4. \A i \in Job : i # j => jobs'[i] = jobs[i]
  BY PageParts DEF TaskEnds, TasksOK
<1>5. ASSUME upset' = {}, NEW m \in nodes' \ done' PROVE Expected(m)'
  <2>1. Expected(m) /\ m \in Answer
    BY <1>1, <1>5, PageParts DEF ExpectedInv, TreeOK
  <2>2. CASE \E s \in sends : m \in s.msgs
    BY <1>1, <2>2 DEF Expected
  <2>3. CASE loop.on /\ m \in loop.told
    BY <1>1, <2>3 DEF Expected
  <2>4. CASE \E i \in 1 .. Len(events) : events[i][2] = m
    <3>1. PICK i \in 1 .. Len(events) : events[i][2] = m
      BY <2>4
    <3>2. i \in 1 .. Len(events') /\ events'[i][2] = m
      BY <1>3, <3>1
    <3> QED
      BY <3>2 DEF Expected
  <2>5. ASSUME NEW k \in 1 .. MaxAsks, jobs[<<m, k>>] \in {"posted", "started", "running", "lost"}
        PROVE  Expected(m)'
    <3>1. <<m, k>> \in Job
      BY <2>1 DEF Job
    <3>2. CASE <<m, k>> = j
      <4>1. Len(events') = Len(events) + 1 /\ events'[Len(events) + 1][2] = m
        BY <1>3, <2>5, <3>2
      <4>2. Len(events) + 1 \in 1 .. Len(events')
        BY <1>3, <4>1
      <4> QED
        BY <4>1, <4>2 DEF Expected
    <3>3. CASE <<m, k>> # j
      <4>1. jobs'[<<m, k>>] = jobs[<<m, k>>]
        BY <1>4, <3>1, <3>3
      <4> QED
        BY <2>5, <4>1 DEF Expected
    <3> QED
      BY <3>2, <3>3
  <2> QED
    BY <2>1, <2>2, <2>3, <2>4, <2>5 DEF Expected
<1> QED
  BY <1>1, <1>5 DEF ExpectedInv


\* An event has been taken: only what it was about is expected no more.
LEMMA ExpectedHeard ==
    ASSUME PageTypeOK, NEW m \in Answer, Expected(m), m # Subject, events # <<>>, events' = Tail(events),
           UNCHANGED <<sends, jobs>>, loop'.on = loop.on, loop'.told = loop.told
    PROVE  Expected(m)'
<1>1. /\ events[1][2] = Subject /\ Len(events) \in Nat \ {0} /\ Len(events') = Len(events) - 1
      /\ \A i \in 1 .. Len(events) - 1 : events'[i] = events[i + 1]
  BY EventsType, PageParts DEF TasksOK
<1>2. CASE \E i \in 1 .. Len(events) : events[i][2] = m
  <2>1. PICK i \in 1 .. Len(events) : events[i][2] = m
    BY <1>2
  <2>2. i - 1 \in 1 .. Len(events') /\ events'[i - 1] = events[i]
    BY <1>1, <2>1
  <2> QED
    BY <2>1, <2>2 DEF Expected
<1>3. CASE ~ \E i \in 1 .. Len(events) : events[i][2] = m
  BY <1>3 DEF Expected
<1> QED
  BY <1>2, <1>3

LEMMA ExpectedHears ==
    ASSUME PageTypeOK, ExpectedInv, HandleDone \/ HandleCancel \/ LoseEvent
    PROVE  ExpectedInv'
<1>1. events # <<>> /\ events' = Tail(events) /\ UNCHANGED <<nodes, sends, jobs>> /\ done \subseteq done'
  BY DEF HandleDone, HandleCancel, LoseEvent, Arrives, tree
<1>2. loop'.on = loop.on /\ loop'.told = loop.told /\ loop'.todo = loop.todo /\ (loop'.same => loop.same)
  BY PageParts DEF HandleDone, HandleCancel, LoseEvent, ForgetTasks, TasksOK
<1>3. ASSUME upset' = {}, NEW m \in nodes' \ done' PROVE Expected(m)'
  <2>1. upset = {} /\ m # Subject
    <3>1. CASE HandleDone
      BY <1>1, <1>3, <3>1 DEF HandleDone
    <3>2. CASE HandleCancel
      <4>1. CASE Subject \in nodes
        <5>1. upset = {} /\ Subject \in Stopped \cup done /\ done' = done \cup Stopped
          BY <1>3, <3>2, <4>1, Calm DEF HandleCancel
        <5> QED
          BY <1>3, <5>1
      <4>2. CASE Subject \notin nodes
        BY <1>1, <1>3, <3>2, <4>2 DEF HandleCancel
      <4> QED
        BY <4>1, <4>2
    <3>3. CASE LoseEvent
      BY <1>3, <3>3, Calm DEF LoseEvent
    <3> QED
      BY <3>1, <3>2, <3>3
  <2>2. m \in Answer /\ Expected(m)
    BY <1>1, <1>3, <2>1, PageParts DEF ExpectedInv, TreeOK
  <2> QED
    BY <1>1, <1>2, <2>1, <2>2, ExpectedHeard
<1> QED
  BY <1>2, <1>3 DEF ExpectedInv

LEMMA ExpectedCompleted ==
    ASSUME PageTypeOK, MadeInv, ExpectedInv, NEW b \in completing, Completed(b)
    PROVE  ExpectedInv'
<1>1. UNCHANGED <<nodes, done, sends, jobs, events, upset>>
  BY DEF Completed, tree
<1>2. loop'.on = loop.on /\ loop'.told = loop.told /\ loop'.todo = loop.todo /\ (loop'.same => loop.same)
  BY PageParts DEF Completed, ForgetTasks, TasksOK
<1> QED
  BY <1>1, <1>2 DEF ExpectedInv, Expected

\* A task that is told to stop is expected by the loop; when the loop ends, what it told
\* is done.
LEMMA ExpectedStops ==
    ASSUME PageTypeOK, ExpectedInv, StopResponse \/ StopReturns \/ \E j \in Job \cup {Over} : StopNext(j)
    PROVE  ExpectedInv'
<1>1. CASE StopResponse
  <2>1. /\ UNCHANGED <<nodes, done, sends, jobs, events, upset>> /\ ~loop.on
        /\ loop'.on
    BY <1>1 DEF StopResponse, tree
  <2> QED
    BY <2>1 DEF ExpectedInv, Expected
<1>2. CASE StopReturns
  <2>1. /\ UNCHANGED <<nodes, sends, jobs, events>> /\ done' = done \cup Stopped
        /\ loop'.todo = {} /\ ~loop'.same
    BY <1>2 DEF StopReturns, tree, NoLoop
  <2>2. ASSUME upset' = {}, NEW m \in nodes' \ done' PROVE Expected(m)'
    <3>1. upset = {} /\ (loop.told \cap nodes) \ (Stopped \cup done) = {}
      BY <1>2, <2>2, Calm DEF StopReturns
    <3>2. m \notin loop.told /\ m \in nodes \ done
      BY <2>1, <2>2, <3>1
    <3>3. Expected(m)
      BY <3>1, <3>2 DEF ExpectedInv
    <3> QED
      BY <2>1, <3>2, <3>3 DEF Expected
  <2> QED
    BY <2>1, <2>2 DEF ExpectedInv
<1>3. ASSUME NEW j \in Job \cup {Over}, StopNext(j) PROVE ExpectedInv'
  <2>1. /\ j \in loop.todo /\ UNCHANGED <<nodes, done, sends, events, upset>>
        /\ (j \in Job /\ jobs' = [jobs EXCEPT ![j] = "stopping"]) \/ UNCHANGED jobs
    BY <1>3 DEF StopNext, tree
  <2>2. loop'.on = loop.on /\ loop'.told = loop.told \cup ({j[1]} \cap Answer)
    BY <1>3, PageParts DEF StopNext, TasksOK
  <2>3. loop.on
    BY <2>1 DEF ExpectedInv
  <2>4. ASSUME upset' = {}, NEW m \in nodes' \ done' PROVE Expected(m)'
    <3>1. m \in Answer /\ Expected(m)
      BY <2>1, <2>4, PageParts DEF ExpectedInv, TreeOK
    <3>2. CASE j \in Job /\ m = j[1]
      BY <2>2, <2>3, <3>1, <3>2 DEF Expected
    <3>3. CASE ~(j \in Job /\ m = j[1])
      <4>1. \A k \in 1 .. MaxAsks : <<m, k>> \in Job /\ jobs'[<<m, k>>] = jobs[<<m, k>>]
        BY <2>1, <3>1, <3>3, PageParts DEF TasksOK, Job
      <4> QED
        BY <2>1, <2>2, <3>1, <4>1, StillExpected
    <3> QED
      BY <3>2, <3>3
  <2> QED
    BY <2>2, <2>3, <2>4 DEF ExpectedInv
<1> QED
  BY <1>1, <1>2, <1>3

--------------------------------------------------------------------------------
(* ChatTasks: the inductive invariant and the theorems *)

PageInv == PageTypeOK /\ MadeInv /\ ExpectedInv

LEMMA PageInvInit == PageInit => PageInv
<1> SUFFICES ASSUME PageInit PROVE PageInv
  OBVIOUS
<1>1. TreeOK
  BY BoundsAssumption DEF PageInit, TreeOK
<1>2. TasksOK
  BY EmptySeq DEF PageInit, TasksOK, NoLoop, JobStates
<1>3. SendsOK
  BY DEF PageInit, SendsOK
<1>4. MadeInv
  BY DEF PageInit, MadeInv, Made, NoLoop
<1>5. ExpectedInv
  BY DEF PageInit, ExpectedInv, NoLoop
<1> QED
  BY <1>1, <1>2, <1>3, <1>4, <1>5, PageParts DEF PageInv

LEMMA PageInvStep == PageInv /\ [PageNext]_pageVars => PageInv'
<1> SUFFICES ASSUME PageInv, [PageNext]_pageVars PROVE PageInv'
  OBVIOUS
<1>0. PageTypeOK /\ MadeInv /\ ExpectedInv
  BY DEF PageInv
<1>1. ASSUME NEW k \in 1 .. MaxModels,
             SubmitPrompt(k) \/ \E m \in Answer : EditQuestion(m, k) \/ SubmitMessage(m, k) \/ Regenerate(m, k)
      PROVE  PageInv'
  BY <1>0, <1>1, SendSteps, SendsType, ExpectedMade DEF PageInv
<1>2. CASE AddFinished
  BY <1>0, <1>2, FinishedType, ExpectedMade DEF PageInv
<1>3. CASE (\E m \in Answer : Show(m) \/ DeleteAnswer(m)) \/ \E q \in Question : DeleteQuestion(q)
  <2>1. Prunes
    BY <1>0, <1>3, PruneSteps
  <2> QED
    BY <1>0, <2>1, PrunesType, ExpectedMade DEF PageInv
<1>4. ASSUME NEW s \in sends, ChatCreated(s) \/ ChatSaved(s) \/ StoringFails(s) PROVE PageInv'
  BY <1>0, <1>4, StoreType, ExpectedStored DEF PageInv
<1>5. CASE ContinueResponse
  BY <1>0, <1>5, ContinueType, ExpectedContinue DEF PageInv
<1>6. ASSUME NEW j \in Job, Accept(j) \/ Answered(j) \/ PostFails(j) PROVE PageInv'
  BY <1>0, <1>6, AcceptType, AnsweredType, PostFailsType, ExpectedPosted DEF PageInv
<1>7. ASSUME NEW j \in Job, TaskEnds(j) PROVE PageInv'
  BY <1>0, <1>7, TaskEndsType, ExpectedEnds DEF PageInv
<1>8. CASE HandleDone \/ HandleCancel \/ LoseEvent
  BY <1>0, <1>8, HearsType, ExpectedHears DEF PageInv
<1>9. ASSUME NEW b \in completing, Completed(b) PROVE PageInv'
  BY <1>0, <1>9, CompletedType, ExpectedCompleted DEF PageInv
<1>10. CASE StopResponse \/ StopReturns \/ \E j \in Job \cup {Over} : StopNext(j)
  BY <1>0, <1>10, StopType, ExpectedStops DEF PageInv
<1>11. CASE UNCHANGED pageVars
  <2>1. PageTypeOK'
    BY <1>0, <1>11 DEF PageTypeOK, pageVars, tree
  <2>2. MadeInv'
    BY <1>0, <1>11 DEF MadeInv, Made, pageVars, tree
  <2>3. ExpectedInv'
    BY <1>0, <1>11 DEF ExpectedInv, Expected, pageVars, tree
  <2> QED
    BY <2>1, <2>2, <2>3 DEF PageInv
<1> QED
  BY <1>1, <1>2, <1>3, <1>4, <1>5, <1>6, <1>7, <1>8, <1>9, <1>10, <1>11 DEF PageNext, Step

LEMMA PageInvAlways == PageSpec => []PageInv
BY PageInvInit, PageInvStep, PTL DEF PageSpec

\* The types of the page with its answers, the calls that wait for the chat to be stored,
\* the requests, the events and the loop of stopResponse (Chat.svelte).
THEOREM PageTypeCorrect == PageSpec => []PageTypeOK
<1>1. PageInv => PageTypeOK
  BY DEF PageInv
<1> QED
  BY <1>1, PageInvAlways, PTL

\* Unless one of the five upsets happened, an answer that is not done has something under
\* way for it: no order of requests, events, stops and deletions leaves an answer that is
\* shown as being written for ever (sendMessage, chatCompletionEventHandler, stopResponse
\* in Chat.svelte).
THEOREM NotDoneIsComingAlways == PageSpec => []NotDoneIsComing
<1>1. PageInv => NotDoneIsComing
  BY DEF PageInv, ExpectedInv, Expected, NotDoneIsComing, Coming, Waiting
<1> QED
  BY <1>1, PageInvAlways, PTL
===============================================================================
