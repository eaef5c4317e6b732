------------------------------- MODULE ChatTasks -------------------------------
(***************************************************************************)
(* The answers of the chat that a page shows and the tasks that write      *)
(* them: from sendMessage over the request and the server's task to the    *)
(* event that ends the answer, and the stop button (Chat.svelte).          *)
(*                                                                         *)
(* The tree is reduced to answers and the questions they answer, which     *)
(* MessageTree shows to alternate.  A step runs up to the next wait for    *)
(* the network; the events of the socket come in order, but in no order    *)
(* with the answers to requests.                                           *)
(***************************************************************************)
EXTENDS Naturals, Sequences, FiniteSets

CONSTANTS
    MaxAnswers,    \* bound: answers made
    MaxQuestions,  \* bound: questions made
    MaxAsks,       \* bound: requests for one answer
    MaxModels,     \* models selected, that is answers to one prompt
    MaxBusy,       \* bound: requests, tasks, events and handlers under way
    MaxUpsets      \* bound: kinds of upset

ASSUME BoundsAssumption ==
    /\ MaxAnswers \in Nat /\ MaxQuestions \in Nat /\ MaxAsks \in Nat
    /\ MaxBusy \in Nat /\ MaxUpsets \in Nat
    /\ MaxModels \in Nat \ {0}

Answer == 1 .. MaxAnswers
Question == 1 .. MaxQuestions
Job == Answer \X (1 .. MaxAsks)     \* the k-th request for an answer
Null == 0

VARIABLES
    nodes,         \* answers in history.messages
    asks,          \* the question that an answer answers
    above,         \* the answer below which a question stands
    made,          \* how many answers and questions were made
    done,          \* answers whose `done` is true
    current,       \* history.currentId
    sends,         \* sendMessage calls that wait for the chat to be stored
    jobs,          \* requests for an answer
    events,        \* socket events on their way to the page, oldest first
    taskIds,       \* tasks the page may stop; {} also stands for null
    loop,          \* the loop of stopResponse
    completing,    \* chatCompletedHandler calls that wait
    upset          \* history: what happened that the design does not absorb

tree == <<nodes, asks, above, made, current>>
pageVars == <<tree, done, sends, jobs, events, taskIds, loop, completing, upset>>

\* A request: it is on its way ("posted"); the server has made a task for it
\* ("started") or even ended it ("over") and the page does not know its id yet; the
\* page knows it ("running"); it was told to stop ("stopping"); the request has
\* failed although the task runs ("lost").  When both are past, it is idle again and
\* Over stands for the id of its task.
JobStates == {"idle", "posted", "started", "over", "running", "stopping", "lost"}
Waiting == {"posted", "started", "over"}
Over == <<0, 0>>
\* same: the loop runs over the array that taskIds still names.
NoLoop == [on |-> FALSE, todo |-> {}, told |-> {}, same |-> FALSE]

\* Upsets: an answer is put back that was deleted; its model is not there any more;
\* the chat cannot be stored; the page does not hear an event; what was stopped is
\* not next to the answer shown last.
Upsets == {"staleCopy", "modelGone", "saveFailed", "lostEvent", "aside"}
Upset(what) == upset' = upset \cup what /\ Cardinality(upset') <= MaxUpsets
UpsetIf(cond, what) == Upset(IF cond THEN {what} ELSE {})

--------------------------------------------------------------------------------
(* The tree, question by question *)

AnswersTo(q) == {m \in nodes : asks[m] = q}
Asked == {asks[m] : m \in nodes}
IsLeaf(m) == m \in nodes /\ \A q \in Asked : above[q] # m

\* The answer above the question that m answers.
Parent(m) == IF asks[m] \in Question THEN above[asks[m]] ELSE Null

\* The answers from m up to the first question: the least set with m and the parents of
\* its members.
Branch == [m \in Answer |->
              {k \in Answer : \A s \in SUBSET Answer :
                  m \in s /\ (\A x \in s : Parent(x) \in Answer => Parent(x) \in s) => k \in s}]
Shown == IF current \in nodes THEN nodes \cap Branch[current] ELSE {}
Offered(m) == m \in Shown \cap done

PageInit ==
    /\ nodes = {}
    /\ asks = [m \in Answer |-> Null]
    /\ above = [q \in Question |-> Null]
    /\ made = [answers |-> 0, questions |-> 0]
    /\ done = {}
    /\ current = Null
    /\ sends = {}
    /\ jobs = [j \in Job |-> "idle"]
    /\ events = <<>>
    /\ taskIds = {}
    /\ loop = NoLoop
    /\ completing = {}
    /\ upset = {}

New(k) == made.answers + 1 .. made.answers + k

\* k answers to question q, the last one is shown.
AddAnswers(q, k) ==
    /\ New(k) \subseteq Answer
    /\ nodes' = nodes \cup New(k)
    /\ asks' = [m \in Answer |-> IF m \in New(k) THEN q ELSE asks[m]]
    /\ current' = made.answers + k

\* A question below p with k answers.
AddQuestion(p, k) ==
    LET q == made.questions + 1
    IN  /\ q \in Question
        /\ above' = [above EXCEPT ![q] = p]
        /\ AddAnswers(q, k)
        /\ made' = [answers |-> made.answers + k, questions |-> q]

MoreAnswers(q, k) ==
    /\ AddAnswers(q, k)
    /\ made' = [made EXCEPT !.answers = @ + k]
    /\ UNCHANGED above

\* sendMessage waits for the chat to be stored; first for a new one to be made.
Send(k, creating) == sends' = sends \cup {[msgs |-> New(k), creating |-> creating]}

SubmitPrompt(k) ==
    /\ current = Null \/ current \in done
    /\ AddQuestion(current, k)
    /\ Send(k, current = Null)
    /\ UNCHANGED <<done, jobs, events, taskIds, loop, completing, upset>>

\* editMessage of a question, submitted.
EditQuestion(m, k) ==
    /\ m \in Shown
    /\ AddQuestion(above[asks[m]], k)
    /\ Send(k, FALSE)
    /\ UNCHANGED <<done, jobs, events, taskIds, loop, completing, upset>>

\* submitMessage: a follow-up that the answer suggests.
SubmitMessage(m, k) ==
    /\ Offered(m)
    /\ AddQuestion(m, k)
    /\ Send(k, FALSE)
    /\ UNCHANGED <<done, jobs, events, taskIds, loop, completing, upset>>

Regenerate(m, k) ==
    /\ Offered(m)
    /\ MoreAnswers(asks[m], k)
    /\ Send(k, FALSE)
    /\ UNCHANGED <<done, jobs, events, taskIds, loop, completing, upset>>

\* editMessage of an answer saved as a copy; createMessagePair and addMessages.
AddFinished ==
    /\ \/ \E m \in Answer : Offered(m) /\ MoreAnswers(asks[m], 1)
       \/ AddQuestion(current, 1)
       \/ \E m \in Answer : Offered(m) /\ AddQuestion(m, 1)
    /\ done' = done \cup New(1)
    /\ UNCHANGED <<sends, jobs, events, taskIds, loop, completing, upset>>

\* gotoMessage and its like: every branch can be chosen.
Show(m) ==
    /\ IsLeaf(m) /\ m # current
    /\ current' = m
    /\ UNCHANGED <<nodes, asks, above, made, done, sends, jobs, events, taskIds, loop,
                   completing, upset>>

--------------------------------------------------------------------------------
(* Deleting *)

\* After a deletion a branch through one of `ms` is shown to its end.
Descend(ms) ==
    \E l \in nodes' : /\ \A x \in nodes' : above'[asks'[x]] # l
                      /\ Branch'[l] \cap ms # {}
                      /\ current' = l

\* deleteMessage of an answer that is not the only one: the questions below it go
\* too, and their answers move up to its question.
DeleteAnswer(m) ==
    LET below == {x \in nodes : above[asks[x]] = m}
    IN  /\ Offered(m) /\ Cardinality(AnswersTo(asks[m])) > 1
        /\ nodes' = nodes \ {m}
        /\ asks' = [x \in Answer |-> IF x \in below THEN asks[m] ELSE asks[x]]
        /\ UNCHANGED above
        /\ Descend((AnswersTo(asks[m]) \ {m}) \cup below)
        /\ UNCHANGED <<made, done, sends, jobs, events, taskIds, loop, completing, upset>>

\* deleteMessage of a question: its answers go too, and the questions below those
\* move up.  A first question stays if it is the only one.
DeleteQuestion(q) ==
    /\ \E m \in Shown : asks[m] = q
    /\ above[q] # Null \/ \E r \in Asked \ {q} : above[r] = Null
    /\ nodes' = nodes \ AnswersTo(q)
    /\ above' = [r \in Question |-> IF above[r] \in AnswersTo(q) THEN above[q] ELSE above[r]]
    /\ UNCHANGED asks
    /\ Descend(IF above[q] = Null THEN nodes' ELSE {above[q]})
    /\ UNCHANGED <<made, done, sends, jobs, events, taskIds, loop, completing, upset>>

--------------------------------------------------------------------------------
(* Asking for answers *)

Ask(js) ==
    /\ \A j \in js : j \in Job /\ jobs[j] = "idle"
    /\ jobs' = [j \in Job |-> IF j \in js THEN "posted" ELSE jobs[j]]

\* createNewChat has answered: an answer that has gone meanwhile is not asked for.
ChatCreated(s) ==
    /\ s.creating
    /\ sends' = (sends \ {s}) \cup {[msgs |-> s.msgs \cap nodes, creating |-> FALSE]}
    /\ UNCHANGED <<tree, done, jobs, events, taskIds, loop, completing, upset>>

\* The chat is stored: one request for each answer.
ChatSaved(s) ==
    /\ ~s.creating
    /\ sends' = sends \ {s}
    /\ Ask({<<m, 1>> : m \in s.msgs})
    /\ UNCHANGED <<tree, done, events, taskIds, loop, completing, upset>>

\* createNewChat or updateChatById raises, and so does sendMessage.
StoringFails(s) ==
    /\ sends' = sends \ {s}
    /\ UpsetIf(s.msgs # {}, "saveFailed")
    /\ UNCHANGED <<tree, done, jobs, events, taskIds, loop, completing>>

\* continueResponse: the answer shown last is asked for again.  If its model is not
\* there any more, it is not done all the same.
ContinueResponse ==
    /\ current \in done \cap nodes
    /\ done' = done \ {current}
    /\ \/ /\ \E k \in 1 .. MaxAsks : Ask({<<current, k>>})
          /\ UNCHANGED upset
       \/ UpsetIf(TRUE, "modelGone") /\ UNCHANGED jobs
    /\ UNCHANGED <<tree, sends, events, taskIds, loop, completing>>

\* The server makes a task for the request.
Accept(j) ==
    /\ jobs[j] = "posted"
    /\ jobs' = [jobs EXCEPT ![j] = "started"]
    /\ UNCHANGED <<tree, done, sends, events, taskIds, loop, completing, upset>>

\* The request is answered: the page learns the id of the task.  A loop that
\* stops tasks sees it too if it runs over the same array.
Answered(j) ==
    LET id == IF jobs[j] = "over" THEN Over ELSE j
    IN  /\ jobs[j] \in {"started", "over"}
        /\ jobs' = [jobs EXCEPT ![j] = IF @ = "over" THEN "idle" ELSE "running"]
        /\ taskIds' = taskIds \cup {id}
        /\ loop' = IF loop.same THEN [loop EXCEPT !.todo = @ \cup {id}] ELSE loop
        /\ UNCHANGED <<tree, done, sends, events, completing, upset>>

FailedJob(j) == jobs' = [jobs EXCEPT ![j] = IF @ = "started" THEN "lost" ELSE "idle"]

\* Mutation of PostFails: the answer is put back as it is.
PostFailsUndone(j) ==
    /\ jobs[j] \in Waiting
    /\ FailedJob(j)
    /\ UpsetIf(j[1] \notin nodes, "staleCopy")
    /\ nodes' = nodes \cup {j[1]}
    /\ current' \in {j[1], current}
    /\ UNCHANGED <<asks, above, made, done, sends, events, taskIds, loop, completing>>

\* The request fails, whatever the server made of it, or is answered with an error.
\* The page puts the answer into the history, done.
PostFails(j) ==
    /\ jobs[j] \in Waiting
    /\ FailedJob(j)
    /\ UpsetIf(j[1] \notin nodes, "staleCopy")
    /\ nodes' = nodes \cup {j[1]}
    /\ done' = done \cup {j[1]}
    /\ current' \in {j[1], current}
    /\ UNCHANGED <<asks, above, made, sends, events, taskIds, loop, completing>>

--------------------------------------------------------------------------------
(* The server's tasks and what the page hears of them *)

Emit(kind, m) == events' = Append(events, <<kind, m>>)

\* The answer ends by itself; or it fails or is cancelled, and says so; or its
\* task is cancelled before the first step, and nothing is said.
TaskEnds(j) ==
    LET renamed(ids) == IF j \in ids THEN (ids \ {j}) \cup {Over} ELSE ids
    IN  /\ jobs[j] \in {"started", "running", "stopping", "lost"}
        /\ jobs' = [jobs EXCEPT ![j] = IF @ = "started" THEN "over" ELSE "idle"]
        /\ \/ Emit("done", j[1])
           \/ Emit("cancel", j[1])
           \/ jobs[j] = "stopping" /\ UNCHANGED events
        /\ taskIds' = renamed(taskIds)
        /\ loop' = [loop EXCEPT !.todo = renamed(@)]
        /\ UNCHANGED <<tree, done, sends, completing, upset>>

Arrives(kind) == events # <<>> /\ Head(events)[1] = kind /\ events' = Tail(events)
Subject == Head(events)[2]

\* taskIds = null: a loop goes on with the old array.
ForgetTasks ==
    /\ taskIds' = {}
    /\ loop' = [loop EXCEPT !.same = FALSE]

\* chat:completion with `done`, then chatCompletedHandler, which waits for the
\* server with the messages of the branch.
HandleDone ==
    /\ Arrives("done")
    /\ IF Subject \in nodes
       THEN /\ done' = done \cup {Subject}
            /\ completing' = completing \cup {Branch[Subject]}
       ELSE UNCHANGED <<done, completing>>
    /\ UNCHANGED <<tree, sends, jobs, taskIds, loop, upset>>

\* chatCompletedHandler goes on.  It raises before the end if a message has gone, or
\* if the chat cannot be stored.
Completed(branch) ==
    /\ completing' = completing \ {branch}
    /\ \/ branch \subseteq nodes /\ ForgetTasks
       \/ UNCHANGED <<taskIds, loop>>
    /\ UNCHANGED <<tree, done, sends, jobs, events, upset>>

\* What stopResponse and chat:tasks:cancel take for the answers that stopped:
\* the siblings of the answer shown last.
Stopped == IF current \in nodes THEN AnswersTo(asks[current]) ELSE {}

HandleCancel ==
    /\ Arrives("cancel")
    /\ IF Subject \in nodes
       THEN /\ ForgetTasks
            /\ done' = done \cup Stopped
            /\ UpsetIf(Subject \notin Stopped \cup done, "aside")
       ELSE UNCHANGED <<done, taskIds, loop, upset>>
    /\ UNCHANGED <<tree, sends, jobs, completing>>

\* The socket of the page was not connected.
LoseEvent ==
    /\ events # <<>>
    /\ events' = Tail(events)
    /\ UpsetIf(TRUE, "lostEvent")
    /\ UNCHANGED <<tree, done, sends, jobs, taskIds, loop, completing>>

--------------------------------------------------------------------------------
(* Stopping *)

\* stopResponse: a loop over the array of task ids, one request after the other.
StopResponse ==
    /\ ~loop.on /\ taskIds # {} /\ current \in nodes
    /\ loop' = [on |-> TRUE, todo |-> taskIds, told |-> {}, same |-> TRUE]
    /\ UNCHANGED <<tree, done, sends, jobs, events, taskIds, completing, upset>>

\* stopTask: the loop goes on whether or not the request fails.
StopNext(j) ==
    /\ j \in loop.todo
    /\ loop' = [loop EXCEPT !.todo = @ \ {j}, !.told = @ \cup ({j[1]} \cap Answer)]
    /\ \/ j # Over /\ jobs' = [jobs EXCEPT ![j] = "stopping"]
       \/ UNCHANGED jobs
    /\ UNCHANGED <<tree, done, sends, events, taskIds, completing, upset>>

StopReturns ==
    /\ loop.on /\ loop.todo = {}
    /\ loop' = NoLoop
    /\ taskIds' = {}
    /\ done' = done \cup Stopped
    /\ UpsetIf((loop.told \cap nodes) \ (Stopped \cup done) # {}, "aside")
    /\ UNCHANGED <<tree, sends, jobs, events, completing>>

--------------------------------------------------------------------------------
Busy == Cardinality(sends) + Len(events) + Cardinality(completing)
        + Cardinality({j \in Job : jobs[j] # "idle"}) + IF loop.on THEN 1 ELSE 0

Step ==
    \/ \E k \in 1 .. MaxModels :
          \/ SubmitPrompt(k)
          \/ \E m \in Answer : EditQuestion(m, k) \/ SubmitMessage(m, k) \/ Regenerate(m, k)
    \/ AddFinished
    \/ \E m \in Answer : Show(m) \/ DeleteAnswer(m)
    \/ \E q \in Question : DeleteQuestion(q)
    \/ \E s \in sends : ChatCreated(s) \/ ChatSaved(s) \/ StoringFails(s)
    \/ ContinueResponse
    \/ \E j \in Job : Accept(j) \/ Answered(j) \/ PostFails(j) \/ TaskEnds(j)
    \/ \E j \in Job \cup {Over} : StopNext(j)
    \/ HandleDone \/ HandleCancel \/ LoseEvent
    \/ \E b \in completing : Completed(b)
    \/ StopResponse \/ StopReturns

PageNext == Step /\ Busy' <= MaxBusy

PageSpec == PageInit /\ [][PageNext]_pageVars

--------------------------------------------------------------------------------
(* Properties *)

\* Every variable has its type.
PageTypeOK ==
    /\ nodes \subseteq Answer
    /\ asks \in [Answer -> Question \cup {Null}]
    /\ above \in [Question -> Answer \cup {Null}]
    /\ made \in [answers : 0 .. MaxAnswers, questions : 0 .. MaxQuestions]
    /\ done \subseteq Answer
    /\ current \in Answer \cup {Null}
    /\ \A s \in sends : s.msgs \subseteq Answer /\ s.creating \in BOOLEAN
    /\ jobs \in [Job -> JobStates]
    /\ events \in Seq({"done", "cancel"} \X Answer)
    /\ taskIds \subseteq Job \cup {Over}
    /\ loop \in [on : BOOLEAN, todo : SUBSET (Job \cup {Over}), told : SUBSET Answer, same : BOOLEAN]
    /\ completing \subseteq SUBSET Answer
    /\ upset \subseteq Upsets

\* Something is under way for an answer: the chat is being stored, the request is
\* not answered, a task writes it, the page stops it, or its last event will come.
Coming(m) ==
    \/ \E s \in sends : m \in s.msgs
    \/ \E k \in 1 .. MaxAsks :
          jobs[<<m, k>>] \in Waiting \cup {"running", "lost"}
    \/ loop.on /\ m \in loop.told
    \/ \E i \in 1 .. Len(events) : events[i][2] = m

\* An answer for which nothing is under way any more is done: else the page would
\* show it as being written for ever, and take no prompt below it.
NotDoneIsComing == upset = {} => \A m \in nodes \ done : Coming(m)

================================================================================
