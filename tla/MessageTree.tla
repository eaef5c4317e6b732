------------------------------ MODULE MessageTree ------------------------------
(***************************************************************************)
(* The tree of messages of the chat that a page shows: `history` in        *)
(* Chat.svelte, and what Chat.svelte and Messages.svelte do to it.         *)
(*                                                                         *)
(* Messages are numbered in the order in which they are made.  The order   *)
(* of childrenIds is left out: a descent "to the last child" ends in some  *)
(* leaf of the branch.  A step runs up to the next wait for the network.   *)
(* Handlers that wait hold messages, or copies of them, and put them into  *)
(* the tree later, whatever has become of it.                              *)
(***************************************************************************)
EXTENDS Naturals, Sequences, FiniteSets

CONSTANTS
    MaxMessages,   \* bound: messages made
    MaxModels,     \* models selected, that is answers to one prompt
    MaxWaiting,    \* bound: sends, requests and handlers that wait with a message
    MaxUpsets      \* bound: kinds of upset

ASSUME BoundsAssumption ==
    /\ MaxMessages \in Nat /\ MaxWaiting \in Nat /\ MaxUpsets \in Nat
    /\ MaxModels \in Nat \ {0}

Id == 1 .. MaxMessages
Null == 0          \* parentId or currentId null

VARIABLES
    nodes,         \* keys of history.messages
    parent,        \* parentId; of a deleted message, that of its object
    children,      \* childrenIds
    role,          \* "user" or "assistant"
    done,          \* messages whose `done` is true
    current,       \* history.currentId
    used,          \* number of messages made
    sends,         \* sendMessage calls that wait for the chat to be stored
    asked,         \* requests for an answer that are not answered yet
    held,          \* handlers that wait and write a message back then
    upset          \* history: what happened that the design does not absorb

tree == <<nodes, parent, children, role, current, used>>
vars == <<tree, done, sends, asked, held, upset>>

Links(m) == [parent |-> parent[m], children |-> children[m]]
NoLinks == [parent |-> Null, children |-> {}]
LinkSet == [parent : Id \cup {Null}, children : SUBSET Id]

\* Upsets: a message is put back that was deleted, or as it was before; a pair is
\* added below an answer that is not done; a request fails whose answer has been
\* done before; no model that was selected is there.
Upsets == {"staleCopy", "earlyPair", "lateFailure", "modelGone"}
Upset(what) == upset' = upset \cup what /\ Cardinality(upset') <= MaxUpsets
UpsetIf(cond, what) == Upset(IF cond THEN {what} ELSE {})

--------------------------------------------------------------------------------
(* Reading the tree *)

\* createMessagesList: a message and those above it that are there.
Path(ns, par) == LET up[m \in Id] == {m} \cup IF par[m] \in ns THEN up[par[m]] ELSE {}
                 IN  up

\* What the page shows.
Shown == IF current \in nodes THEN nodes \cap Path(nodes, parent)[current] ELSE {}

Siblings(m) == IF parent[m] = Null THEN {s \in nodes : parent[s] = Null}
               ELSE IF parent[m] \in nodes THEN children[parent[m]] ELSE {}

\* Where a descent from m may end; from Null it starts at a root.
Leaves(ns, par, ch, m) ==
    {l \in ns : ch[l] = {} /\ (m = Null \/ m \in Path(ns, par)[l])}

\* convertMessagesToHistory: a list of n messages becomes one branch.
Chain(n) ==
    /\ nodes = 1 .. n
    /\ parent = [m \in Id |-> IF m \in 1 .. n THEN m - 1 ELSE Null]
    /\ children = [m \in Id |-> IF m + 1 \in 1 .. n THEN {m + 1} ELSE {}]
    /\ role = [m \in Id |-> IF m % 2 = 1 THEN "user" ELSE "assistant"]
    /\ done = {m \in 1 .. n : m % 2 = 0}
    /\ current = n
    /\ used = n

\* A new chat, or one that was loaded with a question and its answer.
Init ==
    /\ \E n \in {0, 2} : n <= MaxMessages /\ Chain(n)
    /\ sends = {}
    /\ asked = {}
    /\ held = {}
    /\ upset = {}

--------------------------------------------------------------------------------
(* Adding messages *)

Fresh(n) == used + 1 .. used + n

\* New messages with their parents; each parent gets them as children.
Graft(new, above, roles) ==
    /\ new \subseteq Id
    /\ nodes' = nodes \cup new
    /\ parent' = [m \in Id |-> IF m \in new THEN above[m] ELSE parent[m]]
    /\ children' = [m \in Id |-> {c \in new : above[c] = m}
                                  \cup IF m \in new THEN {} ELSE children[m]]
    /\ role' = [m \in Id |-> IF m \in new THEN roles[m] ELSE role[m]]

\* A question below p with k answers, the last one is shown.
AddQuestion(p, k) ==
    /\ Graft(Fresh(k + 1),
             [m \in Fresh(k + 1) |-> IF m = used + 1 THEN p ELSE used + 1],
             [m \in Fresh(k + 1) |-> IF m = used + 1 THEN "user" ELSE "assistant"])
    /\ current' = used + k + 1
    /\ used' = used + k + 1

\* k answers to the question p, the last one is shown.
AddAnswers(p, k) ==
    /\ Graft(Fresh(k), [m \in Fresh(k) |-> p], [m \in Fresh(k) |-> "assistant"])
    /\ current' = used + k
    /\ used' = used + k

\* sendMessage waits for createNewChat if it made the first message of a new
\* chat, and copies the history after that; else it copies at once.
SendOf(msgs, p, creating) ==
    [msgs |-> msgs, creating |-> creating,
     copy |-> [m \in msgs |-> [parent |-> p, children |-> {}]]]

\* submitPrompt: nothing while the last message is not done.
SubmitPrompt(k) ==
    /\ current = Null \/ current \in done
    /\ AddQuestion(current, k)
    /\ sends' = sends \cup {SendOf(Fresh(k + 1) \ {used + 1}, used + 1, current = Null)}
    /\ UNCHANGED <<done, asked, held, upset>>

\* editMessage of a question, submitted: a sibling of it with answers.  No model
\* that was selected may be there any more: then there is no answer.
EditQuestion(m, k) ==
    /\ role[m] = "user" /\ m \in Shown
    /\ AddQuestion(parent[m], k)
    /\ sends' = sends \cup {SendOf(Fresh(k + 1) \ {used + 1}, used + 1, FALSE)}
    /\ UpsetIf(k = 0, "modelGone")
    /\ UNCHANGED <<done, asked, held>>

\* An answer that is done has buttons.
Offered(m) == m \in done /\ role[m] = "assistant" /\ m \in Shown

\* submitMessage: a follow-up that an answer suggests is asked below it, for
\* whatever models are selected.
SubmitMessage(p, k) ==
    /\ Offered(p)
    /\ AddQuestion(p, k)
    /\ sends' = sends \cup {SendOf(Fresh(k + 1) \ {used + 1}, used + 1, FALSE)}
    /\ UpsetIf(k = 0, "modelGone")
    /\ UNCHANGED <<done, asked, held>>

\* regenerateResponse: more answers to the question of an answer.
Regenerate(m, k) ==
    /\ Offered(m) /\ parent[m] \in nodes
    /\ AddAnswers(parent[m], k)
    /\ sends' = sends \cup {SendOf(Fresh(k), parent[m], FALSE)}
    /\ UNCHANGED <<done, asked, held, upset>>

\* editMessage of an answer, saved as a copy next to it.
CopyAnswer(m) ==
    /\ Offered(m) /\ parent[m] \in nodes
    /\ AddAnswers(parent[m], 1)
    /\ done' = done \cup {used + 1}
    /\ UNCHANGED <<sends, asked, held, upset>>

\* A question below p and its answer, which is done at once.
AddPair(p) ==
    /\ AddQuestion(p, 1)
    /\ done' = done \cup {used + 2}
    /\ UNCHANGED <<sends, asked, held>>

\* Ctrl+Shift+Enter, also while the last answer is not done.
CreateMessagePair ==
    /\ AddPair(current)
    /\ UpsetIf(current \in nodes \ done, "earlyPair")

\* What was asked in the pop-up of an answer is added to the chat.
AddMessages(p) ==
    /\ Offered(p)
    /\ AddPair(p)
    /\ UNCHANGED upset

--------------------------------------------------------------------------------
(* Moving and deleting *)

\* gotoMessage, showPreviousMessage, showNextMessage, onGroupClick.
ShowSibling(m, s) ==
    /\ s \in Siblings(m) \ {m} /\ m \in Shown
    /\ current' \in Leaves(nodes, parent, children, s)
    /\ UNCHANGED <<nodes, parent, children, role, used, done, sends, asked, held, upset>>

\* The buttons: a first question only if there is another one, an answer only
\* if it is done and there is another one.
MayDelete(m) ==
    /\ role[m] = "user" => parent[m] # Null \/ Cardinality(Siblings(m)) > 1
    /\ role[m] = "assistant" => Cardinality(Siblings(m)) > 1 /\ Offered(m)
    /\ m \in Shown

\* Mutation of Cut: the grandchildren are not moved.
CutDropsLinks(m) ==
    [nodes |-> nodes \ ({m} \cup children[m]),
     parent |-> parent,
     children |-> [x \in Id |-> IF x = parent[m] THEN children[x] \ {m} ELSE children[x]]]

\* Mutation of Cut: only the message itself goes, its children move up.
CutOne(m) ==
    [nodes |-> nodes \ {m},
     parent |-> [x \in Id |-> IF x \in children[m] THEN parent[m] ELSE parent[x]],
     children |-> [x \in Id |-> IF x = parent[m] THEN (children[x] \ {m}) \cup children[m]
                                ELSE children[x]]]

\* The tree without m and its children; the grandchildren move up.
Cut(m) ==
    LET grand == nodes \cap UNION {children[c] : c \in children[m] \cap nodes}
    IN  [nodes |-> nodes \ ({m} \cup children[m]),
         parent |-> [x \in Id |-> IF x \in grand THEN parent[m] ELSE parent[x]],
         children |-> [x \in Id |-> IF x = parent[m] /\ x \in nodes
                                    THEN (children[x] \ {m}) \cup grand
                                    ELSE children[x]]]

\* Mutation of Remove: nothing is shown after the deletion.
RemoveStays(m, new) ==
    /\ nodes' = new.nodes
    /\ parent' = new.parent
    /\ children' = new.children
    /\ UNCHANGED <<role, used, current, done, sends, asked, held, upset>>

\* deleteMessage, with the descent of showMessage.
Remove(m, new) ==
    /\ nodes' = new.nodes
    /\ parent' = new.parent
    /\ children' = new.children
    /\ IF parent[m] \in new.nodes \cup {Null}
       THEN current' \in Leaves(new.nodes, new.parent, new.children, parent[m])
       ELSE UNCHANGED current
    /\ UNCHANGED <<role, used, done, sends, asked, held, upset>>

DeleteMessage(m) == MayDelete(m) /\ Remove(m, Cut(m))

--------------------------------------------------------------------------------
(* Asking for answers *)

\* Who waits with a message holds the one of the history if live, else a copy of it.
Holder(m, live, copy, isDone) == [msg |-> m, live |-> live, copy |-> copy, done |-> isDone]
HolderSet == [msg : Id, live : BOOLEAN, copy : LinkSet, done : BOOLEAN]
RequestOf(m, live, copy) == Holder(m, live, copy, FALSE)

\* createNewChat has answered: the history is copied now.  A message that has
\* gone meanwhile is not asked for.
ChatCreated(s) ==
    /\ s.creating
    /\ sends' = (sends \ {s}) \cup
                {[msgs |-> s.msgs \cap nodes, creating |-> FALSE,
                  copy |-> [m \in s.msgs \cap nodes |-> Links(m)]]}
    /\ UNCHANGED <<tree, done, asked, held, upset>>

\* The chat is stored: one request for each answer.
ChatSaved(s) ==
    /\ ~s.creating
    /\ sends' = sends \ {s}
    /\ asked' = asked \cup {RequestOf(m, FALSE, s.copy[m]) : m \in s.msgs}
    /\ UNCHANGED <<tree, done, held, upset>>

\* createNewChat or updateChatById raises, and so does sendMessage.
SaveFails(s) ==
    /\ sends' = sends \ {s}
    /\ UNCHANGED <<tree, done, asked, held, upset>>

\* continueResponse: the message shown last is asked for again.  If its model is
\* not there any more, it is not done all the same.
ContinueResponse ==
    /\ current \in done \cap nodes
    /\ done' = done \ {current}
    /\ \/ /\ role[current] = "assistant"
          /\ asked' = asked \cup {RequestOf(current, TRUE, NoLinks)}
       \/ UNCHANGED asked
    /\ UNCHANGED <<tree, sends, held, upset>>

\* The request is answered: the tree does not change.
Answered(r) ==
    /\ asked' = asked \ {r}
    /\ UNCHANGED <<tree, done, sends, held, upset>>

PutBack(m, links) ==
    /\ nodes' = nodes \cup {m}
    /\ parent' = [parent EXCEPT ![m] = links.parent]
    /\ children' = [children EXCEPT ![m] = links.children]

\* When h puts a copy back, it takes the place of the message of the history: whoever
\* held that one is left with what it was.
Detached(holders, h) ==
    {IF ~h.live /\ x.live /\ x.msg = h.msg
     THEN Holder(x.msg, FALSE, Links(x.msg), x.msg \in done) ELSE x : x \in holders}
\* The request fails, or is answered with an error.  The page puts the message that
\* it holds back into the history, done; if the request failed, the page shows it.
PostFails(r) ==
    LET m == r.msg
        links == IF r.live THEN Links(m) ELSE r.copy
    IN  /\ asked' = Detached(asked \ {r}, r)
        /\ held' = Detached(held, r)
        /\ Upset((IF m \notin nodes \/ links # Links(m) THEN {"staleCopy"} ELSE {})
                 \cup (IF m \in done THEN {"lateFailure"} ELSE {}))
        /\ PutBack(m, links)
        /\ done' = done \cup {m}
        /\ current' \in {m, current}
        /\ UNCHANGED <<role, used, sends>>

\* Answers end: one with its own event; or all next to the message shown last, when
\* the page stops its tasks or hears that one was cancelled.
Stopped == IF current \in nodes /\ parent[current] \in nodes
           THEN children[parent[current]] ELSE {}

AnswersEnd(answers) ==
    /\ answers # {}
    /\ answers \subseteq nodes
    /\ done' = done \cup answers
    /\ UNCHANGED <<tree, sends, asked, held, upset>>

\* Handlers that wait with an answer and write it into the history afterwards:
\* chat:title, chat:tags, execute and mergeResponses with the message itself, as the
\* second saving of feedbackHandler; generateImage and feedbackHandler with a copy.
HoldMessage(m) ==
    /\ m \in nodes /\ role[m] = "assistant"
    /\ \/ held' = held \cup {Holder(m, TRUE, NoLinks, FALSE)}
       \/ Offered(m) /\ held' = held \cup {Holder(m, FALSE, Links(m), TRUE)}
    /\ UNCHANGED <<tree, done, sends, asked, upset>>

WriteBack(h) ==
    LET m == h.msg
        links == IF h.live THEN Links(m) ELSE h.copy
    IN  /\ held' = Detached(held \ {h}, h)
        /\ asked' = Detached(asked, h)
        /\ PutBack(m, links)
        /\ done' = IF h.live THEN done ELSE IF h.done THEN done \cup {m} ELSE done \ {m}
        /\ UpsetIf(m \notin nodes \/ links # Links(m) \/ done' # done, "staleCopy")
        /\ UNCHANGED <<role, current, used, sends>>

\* chatCompletedHandler and chatActionHandler make a new message of the one that is there,
\* which matters to who holds it.
Renewed(m) ==
    /\ m \in nodes
    /\ \E h \in held \cup asked : h.live /\ h.msg = m
    /\ held' = Detached(held, Holder(m, FALSE, Links(m), FALSE))
    /\ asked' = Detached(asked, Holder(m, FALSE, Links(m), FALSE))
    /\ UNCHANGED <<tree, done, sends, upset>>

\* Its request fails: nothing is written.
HandlerFails(h) ==
    /\ held' = held \ {h}
    /\ UNCHANGED <<tree, done, sends, asked, upset>>

--------------------------------------------------------------------------------
Step ==
    \/ \E k \in 1 .. MaxModels : \/ SubmitPrompt(k)
                                 \/ \E m \in Id : Regenerate(m, k)
    \/ \E k \in 0 .. MaxModels, m \in Id : EditQuestion(m, k) \/ SubmitMessage(m, k)
    \/ \E m \in Id : CopyAnswer(m) \/ AddMessages(m) \/ DeleteMessage(m)
    \/ CreateMessagePair
    \/ \E m, s \in Id : ShowSibling(m, s)
    \/ \E s \in sends : ChatCreated(s) \/ ChatSaved(s) \/ SaveFails(s)
    \/ ContinueResponse
    \/ \E r \in asked : Answered(r) \/ PostFails(r)
    \/ \E m \in nodes \ done : role[m] = "assistant" /\ AnswersEnd({m})
    \/ AnswersEnd(Stopped)
    \/ \E m \in Id : HoldMessage(m) \/ Renewed(m)
    \/ \E h \in held : WriteBack(h) \/ HandlerFails(h)

Next == Step /\ Cardinality(sends') + Cardinality(asked') + Cardinality(held') <= MaxWaiting

Spec == Init /\ [][Next]_vars

--------------------------------------------------------------------------------
(* Properties *)

SendOK(s) ==
    /\ s.msgs \subseteq Id
    /\ s.creating \in BOOLEAN
    /\ s.copy \in [s.msgs -> LinkSet]

\* Every variable has its type.
TypeOK ==
    /\ nodes \subseteq Id
    /\ parent \in [Id -> Id \cup {Null}]
    /\ children \in [Id -> SUBSET Id]
    /\ role \in [Id -> {"user", "assistant"}]
    /\ done \subseteq Id
    /\ current \in Id \cup {Null}
    /\ used \in 0 .. MaxMessages
    /\ \A s \in sends : SendOK(s)
    /\ asked \subseteq HolderSet /\ held \subseteq HolderSet
    /\ upset \subseteq Upsets

\* parentId and childrenIds agree, and both name messages that are there: no
\* message is lost from the chat without being deleted.
LinksAgree ==
    \A m \in nodes :
        /\ parent[m] # Null => parent[m] \in nodes /\ m \in children[parent[m]]
        /\ \A c \in children[m] : c \in nodes /\ parent[c] = m
TreeAgrees == "staleCopy" \notin upset => LinksAgree

\* The page shows one branch to its end, and something as long as there is
\* anything: a prompt never goes in above messages that are not seen.
WholeBranchShown ==
    upset \cap {"staleCopy", "earlyPair", "lateFailure"} = {} =>
        IF nodes = {} THEN current = Null ELSE current \in nodes /\ children[current] = {}

\* Every answer stays below a question, although deleting a message takes its
\* children and moves the grandchildren up.
AnswersHaveQuestions ==
    upset \cap {"staleCopy", "modelGone"} = {} =>
        \A m \in nodes : role[m] = "assistant" =>
            parent[m] \in nodes /\ role[parent[m]] = "user"

================================================================================
