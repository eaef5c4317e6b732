-------------------------------- MODULE ChatSync --------------------------------
(***************************************************************************)
(* The history of a chat in two places: the page that shows it             *)
(* (Chat.svelte) and the row that the server keeps of it (models/chats.py).*)
(*                                                                         *)
(* The page reads a row when the user moves to a chat and writes the whole *)
(* history back after many of its steps; the task of an answer writes into *)
(* the row on its own.  Every wait for the network lets the user move to   *)
(* another chat meanwhile.                                                 *)
(***************************************************************************)
EXTENDS Naturals, Sequences, FiniteSets, SequencesExt

CONSTANTS
    Chat,          \* chats that exist; each is a route of its own
    MaxMsgs,       \* bound: answers asked for
    MaxMoves,      \* bound: moves from chat to chat
    MaxRatings,    \* bound: whole-history saves that the user causes
    MaxAsides,     \* bound: handlers that hold a message over a wait
    MaxBusy,       \* bound: loads, saves, events and handlers under way
    MaxMishaps     \* bound: kinds of mishap

ASSUME BoundsAssumption ==
    /\ MaxMsgs \in Nat /\ MaxMoves \in Nat /\ MaxRatings \in Nat
    /\ MaxAsides \in Nat /\ MaxBusy \in Nat /\ MaxMishaps \in Nat
    /\ Chat # {}

Msg == 1 .. MaxMsgs
Null == 0

\* What a history holds of an answer: nothing, no text, a part of it, all of it.
Absent == 0
Empty == 1
Part == 2
Full == 3
Text == Absent .. Full

\* A history and the chat it was made for.
Row == [of : Chat, text : [Msg -> Text], current : Msg \cup {Null}]
Present(row) == {m \in Msg : row.text[m] # Absent}
Blank(c) == [of |-> c, text |-> [m \in Msg |-> Absent], current |-> Null]

VARIABLES
    shown,         \* $chatId, the chat of the route
    loading,       \* `loading`: the page hides the chat
    hist,          \* `history`
    done,          \* answers whose `done` is true on the page
    fetched,       \* `chat`: the row that the page received last
    loads,         \* loadChat calls under way
    stored,        \* the rows of the chats
    saves,         \* requests that replace a row, in the order sent
    replies,       \* answers to them that the page waits for
    parent,        \* the answer before an answer
    home,          \* the chat that an answer was asked for in
    task,          \* how far the request for an answer has come
    target,        \* the chat that the request names
    events,        \* socket events on their way to the page, oldest first
    completing,    \* chatCompletedHandler calls that wait
    held,          \* handlers that wait and put a message into the history then
    counts,        \* moves, ratings and such handlers so far
    mishap         \* history: what happened that the design does not absorb

page == <<shown, loading, hist, done, fetched>>
asked == <<parent, home>>
vars == <<page, loads, stored, saves, replies, asked, task, target, events,
          completing, held, counts, mishap>>

\* The request for an answer: the page stores the chat first ("saving"), sends the
\* request ("ready"), the server has made a task ("posted") that asks the model
\* ("running") and receives text ("streaming"); at the end it stores the answer
\* ("kept") and tells the page, or the other way round ("told").
TaskStates == {"none", "saving", "ready", "posted", "running", "streaming", "kept",
               "told", "over"}

\* Mishaps: the user moves on while the page waits for an answer to a load or a save, or
\* to put a copy of a message back; a save arrives before an older one; an answer ends
\* while its chat is being loaded, so that the page may have neither its text nor its end;
\* a history is saved while another answer of it is under way; a handler puts a message
\* into a history that does not have it or has it otherwise, or a row into `chat` while
\* the row of a load is there.
Mishaps == {"hasty", "overtaken", "missed", "early", "late"}
MishapIf(cond, what) ==
    /\ mishap' = mishap \cup (IF cond THEN {what} ELSE {})
    /\ Cardinality(mishap') <= MaxMishaps

Init ==
    /\ shown \in Chat
    /\ loading = FALSE
    /\ hist = Blank(shown)
    /\ done = {}
    /\ fetched = hist
    /\ loads = {}
    /\ stored = [c \in Chat |-> Blank(c)]
    /\ saves = <<>>
    /\ replies = {}
    /\ parent = [m \in Msg |-> Null]
    /\ home = [m \in Msg |-> shown]
    /\ task = [m \in Msg |-> "none"]
    /\ target = home
    /\ events = <<>>
    /\ completing = {}
    /\ held = {}
    /\ counts = [moves |-> 0, ratings |-> 0, asides |-> 0]
    /\ mishap = {}

--------------------------------------------------------------------------------
(* Moving to a chat *)

\* Requests of the page that a move would leave behind.
Unanswered == \/ loads # {} \/ saves # <<>> \/ replies # {}
              \/ \E m \in Msg : task[m] \in {"saving", "ready"}
              \/ \E h \in held : h.left > 0

\* navigateHandler and loadChat up to the request: $chatId changes at once, the
\* history when the row has come.
Navigate(c) ==
    /\ counts.moves < MaxMoves
    /\ c # shown
    /\ shown' = c
    /\ loading' = TRUE
    /\ loads' = loads \cup
           {[id |-> counts.moves, chat |-> c, at |-> "sent", row |-> stored[c]]}
    /\ counts' = [counts EXCEPT !.moves = @ + 1]
    /\ MishapIf(Unanswered, "hasty")
    /\ UNCHANGED <<hist, done, fetched, stored, saves, replies, asked, task, target,
                   events, completing, held>>

LoadTo(l, at, row) == loads' = (loads \ {l}) \cup {[l EXCEPT !.at = at, !.row = row]}

\* get_chat_by_id on the server.
RowRead(l) ==
    /\ l.at = "sent"
    /\ LoadTo(l, "read", stored[l.chat])
    /\ MishapIf(\E m \in Msg : target[m] = l.chat /\ task[m] = "told", "missed")
    /\ UNCHANGED <<page, stored, saves, replies, asked, task, target, events,
                   completing, held, counts>>

\* The row comes; loadChat keeps it in `chat` and asks for the tags.
RowComes(l) ==
    /\ l.at = "read"
    /\ fetched' = l.row
    /\ LoadTo(l, "tags", l.row)
    /\ UNCHANGED <<shown, loading, hist, done, stored, saves, replies, asked, task,
                   target, events, completing, held, counts, mishap>>

\* The messages ms of the history are replaced: whoever held one of them is left with
\* what it was.
Detached(ms) ==
    {IF h.text = Absent /\ h.msg \in ms
     THEN [h EXCEPT !.text = hist.text[h.msg], !.done = h.msg \in done] ELSE h : h \in held}

\* The tags come; the history is that of `chat`, whoever wrote it last.
Install(l) ==
    /\ l.at = "tags"
    /\ hist' = fetched
    /\ done' \in SUBSET Present(fetched)
    /\ held' = Detached(Msg)
    /\ LoadTo(l, "settings", l.row)
    /\ UNCHANGED <<shown, loading, fetched, stored, saves, replies, asked, task,
                   target, events, completing, counts, mishap>>

\* The settings of the user come; all answers of the history count as done.
MarkDone(l) ==
    /\ l.at = "settings"
    /\ done' = Present(hist)
    /\ LoadTo(l, "shown", l.row)
    /\ UNCHANGED <<shown, loading, hist, fetched, stored, saves, replies, asked, task,
                   target, events, completing, held, counts, mishap>>

\* loadChat returns, navigateHandler shows the chat.
Loaded(l) ==
    /\ l.at = "shown"
    /\ loading' = FALSE
    /\ loads' = loads \ {l}
    /\ UNCHANGED <<shown, hist, done, fetched, stored, saves, replies, asked, task,
                   target, events, completing, held, counts, mishap>>

--------------------------------------------------------------------------------
(* Writing the history back *)

\* Answers whose end the page has not heard of yet.
Underway == {m \in Msg : task[m] \notin {"none", "over"}}
                \cup {events[i].msg : i \in DOMAIN events}

\* updateChatById with the history as it is now; `for` is the answer that is asked for
\* when the save has been answered, `kept` says that the page keeps the reply.
Save(c, row, for, kept) ==
    /\ saves' = Append(saves, [chat |-> c, row |-> row, for |-> for, kept |-> kept])
    /\ MishapIf((Underway \cap Present(row)) \ {for} # {}, "early")

\* The row becomes what the page sent (update_chat_by_id).
SaveArrives(i) ==
    LET s == saves[i]
    IN  /\ stored' = [stored EXCEPT ![s.chat] = s.row]
        /\ saves' = RemoveAt(saves, i)
        /\ replies' = replies \cup (IF s.kept THEN {[row |-> s.row, for |-> s.for]} ELSE {})
        /\ MishapIf(\E k \in 1 .. i - 1 : saves[k].chat = s.chat, "overtaken")
        /\ UNCHANGED <<page, loads, asked, task, target, events, completing, held, counts>>

\* saveChatHandler keeps the reply in `chat`; sendMessage goes on.
SaveReturns(r) ==
    /\ fetched' = r.row
    /\ replies' = replies \ {r}
    /\ task' = [m \in Msg |-> IF m = r.for THEN "ready" ELSE task[m]]
    /\ UNCHANGED <<shown, loading, hist, done, loads, stored, saves, asked, target,
                   events, completing, held, counts, mishap>>

\* rateMessage and the other handlers of Messages.svelte that call updateChat.
Rate ==
    /\ ~loading
    /\ counts.ratings < MaxRatings
    /\ Present(hist) # {}
    /\ Save(shown, hist, Null, FALSE)
    /\ counts' = [counts EXCEPT !.ratings = @ + 1]
    /\ UNCHANGED <<page, loads, stored, replies, asked, task, target, events,
                   completing, held>>

--------------------------------------------------------------------------------
(* Asking for an answer *)

\* Mutation of Send: the request does not wait for the save.
SendUnawaited(m) ==
    /\ ~loading
    /\ hist.current \in done \cup {Null}
    /\ task[m] = "none" /\ \A k \in 1 .. m - 1 : task[k] # "none"
    /\ parent' = [parent EXCEPT ![m] = hist.current]
    /\ home' = [home EXCEPT ![m] = shown]
    /\ hist' = [hist EXCEPT !.text[m] = Empty, !.current = m]
    /\ task' = [task EXCEPT ![m] = "ready"]
    /\ Save(shown, hist', Null, TRUE)
    /\ UNCHANGED <<shown, loading, done, fetched, loads, stored, replies, target,
                   events, completing, held, counts>>

\* submitPrompt and sendMessage up to saveChatHandler.
Send(m) ==
    /\ ~loading
    /\ hist.current \in done \cup {Null}
    /\ task[m] = "none" /\ \A k \in 1 .. m - 1 : task[k] # "none"
    /\ parent' = [parent EXCEPT ![m] = hist.current]
    /\ home' = [home EXCEPT ![m] = shown]
    /\ hist' = [hist EXCEPT !.text[m] = Empty, !.current = m]
    /\ task' = [task EXCEPT ![m] = "saving"]
    /\ Save(shown, hist', m, TRUE)
    /\ UNCHANGED <<shown, loading, done, fetched, loads, stored, replies, target,
                   events, completing, held, counts>>

\* sendMessageSocket: the request names the chat that is shown by now.
Post(m) ==
    /\ task[m] = "ready"
    /\ task' = [task EXCEPT ![m] = "posted"]
    /\ target' = [target EXCEPT ![m] = shown]
    /\ UNCHANGED <<page, loads, stored, saves, replies, asked, events, completing, held,
                   counts, mishap>>

\* upsert_message_to_chat_by_id_and_message_id
Upsert(m, text) ==
    stored' = [stored EXCEPT ![target[m]].text[m] = text, ![target[m]].current = m]
Emit(m, text) ==
    events' = Append(events, [msg |-> m, chat |-> target[m], text |-> text])

\* process_chat: the model answers, its name is stored.
Begin(m) ==
    /\ task[m] = "posted"
    /\ task' = [task EXCEPT ![m] = "running"]
    /\ LET text == stored[target[m]].text[m]
       IN  Upsert(m, IF text = Absent THEN Empty ELSE text)
    /\ UNCHANGED <<page, loads, saves, replies, asked, target, events, completing, held,
                   counts, mishap>>

\* A part of a streamed answer; it carries all the text so far.
Stream(m) ==
    /\ task[m] = "running"
    /\ task' = [task EXCEPT ![m] = "streaming"]
    /\ Emit(m, Part)
    /\ UNCHANGED <<page, loads, stored, saves, replies, asked, target, completing, held,
                   counts, mishap>>

\* The answer is stored: a streamed one before the page is told, one that came whole
\* after that.
Keep(m) ==
    /\ task[m] \in {"streaming", "told"}
    /\ task' = [task EXCEPT ![m] = IF @ = "told" THEN "over" ELSE "kept"]
    /\ Upsert(m, Full)
    /\ UNCHANGED <<page, loads, saves, replies, asked, target, events, completing, held,
                   counts, mishap>>

Tell(m) ==
    /\ task[m] \in {"running", "kept"}
    /\ task' = [task EXCEPT ![m] = IF @ = "kept" THEN "over" ELSE "told"]
    /\ Emit(m, Full)
    /\ UNCHANGED <<page, loads, stored, saves, replies, asked, target, completing, held,
                   counts, mishap>>

--------------------------------------------------------------------------------
(* The page hears of it *)

\* The answers from m up to the first one that the history has (createMessagesList):
\* the least set with m and the parents, where they are there, of its members.
Branch(row, m) ==
    {k \in Msg : \A s \in SUBSET Msg :
        m \in s /\ (\A x \in s : parent[x] \in Present(row) => parent[x] \in s) => k \in s}

\* chatEventHandler and chatCompletionEventHandler
Handle ==
    /\ events # <<>>
    /\ events' = Tail(events)
    /\ LET e == Head(events)
           heard == e.chat = shown /\ e.msg \in Present(hist)
           new == [hist EXCEPT !.text[e.msg] = e.text]
       IN  /\ hist' = IF heard THEN new ELSE hist
           /\ done' = IF heard /\ e.text = Full THEN done \cup {e.msg} ELSE done
           /\ completing' = completing \cup
                  IF heard /\ e.text = Full
                  THEN {[chat |-> e.chat,
                         text |-> [m \in Msg |-> IF m \in Branch(new, e.msg)
                                                 THEN new.text[m] ELSE Absent]]}
                  ELSE {}
           /\ MishapIf(e.chat = shown /\ loading /\ e.text = Full, "missed")
    /\ UNCHANGED <<shown, loading, fetched, loads, stored, saves, replies, asked, task,
                   target, held, counts>>

\* Mutation of Completed: it saves whatever chat is shown by now.
CompletedAnywhere(c) ==
    /\ completing' = completing \ {c}
    /\ LET there(m) == \A k \in 1 .. m : c.text[k] # Absent => k \in Present(hist)
       IN  /\ hist' = [hist EXCEPT !.text =
                  [m \in Msg |-> IF c.text[m] # Absent /\ there(m) THEN c.text[m] ELSE @[m]]]
           /\ held' = Detached({m \in Msg : c.text[m] # Absent /\ there(m)})
           /\ IF \A m \in Msg : there(m)
              THEN Save(c.chat, hist', Null, TRUE)
              ELSE UNCHANGED <<saves, mishap>>
    /\ UNCHANGED <<shown, loading, done, fetched, loads, stored, replies, asked, task,
                   target, events, counts>>

\* Mutation of Completed: the history is not saved.
CompletedUnsaved(c) ==
    /\ completing' = completing \ {c}
    /\ LET there(m) == \A k \in 1 .. m : c.text[k] # Absent => k \in Present(hist)
       IN  /\ hist' = [hist EXCEPT !.text =
                  [m \in Msg |-> IF c.text[m] # Absent /\ there(m) THEN c.text[m] ELSE @[m]]]
           /\ held' = Detached({m \in Msg : c.text[m] # Absent /\ there(m)})
    /\ UNCHANGED <<shown, loading, done, fetched, loads, stored, saves, replies, asked, task,
                   target, events, counts, mishap>>

\* chatCompletedHandler: the texts that the server's filters return go into the
\* history, the first message it lacks ends the handler; then it is saved.
Completed(c) ==
    /\ completing' = completing \ {c}
    /\ LET there(m) == \A k \in 1 .. m : c.text[k] # Absent => k \in Present(hist)
       IN  /\ hist' = [hist EXCEPT !.text =
                  [m \in Msg |-> IF c.text[m] # Absent /\ there(m) THEN c.text[m] ELSE @[m]]]
           /\ held' = Detached({m \in Msg : c.text[m] # Absent /\ there(m)})
           /\ IF c.chat = shown /\ \A m \in Msg : there(m)
              THEN Save(shown, hist', Null, TRUE)
              ELSE UNCHANGED <<saves, mishap>>
    /\ UNCHANGED <<shown, loading, done, fetched, loads, stored, replies, asked, task,
                   target, events, counts>>

--------------------------------------------------------------------------------
(* Handlers that hold a message over a wait *)

\* A handler begins that holds the message of m; `left` times it will put it back and save
\* the history.  It holds the message of the history itself (text Absent) or a copy.
Hold(m, at, text, left) ==
    /\ counts.asides < MaxAsides
    /\ m \in Present(hist)
    /\ \A h \in held : h.msg # m
    /\ held' = held \cup {[msg |-> m, at |-> at, row |-> Blank(shown), text |-> text,
                          done |-> text # Absent, left |-> left]}
    /\ counts' = [counts EXCEPT !.asides = @ + 1]
    /\ UNCHANGED <<page, loads, stored, saves, replies, asked, task, target, events,
                   completing, mishap>>

\* chatEventHandler hears of a title or of code to run, or of tags: these come after the
\* end of the answer, and make it read the row of the chat.
Aside(m) ==
    /\ target[m] = shown
    /\ task[m] \notin {"none", "saving", "ready"}
    /\ \/ Hold(m, "wait", Absent, 0)
       \/ /\ task[m] = "over" /\ \A i \in DOMAIN events : events[i].msg # m
          /\ Hold(m, "sent", Absent, 0)

\* generateImage copies the message of a done answer; feedbackHandler does, and may save
\* its copy a second time when there are tags for it.
Copy(m) ==
    /\ ~loading
    /\ m \in done
    /\ \E left \in {1, 2} : Hold(m, "wait", hist.text[m], left)

HeldTo(h, new) == held' = (held \ {h}) \cup new

\* get_chat_by_id for the handler of the tags
TagsRead(h) ==
    /\ h.at = "sent"
    /\ HeldTo(h, {[h EXCEPT !.at = "read", !.row = stored[target[h.msg]]]})
    /\ UNCHANGED <<page, loads, stored, saves, replies, asked, task, target, events,
                   completing, counts, mishap>>

\* The row becomes `chat`, also while loadChat waits with another one in it.
TagsCome(h) ==
    /\ h.at = "read"
    /\ fetched' = h.row
    /\ HeldTo(h, {[h EXCEPT !.at = "wait", !.row = Blank(shown)]})
    /\ MishapIf(\E l \in loads : l.at = "tags", "late")
    /\ UNCHANGED <<shown, loading, hist, done, loads, stored, saves, replies, asked, task,
                   target, events, completing, counts>>

\* The wait is over: the message goes into the history that is shown by now, which it is
\* no change of as long as it is the message of that history.
Resume(h) ==
    /\ h.at = "wait"
    /\ IF h.text = Absent
       THEN UNCHANGED <<hist, done, mishap>>
       ELSE /\ hist' = [hist EXCEPT !.text[h.msg] = h.text]
            /\ done' = IF h.done THEN done \cup {h.msg} ELSE done \ {h.msg}
            /\ MishapIf(hist.text[h.msg] # h.text \/ (h.msg \in done) # h.done, "late")
    /\ HeldTo(h, IF h.left = 0 THEN {} ELSE {[h EXCEPT !.at = "save", !.text = Absent]})
    /\ UNCHANGED <<shown, loading, fetched, loads, stored, saves, replies, asked, task,
                   target, events, completing, counts>>

\* saveMessage saves the history with the copy in it.
SaveCopy(h) ==
    /\ h.at = "save"
    /\ Save(shown, hist, Null, FALSE)
    /\ HeldTo(h, IF h.left = 1 THEN {} ELSE {[h EXCEPT !.at = "wait", !.left = 1]})
    /\ UNCHANGED <<page, loads, stored, replies, asked, task, target, events,
                   completing, counts>>

--------------------------------------------------------------------------------
Busy == Cardinality(loads) + Len(saves) + Cardinality(replies) + Len(events)
            + Cardinality(completing) + Cardinality(held)

Step ==
    \/ \E c \in Chat : Navigate(c)
    \/ \E l \in loads : RowRead(l) \/ RowComes(l) \/ Install(l)
                     \/ MarkDone(l) \/ Loaded(l)
    \/ \E i \in DOMAIN saves : SaveArrives(i)
    \/ \E r \in replies : SaveReturns(r)
    \/ Rate
    \/ \E m \in Msg : Send(m) \/ Post(m) \/ Begin(m) \/ Stream(m) \/ Keep(m) \/ Tell(m)
    \/ Handle
    \/ \E c \in completing : Completed(c)
    \/ \E m \in Msg : Aside(m) \/ Copy(m)
    \/ \E h \in held : TagsRead(h) \/ TagsCome(h) \/ Resume(h) \/ SaveCopy(h)

Next == Step /\ Busy' <= MaxBusy

Spec == Init /\ [][Next]_vars

--------------------------------------------------------------------------------
(* Properties *)

\* Type invariant.
TypeOK ==
    /\ shown \in Chat /\ loading \in BOOLEAN
    /\ hist \in Row /\ fetched \in Row /\ done \subseteq Present(hist)
    /\ loads \subseteq [id : 0 .. MaxMoves, chat : Chat, row : Row,
                        at : {"sent", "read", "tags", "settings", "shown"}]
    /\ stored \in [Chat -> Row]
    /\ saves \in Seq([chat : Chat, row : Row, for : Msg \cup {Null}, kept : BOOLEAN])
    /\ replies \subseteq [row : Row, for : Msg \cup {Null}]
    /\ parent \in [Msg -> Msg \cup {Null}] /\ \A m \in Msg : parent[m] < m
    /\ home \in [Msg -> Chat] /\ target \in [Msg -> Chat]
    /\ task \in [Msg -> TaskStates]
    /\ events \in Seq([msg : Msg, chat : Chat, text : {Part, Full}])
    /\ completing \subseteq [chat : Chat, text : [Msg -> Text]]
    /\ held \subseteq [msg : Msg, at : {"sent", "read", "wait", "save"}, row : Row,
                       text : Text, done : BOOLEAN, left : 0 .. 2]
    /\ counts \in [moves : 0 .. MaxMoves, ratings : 0 .. MaxRatings, asides : 0 .. MaxAsides]
    /\ mishap \subseteq Mishaps

Quiet ==
    /\ loads = {} /\ saves = <<>> /\ replies = {} /\ events = <<>> /\ completing = {}
    /\ held = {}
    /\ \A m \in Msg : task[m] \in {"none", "over"}

\* The chats stay apart: unless the user moved on while the page still waited for a load,
\* a save or a copy of a message, or a handler of an event wrote late, the page shows the
\* chat of its route, and the row of a chat holds the history of that chat with the
\* answers that were asked for in it alone.
ChatsStayApart ==
    mishap \cap {"hasty", "late"} = {} =>
        /\ ~loading => hist.of = shown
        /\ \A c \in Chat : /\ stored[c].of = c
                           /\ \A m \in Present(stored[c]) : home[m] = c

\* When everything has come to rest, each answer is in the row of the chat it was
\* asked for in, all of it, and the page shows what is stored.
AnswersReady ==
    Quiet /\ mishap = {} =>
        /\ \A m \in Msg : task[m] = "over" => stored[home[m]].text[m] = Full
        /\ hist.text = stored[shown].text

\* Whoever stays has everything stored, whatever is rated meanwhile, as long as the
\* saves arrive in order.
StayingIsSafe ==
    Quiet /\ counts.moves = 0 /\ "overtaken" \notin mishap =>
        hist.text = stored[shown].text
================================================================================
