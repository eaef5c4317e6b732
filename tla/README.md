# Verification of the Open WebUI deployment

The repository deploys a small language model behind a chat interface: Terraform
and Ansible build a cluster and install a Ray Serve application (`ray/tinyllama`),
Helm installs Open WebUI (`open-webui`), and Open WebUI is the program: a Python
server of some 42 000 lines, and a Svelte client. It is the only part with
concurrent state of its own, so it is the part that is specified here. The Helm
chart (`src/helm/open-webui/values.yaml`) installs a Redis for it and lets it run as
one or several replicas; most of what is difficult in it comes from the latter.

Contents: [the system](#1-the-system) · [modules](#2-modules-and-code) ·
[runs](#3-what-the-runs-check) · [fairness](#4-fairness) ·
[proofs](#5-what-is-proved) · [findings](#6-disagreements-with-the-documentation) ·
[limits](#7-what-is-not-modelled) · [plan](#8-plan).

Paths of Python files below are relative to `src/open-webui/backend/open_webui/`, those of
Svelte and TypeScript files to `src/open-webui/src/lib/components/`.

## 1. The system

A server process is one asyncio event loop and a pool of threads. Code between two
`await`s runs alone in its process. Processes share a database, and a Redis when one
is configured; without Redis the same data are dictionaries of the one process.
There are two ways to reach Redis in this code, and they differ in what may
interleave:

* `tasks.py` and `YdocManager` use the asyncio client: every command is a point of
  suspension, for the process as well as for the others;
* `RedisDict` and `RedisLock` use the blocking client: a command stops the whole
  process, and only *other* processes run between two commands.

### Components

**Background tasks** — `tasks.py`, endpoints in `main.py`. *State*: `tasks` (id →
asyncio task) and `item_tasks` (chat or document → list of ids) in each process; with
Redis also a hash of all ids and a set of ids per item. *Operations*: `create_task`,
`redis_save_task`, `cleanup_task` / `redis_cleanup_task`, `list_tasks`,
`list_task_ids_by_item_id`, `stop_task`, `stop_item_tasks`,
`redis_task_command_listener`. *Used by* the chat endpoint (a streamed answer is a
task of its chat), the stop button, and the save of a collaborative document.
*Hard*: with Redis a stop is a message to all processes; saves and clean-ups of
different tasks travel on different connections; a process or a command may fail at
any point. Without Redis a stop waits for the task it cancels, and the tables change
under loops that are suspended. *Correct when* a task that runs can be found and
stopped by the client that knows it or its chat, an ended task is forgotten, and a
stop is answered.

**Clean-up lock** — `RedisLock` in `socket/utils.py` and
`periodic_usage_pool_cleanup` in `socket/main.py`. *State*: one key with a time to
live. *Operations*: acquire with two retries, renew before each pass, release in two
commands. *Hard*: time. The key may expire and change hands between any two
commands of a slow process, and renewal does not ask whose lock it is. *Correct when*
at most one process cleans, none deletes the lock of another, and a process only
gives up because another one cleans.

**Usage pool** — `usage` handler and clean-up pass, `socket/main.py`. *State*:
`USAGE_POOL`: model → session → time. *Operations*: a session reports that it uses a
model; the pass removes reports older than three seconds. *Hard*: both read an entry
and write it back later; processes overwrite each other. *Correct when* the pass
survives, a stale report does not stay, a fresh one does.

**Session and user pools** — `connect`, `user-join`, `disconnect`,
`socket/main.py`. *State*: `SESSION_POOL`, `USER_POOL`. *Hard*: as above, and
`disconnect` has a second job, taking the session out of all documents. *Correct
when* the two pools are inverse to each other, a user with a session is active, and an
ended session leaves its documents.

**Collaborative notes** — `Collaboration.ts`, `RichTextInput.svelte`,
`NoteEditor.svelte` in the client, the `ydoc:document:*` handlers of
`socket/main.py`, `YdocManager` in `socket/utils.py`, `models/notes.py`. *State*: the
Y.Doc of each editor, the log of updates and the users of the document on the server,
the tasks that save half a second after an update, the row of the note. *Hard*: the
server never merges; it stores for each save the text that one editor sent, and each
update cancels the pending save of the one before. *Correct when* editors converge,
the stored text is put into the shared document once, the document goes with its last
editor, and the stored note ends with everything that was typed.

**Chat page** — `chat/Chat.svelte`, `chat/Messages.svelte`. *State*: `history` (a tree of
messages with links in both directions, and the message that is shown), `done` of each
answer, `taskIds`, `chat` (the row received last), `$chatId`. *Operations*: prompts, edits,
regenerations, copies, pairs, deletions, moves between branches and between chats, the stop
button, and the handlers of the socket's events. *Hard*: nearly every handler waits for the
network and then writes into a history that has changed since; several hold deep copies.
*Correct when* the tree stays a tree, what is shown is a whole branch, an answer that nobody
works on any more counts as done, and chats do not mix.

**Chat storage and response** — `models/chats.py`, `routers/chats.py`,
`process_chat_response` in `utils/middleware.py`, `get_event_emitter`. A chat is one JSON
document; the page replaces its history, the task of an answer writes single messages into
it. *Correct when* the row ends with all that was answered, and with what the page shows.
Inside, `process_chat_response` has 1 600 lines of tool calls, code interpreter and
reasoning blocks, which are not modelled.

**Voice call** — `chat/MessageInput/CallOverlay.svelte`. *State*: the recorder, the queue of
parts of each answer, one loop (`monitorAndPlayAudio`) per answer, one audio element,
`assistantSpeaking`. *Hard*: the loops of several answers share the element and the flag.
*Correct when* the assistant's voice does not count as the user's, the microphone opens after it, and an
answer is spoken in full.

**Folders** — `models/folders.py`, `routers/folders.py`, `layout/Sidebar.svelte`,
`layout/Sidebar/RecursiveFolder.svelte`. *State*: a row per folder with its parent and its name, the
folder of each chat; on every page a copy of the tree and the folder that is selected. *Operations*:
create, rename, move by dropping, delete with all that is below, list (which repairs folders whose
parent is gone), chats moved and begun in folders. *Hard*: each page acts on the tree it shows, the
server checks names and nothing else, a deletion is one transaction per row, and answers and lists
cross. *Correct when* folders form a tree, siblings have different names, no chat gets lost, and the
page ends up showing what it did.

**Redis connection** — `utils/redis.py`. A proxy that repeats a command after a
Sentinel failover. Not modelled yet.

**The rest**: channels and messages, files and knowledge bases,
groups, authentication and OAuth sessions, access control, persistent
configuration, filters and pipelines, proxies of model servers, storage and vector
clients, migrations. `PROJECT.json` lists each with its status and the reason.

### Interactions

```
 editor (Collaboration.ts)          chat page  <---> voice call (CallOverlay)
     | ydoc:document:*  ^                | requests, stop, saves; events of answers
     v                  |                v
 ydoc handlers ---- YdocManager      main.py endpoints      usage / user pools
     | create_task, stop_item_tasks      | create_task, stop_task     ^
     v                                   v                            |
 tasks.py: local tables  <--- listener --- Redis hash, sets, pub/sub  |
                                           Redis lock ---> clean-up pass
```

Some of the models stand on another's result. `ChatTasks` reduces the tree to questions and
the answers below them, which `MessageTree` shows to alternate (`AnswersHaveQuestions`).
`UsagePool` takes the set of cleaners as
a constant, and `CleanupLock` shows that it has one element. `NoteSession` treats a
cancelled save as a task that is waited for, which is what `LocalTasks` shows of
`stop_item_tasks` (`StopIsAnswered`).

## 2. Modules and code

One module per component; an `MC…` module adds the constants for TLC, a `…_proofs`
module the theorems: that of the component or, where two are together, `Tasks_proofs`
(`RedisTasks`, `ChatTasks`), `Page_proofs` (`FolderTree`, `CallAudio`) and `Socket_proofs`
(`CleanupLock`, `NoteSession`). Each component module also contains a few operators marked
*Mutation of X*: the form of X with one plausible mistake. They are not part of `Next`;
each property is known to fail when one of them takes the place of X.

| module | what it is | lines of code it stands for |
|---|---|---|
| `TaskLifecycle` | what the registry promises: a task starts, may be asked to stop, ends; a stop that was requested ends it; a crash may lose it | abstract |
| `RedisTasks` | `tasks.py` over Redis, several processes | `tasks.py`, start-up and endpoints of `main.py` |
| `LocalTasks` | `tasks.py` in one event loop | `tasks.py`, endpoints of `main.py` |
| `CleanupLock` | the lock and the loop that holds it | `RedisLock` in `socket/utils.py`, `socket/main.py` 140–189, `lifespan` in `main.py` |
| `UsagePool` | `usage` and the clean-up pass | `socket/main.py` 140–256, `RedisDict` |
| `SessionPool` | `connect`, `user-join`, `disconnect` | `socket/main.py` 259–304, 623–654, `RedisDict` |
| `NoteSession` | one shared document, its editors and its saves | `socket/main.py` 387–638 (but for the request of the state, 485–521, and awareness, 603–620), `YdocManager`, `Collaboration.ts` |
| `MessageTree` | the shape of the history that a page shows, and the handlers that change it once it is shown | `chat/Chat.svelte`, `chat/Messages.svelte`, the handlers of `chat/Messages/ResponseMessage.svelte` that save a message, `convertMessagesToHistory` |
| `ChatTasks` | answers and the tasks that write them: requests, ends, stops | `chat/Chat.svelte`, `main.py`, `tasks.py` |
| `ChatSync` | the history on the page and in the row of the chat | `chat/Chat.svelte`, `chat/Messages.svelte`, `chat/Messages/ResponseMessage.svelte`, `models/chats.py`, `routers/chats.py`, `utils/middleware.py` |
| `CallAudio` | a voice call | `chat/MessageInput/CallOverlay.svelte`, parts of `chat/Chat.svelte` |
| `FolderTree` | folders of chats, on the server and on the pages that show them | `models/folders.py`, `routers/folders.py`, `layout/Sidebar.svelte`, `layout/Sidebar/RecursiveFolder.svelte`, parts of `models/chats.py` |

### RedisTasks

A step is what runs between two `await`s. A Redis command is two things, its sending
and its execution; a pipeline executes in one instant (MULTI/EXEC). `save[t]` and
`clean[t]` record how far the save and the clean-up of a task have come: they are the
program counters of two coroutines that run on different pooled connections, so their
commands may be executed in either order. `hash` and `members` are the keys in Redis,
`tasks` and `itemTasks` the tables of each process, `inbox` the commands delivered by
pub/sub and not yet handled, `caller` the loop of `stop_item_tasks` over its snapshot.

* `CreateTask` — `create_task` up to its first `await`; `SaveTask` / `SaveFails` — the
  pipeline of `redis_save_task`, executed or failed.
* `Finish` — the coroutine ends, in whichever way; the done callback schedules
  `cleanup_task`. `CleanupExec`, `CleanupDelete`, `CleanupFails`, `CleanupLocal` — its
  two `execute` calls, an error in either, and the removal from the local tables.
* `StopTask`, `ListItemTasks`, `StopListed` — the stop of one task, and the listing and
  loop of `stop_item_tasks`. They only publish: over Redis a stop does not wait.
* `Subscribe`, `HandleStop`, `ListenerDies` — the listener. `listen()` is outside its
  `try`, so a connection error ends it for good.
* `Crash`, `Restart` — a process goes with its tasks and tables; Redis keeps its keys.

Ids of tasks are fresh UUIDs, so an id is used once. All callers of `create_task` that
reach Redis name an item. Crashes, Redis errors and deaths of listeners together are
bounded by `MaxFaults`.

### LocalTasks

Here order matters inside one process, so the model has the queue of asyncio:
`ready` holds handles in the order in which they became ready and `Head(ready)` is the
only one that may run. Cancellation follows asyncio: `Task.cancel()` on a waiting task
wakes it with a `CancelledError`; on a task that has not begun, the coroutine never
runs at all (`NeverStarts`); on a task that has ended it does nothing. A call of
`stop_item_tasks` is a frame with an index into *the list object of `item_tasks`*, as
Python's list iterator is, and `attached` says whether that object is still the one in
the dictionary. What a coroutine does when it is cancelled is its own affair: it may
end, raise, or swallow the error, go on for some time (`RunOn`) and end later.

### CleanupLock

Discrete time: `ttl` of the key, `timer` of each process. What is due at `timer = 0`
may run up to `MaxLate` ticks later, at any point between two commands. `Acquire`,
`AcquireFails`, `Renew`, `FinishPass`, `PassRaises`, `ReleaseGet`, `ReleaseDelete` are
the commands and waits of the loop; `Cancel` is the end of the event loop's task, which
runs the `finally`; `Stop` is a crash or the end of the process, after which it may
`Boot` again with a new `lock_id`. `witness` is a history variable: whether a live
process set the key since this one first tried.

### UsagePool

A frame per process holds what a handler read and has not yet written back. `Usage` takes the time;
`UsageHas`, `UsageRead`, `UsageStore` are the three accesses of the handler. `CleanStart` ends the
sleep of a pass and takes its time (`now[i]`), `CleanList` reads the pool, `CleanModel` treats one
model, `CleanEnd` goes to sleep again, until `wake[i]` at the earliest.

`clock` is `int(time.time())`, and nothing holds it: `Tick` may occur between any two commands, also
while a handler or a pass is under way and while a pass is due. `asyncio.sleep` is a lower bound and
nothing else, so how long a stale report stays is not bounded by anything, and no property bounds
it. What a pass does promise is relative to the time *it* took: that is `StaleIsSwept`. `Horizon`
ends the clock of the instance.

Two history variables say which entries the properties are about: `kept[m]`, the last usage by
each session of a cleaner's process that was stored after the last one from another process, and
`elsewhere`, the models that another process stored since a pass last read the pool.

### SessionPool

The same frames for `connect`, `user-join` and `disconnect`. A list of sessions that
may repeat one is a set (the code removes every copy and makes a set before emitting).
A `KeyError` in the middle of `disconnect` ends the handler: `EndDisconnect(i, FALSE)`.
`owed` records the sessions that still have to be taken out of the documents.

The sessions of a user are on any processes, so the handlers for one user do overlap. What goes
wrong then is named and not excluded: `overtaken` has the users whose list was written, deleted or
missed by a handler after another process had changed it since it was read; `together` has those of
whom two sessions disconnected on two processes at the same time. Every other overlap is absorbed,
and that is what the three properties say: a connect may run between the commands of a disconnect,
handlers of three processes may interleave, as long as none acts on a list that has changed.

### NoteSession

One document in one process without Redis. `YdocManager` does not suspend there, so a
handler is one step except where it waits: for a cancelled save (`stop_item_tasks`) and
for an emit to the others. A Y.Doc is the set of operations it was given; `after[u]`
holds what `u` was typed behind, and `u` shows once these have come. Messages between
an editor's session and the server keep their order; a lost connection loses both
directions.

What makes the saves right is not visible in any one place. Each update cancels the
pending save and schedules one with the text of *its* author. With two concurrent
updates the last save has half of the text. It is repaired because an editor that
applies somebody else's update sends it on again (`Collaboration.ts` applies it without
the origin `server`), with its own complete text: the editor that learns of a concurrent
edit last is also the one that saves last. `EverythingIsSaved` checks that argument.

It holds for undisturbed behaviours. `upset` is a history variable that names what may
disturb one, and the condition of the property names all eight. Each is needed: with
any one of them left out of the condition TLC shows a behaviour in which text is lost.

| upset | what happens |
|---|---|
| `overlap` | a handler starts while another one waits |
| `blindEdit` | somebody types before the state of the document has come |
| `offlineEdit` | somebody types without a connection |
| `lostUpdate` | a connection is lost with updates on the way |
| `lostSave` | the author of the pending save leaves before it runs, and it raises |
| `hasty` | an editor goes before it has applied the updates sent to it, or before its own or those of others are published while somebody may be typing |
| `staleFill` | an empty document is filled with a text that has since been replaced |
| `reconnect` | an editor connects again and sends its whole document |

`hasty` has a case that two editors do not meet. An editor that repeats what another one
typed leaves, and its repetition is still on its way. A third editor joins, types and is saved. The
late repetition carries an older text, cancels that save or overwrites what it stored, and nobody
repeats the newer text, for there is no one else. `UnderWay(SessionOf(c)) \cap log` is that case:
something on its way from the editor that goes is published already. The run has two editors;
the case came up when the invariant behind the property was checked with three.

The last one shows a rule that is easy to miss: the whole document is sent without
`data`, and such an update cancels the pending save (`socket/main.py:531`) and schedules
none (line 563).

### MessageTree

`children` and `parent` are the two links of the code, changed one by one as the handlers do;
nothing in the model makes them agree. The order of `childrenIds` is left out, so a descent "to the
last child" may end in any leaf below. `sends` are `sendMessage` calls that wait for the chat to be
stored, with the copy of the history they took; `asked` are requests not answered yet; `held` are
the other handlers that wait with a message and put it back (`HoldMessage`, `WriteBack`,
`HandlerFails`): the events for titles, tags and code and `mergeResponses`, which hold the message
itself, and `generateImage` and `feedbackHandler`, which hold a deep copy and save it through
`saveMessage`. Both kinds of waiting are a `Holder`: `live` if it holds the object that is in the
history, else with its copy of the links and of `done`. An object stops being the one in the history
when another is put in its place, by a copy that is written back (`Detached`) or by
`chatCompletedHandler` and `chatActionHandler`, which make a new message of the one that is there
(`Renewed`); whoever held it is left with a copy.

What the handlers do with a stale copy is where the tree breaks, and `upset` names it: `staleCopy`
(a message is put back that was deleted, or with other links than it has by now, or with another
`done`), `earlyPair` (Ctrl+Shift+Enter below an answer that is not done), `lateFailure` (a request
fails whose answer was done before), `modelGone` (a prompt for which no selected model exists). Each
property names the upsets it does not survive.

### ChatTasks

The same page seen from its answers. A `Job` is the k-th request for an answer and goes
through the states of request and task together: the page may learn of the task after the
task has ended, or not at all. `Answered`, `PostFails`, `HandleDone`, `HandleCancel`,
`StopResponse` and `StopReturns` are the handlers; `loop` is the loop of `stopResponse` over
an array that `taskIds` may or may not still name. A prompt below an answer that failed
without text is refused by the code; the model does not tell failed answers apart here and
admits it, which only adds behaviours. `Branch` is `createMessagesList`, as the least set with the
answer that is closed under `Parent`.

### ChatSync

Two copies of each history. `Navigate`, `RowRead`, `RowComes`, `Install`, `MarkDone`, `Loaded` are the
waits of `loadChat`; `Send`, `SaveArrives`, `SaveReturns`, `Post` those of `sendMessage`;
`Begin`, `Stream`, `Keep`, `Tell` what the task stores and emits; `Handle` and `Completed`
the page's handlers of `chat:completion`, `Rate` any handler that saves the whole history because of
the user. Texts are only compared by how complete they are. Saves are separate requests and
may arrive in another order.

Some handlers hold a message over a wait and write it into *whatever history is there afterwards*
(`held`). `Aside` is `chatEventHandler` for a title, for tags and for code to run: it holds the
message of the history, waits, and assigns it (`Chat.svelte:464`); for tags it first reads the row
and puts it into `chat` (`TagsRead`, `TagsCome`). `Copy` is `generateImage` and `feedbackHandler`,
which hold a deep copy. `Resume` writes the message back, `SaveCopy` is the save after it, where
there is one; `feedbackHandler` may save twice (`left`). As in `MessageTree` a message that is
replaced while a handler holds it is a copy from then on (`Detached`). The bound is one such handler
per answer at a time and `MaxAsides` in all.

`mishap` names what the code does not absorb: `hasty` (the user moves on while a load or a save is
outstanding, or a copy is held), `overtaken` (a save overtakes an older one), `missed` (an answer
ends while its chat is being loaded), `early` (a history is saved while another answer of it is
under way), `late` (a handler puts a message into a history that does not have it, or has it
otherwise, or a row into `chat` where `loadChat` has just put another one). What a component that
was destroyed by a move still saves of the copy it holds is Svelte's affair; `hasty` leaves that
case out.

### CallAudio

An answer comes in parts; `Grow` and `Finish` are the page's handlers that dispatch a part, `Play`,
`Close`, `Abort` the turns of the loop of one answer, `AudioEnds` the element's event, `Fetched` and
`FetchFails` the request for a part's audio, `Sound`, `Silence`, `RecorderStops`, `JobEnds`,
`Submit` the recorder and the transcription. An answer ends without `chat:finish` when it fails,
when the overlay stops it (`Stopped`), or when the page's own stop button or another tab does
(`StopElsewhere`), of which the overlay does not hear. A `play()` that is rejected leaves the loop
of its answer waiting for ever (`PlayFails`, state `stuck`). `faults` records what went wrong with
which answer. The code keeps audio by the content of a part; parts are assumed to differ, so the
model keeps it by answer and number. The loop's clock (a look every 200 ms) is left out: a loop may
look at any time.

### FolderTree

`rows` and `chats` are the tables, `shown` the tree of each page. A request of a page is a record in
`calls` until its handler runs, then its answer until the page gets it; `reloads` are requests for
the list, `lists` the answers to them, of each page in the order of sending. Nothing makes any of
them arrive in order. The server is one process: its asynchronous handlers call the database without
waiting, so each is one step; `create_folder` is a plain function, which runs in a thread, so it is
two (`CheckName`, `InsertFolder`). Names are compared as `ilike` does for names without wildcards,
and an id of a row that was deleted does not come back. Whether the user may delete chats is a
choice of `DeleteRows`. Reading a dropped chat and importing a copy of one that is gone are one step
with the drop. `RemovedBefore` is what a deletion has removed when a statement fails: it goes depth
first, one transaction per row. `Below` is defined by closed sets and not by recursion, so that it
can be proved about, and so that it has a value in a cycle. `upset` names what the code does not
absorb: `hasty` (the user acts on a page that is out of date or waits for an answer),
`ontoGrandchild` (a drop two or more levels below), `intoDeleted` (something is put into a folder
that is gone), `checkedEarly` (a folder is inserted after its name was taken), `queryFailed` (a
query for a name or a parent raises, which the functions of `models/folders.py` swallow: it counts
as one that finds nothing, and the insertion, the move, the renaming or the repair goes on),
`nullAnswer` (a renaming is not made, and the page hears nothing of it: a statement that fails, or a
second query that finds the name, is answered with 200 and `null`, which the page takes neither for
success nor for an error), `deleteFailed`, `answerLost`, `overtaken` (a list comes before an older
one), `listFailed`, `restored` (a refusal restores a name that has changed since).

## 3. What the runs check

Every property has at least one mutation of the code that breaks it under the same
configuration; `PROJECT.json` names it.

| run | instance | states | shows |
|---|---|---|---|
| `redis_tasks` | 2 processes, 2 tasks of one item, 1 `stop_item_tasks`, 1 fault, fair | 442 808 | the tables agree under every order of commands, messages and faults; a stop ends its task; `TaskLifecycle` is implemented |
| `local_tasks` | 2 tasks of one item, 2 stops, fair | 115 050 | stops cancel once, what is not listed is being stopped, every stop is answered; `TaskLifecycle` is implemented |
| `local_tasks_item_stop` | 3 tasks, 1 stop | – | *finding* |
| `cleanup_lock` | 3 processes, lock 4, period 1, late 1 | 1 174 634 | one cleaner; no foreign release; nobody gives up without reason |
| `usage_pool` | 2 processes, 3 sessions, 1 model, 4 seconds | 5 092 276 | the pass survives; what it found stale is gone after it, fresh entries stay |
| `session_pool` | a user with a session on each of 3 processes, another with one | 149 432 | which overlaps of connect and disconnect the pools absorb |
| `note_session` | 2 editors, 2 edits or kinds of upset together, 1 reconnection | 1 322 718 | convergence, one fill, clearing; without upset everything typed is saved |
| `message_tree` | 5 messages, 2 models, 2 waiting handlers, 1 kind of upset, up to the first `staleCopy` | 2 007 785 | the tree, the branch shown, questions and answers |
| `chat_tasks` | 2 questions, 2 answers, 3 things under way, 1 kind of upset | 1 161 093 | no answer stays undone with nothing under way |
| `chat_sync` | 2 chats, 2 answers, 2 moves, 1 rating, 1 handler that holds a message, 1 kind of mishap | 5 087 040 | chats do not mix; at rest rows and page are complete |
| `folder_tree` | 3 folders, 2 chats, 2 names, 2 pages, 2 things the user does, 2 kinds of upset | 990 422 | a tree, different names, chats in lists, complete lists, pages up to date |
| `call_audio` | 2 answers of 2 parts, 2 utterances, faults or other events, fair | 1 540 395 | not heard while it speaks, spoken in full, open again |

### Properties

*Tasks over Redis.* `ListedTogether`: a set of an item never names a task that the hash
does not. `RunningIsListed`: a task that was saved is in the hash as long as it runs,
whatever the clean-ups of others do. `RunningIsRegistered`: the process that runs a
task is alive and has it in its table, so that a stop that reaches it finds it.
`LocalTablesAgree`: the two tables of a process name the same tasks, although Redis
errors end clean-ups half way. `StopEndsTask`: a stop that is delivered to the process
of a task ends the task, unless the process or its listener goes.

*Tasks in one event loop.* `CancelledAtMostOnce`: concurrent stops do not cancel a task
twice (the second `CancelledError` would hit a handler that saves). `UnlistedIsBeingStopped`:
a live task that the table `tasks` no longer names has a stop that waits for its end.
`ListedForItem`: a live task is in the list of its item, though clean-ups drop lists and a
stop may hold a detached one. `StopIsAnswered`: every call returns or
raises in the end, whatever its task does with its cancellation.

*Lock and pools.* `OneCleaner`, `ReleasesOwnLock`, `SkipsOnlyForLiveCleaner`: see section 5 for when
they hold. `CleanerSurvives`: `del USAGE_POOL[model_id]` never meets a missing key, since only the
one cleaner deletes. `ListedModelsHaveSessions`: no model stays in the pool without a session.
`StaleIsSwept`: once a pass, however late or long, has looked at a model, nothing is left of it that
had timed out when the pass began, unless another process stored an entry since the pass read the
pool. `FreshIsListed`: what a session of the cleaner's process reported is in the pool until it
times out, whatever passes and other sessions of that process write, once no other process has the
model. `PoolsAgree`: between handlers the list of a user is the set of his sessions, unless a write,
a deletion or a miss overtook another process's change (`overtaken`). `ActiveHasSession`: no empty
list is left behind, without any exception. `EndedLeavesDocuments`: no `KeyError` ends a disconnect
before it takes the session out of its documents; that takes two disconnects of the user at once, or
an earlier overtaken change.

*Notes.* `Converged`: when nothing is under way, an editor that is connected has what the
server has, after any losses and overlaps; and the server has all of an editor that kept
its connection. `FilledOnce`: no editor shows the stored text twice. `LeftIsCleared`: a
document that nobody has open is dropped. `EverythingIsSaved`: above.

*Chat page.* `TreeAgrees`: the two links agree and name messages that exist. `WholeBranchShown`: the
page shows a branch to its end. `AnswersHaveQuestions`: deletion, which moves grandchildren up,
never leaves an answer without its question. `NotDoneIsComing`: an answer that is not done has
something under way that ends it; otherwise the page would take no prompt below it for ever.
`ChatsStayApart`: rows and page hold what was asked for in their chat. `AnswersReady`: at rest every
answer is stored completely and the page shows what is stored, across moves between chats.
`StayingIsSafe`: who stays in a chat loses nothing as long as saves arrive in order, whatever
messages handlers hold meanwhile. `ChatsStayApart` excepts two mishaps, `hasty` and `late`;
`AnswersReady` excepts all five, since each loses text. Of these `TreeAgrees` and the next two allow
every upset they do not name.

*Folders.* `TreeHolds`: no folder is below itself; it is about two places that only together prevent
a cycle, the page's refusal of a drop onto a child and the page being up to date. `SiblingsDiffer`:
three handlers look for a name before they write, none locks anything. `ChatsAreListed`: a chat is
in a list that an up-to-date sidebar offers, after any deletions. `NoPlaceholders`: the repair in
`get_folders` runs over the folders one by one and the page relies on its result. `LastChangeShown`:
answers, lists and refused renamings that cross leave the page that made the last change with the
tree as it is. `SiblingsDiffer` has three exceptions, each a way round the queries for a name: an
insertion after the name was taken, a query that failed, and the repair of missing parents, which
asks nobody.

*Voice call.* `NotHeardWhileSpeaking`: while a part plays no sound is detected as the beginning of
an utterance, so the assistant is not taken for the user. It is about the detection of sounds and
not about the recorder: a recording that has begun before the first part plays goes on while it
plays. `SpokenInFull`: section 1. `MicReopens`: the current answer ends its turn, unless something
went wrong with that very answer (`faults`). `hushed` are answers that the user has interrupted,
`leaps` those of which a chunk completed two parts: the code dispatches only the last complete one
and skips the other.

### Why these bounds

* Two tasks of one item are what the races in the item's set are made of, and two processes
  what pub/sub needs; a third only repeats roles. The fault is an error in a save or in a
  clean-up, a crash or the death of a listener. The theorems have no bounds.
* Without Redis two tasks and two stops make the second stop find the first one waiting and a
  clean-up shorten the list of a suspended loop; the finding takes a third task.
* Three processes, and a lock just long enough (1 + 2·1 < 4): the smallest lock for which
  the condition of section 5 holds, so every margin is used up. The properties are proved
  for all values.
* One model and three sessions: entries of different models are independent in every
  command; two sessions on the cleaner's process and one elsewhere give all overwrites.
  Three seconds on the clock let an entry time out, a pass remove it and a late write-back of an
  older reading bring it back. Proved without bounds.
* Three sessions of one user on three processes let a connect run between the commands of a
  disconnect while a third handler waits to write, and two end together while one stays; the fourth
  session, of another user, makes a process serve both. Proved without bounds, for any placement of
  sessions.
* Five messages are a question with two answers and a question with an answer below, which is what
  deletion has to move; two waiting handlers let one find what the other one did. The exploration
  does not go beyond a `staleCopy` (`BeforeStaleCopy`): every property excuses it. Without that
  constraint 3 989 097 states were explored once, with the same result. Proved without bounds.
* Two chats, two answers and two moves: there and back again during one answer, or away with
  one under way in each, and one handler that holds a message meanwhile. Proved without bounds.
* Three folders are a chain with a grandchild, or two siblings and a place to move one to; two
  pages and two things done let each act on what the other one has changed, or one page twice.
  Every initial tree with these names is tried. All five properties are proved
  without bounds.
* Two answers of two parts let the loops of both run at once, and the last part of one come
  after the first of the other.
* Two editors and two edits make one concurrent pair, echoes in both directions and a
  third save. There is one reconnection, and pieces typed and
  kinds of upset (`offlineEdit` aside) are at most two together.

### Runs that may stop

Deadlock is checked for `RedisTasks`, `CleanupLock` and `UsagePool`, which never stop: a
process restarts, time goes on. In the other modules ids, connections, editors, messages,
moves or utterances are bounded and used once each, so a behaviour ends when all are used up;
there the configurations say `CHECK_DEADLOCK FALSE`. That nobody waits for ever in
`LocalTasks` is what `StopIsAnswered` says.

## 4. Fairness

Fairness is only assumed of what the run-time system schedules by itself, never of users,
failures or the end of a task that nobody cancelled.

* `RedisTasks!FairSpec`: weak fairness of the handling of a delivered stop
  (the event loop runs the listener), of the execution of commands that were sent
  (`SaveTask`, `CleanupExec`, `CleanupDelete`, `StopListed`), of the local end of a clean-up,
  and of the end of a task that was cancelled. The last one is an assumption about the
  coroutines: those in the repository end when they are cancelled.
* `LocalTasks!FairSpec`: weak fairness of the event loop taking the next handle; a
  cancelled task that waits is woken; and strong fairness of the end of a cancelled task. It
  has to be strong because a task that swallows its cancellation may alternate between
  running and waiting, and the assumption is that it ends in the end. A task that is not
  cancelled may run for ever.

* `CallAudio!FairSpec`: weak fairness of what comes by itself: the end of an answer that was
  asked for, the turns of a loop that may play or leave (a timer), a request for audio, the end
  of an audio that plays. Taps, sounds, hanging up and faults have none.

The other modules state no liveness. Nothing in the code promises that there *is* a cleaner:
when it dies after the others have given up there is none until a process boots.

## 5. What is proved

TLAPS checks every step of the eight `…_proofs` modules.

**Registry over Redis**, for any sets of processes, tasks, items and callers and any number
of faults; assumed are only that `ItemOf` maps tasks to items, that `NoInstance` is no
process and that `MaxFaults` is a natural number. `TypeCorrect` is the type invariant. The
safety invariants are not inductive: that a clean-up cannot remove a running task from the
tables follows from clean-ups being those of ended tasks (`CleanIsDone`); that the owner
finds the task in its table from the owner being known and up (`OwnerIsKnown`); that a
cancelled task has run (`CancelledRan`) is what the refinement needs. `IInv` is the
conjunction of these with the four properties, `Invariant` proves it, one step per action,
and `ListedTogetherAlways`, `RunningIsListedAlways`, `RunningIsRegisteredAlways` and
`LocalTablesAgreeAlways` follow.

`RefinesLifecycle` proves that every step of the registry is a step of `TaskLifecycle` or
leaves its state alone, with `phase` computed from `run` and `cancelled`: the registry never
ends a task twice, brings one back or stops what never ran. A crash maps to the loss of all
tasks of the process at once.

**Registry in one event loop**, for any sets of tasks, items and callers; assumed are that `ItemOf`
maps tasks to items and that `NoTask` is no task. What makes the invariant inductive is that the
queue of the loop and the states of coroutines and calls determine each other: a handle is queued
when, and only when, the state says so (`CreateHandles`, `RunHandles`, `DoneHandles`,
`StopHandles`), so no wake-up is lost and none comes twice. With what is awaited (`AwaitsCreated`),
cancelled (`CancelledWhenPopped`) and listed (`ItemLists`) this gives `IInv`, from which
`CancelledAtMostOnceAlways`, `UnlistedIsBeingStoppedAlways` and `ListedForItemAlways` follow.
`NoCallStrandedAlways` and `CleanedUpAlways` are what the liveness properties rest on and can be
said without fairness: a call that has not answered has a handle or awaits a task that lives; a task
whose callbacks have run is in no table. The callers that await one task become ready in any order;
that this is a sequence without repetitions needs that only finitely many calls have been made
(`FinitelyManyCalls`, `WaitersOnce`). `RefinesLifecycle` shows the safety part of the refinement of
`TaskLifecycle`, here without a crash.

**Clean-up lock**, for any number of processes and any times. `SkipsOnlyForLiveCleanerAlways`
needs no condition: two waits of at least half of the lock's life each outlast the lock of a
dead cleaner, however late they are. `OneCleanerAlways` and `ReleasesOwnLockAlways` hold
under `Timely`:

    Period + 2 * MaxLate < LockTimeout

With the values of the code (period 3 s, lock 60 s) processes may be up to 28 seconds late
before two of them clean. The condition is needed and is not checked by the code, whose lock
time is an environment variable (`env.py:588`): renewal writes one's own id over
*whatever* is there, so a holder that comes too late takes the lock from its successor while
that one cleans, and a release after the comparison may delete a lock that has changed hands.
The argument is in three invariants: `TimeInv` (a key that exists has time to live, nobody is
later than `MaxLate`), `TryInv` (what is left of the lock's life against the retries that a
process has left), `HoldInv` (whoever holds has his id in the key, with more life left than his
own wait and delay may take).

**Usage pool**, for any processes, models, sessions and times. `TypeCorrect` and
`ListedModelsHaveSessionsAlways` hold for any set of cleaners. The other three theorems assume one
cleaner, of which `OneCleanerAlways` gives that there are not two at a time; that the cleaner
changes after a crash is not in the model. `CleanerSurvivesAlways` rests on `SurviveInv`: the keys
that are left of a pass's snapshot are in the pool, because only the pass deletes.
`FreshIsListedAlways` rests on `FreshInv`: a usage in `kept` that has not timed out is in the pool
and in everything that the cleaner's process has read and will write back. `StaleIsSweptAlways`
follows from `SweptInv`: what the latest pass has looked at, and what a handler of the cleaner's
process has read since and will write back, holds nothing that had timed out when the pass took the
time. No assumption is made about how long anything takes.

**Session and user pools**, for any processes, users and sessions and any placement of the sessions
on processes. `Homely` puts every handler on the process of its session, `FrameInv` and `NameInv`
say what `SESSION_POOL` has of a session while a handler works for it. `PoolInv` is layered like the
properties. Of a user for whom nothing was overtaken, the list and `SESSION_POOL` differ by what the
handlers at work still have to add or to remove (`AgreeOn`), and the list has sessions of the user
only (`Own`). Of every user, an empty list has a handler that is about to count or to delete it
(`Emptied`). Of a user without two disconnects at once, the one disconnect there is finds the key
that its own write made (`Alone`). `OwedInv` adds the documents: a session that still owes its
removal from them is in `SESSION_POOL` or in its disconnect, unless a `KeyError` ended that.
`PoolsAgreeAlways`, `ActiveHasSessionAlways` and `EndedLeavesDocumentsAlways` follow.

**Notes**, for any number of editors, pieces of text, reconnections and upsets. `SessionInv` orders
the messages of a session (it joins first and disconnects last) and makes a member of whoever has
joined and not left; `ModeInv` relates the editor to its session. `ConvergeInv` is `Converged`
with what is under way: what an editor has is in the log or in line to be published, and
what is in the log is at the editor or on its way there; while its join has not been handled, nothing is.
Each step keeps the sums and moves their parts, so `ConvergedAlways` needs no condition at all.
`ClearedInv` (handlers that wait, without overlaps, are one at a time, and belong to a member) gives
`LeftIsClearedAlways`. `FilledInv` is about who may still fill an empty document: somebody to whom the
server said that it was alone, with an empty log, and then nobody else has been answered yet
(`Around`, `MayFill`); `FilledOnceAlways` follows.

`EverythingIsSavedAlways` is the argument of section 2 for any number of editors. Its invariant,
`CalmInv`, is about behaviours that have had no upset yet. What a session has sent and nobody has
been given stands in a line, one update behind the other, with the text its author showed then
(`Line`). The log and what an editor has are closed under `after`, and stay so with every update of
a line or of a queue that is added (`CausalInv`), so that nothing is ever there but hidden, and what
the operations show is plain to say (`Words`). The last text of a line is what its author shows now
(`LastInv`). If somebody who has gone left updates in line, nobody else has any of them, and the
last text is all there is or somebody is there to repeat it (`GoneInv`); this is what `hasty` is
for. What is published or in line, if anything is, shows all that was typed and the stored text
(`TextInv`), and nobody who may still fill the document finds anything in it (`BlankInv`).
`SavedInv` is the point: an update is in line, or an editor is about to repeat one, or what was
stored or scheduled last is all there is. The step that matters is the publication of the last
update in line (`PublishCalm`): either another editor lacks part of it and will repeat it, or
everybody has it, and then its author had everything when it was sent. With nothing under way the
first two ways are gone.

**Message tree**, for any number of messages, models, waiting handlers and upsets. The induction is
layered like the properties. `TypeCorrect` is about types alone. Under `Calm` (no `staleCopy` so
far) `TreeInv` holds: the links agree, the message shown exists, and every message is older than its
children (`Older`), so that no step can make a cycle; `AskedInv` says that what is asked for is an
answer that was made. A handler that writes back what it holds, without a `staleCopy`, changes
nothing (`WriteBackSame`), whether it holds the message itself or a copy. `LeafInv` (an answer that
is not done has no children, what is shown is a leaf) needs in addition that no pair came early and
no failure late, `AltInv` (questions and answers alternate, every question has an answer) that no
model has gone. The lemmas `GraftTree`, `CutTree` and `DeleteTree` show it of the operators that add
messages and take them out; `TreeStep`, `LeafStep`, `AltStep` have one step per handler.

**Chat page and storage**, for any number of chats, answers, moves, saves and ratings. `Known`
(nothing names an answer before it is asked for) and `Wanted` (an answer is asked for with one save
and goes on with its reply) hold of all behaviours. Three layers stand on them, each as strong as
its property's condition. While the user does not move on during a wait, and no handler has written
late (`Calm`), `Apart` holds: every history, those that handlers hold included, has answers of its
own chat alone (`OwnRows`), the page waits for one load at most, and for nothing else meanwhile
(`Here`), and requests, events and handlers name the chat of their answer (`Directed`);
`ChatsStayApartAlways` follows. While the user has not moved at all, what the page takes for done
has all its text and no more events (`DoneRight`, which needs the order of the events of an answer,
`EventOrder`), a copy that a handler holds is one of a whole answer (`HeldRight`, so that it is put
back as the history has it), and the last of the saves on their way has the text that the page has,
or a step that will save it is still to come (`Matched`); at rest the latter is `StayingIsSafe`.
Without a mishap, histories that are shown, loaded, saved or stored are `Ready`: they have every
answer of their chat, whole unless its end is still to come, and a save that an answer waits for is
the last one (`SavesReady`). `AnswersReadyAlways` follows.

**Answers under way**, for any number of answers, questions, requests and models and any kinds of
upset. The sets that each handler changes are not related by themselves: an answer below the
button may be told to stop, finished, deleted and put back in any order. `MadeInv` says that
only answers that were made are in the tree, asked for or known as tasks. `ExpectedInv` is
`NotDoneIsComing` without the tasks that have ended before the page knew their ids, which bring nothing
more, and with what makes stopping safe: the loop of `stopResponse` is running as long as it has ids
left or shares its array with `taskIds`, so what it has told to stop it also marks as done.
Every step that ends one reason to wait for an answer gives another (`StillExpected`,
`ExpectedHeard`), marks the answer as done, or is one of the upsets. `NotDoneIsComingAlways` follows.

**Voice call**, for any number of answers, parts, recordings and interruptions. `CallTypeCorrect`
includes that what plays has a loop that waits for it. `TurnInv` gives every loop its place: an
answer that may still play has a loop, and only its loop can open the microphone. `SpokenInv`
relates what was played, what plays and what is queued: together they are the parts that were
dispatched, each once and in order (`AskedInOrder`), unless the user interrupted or the answer came
in leaps. `SpokenInFullAlways` follows, and `NotHeardWhileSpeakingAlways`, an action property: when
`Sound` may occur, what plays, if anything, is an answer that was interrupted.

**Folders**, for any number of folders, chats, names, pages, things done and upsets. All but
`TreeHolds` and `ChatsAreListed` hold whatever pages are out of date. `TableInv` has that parents
exist as long as nothing was put into a folder that is gone, and that siblings differ as long as,
besides, nothing got round the query for the name; `HandlerCases` reduces every handler to one of
six changes of the tables, so each invariant has to be shown of six changes instead of nine
handlers. `TreeHoldsAlways` needs `MoveInv`: while the user waits for his answers, a move that is
under way is alone and ends nowhere below its folder. That such a move closes no cycle
(`MoveKeepsAcyclic`) is shown with the definition of a cycle as a set of folders each of which has
its parent in the set: what is in such a set after the move, and not below the folder that moved, is
such a set before it. `ChatsAreListedAlways` combines both, and so has the conditions of both, and
no deletion that failed: where parents exist and there is no cycle, every folder is below the root
(`RootedIsVisible`). `NoPlaceholdersAlways` is an invariant of all lists and trees of pages
(`ListsInv`).

`LastChangeShownAlways` follows from `ComingInv`: the page of the last change shows the rows but for
names it waits for, or has a request for the list or an answer that leads to one under way, or the
last list on its way to it has the rows. Every handler that changes a row makes its page the one of
the last change and owes it an answer (`ServerComing`); a renaming answered with `null` does not,
which is the upset `nullAnswer`. Apart from it, the one answer that may lead to nothing is that to a
renaming, whose handler raises an error when the page does not have the folder; `OrderInv` rules
this out: what a page shows or was sent is in every later list until it is deleted. The lists have
to come in order throughout, not only the last one of all: an older list that comes while a newer
one is on its way may hide a folder just when the answer to its renaming comes, and the newer list
may have been made before the renaming. Four actions of one page suffice, which is more than the run
has; only the attempt to prove the property shows it.

**Only model-checked**: all liveness (`StopEndsTask`, `StopIsAnswered`, `MicReopens`, and the
fair part of `ImplementsLifecycle`), since the prover handles neither `ENABLED` nor fairness.
Every invariant that a run checks is a theorem.

## 6. Disagreements with the documentation

One run has a property that the repository states and the code does not keep.

* `local_tasks_item_stop` — `ItemStopStopsAll`. The loop `for task_id in task_ids`
  runs over the list that `cleanup_task` shortens while the loop waits (`tasks.py:181`). The
  element that moves into the freed place is skipped, and the answer says that all tasks are
  stopped. Iterating over a copy would visit it.

### Known limits of the code

These came up while modelling; the properties above except them by their conditions or do not speak
of them. What is named as an upset, a mishap, a fault or `overtaken` and `together` is in the
models: without the exception TLC shows how it happens.

* Over Redis, `redis_cleanup_task` counts an item's set in one transaction and deletes it in
  another (`tasks.py:60–66`): a task of the item that is saved between the two runs on, is in the
  hash, and is listed for no item. `srem` of the last member removes the key anyway.
* With the sessions of a user on two processes, commands of two handlers interleave. Two that write
  one list lose a session from `USER_POOL` (`overtaken`), and of two disconnects at the same time
  (`together`) the second may raise a `KeyError` and not leave the documents
  (`socket/main.py:629–633`). `session_pool` reaches both, and its properties say that nothing else
  goes wrong.
* A usage report of another process that was read before a pass and is written after it brings back
  what the pass removed, until the next one (`socket/main.py:246–252`).
* A Redis error in a clean-up leaves the entries of the ended task, in Redis and in the process;
  those of a process that crashes stay in the hash, the sets and the pools for ever, for nothing
  there has a time to live (`tasks.py:53`, `socket/main.py:269`).
* A save and the clean-up of the same task travel on two connections: a task that ends at once
  may be cleaned before it is saved, and then stays listed (`tasks.py:117`).
* A cleaner that dies after the others gave up leaves no cleaner (`socket/main.py:158`).
* `chatEventHandler` puts the message it held into the history that is shown when its wait ends
  (`chat/Chat.svelte:464`): after a title (382–385) or code to run (442) that may be the history of
  another chat, and the next save stores it in that chat's row. For tags it also replaces `chat` by
  the row it asked for (387), which may be that of the chat before. This is the mishap `late`.
* A message that `generateImage` or `feedbackHandler` copied is put back as it was
  (`chat/Messages.svelte:348`), with the links and the text of that time; the upset `staleCopy`.
* The page's stop button beside a voice call (`chat/Chat.svelte:2005`) and the stop button of
  another tab (359) end an answer without `chat:finish`. The overlay then keeps `assistantSpeaking`,
  and with it the microphone closed, until a tap. So does a `play()` that the browser rejects
  (`chat/MessageInput/CallOverlay.svelte:411–418`) or an audio element that is not there: the
  promise that the loop awaits never resolves. `MicReopens` excepts such answers.
* Only the sound detection is muted while the assistant speaks
  (`chat/MessageInput/CallOverlay.svelte:307`). A recording that runs when the first part begins
  goes on until two seconds of silence, and has the assistant in it (240–250).
* A query for a folder that raises counts as one that finds nothing (`models/folders.py:177`): two
  siblings may get the same name, and `get_folders` may move a folder to the top that has its
  parent.
* A renaming whose statement fails is answered with 200 and `null` (`models/folders.py:237`, 257).
  The page neither restores the name nor reloads (`layout/Sidebar/RecursiveFolder.svelte:312–323`)
  and goes on showing a name that nobody stored.
* The request for an answer names `$chatId` (`chat/Chat.svelte:1893`), read after two waits, and
  not the chat that the prompt was written in. Who asks and moves on at once finds the answer in the
  row of the other chat; `AnswersReady` and `ChatsStayApart` hold without the mishap `hasty`.
  (`CHANGELOG.md:1513`: "Create chats, navigate away, and return anytime with responses ready.")
* Only a folder and its direct children refuse a drop (`layout/Sidebar/RecursiveFolder.svelte:84`
  and 622), and the server does not look at ancestors, so a folder can be dropped onto its
  grandchild (`ontoGrandchild`). Once the list comes, the folders of the cycle and their chats are
  in no sidebar. A deletion in the cycle that was asked for before recurses until Python gives up;
  `delete_folder_by_id_and_user_id` catches that and returns an empty list
  (`models/folders.py:309`), and the endpoint answers `true` although nothing was deleted, or only
  branches beside the cycle.
* A chat that is moved into, or begun in, a folder that another page has deleted is in no
  list, and no repair finds it (`routers/chats.py:827`); so are the chats of subfolders when a
  deletion fails halfway.
* The upsets and mishaps of section 2: each of them does lose text, links, or the end of an
  answer, and TLC shows how when it is taken out of the condition of the property.

## 7. What is not modelled

* Of the tasks: two Redis servers (`REDIS_URL` different from `WEBSOCKET_REDIS_URL`), where a
  document's stop is published where nobody listens; tasks without an item over Redis.
* Of the notes: awareness (nothing is kept on the server), the request for the state after a
  failed apply, and `YdocManager` over Redis with several processes.
* Of the sockets: the rooms of channels (`get_user_ids_from_room`, `socket/main.py:234`);
  sessions whose process crashed.
* Of the chat page: creation of chats in `ChatSync`, sharing, cloning, archiving, tags,
  temporary chats, the storing of `currentId` by `showMessage`, merged responses beyond what
  they write back; of the answers: tool calls, the code interpreter, reasoning blocks, filters,
  a second cancellation during the last save (`utils/middleware.py:3044`).
* Of the folders: `is_expanded`, their files, data and metadata, the search by names, the import
  of exported chats into one, the list of chats shown under an open folder, several server processes.
* Of the voice call: the camera, emoji, the browser's own speech synthesis, reopening the
  overlay during an answer.
* The retry of a command after a Sentinel failover (`utils/redis.py:58`).
* The components that `PROJECT.json` marks `not_modelled`. Those that are pure I/O,
  declarations, user interface or format conversion stay out. The others are in the plan.

## 8. Plan

Done: modules 1 to 11, with their theorems.

| | module | composes | what it shows or should show |
|---|---|---|---|
| 1 | `TaskLifecycle`, `RedisTasks` | refines | safety, liveness, refinement; proved |
| 2 | `LocalTasks` | refines `TaskLifecycle` | safety, liveness, refinement; proved |
| 3 | `CleanupLock` | | mutual exclusion in time; proved |
| 4 | `UsagePool` | result of 3 | time and lost updates; proved |
| 5 | `SessionPool` | | inverse pools over several processes, documents; proved |
| 6 | `NoteSession` | result of 2 | convergence and saves without Redis; proved |
| 7 | `MessageTree` | | the tree of a chat under waiting handlers; proved |
| 8 | `ChatTasks` | result of 7, tasks | no answer undone for ever; proved |
| 9 | `ChatSync` | page and storage | whole-history saves against the task's upserts; proved |
| 10 | `CallAudio` | answers of 8 | microphone and speech; proved |
| 11 | `FolderTree` | pages and storage | a tree under moves from several pages; proved |
| 12 | `SharedNote` | `NoteSession` with commands | the document over Redis: joins between the reading of users and the deletion, two processes both finding themselves alone |
| 13 | `ChatResponse` | 9 | tool and code-interpreter retries end; what is saved at each exit |
| 14 | `SentinelRetry` | | commands executed again after a failover; which of the commands above are idempotent |
| 15 | `KnowledgeFiles` | | rows, files and collections with failures between them |

## How to run

    tlc -config RedisTasks.cfg MCRedisTasks.tla
    tlapm Tasks_proofs.tla

`PROJECT.json` has the module and configuration of every run, the mapping of every definition
to the lines it models, the mutations, the hazards and the theorems.
