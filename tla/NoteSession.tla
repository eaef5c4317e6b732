------------------------------ MODULE NoteSession ------------------------------
(***************************************************************************)
(* A note that several people edit: the provider in the browser            *)
(* (Collaboration.ts), the ydoc handlers of socket/main.py, YdocManager    *)
(* and the delayed save of the note, in one server process without Redis.  *)
(*                                                                         *)
(* YdocManager does not suspend without Redis, so a handler is one step up *)
(* to the points where it really waits: for a cancelled save, and for the  *)
(* packets of an emit to somebody else in the room.                        *)
(*                                                                         *)
(* A Yjs document is the set of operations it was given.  An operation     *)
(* shows once those it was made after are there too.                       *)
(***************************************************************************)
EXTENDS Naturals, Sequences, FiniteSets

CONSTANTS
    Client,        \* editors mounted on the note, each at most once
    Edit,          \* pieces of text that may be typed, each once
    Stored,        \* the text of the note at the start
    MaxReconnects, \* bound: reconnections of all editors
    MaxEvents      \* bound: pieces typed and kinds of upset, offlineEdit aside

ASSUME BoundsAssumption == MaxReconnects \in Nat /\ MaxEvents \in Nat

VARIABLES
    mode,          \* mode[c]: "closed", "online", "offline", "left" or "gone"
    link,          \* link[c]: number of the connection of c
    synced,        \* editors that have been given the state of the document
    initial,       \* initial[c]: text of the note that c was mounted with
    got,           \* got[c]: operations in the Y.Doc of c
    after,         \* after[u]: operations that showed where u was made
    up, down,      \* messages between a session and the server, oldest first
    members,       \* YdocManager's users of the document, and its room
    pool,          \* sessions in SESSION_POOL
    log,           \* operations in the updates of the document
    frames,        \* handlers that wait
    saves,         \* debounced_save tasks that sleep, oldest first
    note,          \* text of the stored note
    upset          \* history: what happened that the design does not absorb

client == <<mode, link, synced, initial, got, after>>
document == <<members, pool, log>>
noteVars == <<client, up, down, document, frames, saves, note, upset>>

Session == Client \X (1 .. MaxReconnects + 1)
SessionOf(c) == <<c, link[c]>>

\* The operation that fills an empty document with the text c was mounted with.
Seed(c) == <<"seed", c>>
Seeds == {Seed(c) : c \in Client}
Op == Edit \cup Seeds
ASSUME SeedsAreNoEdits == Edit \cap Seeds = {}
TextPiece == Edit \cup {Stored}

Seen(S) == {u \in S : after[u] \subseteq S}
Text(S) == (Seen(S) \cap Edit) \cup UNION {initial[c] : c \in {d \in Client : Seed(d) \in Seen(S)}}

\* `data` holds the text of the editor, or nothing.
Update(ops, data) == [kind |-> "update", ops |-> ops, data |-> data]
State(ops, alone) == [kind |-> "state", ops |-> ops, alone |-> alone]

\* Upsets: a handler starts while another waits; text is typed where the note
\* does not show, or off line; updates are lost; a save finds no session; an
\* editor goes before it has seen what others sent; an empty document is filled
\* with a text that is not the stored one; an editor connects again.
Upsets == {"overlap", "blindEdit", "offlineEdit", "lostUpdate", "lostSave", "hasty",
           "staleFill", "reconnect"}
UpsetIf(cond, what) == upset' = IF cond THEN upset \cup {what} ELSE upset
Typed == Edit \cap UNION {got[c] : c \in Client}
Events == Cardinality(Typed) + Cardinality(upset \ {"offlineEdit"})

NoteInit ==
    /\ mode = [c \in Client |-> "closed"]
    /\ link = [c \in Client |-> 1]
    /\ synced = {}
    /\ initial = [c \in Client |-> {}]
    /\ got = [c \in Client |-> {}]
    /\ after = [u \in Op |-> {}]
    /\ up = [s \in Session |-> <<>>]
    /\ down = [s \in Session |-> <<>>]
    /\ members = {} /\ pool = {} /\ log = {}
    /\ frames = {} /\ saves = <<>>
    /\ note = {Stored}
    /\ upset = {}

--------------------------------------------------------------------------------
(* The editor *)

EmitTo(c, msg) == up' = [up EXCEPT ![SessionOf(c)] = Append(@, msg)]

\* The page loads the note; the provider joins the document.
Mount(c) ==
    /\ mode[c] = "closed"
    /\ mode' = [mode EXCEPT ![c] = "online"]
    /\ initial' = [initial EXCEPT ![c] = note]
    /\ pool' = pool \cup {SessionOf(c)}
    /\ EmitTo(c, [kind |-> "join"])
    /\ UNCHANGED <<link, synced, got, after, down, members, log, frames, saves, note, upset>>

\* The user types.  The update is sent when there is a connection; nothing
\* keeps the user from typing before the state of the document has come.
Type(c, e) ==
    /\ mode[c] \in {"online", "offline"}
    /\ \A d \in Client : e \notin got[d]
    /\ after' = [after EXCEPT ![e] = Seen(got[c])]
    /\ got' = [got EXCEPT ![c] = @ \cup {e}]
    /\ IF mode[c] = "online"
       THEN /\ EmitTo(c, Update({e}, {Text(got[c]) \cup {e}}))
            /\ UpsetIf(Seen(got[c]) = {}, "blindEdit")
       ELSE /\ UpsetIf(TRUE, "offlineEdit")
            /\ UNCHANGED up
    /\ UNCHANGED <<mode, link, synced, initial, down, document, frames, saves, note>>

Arrives(c, kind) ==
    /\ mode[c] = "online"
    /\ down[SessionOf(c)] # <<>>
    /\ Head(down[SessionOf(c)]).kind = kind

Message(c) == Head(down[SessionOf(c)])
Taken(c) == down' = [down EXCEPT ![SessionOf(c)] = Tail(@)]

\* An editor that shows nothing is filled by the only session there is.
Fills(c) ==
    /\ got' = [got EXCEPT ![c] = @ \cup {Seed(c)}]
    /\ EmitTo(c, Update({Seed(c)}, {Text(got[c] \cup {Seed(c)})}))
    /\ UpsetIf(note # initial[c] \/ saves # <<>>, "staleFill")

\* Mutation of StateArrives: every session fills an empty document.
StateArrivesAnyFills(c) ==
    /\ Arrives(c, "state")
    /\ synced' = synced \cup {c}
    /\ IF Message(c).ops # {}
       THEN got' = [got EXCEPT ![c] = @ \cup Message(c).ops] /\ UNCHANGED <<up, upset>>
       ELSE IF Seen(got[c]) # {}
       THEN EmitTo(c, Update(got[c], {})) /\ UNCHANGED <<got, upset>>
       ELSE Fills(c)
    /\ Taken(c)
    /\ UNCHANGED <<mode, link, initial, after, document, frames, saves, note>>

\* ydoc:document:state.  The state is applied with the origin 'server', so it
\* is not sent back.  If it is empty and the editor is not, the document is sent
\* whole and without data.
StateArrives(c) ==
    /\ Arrives(c, "state")
    /\ synced' = synced \cup {c}
    /\ IF Message(c).ops # {}
       THEN got' = [got EXCEPT ![c] = @ \cup Message(c).ops] /\ UNCHANGED <<up, upset>>
       ELSE IF Seen(got[c]) # {}
       THEN EmitTo(c, Update(got[c], {})) /\ UNCHANGED <<got, upset>>
       ELSE IF Message(c).alone /\ initial[c] # {}
       THEN Fills(c) ELSE UNCHANGED <<got, up, upset>>
    /\ Taken(c)
    /\ UNCHANGED <<mode, link, initial, after, document, frames, saves, note>>

\* Mutation of UpdateArrives: a remote update has the origin 'server' too.
UpdateArrivesAsServer(c) ==
    /\ Arrives(c, "update")
    /\ got' = [got EXCEPT ![c] = @ \cup Message(c).ops]
    /\ Taken(c)
    /\ UNCHANGED <<mode, link, synced, initial, after, up, document, frames, saves, note, upset>>

\* ydoc:document:update.  It is applied without an origin, so whatever it makes
\* visible is sent to the server once more, with the text of this editor.
UpdateArrives(c) ==
    /\ Arrives(c, "update")
    /\ LET now == got[c] \cup Message(c).ops
           new == Seen(now) \ Seen(got[c])
       IN  /\ got' = [got EXCEPT ![c] = now]
           /\ IF new # {} THEN EmitTo(c, Update(new, {Text(now)})) ELSE UNCHANGED up
    /\ Taken(c)
    /\ UNCHANGED <<mode, link, synced, initial, after, document, frames, saves, note, upset>>

HasUpdate(queue) == \E k \in DOMAIN queue : queue[k].kind = "update"

\* What session s has sent and nobody has been given yet.
UnderWay(s) ==
    UNION ({up[s][k].ops : k \in {i \in DOMAIN up[s] : up[s][i].kind = "update"}}
           \cup {f.ops : f \in {g \in frames : g.at = "append" /\ g.session = s}})

\* The editor goes before it has seen what others sent, or before its own
\* updates are published while others may be typing.  One who comes later
\* repeats what the editor typed, but not what it repeats of others.
Hasty(c) ==
    \/ HasUpdate(down[SessionOf(c)])
    \/ \E s \in Session :
          /\ UnderWay(s) # {}
          /\ s # SessionOf(c) \/ \E d \in Client \ {c} : mode[d] = "online"
    \/ UnderWay(SessionOf(c)) \cap log # {}

\* The user goes to another page: destroy().  The session stays.
Leave(c) ==
    /\ mode[c] \in {"online", "offline"}
    /\ mode' = [mode EXCEPT ![c] = IF @ = "online" THEN "left" ELSE "gone"]
    /\ IF mode[c] = "online"
       THEN EmitTo(c, [kind |-> "leave"]) /\ UpsetIf(Hasty(c), "hasty")
       ELSE UNCHANGED <<up, upset>>
    /\ UNCHANGED <<link, synced, initial, got, after, down, document, frames, saves, note>>

\* The connection ends, or the page is closed: what the server has not received
\* is lost from some message on, and so is everything on its way to the editor.
\* After the editor left, the session matters while a save of it sleeps.
Drop(c) ==
    /\ \/ mode[c] = "online"
       \/ mode[c] = "left" /\ \E k \in DOMAIN saves : saves[k].session = SessionOf(c)
    /\ mode' = [mode EXCEPT ![c] = IF @ = "online" THEN "offline" ELSE "gone"]
    /\ synced' = synced \ {c}
    /\ LET s == SessionOf(c) IN
        /\ \E n \in 0 .. Len(up[s]) :
              LET lost == HasUpdate(SubSeq(up[s], n + 1, Len(up[s]))) IN
              /\ up' = [up EXCEPT ![s] = Append(SubSeq(@, 1, n), [kind |-> "disconnect"])]
              /\ UpsetIf(lost \/ (mode[c] = "online" /\ Hasty(c)),
                         IF lost THEN "lostUpdate" ELSE "hasty")
        /\ down' = [down EXCEPT ![s] = <<>>]
    /\ UNCHANGED <<link, initial, got, after, document, frames, saves, note>>

\* Sessions that were not the first of their editor.
Reconnected == {s \in Session : 1 < s[2] /\ s[2] <= link[s[1]]}

\* The socket connects again, as a new session, and the provider joins.
Reconnect(c) ==
    /\ mode[c] = "offline"
    /\ <<c, link[c] + 1>> \in Session /\ Cardinality(Reconnected) < MaxReconnects
    /\ mode' = [mode EXCEPT ![c] = "online"]
    /\ link' = [link EXCEPT ![c] = @ + 1]
    /\ pool' = pool \cup {<<c, link[c] + 1>>}
    /\ up' = [up EXCEPT ![<<c, link[c] + 1>>] = <<[kind |-> "join"]>>]
    /\ UpsetIf(TRUE, "reconnect")
    /\ UNCHANGED <<synced, initial, got, after, down, members, log, frames, saves, note>>

--------------------------------------------------------------------------------
(* The server *)

\* The handler of the oldest message of s starts.
Begins(s, kind) ==
    /\ up[s] # <<>>
    /\ Head(up[s]).kind = kind
    /\ up' = [up EXCEPT ![s] = Tail(@)]
    /\ UpsetIf(frames # {}, "overlap")

\* ydoc_document_join: add_user, enter_room, get_updates and the state.
HandleJoin(s) ==
    /\ Begins(s, "join")
    /\ members' = members \cup {s}
    /\ down' = [down EXCEPT ![s] = Append(@, State(log, members \subseteq {s}))]
    /\ UNCHANGED <<client, pool, log, frames, saves, note>>

\* create_task of debounced_save, when the update came with data.
Scheduled(f) ==
    saves' = IF f.data = {} THEN saves
             ELSE Append(saves, [session |-> f.session, text |-> CHOOSE x \in f.data : TRUE])

\* append_to_updates and the emit to the others; with others there is a wait
\* before the save is scheduled.
Publish(f, waiting) ==
    LET others == members \ {f.session} IN
    /\ log' = log \cup f.ops
    /\ down' = [s \in Session |->
                  IF s \in others THEN Append(down[s], [kind |-> "update", ops |-> f.ops])
                  ELSE down[s]]
    /\ IF others # {}
       THEN frames' = waiting \cup {[f EXCEPT !.at = "save"]} /\ UNCHANGED saves
       ELSE frames' = waiting /\ Scheduled(f)

\* Ways to pick n places of a queue of k, in their order.
Picks(n, k) == {p \in [1 .. n -> 1 .. k] : \A i, j \in 1 .. n : i < j => p[i] < p[j]}

\* The saves that stop_item_tasks leaves: the first is cancelled, a later one
\* may run or end while the call waits for an earlier one.
Rest(queue) == UNION {{[i \in 1 .. n |-> queue[p[i]]] : p \in Picks(n, Len(queue))} :
                         n \in 0 .. Len(queue)}

\* yjs_document_update up to its first wait.  When another handler waits for a
\* cancelled save, stop_item_tasks may meet that save first and give up.
HandleUpdate(s) ==
    /\ Begins(s, "update")
    /\ LET f == [session |-> s, ops |-> Head(up[s]).ops, data |-> Head(up[s]).data, at |-> "append"]
       IN \/ /\ saves = <<>> \/ frames # {}
             /\ Publish(f, frames)
          \/ /\ saves # <<>>
             /\ saves' \in Rest(Tail(saves))
             /\ frames' = frames \cup {f}
             /\ UNCHANGED <<log, down>>
    /\ UNCHANGED <<client, members, pool, note>>

\* The cancelled save has ended; the emit has been sent.
ResumeUpdate(f) ==
    /\ \/ f.at = "append" /\ Publish(f, frames \ {f})
       \/ /\ f.at = "save"
          /\ frames' = frames \ {f}
          /\ Scheduled(f)
          /\ UNCHANGED <<log, down>>
    /\ UNCHANGED <<client, up, members, pool, note, upset>>

ClearedIf(cond) == log' = IF cond THEN {} ELSE log

\* yjs_document_leave: it waits when others are told.
HandleLeave(s) ==
    /\ Begins(s, "leave")
    /\ members' = members \ {s}
    /\ IF members' # {}
       THEN /\ frames' = frames \cup {[session |-> s, at |-> "leave"]}
            /\ UNCHANGED log
       ELSE ClearedIf(TRUE) /\ UNCHANGED frames
    /\ UNCHANGED <<client, down, pool, saves, note>>

\* Mutation of ResumeLeave: the users are not looked at.
ResumeLeaveClears(f) ==
    /\ f.at = "leave"
    /\ frames' = frames \ {f}
    /\ ClearedIf(TRUE)
    /\ UNCHANGED <<client, up, down, members, pool, saves, note, upset>>

\* The others have been told.
ResumeLeave(f) ==
    /\ f.at = "leave"
    /\ frames' = frames \ {f}
    /\ ClearedIf(members = {})
    /\ UNCHANGED <<client, up, down, members, pool, saves, note, upset>>

\* Mutation of HandleDisconnect: the updates of the document stay.
HandleDisconnectKeepsLog(s) ==
    /\ Begins(s, "disconnect")
    /\ pool' = pool \ {s}
    /\ members' = members \ {s}
    /\ UNCHANGED <<client, down, log, frames, saves, note>>

\* disconnect: remove_user_from_all_documents.
HandleDisconnect(s) ==
    /\ Begins(s, "disconnect")
    /\ pool' = pool \ {s}
    /\ members' = members \ {s}
    /\ ClearedIf(s \in members /\ members' = {})
    /\ UNCHANGED <<client, down, frames, saves, note>>

\* Half a second later: document_save_handler.  It raises when the session has
\* gone from the pool.
Save ==
    /\ saves # <<>>
    /\ saves' = Tail(saves)
    /\ note' = IF Head(saves).session \in pool THEN Head(saves).text ELSE note
    /\ UpsetIf(Head(saves).session \notin pool, "lostSave")
    /\ UNCHANGED <<client, up, down, document, frames>>

Step ==
    \/ \E c \in Client :
          \/ Mount(c) \/ \E e \in Edit : Type(c, e)
          \/ StateArrives(c) \/ UpdateArrives(c)
          \/ Leave(c) \/ Drop(c) \/ Reconnect(c)
    \/ \E s \in Session :
          \/ HandleJoin(s) \/ HandleUpdate(s) \/ HandleLeave(s) \/ HandleDisconnect(s)
    \/ \E f \in frames : ResumeUpdate(f) \/ ResumeLeave(f)
    \/ Save

NoteNext == Step /\ Events' <= MaxEvents

NoteSpec == NoteInit /\ [][NoteNext]_noteVars

--------------------------------------------------------------------------------
(* Properties *)

Frame == [session : Session, at : {"append", "save"}, ops : SUBSET Op,
          data : SUBSET SUBSET TextPiece]
         \cup [session : Session, at : {"leave"}]

UpMessage == [kind : {"update"}, ops : SUBSET Op, data : SUBSET SUBSET TextPiece]
             \cup [kind : {"join", "leave", "disconnect"}]
DownMessage == [kind : {"state"}, ops : SUBSET Op, alone : BOOLEAN]
               \cup [kind : {"update"}, ops : SUBSET Op]

NoteTypeOK ==
    /\ mode \in [Client -> {"closed", "online", "offline", "left", "gone"}]
    /\ link \in [Client -> 1 .. MaxReconnects + 1]
    /\ synced \subseteq Client
    /\ initial \in [Client -> SUBSET TextPiece]
    /\ got \in [Client -> SUBSET Op]
    /\ after \in [Op -> SUBSET Op]
    /\ up \in [Session -> Seq(UpMessage)]
    /\ down \in [Session -> Seq(DownMessage)]
    /\ members \subseteq pool /\ pool \subseteq Session
    /\ log \subseteq Op
    /\ frames \subseteq Frame
    /\ saves \in Seq([session : Session, text : SUBSET TextPiece])
    /\ note \subseteq TextPiece
    /\ upset \subseteq Upsets

Quiet ==
    /\ \A s \in Session : up[s] = <<>> /\ down[s] = <<>>
    /\ frames = {} /\ saves = <<>>

Without(bad) == upset \cap bad = {}

\* When nothing is under way, every editor that is connected has all that the
\* server has, whatever joins, leaves, losses and overlaps came before; and the
\* server has all of an editor that has kept its first connection.
Converged ==
    Quiet => \A c \in synced : mode[c] = "online" =>
        log \subseteq got[c] /\ (link[c] = 1 => got[c] \subseteq log)

\* The stored text is put into the document once, by one of the editors: no
\* editor ever shows it twice, however joins, leaves and the first updates
\* meet, as long as no editor reconnects and no two handlers overlap.
FilledOnce ==
    Without({"overlap", "reconnect"}) =>
        \A c \in Client : Cardinality(Seen(got[c]) \cap Seeds) <= 1

\* The document of a note that nobody has open is dropped, so that the next
\* editor starts from the stored note, unless two handlers overlapped.
LeftIsCleared ==
    Without({"overlap"}) /\ frames = {} /\ members = {} => log = {}

\* When nothing is under way the stored note has all the text that was typed,
\* although every save stores one editor's text and cancels the one before it:
\* the editor that learns of a concurrent edit last saves last.  It takes a
\* behaviour without upsets: each of them can lose text.
EverythingIsSaved ==
    Without(Upsets) /\ Quiet =>
        note = {Stored} \cup Typed

================================================================================
