------------------------------ MODULE SessionPool ------------------------------
(***************************************************************************)
(* SESSION_POOL and USER_POOL of socket/main.py: which user a socket       *)
(* session belongs to, and which sessions a user has.  Events are sent to  *)
(* the sessions of USER_POOL; a user without an entry counts as inactive.  *)
(*                                                                         *)
(* connect, user-join and disconnect reach the pools through RedisDict,    *)
(* one blocking command per access: a process runs one handler at a time,  *)
(* other processes run between two commands.  One instance also is the     *)
(* program without Redis.  USER_POOL keeps lists that may repeat a session *)
(* (connect and user-join both add it); disconnect removes every copy and  *)
(* the emitter makes a set of the list, so an entry is a set here.         *)
(***************************************************************************)
EXTENDS Functions, FiniteSets

CONSTANTS
    Instance,      \* server processes
    User,
    Session,       \* sids: every connection has a new one
    UserOf,        \* the user whose token the client of a session holds
    HomeOf,        \* the instance a session is connected to
    NoUser         \* a session SESSION_POOL does not know

ASSUME HomeAssumption == HomeOf \in [Session -> Instance]
ASSUME UserOfAssumption == UserOf \in [Session -> User]
ASSUME NoUserAssumption == NoUser \notin User

VARIABLES
    socket,        \* socket[s]: state of the connection
    sessionPool,   \* SESSION_POOL: session -> user, or NoUser without a key
    userPool,      \* USER_POOL: user -> set of sessions, a partial function
    busy,          \* busy[i]: the frame of the handler instance i is in
    owed,          \* sessions in SESSION_POOL once and not yet taken out of
                   \* all documents (remove_user_from_all_documents)
    \* What the properties speak of; no guard reads these.
    overtaken,     \* users for whom a handler wrote, deleted or missed the list
                   \* after another process had changed it since it was read
    together       \* users with two sessions that disconnected at the same time,
                   \* on two processes

vars == <<socket, sessionPool, userPool, busy, owed, overtaken, together>>
history == <<overtaken, together>>

SocketState == {"new", "open", "closing", "closed"}

Idle == [at |-> "idle"]
Frame == {Idle}
    \cup [at : {"add", "remove", "count", "drop"}, sid : Session, user : User]
    \cup [at : {"write", "put"}, sid : Session, user : User, read : SUBSET Session]

Init ==
    /\ socket = [s \in Session |-> "new"]
    /\ sessionPool = [s \in Session |-> NoUser]
    /\ userPool = [u \in {} |-> {}]
    /\ busy = [i \in Instance |-> Idle]
    /\ owed = {}
    /\ overtaken = {}
    /\ together = {}

Free(i) == busy[i] = Idle
Goto(i, frame) == busy' = [busy EXCEPT ![i] = frame]

SessionsOf(u) == IF u \in DOMAIN userPool THEN userPool[u] ELSE {}

\* What a handler read for user u is no longer so as it acts on it.
Overtaken(u, stale) ==
    /\ overtaken' = IF stale THEN overtaken \cup {u} ELSE overtaken
    /\ UNCHANGED together

Put(f, k, v) == [x \in DOMAIN f \cup {k} |-> IF x = k THEN v ELSE f[x]]
Drop(f, k)   == Restrict(f, DOMAIN f \ {k})

--------------------------------------------------------------------------------
(* connect and user-join *)

\* SESSION_POOL[sid] = user, then `user.id in USER_POOL`.
Join(s) ==
    LET i == HomeOf[s]
        u == UserOf[s] IN
    /\ Free(i)
    /\ sessionPool' = [sessionPool EXCEPT ![s] = u]
    /\ Goto(i, IF u \in DOMAIN userPool
               THEN [at |-> "add", sid |-> s, user |-> u]
               ELSE [at |-> "put", sid |-> s, user |-> u, read |-> {}])
    /\ owed' = owed \cup {s}
    /\ UNCHANGED <<userPool, history>>

\* connect with a token in auth; without one (the sign-in page) nothing is
\* recorded until user-join.
Connect(s) ==
    /\ socket[s] = "new"
    /\ socket' = [socket EXCEPT ![s] = "open"]
    /\ \/ Join(s)
       \/ /\ Free(HomeOf[s])
          /\ UNCHANGED <<sessionPool, userPool, busy, owed, history>>

\* The client of an open socket sends user-join with its token.
UserJoin(s) ==
    /\ socket[s] = "open"
    /\ Join(s)
    /\ UNCHANGED socket

\* USER_POOL[user.id]: a KeyError ends the handler if the key is gone by now.
AddRead(i) ==
    /\ busy[i].at = "add"
    /\ LET u == busy[i].user IN
        Goto(i, IF u \in DOMAIN userPool
                THEN [at |-> "put", sid |-> busy[i].sid, user |-> u, read |-> userPool[u]]
                ELSE Idle)
    /\ Overtaken(busy[i].user, busy[i].user \notin DOMAIN userPool)
    /\ UNCHANGED <<socket, sessionPool, userPool, owed>>

\* Mutation of AddPut: the user's other sessions are overwritten.
AddPutAlone(i) ==
    /\ busy[i].at = "put"
    /\ userPool' = Put(userPool, busy[i].user, {busy[i].sid})
    /\ Goto(i, Idle)
    /\ Overtaken(busy[i].user, SessionsOf(busy[i].user) # busy[i].read)
    /\ UNCHANGED <<socket, sessionPool, owed>>

\* USER_POOL[user.id] = what was read + [sid]
AddPut(i) ==
    /\ busy[i].at = "put"
    /\ userPool' = Put(userPool, busy[i].user, busy[i].read \cup {busy[i].sid})
    /\ Goto(i, Idle)
    /\ Overtaken(busy[i].user, SessionsOf(busy[i].user) # busy[i].read)
    /\ UNCHANGED <<socket, sessionPool, owed>>

--------------------------------------------------------------------------------
(* disconnect *)

\* Instance j is in the disconnect of a session of user u.
Disconnecting(j, u) ==
    busy[j].at \in {"remove", "write", "count", "drop"} /\ busy[j].user = u

\* The connection ends.  A session SESSION_POOL does not know is ignored;
\* otherwise its key is read and deleted.
Disconnect(s) ==
    LET i == HomeOf[s]
        u == sessionPool[s] IN
    /\ socket[s] = "open"
    /\ Free(i)
    /\ IF u = NoUser
       THEN /\ socket' = [socket EXCEPT ![s] = "closed"]
            /\ UNCHANGED <<sessionPool, busy, together>>
       ELSE /\ socket' = [socket EXCEPT ![s] = "closing"]
            /\ sessionPool' = [sessionPool EXCEPT ![s] = NoUser]
            /\ Goto(i, [at |-> "remove", sid |-> s, user |-> u])
            /\ together' = IF \E j \in Instance : Disconnecting(j, u)
                           THEN together \cup {u} ELSE together
    /\ UNCHANGED <<userPool, owed, overtaken>>

\* The handler of instance i ends: normally, after the session is out of all
\* documents, or with a KeyError.
EndDisconnect(i, normally) ==
    /\ Goto(i, Idle)
    /\ socket' = [socket EXCEPT ![busy[i].sid] = "closed"]
    /\ owed' = IF normally THEN owed \ {busy[i].sid} ELSE owed

\* USER_POOL[user_id], which may raise.
RemoveRead(i) ==
    /\ busy[i].at = "remove"
    /\ LET s == busy[i].sid
           u == busy[i].user IN
        IF u \in DOMAIN userPool
        THEN /\ Goto(i, [at |-> "write", sid |-> s, user |-> u,
                         read |-> userPool[u] \ {s}])
             /\ UNCHANGED <<socket, owed>>
        ELSE EndDisconnect(i, FALSE)
    /\ UNCHANGED <<sessionPool, userPool, history>>

\* USER_POOL[user_id] = the filtered list
RemovePut(i) ==
    /\ busy[i].at = "write"
    /\ userPool' = Put(userPool, busy[i].user, busy[i].read)
    /\ Goto(i, [at |-> "count", sid |-> busy[i].sid, user |-> busy[i].user])
    /\ Overtaken(busy[i].user, SessionsOf(busy[i].user) \ {busy[i].sid} # busy[i].read)
    /\ UNCHANGED <<socket, sessionPool, owed>>

\* Mutations of RemoveCount: the empty list stays; only a user's last session
\* is taken out of the documents.
RemoveCountKeeps(i) ==
    /\ busy[i].at = "count"
    /\ EndDisconnect(i, busy[i].user \in DOMAIN userPool)
    /\ UNCHANGED <<sessionPool, userPool, history>>

RemoveCountReturns(i) ==
    /\ busy[i].at = "count"
    /\ LET u == busy[i].user IN
        IF SessionsOf(u) = {} /\ u \in DOMAIN userPool
        THEN /\ Goto(i, [at |-> "drop", sid |-> busy[i].sid, user |-> u])
             /\ UNCHANGED <<socket, owed>>
        ELSE EndDisconnect(i, FALSE)
    /\ UNCHANGED <<sessionPool, userPool, history>>

\* len(USER_POOL[user_id]) == 0, read again
RemoveCount(i) ==
    /\ busy[i].at = "count"
    /\ LET u == busy[i].user IN
        IF u \notin DOMAIN userPool THEN EndDisconnect(i, FALSE)
        ELSE IF userPool[u] = {}
        THEN /\ Goto(i, [at |-> "drop", sid |-> busy[i].sid, user |-> u])
             /\ UNCHANGED <<socket, owed>>
        ELSE EndDisconnect(i, TRUE)
    /\ UNCHANGED <<sessionPool, userPool, history>>

\* del USER_POOL[user_id], whatever the list holds by now
RemoveDrop(i) ==
    /\ busy[i].at = "drop"
    /\ EndDisconnect(i, busy[i].user \in DOMAIN userPool)
    /\ userPool' = Drop(userPool, busy[i].user)
    /\ Overtaken(busy[i].user, SessionsOf(busy[i].user) # {})
    /\ UNCHANGED <<sessionPool>>

Next ==
    \/ \E s \in Session : Connect(s) \/ UserJoin(s) \/ Disconnect(s)
    \/ \E i \in Instance : \/ AddRead(i) \/ AddPut(i) \/ RemoveRead(i)
                           \/ RemovePut(i) \/ RemoveCount(i) \/ RemoveDrop(i)

Spec == Init /\ [][Next]_vars

--------------------------------------------------------------------------------
(* Properties *)

TypeOK ==
    /\ socket \in [Session -> SocketState]
    /\ sessionPool \in [Session -> User \cup {NoUser}]
    /\ userPool \in UNION {[U -> SUBSET Session] : U \in SUBSET User}
    /\ busy \in [Instance -> Frame]
    /\ owed \subseteq Session
    /\ overtaken \subseteq User
    /\ together \subseteq User

\* No handler is at work for user u.
Quiet(u) == \A i \in Instance : busy[i] # Idle => busy[i].user # u

\* Between handlers the two pools are inverses of each other, wherever the user's
\* sessions are and however their handlers overlapped: the events for a user go to
\* each of the user's sessions and to no session that has ended.  It takes a write,
\* a deletion or a miss that overtook another process's change to break this.
PoolsAgree ==
    \A u \in User \ overtaken : Quiet(u) =>
        SessionsOf(u) = {s \in Session : sessionPool[s] = u}

\* A user has an entry, and counts as active, only with a session in it, whatever
\* other processes write or delete between the rewriting of the list, the count
\* and the deletion: no empty list is left behind.
ActiveHasSession == \A u \in DOMAIN userPool : Quiet(u) => userPool[u] # {}

\* An authenticated session that ends is taken out of every document: no KeyError
\* of the pools ends disconnect before it gets there, connects and joins of the
\* user on other processes notwithstanding.  It takes another disconnect of the
\* user at the same time, or a change that was overtaken before.
EndedLeavesDocuments ==
    \A s \in Session : socket[s] = "closed" /\ UserOf[s] \notin overtaken \cup together
                            => s \notin owed

================================================================================
