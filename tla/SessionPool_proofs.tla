-------------------------- MODULE SessionPool_proofs --------------------------
(***************************************************************************)
(* Proofs about SessionPool, for any processes, users and sessions, placed *)
(* in any way.  The invariant speaks of one session at a time: what        *)
(* SESSION_POOL and the entry of its user say of it, given where its own   *)
(* process is.  Handlers of other processes change neither, unless what    *)
(* they write was overtaken.                                               *)
(***************************************************************************)
EXTENDS SessionPool, TLAPS

--------------------------------------------------------------------------------
(* Type correctness *)

\* A frame that is not idle has a session and a user.
LEMMA FrameFields ==
    ASSUME NEW f \in Frame
    PROVE  /\ f # Idle => f.sid \in Session /\ f.user \in User
           /\ f.at \in {"write", "put"} => f.read \subseteq Session
           /\ f = Idle <=> f.at = "idle"
           /\ f.at \in {"idle", "add", "remove", "count", "drop", "write", "put"}
BY DEF Frame, Idle

\* Frames are made of a session, a user and what was read.
LEMMA MakeFrame ==
    ASSUME NEW s \in Session, NEW u \in User, NEW r \in SUBSET Session
    PROVE  /\ \A a \in {"add", "remove", "count", "drop"} :
                  [at |-> a, sid |-> s, user |-> u] \in Frame
           /\ \A a \in {"write", "put"} :
                  [at |-> a, sid |-> s, user |-> u, read |-> r] \in Frame
           /\ Idle \in Frame
BY DEF Frame

Pools == UNION {[U -> SUBSET Session] : U \in SUBSET User}

\* An entry is written or deleted.
LEMMA PoolChange ==
    ASSUME userPool \in Pools, NEW u \in User, NEW r \in SUBSET Session
    PROVE  /\ Put(userPool, u, r) \in Pools /\ Drop(userPool, u) \in Pools
           /\ u \in DOMAIN userPool => userPool[u] \in SUBSET Session
<1>1. PICK U \in SUBSET User : userPool \in [U -> SUBSET Session]
  BY DEF Pools
<1>2. Put(userPool, u, r) \in [U \cup {u} -> SUBSET Session]
  BY <1>1 DEF Put
<1>3. Drop(userPool, u) \in [U \ {u} -> SUBSET Session]
  BY <1>1 DEF Drop, Restrict
<1>4. U \cup {u} \in SUBSET User /\ U \ {u} \in SUBSET User
  OBVIOUS
<1> QED
  BY <1>1, <1>2, <1>3, <1>4 DEF Pools

\* The same invariant, with the pool by its name.
Typed ==
    /\ socket \in [Session -> SocketState]
    /\ sessionPool \in [Session -> User \cup {NoUser}]
    /\ userPool \in Pools
    /\ busy \in [Instance -> Frame]
    /\ owed \subseteq Session
    /\ overtaken \subseteq User
    /\ together \subseteq User

LEMMA TypedIsTypeOK == Typed <=> TypeOK
BY DEF Typed, TypeOK, Pools

\* Only users are ever named as overtaken or as disconnecting together.
Marked == overtaken \subseteq User /\ together \subseteq User

LEMMA MarkStep == Typed /\ [Next]_vars => Marked'
<1> SUFFICES ASSUME Typed, [Next]_vars PROVE Marked'
  OBVIOUS
<1>0. Marked
  BY DEF Typed, Marked
<1>1. \A i \in Instance : busy[i] # Idle => busy[i].user \in User
  BY FrameFields DEF Typed
<1>2. ASSUME NEW i \in Instance, busy[i] # Idle, NEW b, Overtaken(busy[i].user, b)
      PROVE  Marked'
  BY <1>0, <1>1, <1>2 DEF Overtaken, Marked
<1>3. CASE UNCHANGED history
  BY <1>0, <1>3 DEF Marked, history
<1>4. ASSUME NEW s \in Session, Connect(s) \/ UserJoin(s) PROVE UNCHANGED history
  BY <1>4 DEF Connect, UserJoin, Join
<1>5. ASSUME NEW s \in Session, Disconnect(s) PROVE Marked'
  BY <1>0, <1>5 DEF Disconnect, Marked, Typed
<1>6. ASSUME NEW i \in Instance, AddRead(i) \/ AddPut(i) \/ RemovePut(i) \/ RemoveDrop(i)
      PROVE  Marked'
  <2>1. busy[i] # Idle
    BY <1>6 DEF AddRead, AddPut, RemovePut, RemoveDrop, Idle
  <2> QED
    BY <1>2, <1>6, <2>1 DEF AddRead, AddPut, RemovePut, RemoveDrop
<1>7. ASSUME NEW i \in Instance, RemoveRead(i) \/ RemoveCount(i) PROVE UNCHANGED history
  BY <1>7 DEF RemoveRead, RemoveCount
<1>8. CASE UNCHANGED vars
  BY <1>0, <1>8 DEF vars, Marked
<1> QED
  BY <1>3, <1>4, <1>5, <1>6, <1>7, <1>8 DEF Next

\* Every command of every handler keeps the pools and the frames well typed.
LEMMA TypeStep == Typed /\ [Next]_vars => Typed'
<1> SUFFICES ASSUME Typed, [Next]_vars PROVE Typed'
  OBVIOUS
<1>13. overtaken' \subseteq User /\ together' \subseteq User
  BY MarkStep DEF Marked
<1> USE HomeAssumption, UserOfAssumption, NoUserAssumption DEF Typed
<1>0. \A i \in Instance : busy[i] \in Frame
  OBVIOUS
<1>1. ASSUME NEW s \in Session, Join(s) PROVE sessionPool' \in [Session -> User \cup {NoUser}]
                                              /\ userPool' \in Pools /\ owed' \subseteq Session
                                              /\ busy' \in [Instance -> Frame]
  <2>1. HomeOf[s] \in Instance /\ UserOf[s] \in User
    OBVIOUS
  <2> QED
    BY <1>1, <2>1, MakeFrame DEF Join, Goto
<1>2. ASSUME NEW s \in Session, Connect(s) PROVE Typed'
  <2>1. socket' \in [Session -> SocketState]
    BY <1>2 DEF Connect, SocketState
  <2> QED
    BY <1>13, <1>1, <1>2, <2>1 DEF Connect
<1>3. ASSUME NEW s \in Session, UserJoin(s) PROVE Typed'
  BY <1>13, <1>1, <1>3 DEF UserJoin
<1>4. ASSUME NEW s \in Session, Disconnect(s) PROVE Typed'
  <2>1. HomeOf[s] \in Instance /\ sessionPool[s] \in User \cup {NoUser}
    OBVIOUS
  <2>2. CASE sessionPool[s] = NoUser
    BY <1>13, <1>4, <2>2 DEF Disconnect, SocketState
  <2>3. CASE sessionPool[s] # NoUser
    <3>1. [at |-> "remove", sid |-> s, user |-> sessionPool[s]] \in Frame
      BY <2>1, <2>3, MakeFrame
    <3>2. busy' = [busy EXCEPT ![HomeOf[s]] =
                      [at |-> "remove", sid |-> s, user |-> sessionPool[s]]]
      BY <1>4, <2>3 DEF Disconnect, Goto
    <3>3. busy' \in [Instance -> Frame]
      BY <2>1, <3>1, <3>2
    <3>4. /\ socket' = [socket EXCEPT ![s] = "closing"]
          /\ sessionPool' = [sessionPool EXCEPT ![s] = NoUser]
          /\ UNCHANGED <<userPool, owed>>
      BY <1>4, <2>3 DEF Disconnect
    <3> QED
      BY <1>13, <3>3, <3>4 DEF SocketState
  <2> QED
    BY <2>2, <2>3
<1>5. ASSUME NEW i \in Instance, busy[i] # Idle, NEW n \in BOOLEAN, EndDisconnect(i, n)
      PROVE  /\ socket' \in [Session -> SocketState] /\ owed' \subseteq Session
             /\ busy' \in [Instance -> Frame]
  BY <1>0, <1>5, FrameFields, MakeFrame DEF EndDisconnect, Goto, SocketState
<1>6. ASSUME NEW i \in Instance, AddRead(i) PROVE Typed'
  <2>1. busy[i].sid \in Session /\ busy[i].user \in User
    BY <1>0, <1>6, FrameFields DEF AddRead
  <2>2. busy[i].user \in DOMAIN userPool => userPool[busy[i].user] \in SUBSET Session
    BY <2>1, PoolChange
  <2> QED
    BY <1>13, <1>6, <2>1, <2>2, MakeFrame DEF AddRead, Goto
<1>7. ASSUME NEW i \in Instance, AddPut(i) PROVE Typed'
  <2>1. busy[i].sid \in Session /\ busy[i].user \in User /\ busy[i].read \subseteq Session
    BY <1>0, <1>7, FrameFields DEF AddPut
  <2>2. userPool' \in Pools
    BY <1>7, <2>1, PoolChange DEF AddPut
  <2> QED
    BY <1>13, <1>7, <2>2, MakeFrame DEF AddPut, Goto, Frame
<1>8. ASSUME NEW i \in Instance, RemoveRead(i) PROVE Typed'
  <2>1. busy[i].sid \in Session /\ busy[i].user \in User /\ busy[i] # Idle
    BY <1>0, <1>8, FrameFields DEF RemoveRead
  <2>2. CASE busy[i].user \in DOMAIN userPool
    <3>1. userPool[busy[i].user] \ {busy[i].sid} \in SUBSET Session
      BY <2>1, <2>2, PoolChange
    <3> QED
      <4> DEFINE g == [at |-> "write", sid |-> busy[i].sid, user |-> busy[i].user,
                       read |-> userPool[busy[i].user] \ {busy[i].sid}]
      <4>1. g \in Frame
        BY <2>1, <3>1, MakeFrame
      <4>2. busy' = [busy EXCEPT ![i] = g] /\ UNCHANGED <<socket, owed, sessionPool, userPool>>
        BY <1>8, <2>2 DEF RemoveRead, Goto
      <4> QED
        BY <1>13, <4>1, <4>2
  <2>3. CASE busy[i].user \notin DOMAIN userPool
    BY <1>13, <1>5, <1>8, <2>1, <2>3 DEF RemoveRead
  <2> QED
    BY <2>2, <2>3
<1>9. ASSUME NEW i \in Instance, RemovePut(i) PROVE Typed'
  <2>1. busy[i].sid \in Session /\ busy[i].user \in User /\ busy[i].read \subseteq Session
    BY <1>0, <1>9, FrameFields DEF RemovePut
  <2>2. userPool' \in Pools
    BY <1>9, <2>1, PoolChange DEF RemovePut
  <2> QED
    BY <1>13, <1>9, <2>1, <2>2, MakeFrame DEF RemovePut, Goto
<1>10. ASSUME NEW i \in Instance, RemoveCount(i) PROVE Typed'
  <2>1. busy[i].sid \in Session /\ busy[i].user \in User /\ busy[i] # Idle
    BY <1>0, <1>10, FrameFields DEF RemoveCount
  <2>2. CASE busy[i].user \in DOMAIN userPool /\ userPool[busy[i].user] = {}
    <3> DEFINE g == [at |-> "drop", sid |-> busy[i].sid, user |-> busy[i].user]
    <3>1. g \in Frame
      BY <2>1, MakeFrame
    <3>2. busy' = [busy EXCEPT ![i] = g] /\ UNCHANGED <<socket, owed, sessionPool, userPool>>
      BY <1>10, <2>2 DEF RemoveCount, Goto
    <3> QED
      BY <1>13, <3>1, <3>2
  <2>3. CASE ~(busy[i].user \in DOMAIN userPool /\ userPool[busy[i].user] = {})
    BY <1>13, <1>5, <1>10, <2>1, <2>3 DEF RemoveCount
  <2> QED
    BY <2>2, <2>3
<1>11. ASSUME NEW i \in Instance, RemoveDrop(i) PROVE Typed'
  <2>1. busy[i].sid \in Session /\ busy[i].user \in User /\ busy[i] # Idle
    BY <1>0, <1>11, FrameFields DEF RemoveDrop
  <2>2. userPool' \in Pools
    BY <1>11, <2>1, PoolChange DEF RemoveDrop
  <2>3. (busy[i].user \in DOMAIN userPool) \in BOOLEAN
    OBVIOUS
  <2> QED
    BY <1>13, <1>5, <1>11, <2>1, <2>2, <2>3 DEF RemoveDrop
<1>12. CASE UNCHANGED vars
  BY <1>13, <1>12 DEF vars
<1> QED
  BY <1>2, <1>3, <1>4, <1>6, <1>7, <1>8, <1>9, <1>10, <1>11, <1>12 DEF Next

\* At first nobody is connected.
LEMMA TypeInit == Init => Typed
<1> SUFFICES ASSUME Init PROVE Typed
  OBVIOUS
<1>1. userPool \in [{} -> SUBSET Session]
  BY DEF Init
<1>2. userPool \in Pools
  BY <1>1 DEF Pools
<1> QED
  BY <1>2 DEF Init, Typed, SocketState, Frame

LEMMA TypedAlways == Spec => []Typed
BY TypeInit, TypeStep, PTL DEF Spec

\* Every reachable state is well typed, wherever the sessions of a user are.
THEOREM TypeCorrect == Spec => []TypeOK
BY TypedAlways, TypedIsTypeOK, PTL

--------------------------------------------------------------------------------
(* The invariant *)

\* A process works for the sessions it has, and for the user whose token they hold.
Homely == \A i \in Instance : busy[i] # Idle =>
              busy[i].user = UserOf[busy[i].sid] /\ HomeOf[busy[i].sid] = i

\* A session is in SESSION_POOL while it is added to its user's entry, and out of
\* it while it is removed.
FrameInv == \A i \in Instance :
    /\ busy[i].at \in {"add", "put"} => sessionPool[busy[i].sid] = busy[i].user
    /\ busy[i].at \in {"remove", "write", "count", "drop"} => sessionPool[busy[i].sid] = NoUser

\* SESSION_POOL names the user of the token.
NameInv == \A s \in Session : sessionPool[s] \in {UserOf[s], NoUser}

Adding(s) == busy[HomeOf[s]].at \in {"add", "put"} /\ busy[HomeOf[s]].sid = s
Removing(s) == busy[HomeOf[s]].at \in {"remove", "write"} /\ busy[HomeOf[s]].sid = s

\* What SESSION_POOL says of session s and what the entry of its user says.
AgreeOn(s) ==
    /\ sessionPool[s] = UserOf[s] => Adding(s) \/ s \in SessionsOf(UserOf[s])
    /\ s \in SessionsOf(UserOf[s]) => sessionPool[s] = UserOf[s] \/ Removing(s)
    /\ Removing(s) => s \in SessionsOf(UserOf[s])

\* The entry of a user has sessions of the user only.
Own(u) == \A s \in SessionsOf(u) : UserOf[s] = u

\* The handler that left the entry of a user empty is about to count it or to delete it.
Emptied(u) == u \in DOMAIN userPool /\ userPool[u] = {} =>
    \E i \in Instance : busy[i].at \in {"count", "drop"} /\ busy[i].user = u

\* The only disconnect of a user finds the key its own write made.
Alone(u) == /\ \A i, j \in Instance : Disconnecting(i, u) /\ Disconnecting(j, u) => i = j
            /\ \A i \in Instance : busy[i].at \in {"count", "drop"} /\ busy[i].user = u
                                        => u \in DOMAIN userPool

PoolInv ==
    /\ Homely
    /\ FrameInv
    /\ NameInv
    /\ \A s \in Session : UserOf[s] \notin overtaken => AgreeOn(s)
    /\ \A u \in User \ overtaken : Own(u)
    /\ \A u \in User : Emptied(u)
    /\ \A u \in User \ together : Alone(u)

\* A session that owes its removal from the documents is in SESSION_POOL until its
\* disconnect, and is not closed unless a KeyError ended that.
OwedInv == \A s \in owed :
    /\ UserOf[s] \notin overtaken \cup together => socket[s] # "closed"
    /\ socket[s] \in {"new", "open"} => sessionPool[s] # NoUser

--------------------------------------------------------------------------------
(* Steps *)

\* While process i is in a handler it works for a session it has.
LEMMA At ==
    ASSUME Typed, Homely, NEW i \in Instance, busy[i] # Idle
    PROVE  /\ busy[i].sid \in Session /\ busy[i].user \in User
           /\ busy[i].user = UserOf[busy[i].sid] /\ HomeOf[busy[i].sid] = i
BY FrameFields DEF Typed, Homely

\* An entry is written or deleted: what it holds then, and the others.
LEMMA PutRead ==
    ASSUME NEW u, NEW r, userPool' = Put(userPool, u, r)
    PROVE  /\ u \in DOMAIN userPool' /\ userPool'[u] = r /\ SessionsOf(u)' = r
           /\ \A v \in User \ {u} : /\ SessionsOf(v)' = SessionsOf(v)
                                    /\ v \in DOMAIN userPool' <=> v \in DOMAIN userPool
                                    /\ v \in DOMAIN userPool => userPool'[v] = userPool[v]
BY DEF Put, SessionsOf

LEMMA DropRead ==
    ASSUME NEW u, userPool' = Drop(userPool, u)
    PROVE  /\ u \notin DOMAIN userPool' /\ SessionsOf(u)' = {}
           /\ \A v \in User \ {u} : /\ SessionsOf(v)' = SessionsOf(v)
                                    /\ v \in DOMAIN userPool' <=> v \in DOMAIN userPool
                                    /\ v \in DOMAIN userPool => userPool'[v] = userPool[v]
BY DEF Drop, Restrict, SessionsOf

\* A step of the process of session s, which works for no other session before or
\* after it, in frame g after it.
Step(s, g) ==
    /\ busy[HomeOf[s]] = Idle \/ busy[HomeOf[s]].sid = s
    /\ busy' = [busy EXCEPT ![HomeOf[s]] = g]
    /\ g = Idle \/ (g.at # "idle" /\ g.sid = s /\ g.user = UserOf[s])
    /\ overtaken \subseteq overtaken' /\ together \subseteq together'

\* It leaves the entries of other users as they are.
OthersKept(s) == \A v \in User \ {UserOf[s]} :
    /\ SessionsOf(v)' = SessionsOf(v)
    /\ v \in DOMAIN userPool' <=> v \in DOMAIN userPool
    /\ v \in DOMAIN userPool => userPool'[v] = userPool[v]

\* The parts of the invariant about frames.
LEMMA FrameStep ==
    ASSUME Typed, Homely, FrameInv, NameInv, NEW s \in Session, NEW g, Step(s, g),
           NEW v \in {UserOf[s], NoUser}, sessionPool' = [sessionPool EXCEPT ![s] = v],
           g.at \in {"add", "put"} => v = UserOf[s],
           g.at \in {"remove", "write", "count", "drop"} => v = NoUser
    PROVE  Homely' /\ FrameInv' /\ NameInv'
<1> USE HomeAssumption, UserOfAssumption DEF Typed
<1>1. Homely'
  BY DEF Homely, Step, Idle
<1>2. NameInv'
  BY DEF NameInv
<1>3. ASSUME NEW i \in Instance
      PROVE  /\ busy'[i].at \in {"add", "put"} => sessionPool'[busy'[i].sid] = busy'[i].user
             /\ busy'[i].at \in {"remove", "write", "count", "drop"}
                    => sessionPool'[busy'[i].sid] = NoUser
  <2>1. CASE i = HomeOf[s]
    <3>1. busy'[i] = g
      BY <2>1 DEF Step
    <3>2. g.at \in {"add", "put", "remove", "write", "count", "drop"} => g # Idle
      BY DEF Idle
    <3> QED
      BY <3>1, <3>2 DEF Step
  <2>2. CASE i # HomeOf[s]
    <3>1. busy'[i] = busy[i]
      BY <2>2 DEF Step
    <3>2. busy[i] # Idle => busy[i].sid # s /\ busy[i].sid \in Session
      BY <2>2, At
    <3>3. busy[i].at # "idle" => busy[i] # Idle
      BY DEF Idle
    <3>4. busy[i].at # "idle" => sessionPool'[busy[i].sid] = sessionPool[busy[i].sid]
      BY <3>2, <3>3
    <3> QED
      BY <3>1, <3>4 DEF FrameInv
  <2> QED
    BY <2>1, <2>2
<1>4. FrameInv'
  BY <1>3 DEF FrameInv
<1> QED
  BY <1>1, <1>2, <1>4

\* Process HomeOf[s] neither adds nor removes another session.
LEMMA OtherSessions ==
    ASSUME Typed, NEW s \in Session, NEW g, Step(s, g), NEW t \in Session \ {s}
    PROVE  /\ Adding(t)' <=> Adding(t)
           /\ Removing(t)' <=> Removing(t)
<1> USE HomeAssumption DEF Typed
<1>1. CASE HomeOf[t] = HomeOf[s]
  <2>1. ~ Adding(t) /\ ~ Removing(t)
    BY <1>1 DEF Step, Adding, Removing, Idle
  <2>2. busy'[HomeOf[t]] = g
    BY <1>1 DEF Step
  <2>3. ~ Adding(t)' /\ ~ Removing(t)'
    BY <2>2 DEF Step, Adding, Removing, Idle
  <2> QED
    BY <2>1, <2>3
<1>2. CASE HomeOf[t] # HomeOf[s]
  BY <1>2 DEF Step, Adding, Removing
<1> QED
  BY <1>1, <1>2

\* A step for session s keeps the invariant, if for the user of s nothing but the
\* membership of s changes, and for s itself the invariant holds.
LEMMA StepFor ==
    ASSUME Typed, PoolInv, Homely', FrameInv', NameInv',
           NEW s \in Session, NEW g, Step(s, g), OthersKept(s),
           \A t \in Session \ {s} : sessionPool'[t] = sessionPool[t],
           UserOf[s] \notin overtaken' =>
               /\ AgreeOn(s)'
               /\ \A t \in Session \ {s} : t \in SessionsOf(UserOf[s])' <=> t \in SessionsOf(UserOf[s])
               /\ SessionsOf(UserOf[s])' \subseteq Session,
           Emptied(UserOf[s])',
           UserOf[s] \notin together' => Alone(UserOf[s])'
    PROVE  PoolInv'
<1> USE HomeAssumption, UserOfAssumption DEF Typed
<1> DEFINE u == UserOf[s]
           i == HomeOf[s]
<1>1. ASSUME NEW t \in Session, UserOf[t] \notin overtaken' PROVE AgreeOn(t)'
  <2>1. CASE t = s
    BY <1>1, <2>1
  <2>2. CASE t # s
    <3>1. (Adding(t)' <=> Adding(t)) /\ (Removing(t)' <=> Removing(t))
      BY <2>2, OtherSessions
    <3>2. AgreeOn(t)
      BY <1>1 DEF PoolInv, Step
    <3>3. t \in SessionsOf(UserOf[t])' <=> t \in SessionsOf(UserOf[t])
      BY <1>1, <2>2 DEF OthersKept
    <3>4. sessionPool'[t] = sessionPool[t]
      BY <2>2
    <3> QED
      BY <3>1, <3>2, <3>3, <3>4 DEF AgreeOn
  <2> QED
    BY <2>1, <2>2
<1>2. ASSUME NEW v \in User \ overtaken' PROVE Own(v)'
  <2>1. Own(v)
    BY <1>2 DEF PoolInv, Step
  <2>2. CASE v = u
    BY <1>2, <2>1, <2>2 DEF Own
  <2>3. CASE v # u
    BY <2>1, <2>3 DEF Own, OthersKept
  <2> QED
    BY <2>2, <2>3
<1>3. \A j \in Instance \ {i} : busy'[j] = busy[j]
  BY DEF Step
<1>4. \A v \in User \ {u} : /\ busy[i].at # "idle" => busy[i].user # v
                            /\ busy'[i].at # "idle" => busy'[i].user # v
  <2>1. busy[i].at # "idle" => busy[i].user = u
    BY At DEF Idle, PoolInv, Step
  <2>2. busy'[i].at # "idle" => busy'[i].user = u
    BY DEF Idle, Step
  <2> QED
    BY <2>1, <2>2
<1>5. ASSUME NEW v \in User PROVE Emptied(v)'
  <2>1. CASE v = u
    BY <2>1
  <2>2. CASE v # u
    <3>1. Emptied(v)
      BY DEF PoolInv
    <3>2. ASSUME NEW j \in Instance, busy[j].at \in {"count", "drop"}, busy[j].user = v
          PROVE  busy'[j].at \in {"count", "drop"} /\ busy'[j].user = v
      BY <1>3, <1>4, <2>2, <3>2
    <3>3. /\ v \in DOMAIN userPool' <=> v \in DOMAIN userPool
          /\ v \in DOMAIN userPool => userPool'[v] = userPool[v]
      BY <2>2 DEF OthersKept
    <3> QED
      BY <3>1, <3>2, <3>3 DEF Emptied
  <2> QED
    BY <2>1, <2>2
<1>6. ASSUME NEW v \in User \ together' PROVE Alone(v)'
  <2>1. CASE v = u
    BY <1>6, <2>1
  <2>2. CASE v # u
    <3>1. Alone(v)
      BY <1>6 DEF PoolInv, Step
    <3>2. \A j \in Instance : Disconnecting(j, v)' => Disconnecting(j, v)
      BY <1>3, <1>4, <2>2 DEF Disconnecting
    <3>3. ASSUME NEW j \in Instance, busy'[j].at \in {"count", "drop"}, busy'[j].user = v
          PROVE  v \in DOMAIN userPool'
      <4>1. busy[j].at \in {"count", "drop"} /\ busy[j].user = v
        BY <1>3, <1>4, <2>2, <3>3
      <4>2. v \in DOMAIN userPool
        BY <3>1, <4>1 DEF Alone
      <4> QED
        BY <2>2, <4>2 DEF OthersKept
    <3>4. \A j, k \in Instance : Disconnecting(j, v) /\ Disconnecting(k, v) => j = k
      BY <3>1 DEF Alone
    <3>5. \A j, k \in Instance : Disconnecting(j, v)' /\ Disconnecting(k, v)' => j = k
      BY <3>2, <3>4
    <3> QED
      BY <3>3, <3>5 DEF Alone
  <2> QED
    BY <2>1, <2>2
<1> QED
  BY <1>1, <1>2, <1>5, <1>6 DEF PoolInv

\* A process that works for a user goes on, or stops, disconnecting.
LEMMA AloneStep ==
    ASSUME Typed, PoolInv, NEW s \in Session, NEW g, Step(s, g),
           g.at \in {"remove", "write", "count", "drop"} =>
               busy[HomeOf[s]].at \in {"remove", "write", "count", "drop"},
           g.at \in {"count", "drop"} => UserOf[s] \in DOMAIN userPool',
           \A j \in Instance \ {HomeOf[s]} :
               Disconnecting(j, UserOf[s]) /\ UserOf[s] \in DOMAIN userPool
                   => UserOf[s] \in DOMAIN userPool' \/ Disconnecting(HomeOf[s], UserOf[s]),
           UserOf[s] \notin together'
    PROVE  Alone(UserOf[s])'
<1> USE HomeAssumption, UserOfAssumption DEF Typed
<1> DEFINE u == UserOf[s]
           i == HomeOf[s]
<1>1. Alone(u)
  BY DEF PoolInv, Step
<1>2. busy'[i] = g /\ \A j \in Instance \ {i} : busy'[j] = busy[j]
  BY DEF Step
<1>3. \A j \in Instance : Disconnecting(j, u)' => Disconnecting(j, u)
  <2>1. Disconnecting(i, u)' => Disconnecting(i, u)
    <3>1. busy[i].at \in {"remove", "write", "count", "drop"} => busy[i].user = u
      BY At DEF Idle, PoolInv, Step
    <3> QED
      BY <1>2, <3>1 DEF Disconnecting
  <2> QED
    BY <1>2, <2>1 DEF Disconnecting
<1>4. ASSUME NEW j \in Instance, busy'[j].at \in {"count", "drop"}, busy'[j].user = u
      PROVE  u \in DOMAIN userPool'
  <2>1. CASE j = i
    BY <1>2, <1>4, <2>1
  <2>2. CASE j # i
    <3>1. busy[j].at \in {"count", "drop"} /\ busy[j].user = u /\ Disconnecting(j, u)
      BY <1>2, <1>4, <2>2 DEF Disconnecting
    <3>2. u \in DOMAIN userPool /\ ~ Disconnecting(i, u)
      BY <1>1, <2>2, <3>1 DEF Alone
    <3> QED
      BY <2>2, <3>1, <3>2
  <2> QED
    BY <2>1, <2>2
<1>5. \A j, k \in Instance : Disconnecting(j, u) /\ Disconnecting(k, u) => j = k
  BY <1>1 DEF Alone
<1>6. \A j, k \in Instance : Disconnecting(j, u)' /\ Disconnecting(k, u)' => j = k
  BY <1>3, <1>5
<1> QED
  BY <1>4, <1>6 DEF Alone

\* An empty entry stays with the handler that emptied it.
LEMMA EmptiedStep ==
    ASSUME Typed, PoolInv, NEW s \in Session, NEW g, Step(s, g),
           UNCHANGED userPool,
           (busy[HomeOf[s]].at \in {"count", "drop"} /\ UserOf[s] \in DOMAIN userPool
                /\ userPool[UserOf[s]] = {}) => g.at \in {"count", "drop"}
    PROVE  Emptied(UserOf[s])'
<1> USE HomeAssumption, UserOfAssumption DEF Typed
<1> DEFINE u == UserOf[s]
           i == HomeOf[s]
<1> SUFFICES ASSUME u \in DOMAIN userPool, userPool[u] = {}
             PROVE  \E j \in Instance : busy'[j].at \in {"count", "drop"} /\ busy'[j].user = u
  BY DEF Emptied
<1>1. Emptied(u)
  BY DEF PoolInv
<1>2. PICK j \in Instance : busy[j].at \in {"count", "drop"} /\ busy[j].user = u
  BY <1>1 DEF Emptied
<1>3. busy'[i] = g /\ (j # i => busy'[j] = busy[j])
  BY DEF Step
<1>4. CASE j = i
  <2>1. g.at \in {"count", "drop"}
    BY <1>2, <1>4
  <2>2. g.user = u
    BY <2>1 DEF Step, Idle
  <2>3. busy'[i].at \in {"count", "drop"} /\ busy'[i].user = u /\ i \in Instance
    BY <1>3, <2>1, <2>2
  <2> QED
    BY <2>3
<1>5. CASE j # i
  BY <1>2, <1>3, <1>5
<1> QED
  BY <1>4, <1>5

--------------------------------------------------------------------------------
(* Each handler keeps the invariant *)

\* connect and user-join up to their first read of USER_POOL.
LEMMA JoinStep ==
    ASSUME Typed, PoolInv, NEW s \in Session, Join(s)
    PROVE  PoolInv'
<1> USE HomeAssumption, UserOfAssumption, NoUserAssumption
<1> DEFINE u == UserOf[s]
           i == HomeOf[s]
<1> PICK g : g = IF u \in DOMAIN userPool THEN [at |-> "add", sid |-> s, user |-> u]
                 ELSE [at |-> "put", sid |-> s, user |-> u, read |-> {}]
  OBVIOUS
<1>1. g.at \in {"add", "put"} /\ g.sid = s /\ g.user = u /\ g.at # "idle"
  OBVIOUS
<1>2. /\ busy' = [busy EXCEPT ![i] = g] /\ busy[i] = Idle
      /\ sessionPool' = [sessionPool EXCEPT ![s] = u]
      /\ UNCHANGED <<userPool, overtaken, together>>
  BY DEF Join, Goto, Free, history
<1>3. Step(s, g)
  BY <1>1, <1>2 DEF Step
<1>4. Homely' /\ FrameInv' /\ NameInv'
  BY <1>1, <1>2, <1>3, FrameStep DEF PoolInv
<1>5. OthersKept(s)
  BY <1>2 DEF OthersKept, SessionsOf
<1>6. u \notin overtaken' => AgreeOn(s)'
  <2> SUFFICES ASSUME u \notin overtaken PROVE AgreeOn(s)'
    BY <1>2
  <2>1. AgreeOn(s) /\ ~ Removing(s) /\ sessionPool[s] \in {u, NoUser}
    BY <1>2 DEF PoolInv, Removing, Idle, NameInv
  <2>2. Adding(s)' /\ ~ Removing(s)'
    BY <1>1, <1>2 DEF Adding, Removing, Typed
  <2>3. sessionPool'[s] = u
    BY <1>2 DEF Typed
  <2> QED
    BY <2>2, <2>3 DEF AgreeOn
<1>7. SessionsOf(u)' = SessionsOf(u) /\ SessionsOf(u) \subseteq Session
  BY <1>2, PoolChange DEF SessionsOf, Typed
<1>8. Emptied(u)'
  BY <1>2, <1>3, EmptiedStep DEF Idle
<1>9. u \notin together' => Alone(u)'
  BY <1>1, <1>2, <1>3, AloneStep
<1>10. \A t \in Session \ {s} : sessionPool'[t] = sessionPool[t]
  BY <1>2 DEF Typed
<1> QED
  BY <1>3, <1>4, <1>5, <1>6, <1>7, <1>8, <1>9, <1>10, StepFor

\* A session SESSION_POOL knows ends; its user may have another disconnect under way.
LEMMA DisconnectStep ==
    ASSUME Typed, PoolInv, NEW s \in Session, Disconnect(s)
    PROVE  PoolInv'
<1> USE HomeAssumption, UserOfAssumption, NoUserAssumption
<1> DEFINE u == UserOf[s]
           i == HomeOf[s]
<1>1. CASE sessionPool[s] = NoUser
  <2>1. UNCHANGED <<sessionPool, userPool, busy, overtaken, together>>
    BY <1>1 DEF Disconnect
  <2> QED
    BY <2>1 DEF PoolInv, Homely, FrameInv, NameInv, AgreeOn, Adding, Removing, Own, Emptied,
                Alone, Disconnecting, SessionsOf
<1>2. CASE sessionPool[s] # NoUser
  <2>0. sessionPool[s] = u /\ u \in User
    BY <1>2 DEF PoolInv, NameInv
  <2> PICK g : g = [at |-> "remove", sid |-> s, user |-> u]
    OBVIOUS
  <2>1. g.at = "remove" /\ g.sid = s /\ g.user = u /\ g.at # "idle"
    OBVIOUS
  <2>2. /\ busy' = [busy EXCEPT ![i] = g] /\ busy[i] = Idle
        /\ sessionPool' = [sessionPool EXCEPT ![s] = NoUser]
        /\ together' = IF \E j \in Instance : Disconnecting(j, u)
                       THEN together \cup {u} ELSE together
        /\ UNCHANGED <<userPool, overtaken>>
    BY <1>2, <2>0 DEF Disconnect, Goto, Free
  <2>3. Step(s, g)
    BY <2>1, <2>2 DEF Step
  <2>4. Homely' /\ FrameInv' /\ NameInv'
    BY <2>1, <2>2, <2>3, FrameStep DEF PoolInv
  <2>5. OthersKept(s)
    BY <2>2 DEF OthersKept, SessionsOf
  <2>6. u \notin overtaken' => AgreeOn(s)'
    <3> SUFFICES ASSUME u \notin overtaken PROVE AgreeOn(s)'
      BY <2>2
    <3>1. AgreeOn(s) /\ ~ Adding(s)
      BY <2>2 DEF PoolInv, Adding, Idle
    <3>2. s \in SessionsOf(u)
      BY <2>0, <3>1 DEF AgreeOn
    <3>3. Removing(s)' /\ SessionsOf(u)' = SessionsOf(u)
      BY <2>1, <2>2 DEF Removing, Typed, SessionsOf
    <3>4. sessionPool'[s] = NoUser
      BY <2>2 DEF Typed
    <3> QED
      BY <2>0, <3>2, <3>3, <3>4 DEF AgreeOn
  <2>7. SessionsOf(u)' = SessionsOf(u) /\ SessionsOf(u) \subseteq Session
    BY <2>2, PoolChange DEF SessionsOf, Typed
  <2>8. Emptied(u)'
    BY <2>2, <2>3, EmptiedStep DEF Idle
  <2>9. u \notin together' => Alone(u)'
    <3> SUFFICES ASSUME u \notin together' PROVE Alone(u)'
      OBVIOUS
    <3>1. \A j \in Instance : ~ Disconnecting(j, u)
      BY <2>0, <2>2
    <3>2. \A j \in Instance \ {i} : busy'[j] = busy[j]
      BY <2>2 DEF Typed
    <3>3. busy'[i] = g
      BY <2>2 DEF Typed
    <3>4. \A j \in Instance \ {i} : ~ Disconnecting(j, u)'
      BY <3>1, <3>2 DEF Disconnecting
    <3>5. \A j \in Instance : ~ (busy'[j].at \in {"count", "drop"} /\ busy'[j].user = u)
      BY <2>1, <3>1, <3>2, <3>3 DEF Disconnecting
    <3> QED
      BY <3>4, <3>5 DEF Alone
  <2>10. \A t \in Session \ {s} : sessionPool'[t] = sessionPool[t]
    BY <2>2 DEF Typed
  <2> QED
    BY <2>3, <2>4, <2>5, <2>6, <2>7, <2>8, <2>9, <2>10, StepFor
<1> QED
  BY <1>1, <1>2

\* connect and user-join: `USER_POOL[user.id]` after the test for the key.
LEMMA AddReadStep ==
    ASSUME Typed, PoolInv, NEW i \in Instance, AddRead(i)
    PROVE  PoolInv'
<1> USE UserOfAssumption
<1> PICK s, u : s = busy[i].sid /\ u = busy[i].user
  OBVIOUS
<1> PICK g : g = IF u \in DOMAIN userPool
                 THEN [at |-> "put", sid |-> s, user |-> u, read |-> userPool[u]]
                 ELSE Idle
  OBVIOUS
<1>1. busy[i].at = "add" /\ busy[i] # Idle
  BY DEF AddRead, Idle
<1>2. s \in Session /\ u \in User /\ u = UserOf[s] /\ HomeOf[s] = i
  BY <1>1, At DEF PoolInv
<1>3. /\ busy' = [busy EXCEPT ![i] = g] /\ UNCHANGED <<sessionPool, userPool, together>>
      /\ overtaken' = IF u \notin DOMAIN userPool THEN overtaken \cup {u} ELSE overtaken
  BY DEF AddRead, Goto, Overtaken
<1>4. (g.at = "put" /\ g.sid = s /\ g.user = u) \/ (g = Idle /\ g.at = "idle")
  BY DEF Idle
<1>5. Step(s, g)
  BY <1>2, <1>3, <1>4 DEF Step
<1>6. Homely' /\ FrameInv' /\ NameInv'
  <2>1. sessionPool[s] = u
    BY <1>1 DEF PoolInv, FrameInv
  <2>2. sessionPool' = [sessionPool EXCEPT ![s] = u]
    BY <1>2, <1>3, <2>1 DEF Typed
  <2> QED
    BY <1>2, <1>4, <1>5, <2>2, FrameStep DEF PoolInv
<1>7. OthersKept(s)
  BY <1>3 DEF OthersKept, SessionsOf
<1>8. u \notin overtaken' => AgreeOn(s)'
  <2> SUFFICES ASSUME u \notin overtaken' PROVE AgreeOn(s)'
    OBVIOUS
  <2>1. u \in DOMAIN userPool /\ u \notin overtaken
    BY <1>3
  <2>2. AgreeOn(s)
    BY <1>2, <2>1 DEF PoolInv
  <2>3. g.at = "put" /\ g.sid = s
    BY <2>1
  <2>4. Adding(s) /\ Adding(s)' /\ ~ Removing(s) /\ ~ Removing(s)'
    BY <1>1, <1>2, <1>3, <2>3 DEF Adding, Removing, Typed
  <2> QED
    BY <1>2, <1>3, <2>2, <2>4 DEF AgreeOn, SessionsOf
<1>9. SessionsOf(u)' = SessionsOf(u) /\ SessionsOf(u) \subseteq Session
  BY <1>2, <1>3, PoolChange DEF SessionsOf, Typed
<1>10. Emptied(u)'
  BY <1>1, <1>2, <1>3, <1>5, EmptiedStep
<1>11. u \notin together' => Alone(u)'
  BY <1>2, <1>3, <1>4, <1>5, AloneStep
<1> QED
  BY <1>2, <1>3, <1>5, <1>6, <1>7, <1>8, <1>9, <1>10, <1>11, StepFor

\* connect and user-join write the entry: the session is added to what it holds.
LEMMA AddPutStep ==
    ASSUME Typed, PoolInv, NEW i \in Instance, AddPut(i)
    PROVE  PoolInv'
<1> USE UserOfAssumption
<1> PICK s, u, r : s = busy[i].sid /\ u = busy[i].user /\ r = busy[i].read \cup {s}
  OBVIOUS
<1>1. busy[i].at = "put" /\ busy[i] # Idle
  BY DEF AddPut, Idle
<1>2. s \in Session /\ u \in User /\ u = UserOf[s] /\ HomeOf[s] = i
  BY <1>1, At DEF PoolInv
<1>3. /\ busy' = [busy EXCEPT ![i] = Idle] /\ UNCHANGED <<sessionPool, together>>
      /\ userPool' = Put(userPool, u, r)
      /\ overtaken' = IF SessionsOf(u) # busy[i].read THEN overtaken \cup {u} ELSE overtaken
  BY DEF AddPut, Goto, Overtaken
<1>4. Idle.at = "idle"
  BY DEF Idle
<1>5. Step(s, Idle)
  BY <1>2, <1>3 DEF Step
<1>6. sessionPool[s] = u
  BY <1>1 DEF PoolInv, FrameInv
<1>7. Homely' /\ FrameInv' /\ NameInv'
  <2>1. sessionPool' = [sessionPool EXCEPT ![s] = u]
    BY <1>2, <1>3, <1>6 DEF Typed
  <2> QED
    BY <1>2, <1>4, <1>5, <2>1, FrameStep DEF PoolInv
<1>8. u \in DOMAIN userPool' /\ userPool'[u] = r /\ SessionsOf(u)' = r /\ OthersKept(s)
  BY <1>2, <1>3, PutRead DEF OthersKept
<1>9. r \subseteq Session
  BY <1>1, <1>2, FrameFields DEF Typed
<1>10. AgreeOn(s)'
  <2>1. ~ Removing(s)'
    BY <1>2, <1>3, <1>4 DEF Removing, Typed
  <2>2. sessionPool'[s] = u /\ s \in r
    BY <1>3, <1>6
  <2> QED
    BY <1>2, <1>8, <2>1, <2>2 DEF AgreeOn
<1>11. u \notin overtaken' => r = SessionsOf(u) \cup {s}
  BY <1>3
<1>12. Emptied(u)'
  BY <1>8 DEF Emptied
<1>13. u \notin together' => Alone(u)'
  BY <1>2, <1>4, <1>5, <1>8, AloneStep
<1>14. u \notin overtaken' =>
          /\ AgreeOn(s)'
          /\ \A t \in Session \ {s} : t \in SessionsOf(u)' <=> t \in SessionsOf(u)
          /\ SessionsOf(u)' \subseteq Session
  BY <1>8, <1>9, <1>10, <1>11
<1> QED
  BY <1>2, <1>3, <1>5, <1>7, <1>8, <1>12, <1>13, <1>14, StepFor

\* disconnect reads the entry of its user: unless overtaken it is there.
LEMMA RemoveReadStep ==
    ASSUME Typed, PoolInv, NEW i \in Instance, RemoveRead(i)
    PROVE  /\ PoolInv'
           /\ busy[i].user \notin overtaken => busy[i].user \in DOMAIN userPool
<1> USE UserOfAssumption
<1> PICK s, u : s = busy[i].sid /\ u = busy[i].user
  OBVIOUS
<1> PICK g : g = IF u \in DOMAIN userPool
                 THEN [at |-> "write", sid |-> s, user |-> u, read |-> userPool[u] \ {s}]
                 ELSE Idle
  OBVIOUS
<1>1. busy[i].at = "remove" /\ busy[i] # Idle
  BY DEF RemoveRead, Idle
<1>2. s \in Session /\ u \in User /\ u = UserOf[s] /\ HomeOf[s] = i
  BY <1>1, At DEF PoolInv
<1>3. busy' = [busy EXCEPT ![i] = g] /\ UNCHANGED <<sessionPool, userPool, overtaken, together>>
  BY DEF RemoveRead, Goto, EndDisconnect, history
<1>4. (g.at = "write" /\ g.sid = s /\ g.user = u) \/ (g = Idle /\ g.at = "idle")
  BY DEF Idle
<1>5. Step(s, g)
  BY <1>2, <1>3, <1>4 DEF Step
<1>6. Homely' /\ FrameInv' /\ NameInv'
  <2>1. sessionPool[s] = NoUser
    BY <1>1 DEF PoolInv, FrameInv
  <2>2. sessionPool' = [sessionPool EXCEPT ![s] = NoUser]
    BY <1>2, <1>3, <2>1 DEF Typed
  <2> QED
    BY <1>2, <1>4, <1>5, <2>2, FrameStep DEF PoolInv
<1>7. OthersKept(s)
  BY <1>3 DEF OthersKept, SessionsOf
<1>8. u \notin overtaken => u \in DOMAIN userPool
  <2> SUFFICES ASSUME u \notin overtaken PROVE u \in DOMAIN userPool
    OBVIOUS
  <2>1. Removing(s) /\ AgreeOn(s)
    BY <1>1, <1>2 DEF PoolInv, Removing
  <2> QED
    BY <1>2, <2>1 DEF AgreeOn, SessionsOf
<1>9. u \notin overtaken' => AgreeOn(s)'
  <2> SUFFICES ASSUME u \notin overtaken PROVE AgreeOn(s)'
    BY <1>3
  <2>1. AgreeOn(s)
    BY <1>2 DEF PoolInv
  <2>2. g.at = "write" /\ g.sid = s
    BY <1>8
  <2>3. Removing(s) /\ Removing(s)' /\ ~ Adding(s) /\ ~ Adding(s)'
    BY <1>1, <1>2, <1>3, <2>2 DEF Adding, Removing, Typed
  <2> QED
    BY <1>2, <1>3, <2>1, <2>3 DEF AgreeOn, SessionsOf
<1>10. SessionsOf(u)' = SessionsOf(u) /\ SessionsOf(u) \subseteq Session
  BY <1>2, <1>3, PoolChange DEF SessionsOf, Typed
<1>11. Emptied(u)'
  BY <1>1, <1>2, <1>3, <1>5, EmptiedStep
<1>12. u \notin together' => Alone(u)'
  BY <1>1, <1>2, <1>3, <1>4, <1>5, AloneStep
<1> QED
  BY <1>2, <1>3, <1>5, <1>6, <1>7, <1>8, <1>9, <1>10, <1>11, <1>12, StepFor

\* disconnect writes the entry without the session.
LEMMA RemovePutStep ==
    ASSUME Typed, PoolInv, NEW i \in Instance, RemovePut(i)
    PROVE  PoolInv'
<1> USE UserOfAssumption
<1> PICK s, u, r : s = busy[i].sid /\ u = busy[i].user /\ r = busy[i].read
  OBVIOUS
<1> PICK g : g = [at |-> "count", sid |-> s, user |-> u]
  OBVIOUS
<1>1. busy[i].at = "write" /\ busy[i] # Idle
  BY DEF RemovePut, Idle
<1>2. s \in Session /\ u \in User /\ u = UserOf[s] /\ HomeOf[s] = i
  BY <1>1, At DEF PoolInv
<1>3. /\ busy' = [busy EXCEPT ![i] = g] /\ UNCHANGED <<sessionPool, together>>
      /\ userPool' = Put(userPool, u, r)
      /\ overtaken' = IF SessionsOf(u) \ {s} # r THEN overtaken \cup {u} ELSE overtaken
  BY DEF RemovePut, Goto, Overtaken
<1>4. g.at = "count" /\ g.sid = s /\ g.user = u
  OBVIOUS
<1>5. Step(s, g)
  BY <1>2, <1>3, <1>4 DEF Step
<1>6. sessionPool[s] = NoUser
  BY <1>1 DEF PoolInv, FrameInv
<1>7. Homely' /\ FrameInv' /\ NameInv'
  <2>1. sessionPool' = [sessionPool EXCEPT ![s] = NoUser]
    BY <1>2, <1>3, <1>6 DEF Typed
  <2> QED
    BY <1>2, <1>4, <1>5, <2>1, FrameStep DEF PoolInv
<1>8. u \in DOMAIN userPool' /\ userPool'[u] = r /\ SessionsOf(u)' = r /\ OthersKept(s)
  BY <1>2, <1>3, PutRead DEF OthersKept
<1>9. r \subseteq Session
  BY <1>1, FrameFields DEF Typed
<1>10. u \notin overtaken' => r = SessionsOf(u) \ {s}
  BY <1>3
<1>11. u \notin overtaken' => AgreeOn(s)'
  <2> SUFFICES ASSUME u \notin overtaken' PROVE AgreeOn(s)'
    OBVIOUS
  <2>1. ~ Removing(s)'
    BY <1>2, <1>3, <1>4 DEF Removing, Typed
  <2>2. sessionPool'[s] # u /\ s \notin r
    BY <1>2, <1>3, <1>6, <1>10, NoUserAssumption
  <2> QED
    BY <1>2, <1>8, <2>1, <2>2 DEF AgreeOn
<1>12. Emptied(u)'
  <2>1. i \in Instance /\ busy'[i].at \in {"count", "drop"} /\ busy'[i].user = u
    BY <1>3, <1>4 DEF Typed
  <2> QED
    BY <2>1 DEF Emptied
<1>13. u \notin together' => Alone(u)'
  BY <1>1, <1>2, <1>4, <1>5, <1>8, AloneStep
<1>14. u \notin overtaken' =>
          /\ AgreeOn(s)'
          /\ \A t \in Session \ {s} : t \in SessionsOf(u)' <=> t \in SessionsOf(u)
          /\ SessionsOf(u)' \subseteq Session
  BY <1>8, <1>9, <1>10, <1>11
<1> QED
  BY <1>2, <1>3, <1>5, <1>7, <1>8, <1>12, <1>13, <1>14, StepFor

\* disconnect counts what the entry holds by now.
LEMMA RemoveCountStep ==
    ASSUME Typed, PoolInv, NEW i \in Instance, RemoveCount(i)
    PROVE  /\ PoolInv'
           /\ busy[i].user \notin together => busy[i].user \in DOMAIN userPool
<1> USE UserOfAssumption
<1> PICK s, u : s = busy[i].sid /\ u = busy[i].user
  OBVIOUS
<1> PICK g : g = IF u \in DOMAIN userPool /\ userPool[u] = {}
                 THEN [at |-> "drop", sid |-> s, user |-> u] ELSE Idle
  OBVIOUS
<1>1. busy[i].at = "count" /\ busy[i] # Idle
  BY DEF RemoveCount, Idle
<1>2. s \in Session /\ u \in User /\ u = UserOf[s] /\ HomeOf[s] = i
  BY <1>1, At DEF PoolInv
<1>3. busy' = [busy EXCEPT ![i] = g] /\ UNCHANGED <<sessionPool, userPool, overtaken, together>>
  BY DEF RemoveCount, Goto, EndDisconnect, history
<1>4. (g.at = "drop" /\ g.sid = s /\ g.user = u) \/ (g = Idle /\ g.at = "idle")
  BY DEF Idle
<1>5. Step(s, g)
  BY <1>2, <1>3, <1>4 DEF Step
<1>6. Homely' /\ FrameInv' /\ NameInv'
  <2>1. sessionPool[s] = NoUser
    BY <1>1 DEF PoolInv, FrameInv
  <2>2. sessionPool' = [sessionPool EXCEPT ![s] = NoUser]
    BY <1>2, <1>3, <2>1 DEF Typed
  <2> QED
    BY <1>2, <1>4, <1>5, <2>2, FrameStep DEF PoolInv
<1>7. OthersKept(s)
  BY <1>3 DEF OthersKept, SessionsOf
<1>8. u \notin together => u \in DOMAIN userPool
  BY <1>1, <1>2 DEF PoolInv, Alone
<1>9. u \notin overtaken' => AgreeOn(s)'
  <2> SUFFICES ASSUME u \notin overtaken PROVE AgreeOn(s)'
    BY <1>3
  <2>1. AgreeOn(s)
    BY <1>2 DEF PoolInv
  <2>2. ~ Adding(s) /\ ~ Removing(s)
    BY <1>1, <1>2 DEF Adding, Removing
  <2>3. ~ Removing(s)'
    BY <1>2, <1>3, <1>4 DEF Removing, Typed
  <2> QED
    BY <1>2, <1>3, <2>1, <2>2, <2>3 DEF AgreeOn, SessionsOf
<1>10. SessionsOf(u)' = SessionsOf(u) /\ SessionsOf(u) \subseteq Session
  BY <1>2, <1>3, PoolChange DEF SessionsOf, Typed
<1>11. Emptied(u)'
  BY <1>1, <1>2, <1>3, <1>5, EmptiedStep
<1>12. u \notin together' => Alone(u)'
  <2>1. g.at \in {"count", "drop"} => u \in DOMAIN userPool'
    BY <1>3, <1>4 DEF Idle
  <2> QED
    BY <1>1, <1>2, <1>3, <1>5, <2>1, AloneStep
<1> QED
  BY <1>2, <1>3, <1>5, <1>6, <1>7, <1>8, <1>9, <1>10, <1>11, <1>12, StepFor

\* disconnect deletes the entry of its user, whatever it holds.
LEMMA RemoveDropStep ==
    ASSUME Typed, PoolInv, NEW i \in Instance, RemoveDrop(i)
    PROVE  /\ PoolInv'
           /\ busy[i].user \notin together => busy[i].user \in DOMAIN userPool
<1> USE UserOfAssumption
<1> PICK s, u : s = busy[i].sid /\ u = busy[i].user
  OBVIOUS
<1>1. busy[i].at = "drop" /\ busy[i] # Idle
  BY DEF RemoveDrop, Idle
<1>2. s \in Session /\ u \in User /\ u = UserOf[s] /\ HomeOf[s] = i
  BY <1>1, At DEF PoolInv
<1>3. /\ busy' = [busy EXCEPT ![i] = Idle] /\ UNCHANGED <<sessionPool, together>>
      /\ userPool' = Drop(userPool, u)
      /\ overtaken' = IF SessionsOf(u) # {} THEN overtaken \cup {u} ELSE overtaken
  BY DEF RemoveDrop, Goto, EndDisconnect, Overtaken
<1>4. Idle.at = "idle"
  BY DEF Idle
<1>5. Step(s, Idle)
  BY <1>2, <1>3 DEF Step
<1>6. Homely' /\ FrameInv' /\ NameInv'
  <2>1. sessionPool[s] = NoUser
    BY <1>1 DEF PoolInv, FrameInv
  <2>2. sessionPool' = [sessionPool EXCEPT ![s] = NoUser]
    BY <1>2, <1>3, <2>1 DEF Typed
  <2> QED
    BY <1>2, <1>4, <1>5, <2>2, FrameStep DEF PoolInv
<1>7. u \notin DOMAIN userPool' /\ SessionsOf(u)' = {} /\ OthersKept(s)
  BY <1>2, <1>3, DropRead DEF OthersKept
<1>8. u \notin together => u \in DOMAIN userPool
  BY <1>1, <1>2 DEF PoolInv, Alone
<1>9. u \notin overtaken' => AgreeOn(s)' /\ SessionsOf(u) = {}
  <2> SUFFICES ASSUME u \notin overtaken' PROVE AgreeOn(s)' /\ SessionsOf(u) = {}
    OBVIOUS
  <2>1. SessionsOf(u) = {} /\ u \notin overtaken
    BY <1>3
  <2>2. AgreeOn(s)
    BY <1>2, <2>1 DEF PoolInv
  <2>3. ~ Adding(s) /\ ~ Removing(s)
    BY <1>1, <1>2 DEF Adding, Removing
  <2>4. ~ Removing(s)'
    BY <1>2, <1>3, <1>4 DEF Removing, Typed
  <2> QED
    BY <1>2, <1>3, <1>7, <2>1, <2>2, <2>3, <2>4 DEF AgreeOn
<1>10. Emptied(u)'
  BY <1>7 DEF Emptied
<1>11. u \notin together' => Alone(u)'
  <2>1. Disconnecting(i, u)
    BY <1>1 DEF Disconnecting
  <2> QED
    BY <1>2, <1>4, <1>5, <2>1, AloneStep
<1>12. u \notin overtaken' =>
          /\ AgreeOn(s)'
          /\ \A t \in Session \ {s} : t \in SessionsOf(u)' <=> t \in SessionsOf(u)
          /\ SessionsOf(u)' \subseteq Session
  BY <1>7, <1>9
<1> QED
  BY <1>2, <1>3, <1>5, <1>6, <1>7, <1>8, <1>10, <1>11, <1>12, StepFor

\* Every command of every handler keeps the invariant of the pools.
LEMMA PoolStep ==
    ASSUME Typed, PoolInv, [Next]_vars
    PROVE  PoolInv'
<1>1. ASSUME UNCHANGED <<sessionPool, userPool, busy, overtaken, together>> PROVE PoolInv'
  BY <1>1 DEF PoolInv, Homely, FrameInv, NameInv, AgreeOn, Adding, Removing, Own, Emptied,
              Alone, Disconnecting, SessionsOf
<1>2. ASSUME NEW s \in Session, Connect(s) PROVE PoolInv'
  <2>1. CASE Join(s)
    BY <2>1, JoinStep
  <2>2. CASE ~Join(s)
    BY <1>1, <1>2, <2>2 DEF Connect, history
  <2> QED
    BY <2>1, <2>2
<1>3. ASSUME NEW s \in Session, UserJoin(s) PROVE PoolInv'
  BY <1>3, JoinStep DEF UserJoin
<1>4. CASE UNCHANGED vars
  BY <1>1, <1>4 DEF vars
<1> QED
  BY <1>2, <1>3, <1>4, DisconnectStep, AddReadStep, AddPutStep, RemoveReadStep,
     RemovePutStep, RemoveCountStep, RemoveDropStep DEF Next

\* disconnect only ends with a session taken out of the documents, unless a write
\* was overtaken or two sessions of the user disconnected at the same time.
LEMMA OwedStep ==
    ASSUME Typed, PoolInv, OwedInv, [Next]_vars
    PROVE  OwedInv'
<1>0. \A i \in Instance :
          /\ RemoveRead(i) => busy[i].user \in overtaken \/ busy[i].user \in DOMAIN userPool
          /\ RemoveCount(i) \/ RemoveDrop(i)
                => busy[i].user \in together \/ busy[i].user \in DOMAIN userPool
  BY RemoveReadStep, RemoveCountStep, RemoveDropStep
<1> USE UserOfAssumption, NoUserAssumption DEF Typed
<1>1. ASSUME NEW s \in Session, Join(s), socket'[s] # "closed",
             \A t \in Session \ {s} : socket'[t] = socket[t]
      PROVE  OwedInv'
  BY <1>1 DEF Join, OwedInv, history
<1>2. ASSUME NEW s \in Session, Connect(s) PROVE OwedInv'
  <2>1. socket[s] = "new" /\ socket' = [socket EXCEPT ![s] = "open"]
    BY <1>2 DEF Connect
  <2>2. CASE Join(s)
    BY <1>1, <2>1, <2>2
  <2>3. CASE ~Join(s)
    <3>1. UNCHANGED <<sessionPool, owed, overtaken, together>>
      BY <1>2, <2>3 DEF Connect, history
    <3> QED
      BY <2>1, <3>1 DEF OwedInv
  <2> QED
    BY <2>2, <2>3
<1>3. ASSUME NEW s \in Session, UserJoin(s) PROVE OwedInv'
  BY <1>1, <1>3 DEF UserJoin
<1>4. ASSUME NEW s \in Session, Disconnect(s) PROVE OwedInv'
  BY <1>4 DEF Disconnect, OwedInv
<1>5. ASSUME NEW i \in Instance, busy[i] # Idle, NEW n \in BOOLEAN, EndDisconnect(i, n),
             ~n => busy[i].user \in overtaken \cup together,
             UNCHANGED sessionPool, overtaken \subseteq overtaken', together \subseteq together'
      PROVE  OwedInv'
  <2>1. busy[i].sid \in Session /\ busy[i].user = UserOf[busy[i].sid]
    BY <1>5, At DEF PoolInv
  <2>2. CASE n
    BY <1>5, <2>1, <2>2 DEF EndDisconnect, OwedInv
  <2>3. CASE ~n
    BY <1>5, <2>1, <2>3 DEF EndDisconnect, OwedInv
  <2> QED
    BY <2>2, <2>3
<1>6. ASSUME UNCHANGED <<socket, sessionPool, owed>>,
             overtaken \subseteq overtaken', together \subseteq together'
      PROVE  OwedInv'
  BY <1>6 DEF OwedInv
<1>7. ASSUME NEW i \in Instance, RemoveRead(i) PROVE OwedInv'
  <2>0. busy[i].user \in overtaken \/ busy[i].user \in DOMAIN userPool
    BY <1>0, <1>7
  <2>1. busy[i] # Idle
    BY <1>7 DEF RemoveRead, Idle
  <2>2. UNCHANGED <<sessionPool, overtaken, together>>
    BY <1>7 DEF RemoveRead, history
  <2>3. CASE busy[i].user \in DOMAIN userPool
    BY <1>6, <1>7, <2>2, <2>3 DEF RemoveRead
  <2>4. CASE busy[i].user \notin DOMAIN userPool
    <3>1. EndDisconnect(i, FALSE)
      BY <1>7, <2>4 DEF RemoveRead
    <3> QED
      BY <1>5, <2>0, <2>1, <2>2, <2>4, <3>1
  <2> QED
    BY <2>3, <2>4
<1>8. ASSUME NEW i \in Instance, RemoveCount(i) PROVE OwedInv'
  <2>0. busy[i].user \in together \/ busy[i].user \in DOMAIN userPool
    BY <1>0, <1>8
  <2>1. busy[i] # Idle
    BY <1>8 DEF RemoveCount, Idle
  <2>2. UNCHANGED <<sessionPool, overtaken, together>>
    BY <1>8 DEF RemoveCount, history
  <2>3. CASE busy[i].user \in DOMAIN userPool /\ userPool[busy[i].user] = {}
    BY <1>6, <1>8, <2>2, <2>3 DEF RemoveCount
  <2>4. CASE busy[i].user \in DOMAIN userPool /\ userPool[busy[i].user] # {}
    <3>1. EndDisconnect(i, TRUE)
      BY <1>8, <2>4 DEF RemoveCount
    <3> QED
      BY <1>5, <2>1, <2>2, <3>1
  <2>5. CASE busy[i].user \notin DOMAIN userPool
    <3>1. EndDisconnect(i, FALSE)
      BY <1>8, <2>5 DEF RemoveCount
    <3> QED
      BY <1>5, <2>0, <2>1, <2>2, <2>5, <3>1
  <2> QED
    BY <2>3, <2>4, <2>5
<1>9. ASSUME NEW i \in Instance, RemoveDrop(i) PROVE OwedInv'
  <2>0. busy[i].user \in together \/ busy[i].user \in DOMAIN userPool
    BY <1>0, <1>9
  <2>1. busy[i] # Idle
    BY <1>9 DEF RemoveDrop, Idle
  <2>2. UNCHANGED sessionPool /\ overtaken \subseteq overtaken' /\ together \subseteq together'
    BY <1>9 DEF RemoveDrop, Overtaken
  <2>3. CASE busy[i].user \in DOMAIN userPool
    <3>1. EndDisconnect(i, TRUE)
      <4>1. (busy[i].user \in DOMAIN userPool) = TRUE
        BY <2>3
      <4> QED
        BY <1>9, <4>1 DEF RemoveDrop
    <3> QED
      BY <1>5, <2>1, <2>2, <3>1
  <2>4. CASE busy[i].user \notin DOMAIN userPool
    <3>1. EndDisconnect(i, FALSE)
      <4>1. (busy[i].user \in DOMAIN userPool) = FALSE
        BY <2>4
      <4> QED
        BY <1>9, <4>1 DEF RemoveDrop
    <3> QED
      BY <1>5, <2>0, <2>1, <2>2, <2>4, <3>1
  <2> QED
    BY <2>3, <2>4
<1>10. ASSUME NEW i \in Instance, AddRead(i) \/ AddPut(i) \/ RemovePut(i) PROVE OwedInv'
  BY <1>6, <1>10 DEF AddRead, AddPut, RemovePut, Overtaken
<1>11. CASE UNCHANGED vars
  BY <1>6, <1>11 DEF vars
<1> QED
  BY <1>2, <1>3, <1>4, <1>7, <1>8, <1>9, <1>10, <1>11 DEF Next

\* At first nobody is connected and no handler runs.
LEMMA PoolInit == Init => PoolInv /\ OwedInv
<1> SUFFICES ASSUME Init PROVE PoolInv /\ OwedInv
  OBVIOUS
<1> USE HomeAssumption, UserOfAssumption, NoUserAssumption DEF Init
<1>1. \A i \in Instance : busy[i] = Idle /\ busy[i].at = "idle"
  BY DEF Idle
<1>2. Homely /\ FrameInv /\ NameInv /\ OwedInv
  BY <1>1 DEF Homely, FrameInv, NameInv, OwedInv
<1>3. \A u \in User : SessionsOf(u) = {} /\ u \notin DOMAIN userPool
  BY DEF SessionsOf
<1>4. \A s \in Session : sessionPool[s] = NoUser /\ ~ Removing(s) /\ UserOf[s] \in User
  BY <1>1 DEF Removing
<1>5. \A s \in Session : AgreeOn(s)
  BY <1>3, <1>4 DEF AgreeOn
<1>6. \A u \in User : Own(u) /\ Emptied(u) /\ Alone(u)
  BY <1>1, <1>3 DEF Own, Emptied, Alone, Disconnecting
<1> QED
  BY <1>2, <1>5, <1>6 DEF PoolInv

LEMMA PoolsAlways == Spec => [](Typed /\ PoolInv /\ OwedInv)
<1>1. Init => Typed /\ PoolInv /\ OwedInv
  BY TypeInit, PoolInit
<1>2. Typed /\ PoolInv /\ OwedInv /\ [Next]_vars => (Typed /\ PoolInv /\ OwedInv)'
  BY TypeStep, PoolStep, OwedStep
<1> QED
  BY <1>1, <1>2, PTL DEF Spec

--------------------------------------------------------------------------------
(* The theorems *)

\* Between handlers events for a user go to each of the user's sessions and to
\* no other, for any processes, users and sessions, wherever these are, as long
\* as no change of the user's list was overtaken by another.
THEOREM PoolsAgreeAlways == Spec => []PoolsAgree
<1>1. Typed /\ PoolInv => PoolsAgree
  <2> SUFFICES ASSUME Typed, PoolInv, NEW u \in User \ overtaken, Quiet(u)
               PROVE  SessionsOf(u) = {s \in Session : sessionPool[s] = u}
    BY DEF PoolsAgree
  <2>1. SessionsOf(u) \subseteq Session /\ Own(u)
    BY PoolChange DEF Typed, SessionsOf, PoolInv
  <2>2. ASSUME NEW s \in Session, UserOf[s] = u
        PROVE  s \in SessionsOf(u) <=> sessionPool[s] = u
    <3>1. busy[HomeOf[s]].at # "idle" => busy[HomeOf[s]] # Idle /\ busy[HomeOf[s]].user # u
      BY HomeAssumption DEF Quiet, Idle
    <3>2. ~ Adding(s) /\ ~ Removing(s)
      <4>1. ASSUME busy[HomeOf[s]].at # "idle", busy[HomeOf[s]].sid = s PROVE FALSE
        BY <2>2, <3>1, <4>1, At, HomeAssumption DEF PoolInv
      <4> QED
        BY <4>1 DEF Adding, Removing
    <3> QED
      BY <2>2, <3>2 DEF PoolInv, AgreeOn
  <2>3. ASSUME NEW s \in Session, sessionPool[s] = u PROVE UserOf[s] = u
    BY <2>3, NoUserAssumption DEF PoolInv, NameInv
  <2> QED
    BY <2>1, <2>2, <2>3 DEF Own
<1> QED
  BY <1>1, PoolsAlways, PTL

\* A user without a handler at work counts as active only with a session in the
\* entry, whatever has been overtaken before: the handler that writes an empty
\* list is the one that deletes it, unless another has filled it by then.
THEOREM ActiveHasSessionAlways == Spec => []ActiveHasSession
<1>1. Typed /\ PoolInv => ActiveHasSession
  <2> SUFFICES ASSUME Typed, PoolInv, NEW u \in DOMAIN userPool, Quiet(u), userPool[u] = {}
               PROVE  FALSE
    BY DEF ActiveHasSession
  <2>1. u \in User
    BY DEF Typed, Pools
  <2>2. PICK i \in Instance : busy[i].at \in {"count", "drop"} /\ busy[i].user = u
    BY <2>1 DEF PoolInv, Emptied
  <2> QED
    BY <2>2 DEF Quiet, Idle
<1> QED
  BY <1>1, PoolsAlways, PTL

\* No KeyError ends disconnect before the session is out of every document, unless
\* two sessions of the user disconnect at the same time on two processes or a
\* change of the user's list was overtaken before.
THEOREM EndedLeavesDocumentsAlways == Spec => []EndedLeavesDocuments
<1>1. OwedInv => EndedLeavesDocuments
  BY DEF OwedInv, EndedLeavesDocuments
<1> QED
  BY <1>1, PoolsAlways, PTL

================================================================================
