---------------------------- MODULE ChatSync_proofs ----------------------------
(***************************************************************************)
(* Proofs about ChatSync, for any number of chats, answers, moves, saves   *)
(* and mishaps: that chats stay apart, that whoever stays has everything   *)
(* stored, and that answers are ready when nothing is under way.           *)
(***************************************************************************)
EXTENDS ChatSync, SequenceTheorems, TLAPS

--------------------------------------------------------------------------------
(* Sequences of saves and of events *)

LEMMA AppendElements ==
    ASSUME NEW S, NEW s \in Seq(S), NEW e \in S
    PROVE  /\ Append(s, e) \in Seq(S) /\ Len(s) \in Nat /\ Len(Append(s, e)) = Len(s) + 1
           /\ DOMAIN s = 1 .. Len(s) /\ DOMAIN Append(s, e) = 1 .. Len(s) + 1
           /\ \A i \in 1 .. Len(s) : Append(s, e)[i] = s[i]
           /\ Append(s, e)[Len(s) + 1] = e
           /\ \A i \in DOMAIN s : i \in DOMAIN Append(s, e) /\ Append(s, e)[i] = s[i]
           /\ \A i \in DOMAIN Append(s, e) :
                 \/ i \in DOMAIN s /\ Append(s, e)[i] = s[i]
                 \/ i = Len(s) + 1 /\ Append(s, e)[i] = e
           /\ \A i \in DOMAIN s : i < Len(s) + 1
           /\ Append(s, e) # <<>>
<1>1. /\ Append(s, e) \in Seq(S) /\ Len(Append(s, e)) = Len(s) + 1
      /\ \A i \in 1 .. Len(s) : Append(s, e)[i] = s[i]
      /\ Append(s, e)[Len(s) + 1] = e
  BY AppendProperties
<1>2. DOMAIN s = 1 .. Len(s) /\ DOMAIN Append(s, e) = 1 .. Len(s) + 1 /\ Len(s) \in Nat
  BY <1>1, LenProperties
<1>3. Append(s, e) # <<>>
  BY <1>1, <1>2, EmptySeq
<1> QED
  BY <1>1, <1>2, <1>3

LEMMA TailElements ==
    ASSUME NEW S, NEW s \in Seq(S), s # <<>>
    PROVE  /\ Tail(s) \in Seq(S) /\ Len(s) \in Nat /\ Len(Tail(s)) = Len(s) - 1
           /\ DOMAIN s = 1 .. Len(s) /\ DOMAIN Tail(s) = 1 .. Len(s) - 1
           /\ 1 \in DOMAIN s /\ Head(s) = s[1] /\ Head(s) \in S
           /\ \A i \in DOMAIN Tail(s) : i + 1 \in DOMAIN s /\ Tail(s)[i] = s[i + 1]
           /\ \A i \in DOMAIN s : i # 1 => i - 1 \in DOMAIN Tail(s) /\ Tail(s)[i - 1] = s[i]
<1>1. /\ Tail(s) \in Seq(S) /\ Len(s) \in Nat \ {0} /\ Len(Tail(s)) = Len(s) - 1
      /\ \A i \in 1 .. Len(Tail(s)) : Tail(s)[i] = s[i + 1]
      /\ Head(s) \in S
  BY HeadTailProperties, EmptySeq
<1>2. DOMAIN s = 1 .. Len(s) /\ DOMAIN Tail(s) = 1 .. Len(s) - 1 /\ Head(s) = s[1]
  BY <1>1, LenProperties
<1>3. ASSUME NEW i \in DOMAIN s, i # 1
      PROVE  i - 1 \in DOMAIN Tail(s) /\ Tail(s)[i - 1] = s[i]
  <2>1. i - 1 \in 1 .. Len(s) - 1 /\ (i - 1) + 1 = i
    BY <1>1, <1>2, <1>3
  <2> QED
    BY <1>1, <1>2, <2>1
<1> QED
  BY <1>1, <1>2, <1>3

LEMMA RemoveAtElements ==
    ASSUME NEW S, NEW s \in Seq(S), NEW k \in DOMAIN s
    PROVE  /\ RemoveAt(s, k) \in Seq(S) /\ Len(s) \in Nat \ {0}
           /\ Len(RemoveAt(s, k)) = Len(s) - 1
           /\ DOMAIN s = 1 .. Len(s) /\ DOMAIN RemoveAt(s, k) = 1 .. Len(s) - 1
           /\ \A i \in 1 .. Len(s) - 1 : RemoveAt(s, k)[i] = IF i < k THEN s[i] ELSE s[i + 1]
<1>0. DOMAIN s = 1 .. Len(s) /\ Len(s) \in Nat /\ k \in 1 .. Len(s)
      /\ \A i \in 1 .. Len(s) : s[i] \in S
  BY LenProperties
<1> DEFINE a == SubSeq(s, 1, k - 1)
           b == SubSeq(s, k + 1, Len(s))
           r == RemoveAt(s, k)
<1>1. a \in Seq(S) /\ Len(a) = k - 1 /\ \A i \in 1 .. k - 1 : a[i] = s[i]
  BY <1>0, SubSeqProperties
<1>2. /\ b \in Seq(S) /\ Len(b) = Len(s) - k
      /\ \A i \in 1 .. Len(s) - k : b[i] = s[k + i]
  <2>1. k + 1 \in Int /\ Len(s) \in Int /\ Len(s) - (k + 1) + 1 = Len(s) - k
    BY <1>0
  <2>2. \A i \in k + 1 .. Len(s) : s[i] \in S
    BY <1>0
  <2>3. /\ b \in Seq(S) /\ Len(b) = IF k + 1 <= Len(s) THEN Len(s) - (k + 1) + 1 ELSE 0
        /\ \A i \in 1 .. Len(s) - (k + 1) + 1 : b[i] = s[(k + 1) + i - 1]
    BY <2>1, <2>2, SubSeqProperties
  <2>4. ASSUME NEW i \in 1 .. Len(s) - k PROVE b[i] = s[k + i]
    <3>1. b[i] = s[(k + 1) + i - 1]
      BY <2>1, <2>3
    <3>2. (k + 1) + i - 1 = k + i
      BY <1>0
    <3> QED
      BY <3>1, <3>2
  <2>5. Len(b) = Len(s) - k
    <3>1. CASE k = Len(s)
      <4>1. ~(k + 1 <= Len(s)) /\ Len(s) - k = 0
        BY <1>0, <3>1
      <4> QED
        BY <2>3, <4>1
    <3>2. CASE k < Len(s)
      <4>1. k + 1 <= Len(s) /\ Len(s) - (k + 1) + 1 = Len(s) - k
        BY <1>0, <3>2
      <4> QED
        BY <2>3, <4>1
    <3>3. k \in Int /\ Len(s) \in Int /\ k <= Len(s)
      BY <1>0
    <3> QED
      BY <3>1, <3>2, <3>3
  <2> QED
    BY <2>3, <2>4, <2>5
<1>3. r = a \o b
  BY DEF RemoveAt
<1> HIDE DEF a, b, r
<1>4. /\ r \in Seq(S) /\ Len(r) = Len(a) + Len(b)
      /\ \A i \in 1 .. Len(a) + Len(b) : r[i] = IF i <= Len(a) THEN a[i] ELSE b[i - Len(a)]
  BY <1>1, <1>2, <1>3, ConcatProperties
<1>5. Len(a) + Len(b) = Len(s) - 1
  BY <1>0, <1>1, <1>2
<1>6. ASSUME NEW i \in 1 .. Len(s) - 1 PROVE r[i] = IF i < k THEN s[i] ELSE s[i + 1]
  <2>1. CASE i < k
    <3>1. i \in 1 .. k - 1 /\ i \in 1 .. Len(a) + Len(b) /\ i <= Len(a)
      BY <1>0, <1>1, <1>5, <2>1
    <3> QED
      BY <1>1, <1>4, <2>1, <3>1
  <2>2. CASE i >= k
    <3>1. i - (k - 1) \in 1 .. Len(s) - k /\ i \in 1 .. Len(a) + Len(b) /\ ~(i <= Len(a))
      BY <1>0, <1>1, <1>2, <1>5, <2>2
    <3>2. r[i] = b[i - (k - 1)] /\ b[i - (k - 1)] = s[k + (i - (k - 1))]
      BY <1>1, <1>2, <1>4, <3>1
    <3>3. k + (i - (k - 1)) = i + 1
      BY <1>0
    <3> QED
      BY <1>0, <2>2, <3>2, <3>3
  <2> QED
    BY <1>0, <2>1, <2>2
<1>7. DOMAIN r = 1 .. Len(s) - 1
  BY <1>4, <1>5, LenProperties
<1>8. Len(s) # 0
  BY <1>0
<1> QED
  BY <1>0, <1>4, <1>5, <1>6, <1>7, <1>8 DEF r

--------------------------------------------------------------------------------
(* Histories *)

\* The text of one answer changes.
LEMMA RowText ==
    ASSUME NEW row \in Row, NEW m \in Msg, NEW x \in Text, NEW new,
           new = [row EXCEPT !.text[m] = x]
    PROVE  /\ new \in Row /\ new.of = row.of /\ new.current = row.current
           /\ new.text = [row.text EXCEPT ![m] = x]
           /\ new.text[m] = x /\ \A k \in Msg \ {m} : new.text[k] = row.text[k]
BY DEF Row

\* An answer is put in, and is the current one.
LEMMA RowAnswer ==
    ASSUME NEW row \in Row, NEW m \in Msg, NEW x \in Text, NEW new,
           new = [row EXCEPT !.text[m] = x, !.current = m]
    PROVE  /\ new \in Row /\ new.of = row.of /\ new.current = m
           /\ new.text[m] = x /\ \A k \in Msg \ {m} : new.text[k] = row.text[k]
BY DEF Row

\* What the task of an answer writes into the row it was told to write to.
LEMMA UpsertRow ==
    ASSUME NEW m \in Msg, NEW x \in Text, stored \in [Chat -> Row], target[m] \in Chat,
           Upsert(m, x)
    PROVE  /\ stored' \in [Chat -> Row]
           /\ \A c \in Chat \ {target[m]} : stored'[c] = stored[c]
           /\ stored'[target[m]].of = stored[target[m]].of
           /\ stored'[target[m]].current = m
           /\ stored'[target[m]].text[m] = x
           /\ \A k \in Msg \ {m} : stored'[target[m]].text[k] = stored[target[m]].text[k]
<1> DEFINE new == [stored[target[m]] EXCEPT !.text[m] = x, !.current = m]
<1>1. stored' = [stored EXCEPT ![target[m]] = new]
  <2> DEFINE c == target[m]
             half == [stored[c] EXCEPT !.text[m] = x]
             one == [stored EXCEPT ![c] = half]
  <2>1. stored' = [one EXCEPT ![c].current = m]
    BY DEF Upsert
  <2> HIDE DEF half
  <2>2. one \in [Chat -> Row \cup {half}] /\ one[c] = half
    OBVIOUS
  <2>3. stored' = [one EXCEPT ![c] = [half EXCEPT !.current = m]]
    BY <2>1, <2>2
  <2>4. [half EXCEPT !.current = m] = new
    BY DEF half
  <2> HIDE DEF new
  <2> QED
    BY <2>3, <2>4
<1>2. /\ new \in Row /\ new.of = stored[target[m]].of /\ new.current = m
      /\ new.text[m] = x /\ \A k \in Msg \ {m} : new.text[k] = stored[target[m]].text[k]
  <2> DEFINE row == stored[target[m]]
  <2>1. row \in Row /\ new = [row EXCEPT !.text[m] = x, !.current = m]
    OBVIOUS
  <2> HIDE DEF row, new
  <2>2. /\ new \in Row /\ new.of = row.of /\ new.current = m
        /\ new.text[m] = x /\ \A k \in Msg \ {m} : new.text[k] = row.text[k]
    BY <2>1 DEF Row
  <2> QED
    BY <2>2 DEF row
<1> HIDE DEF new
<1> QED
  BY <1>1, <1>2

\* What chatCompletedHandler makes of the history: it adds no answer, and each text is
\* the one that was there or the one it has.
There(c, m) == \A k \in 1 .. m : c.text[k] # Absent => k \in Present(hist)

LEMMA CompletedRow ==
    ASSUME hist \in Row, NEW c \in [chat : Chat, text : [Msg -> Text]], Completed(c)
    PROVE  /\ hist' \in Row /\ hist'.of = hist.of /\ hist'.current = hist.current
           /\ Present(hist') = Present(hist)
           /\ \A m \in Msg :
                 \/ hist'.text[m] = hist.text[m]
                 \/ c.text[m] # Absent /\ hist'.text[m] = c.text[m] /\ m \in Present(hist)
           /\ IF c.chat = shown /\ \A m \in Msg : There(c, m)
              THEN Save(shown, hist', Null, TRUE)
              ELSE UNCHANGED <<saves, mishap>>
           /\ (\A m \in Msg : There(c, m)) =>
                 \A m \in Msg : c.text[m] # Absent =>
                     hist'.text[m] = c.text[m] /\ m \in Present(hist)
           /\ completing' = completing \ {c}
           /\ held' = Detached({m \in Msg : c.text[m] # Absent /\ There(c, m)})
           /\ UNCHANGED <<shown, loading, done, fetched, loads, stored, replies, asked, task,
                          target, events, counts>>
<1> DEFINE txt == [m \in Msg |-> IF c.text[m] # Absent /\ There(c, m) THEN c.text[m]
                                ELSE hist.text[m]]
<1>1. /\ hist' = [hist EXCEPT !.text = txt]
      /\ IF c.chat = shown /\ \A m \in Msg : There(c, m)
         THEN Save(shown, hist', Null, TRUE)
         ELSE UNCHANGED <<saves, mishap>>
      /\ completing' = completing \ {c}
      /\ held' = Detached({m \in Msg : c.text[m] # Absent /\ There(c, m)})
      /\ UNCHANGED <<shown, loading, done, fetched, loads, stored, replies, asked, task,
                     target, events, counts>>
  BY DEF Completed, There
<1>2. ASSUME NEW m \in Msg, c.text[m] # Absent, There(c, m) PROVE m \in Present(hist)
  <2>1. m \in 1 .. m
    BY BoundsAssumption DEF Msg
  <2> QED
    BY <1>2, <2>1 DEF There
<1>3. txt \in [Msg -> Text]
  BY DEF Row
<1>4. \A m \in Msg : /\ c.text[m] # Absent /\ There(c, m) => txt[m] = c.text[m]
                     /\ ~(c.text[m] # Absent /\ There(c, m)) => txt[m] = hist.text[m]
  OBVIOUS
<1> HIDE DEF txt
<1>5. hist' \in Row /\ hist'.of = hist.of /\ hist'.current = hist.current /\ hist'.text = txt
  BY <1>1, <1>3 DEF Row
<1>6. Present(hist') = Present(hist)
  BY <1>2, <1>4, <1>5 DEF Present
<1> QED
  BY <1>1, <1>2, <1>4, <1>5, <1>6

--------------------------------------------------------------------------------
(* Types, and what is known of an answer only after it was asked for *)

LoadCall == [id : 0 .. MaxMoves, chat : Chat, row : Row,
             at : {"sent", "read", "tags", "settings", "shown"}]
SaveCall == [chat : Chat, row : Row, for : Msg \cup {Null}, kept : BOOLEAN]
Reply    == [row : Row, for : Msg \cup {Null}]
Event    == [msg : Msg, chat : Chat, text : {Part, Full}]
Hook     == [chat : Chat, text : [Msg -> Text]]
Holder   == [msg : Msg, at : {"sent", "read", "wait", "save"}, row : Row, text : Text,
             done : BOOLEAN, left : 0 .. 2]

\* The type invariant with names for the sets of records.
Typed ==
    /\ shown \in Chat /\ loading \in BOOLEAN
    /\ hist \in Row /\ fetched \in Row /\ done \subseteq Present(hist)
    /\ loads \subseteq LoadCall
    /\ stored \in [Chat -> Row]
    /\ saves \in Seq(SaveCall)
    /\ replies \subseteq Reply
    /\ parent \in [Msg -> Msg \cup {Null}] /\ \A m \in Msg : parent[m] < m
    /\ home \in [Msg -> Chat] /\ target \in [Msg -> Chat]
    /\ task \in [Msg -> TaskStates]
    /\ events \in Seq(Event)
    /\ completing \subseteq Hook
    /\ held \subseteq Holder
    /\ counts \in [moves : 0 .. MaxMoves, ratings : 0 .. MaxRatings, asides : 0 .. MaxAsides]
    /\ mishap \subseteq Mishaps

LEMMA TypedIsTypeOK == Typed <=> TypeOK
BY DEF Typed, TypeOK, LoadCall, SaveCall, Reply, Event, Hook, Holder

AskedFor == {m \in Msg : task[m] # "none"}
Holds(texts) == {m \in Msg : texts[m] # Absent}

\* A history names no other answers than those in A.
Knows(A, row) == Present(row) \subseteq A /\ row.current \in A \cup {Null}

\* Answers are asked for in their order, and nothing names one before.
Known ==
    /\ \A m \in AskedFor : 1 .. m - 1 \subseteq AskedFor
    /\ Knows(AskedFor, hist) /\ Knows(AskedFor, fetched)
    /\ \A c \in Chat : Knows(AskedFor, stored[c])
    /\ \A l \in loads : Knows(AskedFor, l.row)
    /\ \A i \in DOMAIN saves : Knows(AskedFor, saves[i].row)
    /\ \A r \in replies : Knows(AskedFor, r.row)
    /\ \A i \in DOMAIN events : events[i].msg \in AskedFor
    /\ \A m \in Msg : parent[m] \in AskedFor \cup {Null}
    /\ \A c \in completing : Holds(c.text) \subseteq AskedFor /\ Holds(c.text) # {}
    /\ \A h \in held : h.msg \in AskedFor /\ Knows(AskedFor, h.row)
    /\ \A h \in held : h.at = "save" => h.left # 0

LEMMA KnowsMore ==
    ASSUME NEW A, NEW B, A \subseteq B, NEW row, Knows(A, row) PROVE Knows(B, row)
BY DEF Knows

\* Nothing but Send, SaveReturns and the steps of the task changes AskedFor.
LEMMA SameTasks == ASSUME UNCHANGED task PROVE AskedFor' = AskedFor
BY DEF AskedFor

LEMMA MishapGrows ==
    ASSUME mishap \subseteq Mishaps, NEW cond, NEW what \in Mishaps, MishapIf(cond, what)
    PROVE  mishap' \subseteq Mishaps /\ mishap \subseteq mishap' /\ (cond => what \in mishap')
BY DEF MishapIf

\* A save joins the queue.
LEMMA SaveJoins ==
    ASSUME saves \in Seq(SaveCall), mishap \subseteq Mishaps,
           NEW c \in Chat, NEW row \in Row, NEW m \in Msg \cup {Null}, NEW k \in BOOLEAN,
           Save(c, row, m, k)
    PROVE  /\ saves' \in Seq(SaveCall)
           /\ Len(saves) \in Nat /\ Len(saves') = Len(saves) + 1
           /\ DOMAIN saves = 1 .. Len(saves) /\ DOMAIN saves' = 1 .. Len(saves) + 1
           /\ \A i \in DOMAIN saves' : i \in DOMAIN saves \/ i = Len(saves) + 1
           /\ \A i \in DOMAIN saves : saves'[i] = saves[i]
           /\ saves'[Len(saves) + 1].chat = c /\ saves'[Len(saves) + 1].row = row
           /\ saves'[Len(saves) + 1].for = m /\ saves'[Len(saves) + 1].kept = k
           /\ mishap' \subseteq Mishaps /\ mishap \subseteq mishap'
           /\ (Underway \cap Present(row)) \ {m} # {} => "early" \in mishap'
<1>1. [chat |-> c, row |-> row, for |-> m, kept |-> k] \in SaveCall
  BY DEF SaveCall
<1>2. "early" \in Mishaps
  BY DEF Mishaps
<1> DEFINE new == [chat |-> c, row |-> row, for |-> m, kept |-> k]
<1>3. saves' = Append(saves, new) /\ MishapIf((Underway \cap Present(row)) \ {m} # {}, "early")
  BY DEF Save
<1> HIDE DEF new
<1>4. new \in SaveCall
  BY <1>1 DEF new
<1>5. /\ saves' \in Seq(SaveCall)
      /\ Len(saves) \in Nat /\ Len(saves') = Len(saves) + 1
      /\ DOMAIN saves = 1 .. Len(saves) /\ DOMAIN saves' = 1 .. Len(saves) + 1
      /\ \A i \in DOMAIN saves' : i \in DOMAIN saves \/ i = Len(saves) + 1
      /\ \A i \in DOMAIN saves : saves'[i] = saves[i]
      /\ saves'[Len(saves) + 1] = new
  BY <1>3, <1>4, AppendElements
<1>6. /\ mishap' \subseteq Mishaps /\ mishap \subseteq mishap'
      /\ (Underway \cap Present(row)) \ {m} # {} => "early" \in mishap'
  BY <1>2, <1>3 DEF MishapIf
<1> QED
  BY <1>3, <1>5, <1>6 DEF new

\* A load goes on.
LEMMA LoadMoves ==
    ASSUME loads \subseteq LoadCall, NEW l \in loads, NEW at \in {"read", "tags", "settings", "shown"},
           NEW row \in Row, LoadTo(l, at, row)
    PROVE  \E k \in LoadCall : /\ k.id = l.id /\ k.chat = l.chat /\ k.at = at /\ k.row = row
                              /\ loads' = (loads \ {l}) \cup {k}
<1> DEFINE k == [l EXCEPT !.at = at, !.row = row]
<1>1. l \in LoadCall
  OBVIOUS
<1>2. k \in LoadCall /\ k.id = l.id /\ k.chat = l.chat /\ k.at = at /\ k.row = row
  BY <1>1 DEF LoadCall
<1>3. loads' = (loads \ {l}) \cup {k}
  BY DEF LoadTo
<1> HIDE DEF k
<1> QED
  BY <1>2, <1>3

--------------------------------------------------------------------------------
(* Handlers that hold a message *)

\* A step of a load, a handler that begins, a step of one that waits.
LoadStep(l) == RowRead(l) \/ RowComes(l) \/ Install(l) \/ MarkDone(l) \/ Loaded(l)
Begins(m) == Aside(m) \/ Copy(m)
HeldStep(h) == TagsRead(h) \/ TagsCome(h) \/ Resume(h) \/ SaveCopy(h)

\* Everything but the page's history, what handlers hold and counts.
Elsewhere == <<shown, loading, loads, stored, replies, parent, home, task, target, events,
               completing>>

LEMMA BlankRow ==
    ASSUME NEW c \in Chat
    PROVE  Blank(c) \in Row /\ Blank(c).current = Null /\ Present(Blank(c)) = {}
<1>1. Blank(c) \in Row /\ Blank(c).current = Null /\ \A m \in Msg : Blank(c).text[m] = Absent
  BY DEF Blank, Row, Text, Absent, Full
<1> QED
  BY <1>1 DEF Present

\* When messages of the history are replaced, a handler that held one of them has the text
\* it had; nothing else of a handler changes.
LEMMA DetachedHolders ==
    ASSUME held \subseteq Holder, hist \in Row, NEW ms, NEW h \in Detached(ms)
    PROVE  /\ h \in Holder
           /\ \E g \in held : /\ h.msg = g.msg /\ h.row = g.row /\ h.left = g.left
                              /\ h.at = g.at
                              /\ \/ h.text = g.text /\ h.done = g.done
                                 \/ /\ h.msg \in ms /\ h.text = hist.text[h.msg]
                                    /\ h.done = (h.msg \in done)
<1>1. PICK g \in held :
         h = IF g.text = Absent /\ g.msg \in ms
             THEN [g EXCEPT !.text = hist.text[g.msg], !.done = g.msg \in done] ELSE g
  BY DEF Detached
<1>2. g \in Holder /\ hist.text[g.msg] \in Text /\ (g.msg \in done) \in BOOLEAN
  BY DEF Holder, Row
<1>3. CASE g.text = Absent /\ g.msg \in ms
  <2> DEFINE x == hist.text[g.msg]
             d == g.msg \in done
  <2>1. x \in Text /\ d \in BOOLEAN
    BY <1>2
  <2>2. h = [g EXCEPT !.text = x, !.done = d]
    BY <1>1, <1>3
  <2> HIDE DEF x, d
  <2>3. /\ h \in Holder /\ h.msg = g.msg /\ h.row = g.row /\ h.left = g.left
        /\ h.at = g.at /\ h.text = x /\ h.done = d
    BY <1>2, <2>1, <2>2 DEF Holder
  <2> QED
    BY <1>3, <2>3 DEF x, d
<1>4. CASE ~(g.text = Absent /\ g.msg \in ms)
  BY <1>1, <1>2, <1>4
<1> QED
  BY <1>3, <1>4

\* A handler begins: it holds a message that the history has, a copy only of a done one
\* and while the page is not loading.
LEMMA BeginsEffect ==
    ASSUME Typed, NEW m \in Msg, Begins(m)
    PROVE  /\ \E k \in Holder :
                 /\ held' = held \cup {k} /\ k.msg = m /\ k.row = Blank(shown) /\ k.at # "save"
                 /\ \/ k.text = Absent
                    \/ m \in done /\ k.text = hist.text[m] /\ k.done
                 /\ k.left > 0 => ~loading
           /\ m \in Present(hist)
           /\ counts' \in [moves : 0 .. MaxMoves, ratings : 0 .. MaxRatings,
                           asides : 0 .. MaxAsides]
           /\ counts'.moves = counts.moves
           /\ UNCHANGED <<hist, done, fetched, saves, mishap, Elsewhere>>
<1>1. ASSUME NEW at \in {"sent", "wait"}, NEW x \in Text, NEW left \in 0 .. 2, Hold(m, at, x, left),
             x = Absent \/ (m \in done /\ x = hist.text[m]), left > 0 => ~loading
      PROVE  /\ \E k \in Holder :
                   /\ held' = held \cup {k} /\ k.msg = m /\ k.row = Blank(shown) /\ k.at # "save"
                   /\ \/ k.text = Absent
                      \/ m \in done /\ k.text = hist.text[m] /\ k.done
                   /\ k.left > 0 => ~loading
             /\ m \in Present(hist)
             /\ counts' \in [moves : 0 .. MaxMoves, ratings : 0 .. MaxRatings,
                             asides : 0 .. MaxAsides]
             /\ counts'.moves = counts.moves
             /\ UNCHANGED <<hist, done, fetched, saves, mishap, Elsewhere>>
  <2> DEFINE b == Blank(shown)
             d == x # Absent
             k == [msg |-> m, at |-> at, row |-> b, text |-> x, done |-> d, left |-> left]
  <2>0. shown \in Chat
    BY DEF Typed
  <2>1. b \in Row /\ d \in BOOLEAN
    <3>1. b \in Row
      BY <2>0, BlankRow
    <3>2. (x # Absent) \in BOOLEAN
      OBVIOUS
    <3> QED
      BY <3>1, <3>2
  <2>2. held' = held \cup {k}
    BY <1>1 DEF Hold
  <2>3. d <=> x # Absent
    OBVIOUS
  <2>4. /\ counts' \in [moves : 0 .. MaxMoves, ratings : 0 .. MaxRatings,
                        asides : 0 .. MaxAsides]
        /\ counts'.moves = counts.moves
    <3>1. counts' = [counts EXCEPT !.asides = @ + 1] /\ counts.asides < MaxAsides
      BY <1>1 DEF Hold
    <3>2. counts \in [moves : 0 .. MaxMoves, ratings : 0 .. MaxRatings, asides : 0 .. MaxAsides]
      BY DEF Typed
    <3>3. counts.asides + 1 \in 0 .. MaxAsides
      BY <3>1, <3>2, BoundsAssumption
    <3> QED
      BY <3>1, <3>2, <3>3
  <2>5. m \in Present(hist) /\ UNCHANGED <<hist, done, fetched, saves, mishap, Elsewhere>>
    BY <1>1 DEF Hold, Elsewhere, page, asked
  <2> HIDE DEF b, d
  <2>6. k \in Holder /\ k.msg = m /\ k.row = b /\ k.at # "save" /\ k.text = x /\ k.done = d /\ k.left = left
    BY <2>1 DEF Holder
  <2> HIDE DEF k
  <2>7. b = Blank(shown)
    BY DEF b
  <2> QED
    BY <1>1, <2>2, <2>3, <2>4, <2>5, <2>6, <2>7
<1>2. Absent \in Text /\ 0 \in 0 .. 2 /\ 1 \in 0 .. 2 /\ 2 \in 0 .. 2 /\ ~(0 > 0)
  BY DEF Text, Absent, Full
<1>3. CASE Aside(m)
  BY <1>1, <1>2, <1>3 DEF Aside
<1>4. CASE Copy(m)
  <2>1. hist.text[m] \in Text /\ m \in done /\ ~loading
    BY <1>4 DEF Copy, Typed, Row
  <2>2. Hold(m, "wait", hist.text[m], 1) \/ Hold(m, "wait", hist.text[m], 2)
    BY <1>4 DEF Copy
  <2> QED
    BY <1>1, <1>2, <2>1, <2>2
<1> QED
  BY <1>3, <1>4 DEF Begins

\* A handler that waits is replaced by what is left of it.
LEMMA HeldGoesOn ==
    ASSUME held \subseteq Holder, NEW h \in held, NEW new, HeldTo(h, new), new \subseteq Holder
    PROVE  held' \subseteq Holder /\ \A k \in held' : k \in held \/ k \in new
BY DEF HeldTo

\* The row of the chat for the handler of the tags.
LEMMA TagsEffect ==
    ASSUME Typed, NEW h \in held, TagsRead(h) \/ TagsCome(h)
    PROVE  /\ held' \subseteq Holder
           /\ \A k \in held' :
                 \/ k \in held
                 \/ /\ k.msg = h.msg /\ k.text = h.text /\ k.done = h.done /\ k.left = h.left
                    /\ k.row = stored[target[h.msg]] \/ k.row = Blank(shown)
                    /\ k.at # "save"
           /\ fetched' \in {fetched, h.row}
           /\ (\E l \in loads : l.at = "tags") /\ fetched' # fetched => "late" \in mishap'
           /\ mishap' \subseteq Mishaps /\ mishap \subseteq mishap'
           /\ "hasty" \in mishap' => "hasty" \in mishap
           /\ UNCHANGED <<hist, done, saves, counts, Elsewhere>>
<1>1. h \in Holder /\ h.msg \in Msg /\ target[h.msg] \in Chat /\ shown \in Chat
  BY DEF Typed, Holder
<1>2. stored[target[h.msg]] \in Row /\ Blank(shown) \in Row
  BY <1>1, BlankRow DEF Typed
<1>3. ASSUME NEW at \in {"read", "wait"}, NEW row \in Row,
             HeldTo(h, {[h EXCEPT !.at = at, !.row = row]})
      PROVE  /\ held' \subseteq Holder
             /\ \A k \in held' :
                   \/ k \in held
                   \/ /\ k.msg = h.msg /\ k.text = h.text /\ k.done = h.done
                      /\ k.left = h.left /\ k.row = row /\ k.at # "save"
  <2> DEFINE k == [h EXCEPT !.at = at, !.row = row]
  <2>1. /\ k \in Holder /\ k.msg = h.msg /\ k.text = h.text /\ k.done = h.done
        /\ k.left = h.left /\ k.row = row /\ k.at # "save"
    BY <1>1, <1>3 DEF Holder
  <2>2. HeldTo(h, {k})
    BY <1>3
  <2> HIDE DEF k
  <2>3. held \subseteq Holder /\ {k} \subseteq Holder
    BY <2>1 DEF Typed
  <2>4. held' \subseteq Holder /\ \A g \in held' : g \in held \/ g \in {k}
    BY <2>2, <2>3, HeldGoesOn
  <2> QED
    BY <2>1, <2>4
<1>4. "late" \in Mishaps /\ "late" # "hasty"
  BY DEF Mishaps
<1>5. CASE TagsRead(h)
  BY <1>2, <1>3, <1>5 DEF TagsRead, Elsewhere, page, asked, Typed
<1>6. CASE TagsCome(h)
  <2>1. MishapIf(\E l \in loads : l.at = "tags", "late")
    BY <1>6 DEF TagsCome
  <2>2. /\ mishap' \subseteq Mishaps /\ mishap \subseteq mishap'
        /\ "hasty" \in mishap' => "hasty" \in mishap
        /\ (\E l \in loads : l.at = "tags") => "late" \in mishap'
    BY <1>4, <2>1 DEF MishapIf, Typed
  <2> QED
    BY <1>2, <1>3, <1>6, <2>2 DEF TagsCome, Elsewhere, page, asked
<1> QED
  BY <1>5, <1>6

\* The message goes into the history; unless it is late, that is no change of the history.
LEMMA ResumeEffect ==
    ASSUME Typed, NEW h \in held, Resume(h)
    PROVE  /\ held' \subseteq Holder
           /\ \A k \in held' :
                 \/ k \in held
                 \/ k.msg = h.msg /\ k.row = h.row /\ k.text = Absent /\ k.left = h.left /\ k.left # 0
           /\ hist' \in Row /\ hist'.current = hist.current
           /\ Present(hist') \subseteq Present(hist) \cup {h.msg}
           /\ done' \subseteq Present(hist')
           /\ mishap' \subseteq Mishaps /\ mishap \subseteq mishap'
           /\ "hasty" \in mishap' => "hasty" \in mishap
           /\ "late" \notin mishap' => hist' = hist /\ done' = done
           /\ h.text = hist.text[h.msg] /\ h.done /\ h.msg \in done => hist' = hist /\ done' = done
           /\ h.text = Absent => hist' = hist /\ done' = done
           /\ UNCHANGED <<fetched, saves, counts, Elsewhere>>
<1>1. h \in Holder /\ h.msg \in Msg /\ h.text \in Text /\ h.done \in BOOLEAN /\ h.left \in 0 .. 2
  BY DEF Typed, Holder
<1>2. "late" \in Mishaps /\ "late" # "hasty"
  BY DEF Mishaps
<1>3. UNCHANGED <<fetched, saves, counts, Elsewhere>>
  BY DEF Resume, Elsewhere, asked
<1>4. /\ held' \subseteq Holder
      /\ \A k \in held' :
            \/ k \in held
            \/ k.msg = h.msg /\ k.row = h.row /\ k.text = Absent /\ k.left = h.left /\ k.left # 0
  <2> DEFINE k == [h EXCEPT !.at = "save", !.text = Absent]
  <2>0. HeldTo(h, IF h.left = 0 THEN {} ELSE {k})
    BY DEF Resume
  <2>1. HeldTo(h, {}) \/ (HeldTo(h, {k}) /\ h.left # 0)
    <3> HIDE DEF k
    <3>1. CASE h.left = 0
      BY <2>0, <3>1
    <3>2. CASE h.left # 0
      BY <2>0, <3>2
    <3> QED
      BY <3>1, <3>2
  <2>2. /\ k \in Holder /\ k.msg = h.msg /\ k.row = h.row /\ k.text = Absent /\ k.left = h.left
    <3> DEFINE g == [h EXCEPT !.at = "save"]
    <3>1. g \in Holder /\ g.msg = h.msg /\ g.row = h.row /\ g.left = h.left
      BY <1>1 DEF Holder
    <3>2. k = [g EXCEPT !.text = Absent] /\ Absent \in Text
      BY DEF Text, Absent, Full
    <3> HIDE DEF k, g
    <3> QED
      BY <3>1, <3>2 DEF Holder
  <2> HIDE DEF k
  <2>3. held \subseteq Holder /\ {k} \subseteq Holder /\ {} \subseteq Holder
    BY <2>2 DEF Typed
  <2>4. CASE HeldTo(h, {})
    <3>1. held' \subseteq Holder /\ \A g \in held' : g \in held \/ g \in {}
      BY <2>3, <2>4, HeldGoesOn
    <3> QED
      BY <3>1
  <2>5. CASE HeldTo(h, {k}) /\ h.left # 0
    <3>1. held' \subseteq Holder /\ \A g \in held' : g \in held \/ g \in {k}
      BY <2>3, <2>5, HeldGoesOn
    <3> QED
      BY <2>2, <2>5, <3>1
  <2> QED
    BY <2>1, <2>4, <2>5
<1>5. CASE h.text = Absent
  <2>1. UNCHANGED <<hist, done, mishap>>
    BY <1>5 DEF Resume
  <2> QED
    BY <1>3, <1>4, <1>5, <2>1 DEF Typed
<1>6. CASE h.text # Absent
  <2>1. /\ hist' = [hist EXCEPT !.text[h.msg] = h.text]
        /\ done' = IF h.done THEN done \cup {h.msg} ELSE done \ {h.msg}
        /\ MishapIf(hist.text[h.msg] # h.text \/ (h.msg \in done) # h.done, "late")
    BY <1>6 DEF Resume
  <2>0. hist \in Row
    BY DEF Typed
  <2>2. /\ hist' \in Row /\ hist'.current = hist.current /\ hist'.of = hist.of
        /\ hist'.text = [hist.text EXCEPT ![h.msg] = h.text]
        /\ hist'.text[h.msg] = h.text /\ \A k \in Msg \ {h.msg} : hist'.text[k] = hist.text[k]
    <3> DEFINE m == h.msg
               x == h.text
    <3>1. m \in Msg /\ x \in Text /\ hist' = [hist EXCEPT !.text[m] = x]
      BY <1>1, <2>1
    <3> HIDE DEF m, x
    <3>2. /\ hist' \in Row /\ hist'.current = hist.current /\ hist'.of = hist.of
          /\ hist'.text = [hist.text EXCEPT ![m] = x]
          /\ hist'.text[m] = x /\ \A k \in Msg \ {m} : hist'.text[k] = hist.text[k]
      BY <2>0, <3>1 DEF Row
    <3> QED
      BY <3>2 DEF m, x
  <2>3. Present(hist') = Present(hist) \cup {h.msg}
    BY <1>1, <1>6, <2>2 DEF Present
  <2>4. done' \subseteq Present(hist')
    BY <2>1, <2>3 DEF Typed
  <2>5. /\ mishap' \subseteq Mishaps /\ mishap \subseteq mishap'
        /\ "hasty" \in mishap' => "hasty" \in mishap
        /\ hist.text[h.msg] # h.text \/ (h.msg \in done) # h.done => "late" \in mishap'
    BY <1>2, <2>1 DEF MishapIf, Typed
  <2>6. h.text = hist.text[h.msg] => hist' = hist
    <3>1. hist.text \in [Msg -> Text]
      BY DEF Typed, Row
    <3>2. h.text = hist.text[h.msg] => hist'.text = hist.text
      BY <1>1, <2>2, <3>1
    <3>3. ASSUME hist'.text = hist.text PROVE hist' = hist
      BY <2>0, <2>2, <3>3 DEF Row
    <3> QED
      BY <3>2, <3>3
  <2>7. (h.msg \in done) = h.done => done' = done
    BY <1>1, <2>1
  <2> QED
    BY <1>1, <1>3, <1>4, <1>6, <2>2, <2>3, <2>4, <2>5, <2>6, <2>7
<1> QED
  BY <1>5, <1>6

LEMMA SaveCopyEffect ==
    ASSUME Typed, NEW h \in held, SaveCopy(h)
    PROVE  /\ held' \subseteq Holder
           /\ \A k \in held' :
                 \/ k \in held
                 \/ /\ k.msg = h.msg /\ k.row = h.row /\ k.text = h.text /\ k.done = h.done
                    /\ k.left = 1 /\ h.left # 1
           /\ Save(shown, hist, Null, FALSE)
           /\ UNCHANGED <<hist, done, fetched, counts, Elsewhere>>
<1>1. h \in Holder
  BY DEF Typed
<1> DEFINE k == [h EXCEPT !.at = "wait", !.left = 1]
<1>2. HeldTo(h, IF h.left = 1 THEN {} ELSE {k})
  BY DEF SaveCopy
<1>3. /\ k \in Holder /\ k.msg = h.msg /\ k.row = h.row /\ k.text = h.text /\ k.done = h.done
      /\ k.left = 1
  <2> DEFINE g == [h EXCEPT !.at = "wait"]
  <2>1. /\ g \in Holder /\ g.msg = h.msg /\ g.row = h.row /\ g.text = h.text
        /\ g.done = h.done
    BY <1>1 DEF Holder
  <2>2. k = [g EXCEPT !.left = 1]
    OBVIOUS
  <2> HIDE DEF k, g
  <2> QED
    BY <2>1, <2>2 DEF Holder
<1> HIDE DEF k
<1>4. /\ held' \subseteq Holder
      /\ \A x \in held' : x \in held \/ (x = k /\ h.left # 1)
  <2>1. held \subseteq Holder /\ {k} \subseteq Holder /\ {} \subseteq Holder
    BY <1>3 DEF Typed
  <2>2. CASE h.left = 1
    <3>1. HeldTo(h, {})
      BY <1>2, <2>2
    <3>2. held' \subseteq Holder /\ \A g \in held' : g \in held \/ g \in {}
      BY <2>1, <3>1, HeldGoesOn
    <3> QED
      BY <3>2
  <2>3. CASE h.left # 1
    <3>1. HeldTo(h, {k})
      BY <1>2, <2>3
    <3>2. held' \subseteq Holder /\ \A g \in held' : g \in held \/ g \in {k}
      BY <2>1, <3>1, HeldGoesOn
    <3> QED
      BY <2>3, <3>2
  <2> QED
    BY <2>2, <2>3
<1>5. Save(shown, hist, Null, FALSE) /\ UNCHANGED <<hist, done, fetched, counts, Elsewhere>>
  BY DEF SaveCopy, Elsewhere, page, asked
<1> QED
  BY <1>3, <1>4, <1>5

LEMMA DetachedKnown ==
    ASSUME Typed, Known, NEW ms, held' = Detached(ms)
    PROVE  /\ held' \subseteq Holder
           /\ \A h \in held' : h.msg \in AskedFor /\ Knows(AskedFor, h.row)
           /\ \A h \in held' : h.at = "save" => h.left # 0
<1>1. held \subseteq Holder /\ hist \in Row
  BY DEF Typed
<1>2. SUFFICES ASSUME NEW h \in Detached(ms)
               PROVE  /\ h \in Holder /\ h.msg \in AskedFor /\ Knows(AskedFor, h.row)
                      /\ h.at = "save" => h.left # 0
  OBVIOUS
<1>3. h \in Holder /\ \E g \in held : /\ h.msg = g.msg /\ h.row = g.row /\ h.left = g.left
                                      /\ h.at = g.at
  BY <1>1, DetachedHolders
<1> QED
  BY <1>3 DEF Known

LEMMA BeginsKnown ==
    ASSUME Typed, Known, NEW m \in Msg, Begins(m) PROVE Typed' /\ Known'
<1>1. PICK k \in Holder : /\ held' = held \cup {k} /\ k.msg = m /\ k.row = Blank(shown)
                          /\ k.at # "save"
  BY BeginsEffect
<1>2. /\ m \in Present(hist)
      /\ counts' \in [moves : 0 .. MaxMoves, ratings : 0 .. MaxRatings,
                      asides : 0 .. MaxAsides]
      /\ UNCHANGED <<hist, done, fetched, saves, mishap, Elsewhere>>
  BY BeginsEffect
<1>3. AskedFor' = AskedFor
  BY <1>2, SameTasks DEF Elsewhere
<1>4. shown \in Chat
  BY DEF Typed
<1>5. k.msg \in AskedFor /\ Knows(AskedFor, k.row)
  BY <1>1, <1>2, <1>4, BlankRow DEF Known, Knows
<1>6. Typed'
  BY <1>1, <1>2 DEF Typed, Elsewhere
<1>7. Known'
  BY <1>1, <1>2, <1>3, <1>5 DEF Known, Elsewhere
<1> QED
  BY <1>6, <1>7

LEMMA HeldKnown ==
    ASSUME Typed, Known, NEW h \in held, HeldStep(h) PROVE Typed' /\ Known'
<1>1. /\ h \in Holder /\ h.msg \in AskedFor /\ Knows(AskedFor, h.row) /\ h.row \in Row
      /\ shown \in Chat /\ target[h.msg] \in Chat /\ h.msg \in Msg
  BY DEF Typed, Known, Holder
<1>2. Knows(AskedFor, Blank(shown)) /\ Knows(AskedFor, stored[target[h.msg]])
  BY <1>1, BlankRow DEF Knows, Known
<1>3. ASSUME task' = task PROVE AskedFor' = AskedFor
  BY <1>3, SameTasks
<1>4. CASE TagsRead(h) \/ TagsCome(h)
  <2>1. /\ held' \subseteq Holder
        /\ \A k \in held' :
              \/ k \in held
              \/ /\ k.msg = h.msg /\ k.at # "save"
                 /\ k.row = stored[target[h.msg]] \/ k.row = Blank(shown)
        /\ fetched' \in {fetched, h.row}
        /\ mishap' \subseteq Mishaps
        /\ UNCHANGED <<hist, done, saves, counts, Elsewhere>>
    BY <1>4, TagsEffect
  <2>2. AskedFor' = AskedFor
    BY <1>3, <2>1 DEF Elsewhere
  <2>3. /\ \A k \in held' : k.msg \in AskedFor /\ Knows(AskedFor, k.row)
        /\ \A k \in held' : k.at = "save" => k.left # 0
    BY <1>1, <1>2, <2>1 DEF Known
  <2>4. Typed'
    BY <1>1, <2>1 DEF Typed, Elsewhere
  <2>5. Known'
    BY <1>1, <2>1, <2>2, <2>3 DEF Known, Elsewhere
  <2> QED
    BY <2>4, <2>5
<1>5. CASE Resume(h)
  <2>1. /\ held' \subseteq Holder
        /\ \A k \in held' : k \in held \/ (k.msg = h.msg /\ k.row = h.row /\ k.left # 0)
        /\ hist' \in Row /\ hist'.current = hist.current
        /\ Present(hist') \subseteq Present(hist) \cup {h.msg}
        /\ done' \subseteq Present(hist')
        /\ mishap' \subseteq Mishaps
        /\ UNCHANGED <<fetched, saves, counts, Elsewhere>>
    BY <1>5, ResumeEffect
  <2>2. AskedFor' = AskedFor
    BY <1>3, <2>1 DEF Elsewhere
  <2>3. /\ \A k \in held' : k.msg \in AskedFor /\ Knows(AskedFor, k.row)
        /\ \A k \in held' : k.at = "save" => k.left # 0
    BY <1>1, <2>1 DEF Known
  <2>4. Typed'
    BY <2>1 DEF Typed, Elsewhere
  <2>5. Knows(AskedFor, hist')
    BY <1>1, <2>1 DEF Known, Knows
  <2>6. Known'
    BY <2>1, <2>2, <2>3, <2>5 DEF Known, Elsewhere
  <2> QED
    BY <2>4, <2>6
<1>6. CASE SaveCopy(h)
  <2>1. /\ held' \subseteq Holder
        /\ \A k \in held' : k \in held \/ (k.msg = h.msg /\ k.row = h.row /\ k.left = 1)
        /\ Save(shown, hist, Null, FALSE)
        /\ UNCHANGED <<hist, done, fetched, counts, Elsewhere>>
    BY <1>6, SaveCopyEffect
  <2>2. AskedFor' = AskedFor
    BY <1>3, <2>1 DEF Elsewhere
  <2>3. /\ \A k \in held' : k.msg \in AskedFor /\ Knows(AskedFor, k.row)
        /\ \A k \in held' : k.at = "save" => k.left # 0
    BY <1>1, <2>1 DEF Known
  <2>4. /\ saves' \in Seq(SaveCall) /\ mishap' \subseteq Mishaps
        /\ \A i \in DOMAIN saves' : \/ i \in DOMAIN saves /\ saves'[i] = saves[i]
                                   \/ saves'[i].row = hist
    <3>1. hist \in Row /\ shown \in Chat
      BY DEF Typed
    <3> QED
      BY <2>1, <3>1, SaveJoins DEF Typed
  <2>5. Typed'
    BY <2>1, <2>4 DEF Typed, Elsewhere
  <2>6. Known'
    BY <2>1, <2>2, <2>3, <2>4 DEF Known, Elsewhere
  <2> QED
    BY <2>5, <2>6
<1> QED
  BY <1>4, <1>5, <1>6 DEF HeldStep

LEMMA NavigateKnown ==
    ASSUME Typed, Known, NEW c \in Chat, Navigate(c) PROVE Typed' /\ Known'
<1> USE DEF page, asked
<1>0. [id |-> counts.moves, chat |-> c, at |-> "sent", row |-> stored[c]] \in LoadCall
  BY BoundsAssumption DEF Typed, LoadCall
<1>1. "hasty" \in Mishaps
  BY DEF Mishaps
<1>2. Typed'
  BY <1>0, <1>1, MishapGrows, BoundsAssumption DEF Navigate, Typed
<1>3. Known'
  BY SameTasks DEF Navigate, Known
<1> QED
  BY <1>2, <1>3

LEMMA LoadKnown ==
    ASSUME Typed, Known, NEW l \in loads, LoadStep(l)
    PROVE  Typed' /\ Known'
<1> USE DEF page, asked
<1>1. l \in LoadCall /\ l.row \in Row /\ l.chat \in Chat /\ stored[l.chat] \in Row
  BY DEF Typed, LoadCall
<1>2. "missed" \in Mishaps
  BY DEF Mishaps
<1>3. AskedFor' = AskedFor
  BY SameTasks DEF LoadStep, RowRead, RowComes, Install, MarkDone, Loaded
<1>4. ASSUME NEW at \in {"read", "tags", "settings", "shown"}, NEW row \in {l.row, stored[l.chat]},
             LoadTo(l, at, row)
      PROVE  loads' \subseteq LoadCall /\ \A k \in loads' : Knows(AskedFor, k.row)
  <2>1. row \in Row /\ Knows(AskedFor, row)
    BY <1>1 DEF Known
  <2>2. PICK k \in LoadCall : k.row = row /\ loads' = (loads \ {l}) \cup {k}
    BY <1>4, <2>1, LoadMoves DEF Typed
  <2> QED
    BY <2>1, <2>2 DEF Typed, Known
<1>5. CASE RowRead(l)
  BY <1>1, <1>2, <1>3, <1>4, <1>5, MishapGrows DEF RowRead, Typed, Known
<1>6. CASE RowComes(l)
  BY <1>1, <1>3, <1>4, <1>6 DEF RowComes, Typed, Known
<1>7. CASE Install(l)
  <2>1. /\ held' \subseteq Holder
        /\ \A h \in held' : h.msg \in AskedFor /\ Knows(AskedFor, h.row)
        /\ \A h \in held' : h.at = "save" => h.left # 0
    BY <1>7, DetachedKnown DEF Install
  <2>2. loads' \subseteq LoadCall /\ \A k \in loads' : Knows(AskedFor, k.row)
    BY <1>4, <1>7 DEF Install
  <2>3. /\ hist' = fetched /\ done' \subseteq Present(hist')
        /\ UNCHANGED <<shown, loading, fetched, stored, saves, replies, asked, task, target,
                       events, completing, counts, mishap>>
    BY <1>7 DEF Install
  <2>4. Typed'
    BY <2>1, <2>2, <2>3 DEF Typed
  <2>5. Known'
    BY <1>3, <2>1, <2>2, <2>3 DEF Known
  <2> QED
    BY <2>4, <2>5
<1>8. CASE MarkDone(l)
  BY <1>1, <1>3, <1>4, <1>8 DEF MarkDone, Typed, Known
<1>9. CASE Loaded(l)
  BY <1>1, <1>3, <1>9 DEF Loaded, Typed, Known
<1> QED
  BY <1>5, <1>6, <1>7, <1>8, <1>9 DEF LoadStep

LEMMA SaveArrivesKnown ==
    ASSUME Typed, Known, NEW i \in DOMAIN saves, SaveArrives(i) PROVE Typed' /\ Known'
<1> USE DEF page, asked
<1>1. saves \in Seq(SaveCall) /\ saves[i] \in SaveCall
  BY LenProperties, ElementOfSeq DEF Typed
<1>2. /\ saves' \in Seq(SaveCall)
      /\ \A k \in DOMAIN saves' : \E j \in DOMAIN saves : saves'[k] = saves[j]
  <2>1. saves' = RemoveAt(saves, i)
    BY DEF SaveArrives
  <2>2. /\ saves' \in Seq(SaveCall) /\ Len(saves) \in Nat \ {0}
        /\ DOMAIN saves = 1 .. Len(saves) /\ DOMAIN saves' = 1 .. Len(saves) - 1
        /\ \A k \in 1 .. Len(saves) - 1 : saves'[k] = IF k < i THEN saves[k] ELSE saves[k + 1]
    BY <1>1, <2>1, RemoveAtElements
  <2>3. \A k \in 1 .. Len(saves) - 1 : k \in 1 .. Len(saves) /\ k + 1 \in 1 .. Len(saves)
    BY <2>2
  <2> QED
    BY <2>2, <2>3
<1>3. "overtaken" \in Mishaps
  BY DEF Mishaps
<1>4. AskedFor' = AskedFor
  BY SameTasks DEF SaveArrives
<1>5. /\ saves[i].chat \in Chat /\ saves[i].row \in Row
      /\ [row |-> saves[i].row, for |-> saves[i].for] \in Reply
  BY <1>1 DEF SaveCall, Reply
<1>6. Typed'
  BY <1>1, <1>2, <1>3, <1>5, MishapGrows DEF SaveArrives, Typed
<1>7. Known'
  BY <1>1, <1>2, <1>4 DEF SaveArrives, Known, SaveCall, Typed
<1> QED
  BY <1>6, <1>7

\* An answer is asked for with one save, and goes on when that is answered.
Wanted ==
    /\ \A i \in DOMAIN saves :
          saves[i].for # Null => task[saves[i].for] = "saving" /\ saves[i].kept
    /\ \A r \in replies : r.for # Null => task[r.for] = "saving"
    /\ \A i, j \in DOMAIN saves : saves[i].for = saves[j].for /\ saves[i].for # Null => i = j
    /\ \A r, q \in replies : r.for = q.for /\ r.for # Null => r = q
    /\ \A i \in DOMAIN saves, r \in replies : saves[i].for = r.for => r.for = Null

LEMMA SaveReturnsKnown ==
    ASSUME Typed, Known, Wanted, NEW r \in replies, SaveReturns(r) PROVE Typed' /\ Known'
<1> USE DEF page, asked
<1>1. r.row \in Row /\ r.for \in Msg \cup {Null} /\ Knows(AskedFor, r.row)
  BY DEF Typed, Reply, Known
<1>2. task' \in [Msg -> TaskStates] /\ AskedFor' = AskedFor
  <2>1. \A m \in Msg : m = r.for => task[m] = "saving"
    BY BoundsAssumption DEF Wanted, Msg, Null
  <2> QED
    BY <2>1 DEF SaveReturns, AskedFor, Typed, TaskStates
<1>3. Typed'
  BY <1>1, <1>2 DEF SaveReturns, Typed
<1>4. Known'
  BY <1>1, <1>2 DEF SaveReturns, Known
<1> QED
  BY <1>3, <1>4

LEMMA RateKnown == ASSUME Typed, Known, Rate PROVE Typed' /\ Known'
<1> USE DEF page, asked
<1>1. /\ saves' \in Seq(SaveCall) /\ mishap' \subseteq Mishaps
      /\ \A i \in DOMAIN saves' : \/ i \in DOMAIN saves /\ saves'[i] = saves[i]
                                 \/ saves'[i].row = hist
  <2>1. Save(shown, hist, Null, FALSE) /\ shown \in Chat /\ hist \in Row
    BY DEF Rate, Typed
  <2> QED
    BY <2>1, SaveJoins DEF Typed
<1>2. AskedFor' = AskedFor
  BY SameTasks DEF Rate
<1>3. counts' \in [moves : 0 .. MaxMoves, ratings : 0 .. MaxRatings, asides : 0 .. MaxAsides]
  <2>1. counts' = [counts EXCEPT !.ratings = @ + 1] /\ counts.ratings < MaxRatings
    BY DEF Rate
  <2>2. counts \in [moves : 0 .. MaxMoves, ratings : 0 .. MaxRatings, asides : 0 .. MaxAsides]
    BY DEF Typed
  <2>3. counts.ratings + 1 \in 0 .. MaxRatings
    BY <2>1, <2>2, BoundsAssumption
  <2> QED
    BY <2>1, <2>2, <2>3
<1>4. Typed'
  BY <1>1, <1>3 DEF Rate, Typed
<1>5. Known'
  BY <1>1, <1>2 DEF Rate, Known
<1> QED
  BY <1>4, <1>5

LEMMA SendKnown == ASSUME Typed, Known, NEW m \in Msg, Send(m) PROVE Typed' /\ Known'
<1> USE DEF page, asked
<1>1. /\ hist' \in Row /\ hist'.current = m /\ Present(hist') = Present(hist) \cup {m}
  <2>1. hist \in Row /\ hist' = [hist EXCEPT !.text[m] = Empty, !.current = m]
    BY DEF Typed, Send
  <2>2. Empty \in Text /\ Empty # Absent
    BY DEF Text, Empty, Absent, Full
  <2>3. /\ hist' \in Row /\ hist'.current = m
        /\ hist'.text[m] = Empty /\ \A k \in Msg \ {m} : hist'.text[k] = hist.text[k]
    BY <2>1, <2>2 DEF Row
  <2> QED
    BY <2>2, <2>3 DEF Present
<1>2. /\ saves' \in Seq(SaveCall) /\ mishap' \subseteq Mishaps
      /\ \A i \in DOMAIN saves' : \/ i \in DOMAIN saves /\ saves'[i] = saves[i]
                                 \/ saves'[i].row = hist'
  <2>1. Save(shown, hist', m, TRUE) /\ shown \in Chat
    BY DEF Send, Typed
  <2> QED
    BY <1>1, <2>1, SaveJoins DEF Typed
<1>3. /\ task' \in [Msg -> TaskStates] /\ AskedFor' = AskedFor \cup {m}
      /\ 1 .. m - 1 \subseteq AskedFor /\ m \notin AskedFor
  <2>1. 1 .. m - 1 \subseteq Msg
    BY BoundsAssumption DEF Msg
  <2> QED
    BY <2>1 DEF Send, Typed, AskedFor, TaskStates
<1>4. hist.current \in AskedFor \cup {Null} /\ hist.current < m
  <2>1. hist.current \in AskedFor \cup {Null} /\ AskedFor \subseteq Msg
    BY DEF Known, Knows, AskedFor
  <2>2. \A k \in AskedFor : k < m
    <3>1. \A k \in AskedFor : k # m /\ m \notin 1 .. k - 1
      BY <1>3 DEF Known
    <3> QED
      BY <2>1, <3>1, BoundsAssumption DEF Msg
  <2>3. Null < m
    BY BoundsAssumption DEF Msg, Null
  <2> QED
    BY <2>1, <2>2, <2>3
<1>5. /\ parent' \in [Msg -> Msg \cup {Null}]
      /\ \A k \in Msg : parent'[k] = (IF k = m THEN hist.current ELSE parent[k])
  BY <1>4 DEF Send, Typed, AskedFor
<1>6. Typed'
  <2>1. \A k \in Msg : parent'[k] < k
    BY <1>4, <1>5 DEF Typed
  <2>2. home' \in [Msg -> Chat]
    BY DEF Send, Typed
  <2> QED
    BY <1>1, <1>2, <1>3, <1>5, <2>1, <2>2 DEF Send, Typed
<1>7. AskedFor \subseteq AskedFor'
  BY <1>3
<1>8. Knows(AskedFor', hist') /\ Knows(AskedFor', fetched) /\ Knows(AskedFor', hist)
  BY <1>1, <1>3, <1>7, KnowsMore DEF Known, Knows
<1>9. Known'
  <2>1. \A k \in AskedFor' : 1 .. k - 1 \subseteq AskedFor'
    BY <1>3, <1>7 DEF Known
  <2>2. \A i \in DOMAIN saves' : Knows(AskedFor', saves'[i].row)
    BY <1>2, <1>7, <1>8, KnowsMore DEF Known
  <2>3. \A k \in Msg : parent'[k] \in AskedFor' \cup {Null}
    BY <1>4, <1>5, <1>7 DEF Known
  <2> QED
    BY <1>7, <1>8, <2>1, <2>2, <2>3, KnowsMore DEF Send, Known
<1> QED
  BY <1>6, <1>9

\* The request for an answer that was asked for comes further.
LEMMA TaskGoesOn ==
    ASSUME Typed, NEW m \in Msg, task[m] # "none", NEW st \in TaskStates \ {"none"},
           task' = [task EXCEPT ![m] = st]
    PROVE  task' \in [Msg -> TaskStates] /\ AskedFor' = AskedFor /\ m \in AskedFor
BY DEF Typed, AskedFor

\* The text that a task stores belongs to an answer that was asked for.
LEMMA UpsertKnown ==
    ASSUME Typed, Known, NEW m \in AskedFor, NEW x \in Text, Upsert(m, x)
    PROVE  stored' \in [Chat -> Row] /\ \A c \in Chat : Knows(AskedFor, stored'[c])
<1>1. m \in Msg /\ target[m] \in Chat
  BY DEF AskedFor, Typed
<1>2. /\ stored' \in [Chat -> Row]
      /\ \A c \in Chat \ {target[m]} : stored'[c] = stored[c]
      /\ stored'[target[m]].current = m
      /\ \A k \in Msg \ {m} : stored'[target[m]].text[k] = stored[target[m]].text[k]
  BY <1>1, UpsertRow DEF Typed
<1>3. Knows(AskedFor, stored'[target[m]])
  BY <1>1, <1>2 DEF Known, Knows, Present
<1> QED
  BY <1>2, <1>3 DEF Known

LEMMA EmitKnown ==
    ASSUME Typed, Known, NEW m \in AskedFor, NEW x \in {Part, Full}, Emit(m, x)
    PROVE  /\ events' \in Seq(Event)
           /\ Len(events) \in Nat
           /\ DOMAIN events = 1 .. Len(events) /\ DOMAIN events' = 1 .. Len(events) + 1
           /\ \A i \in DOMAIN events' : i \in DOMAIN events \/ i = Len(events) + 1
           /\ \A i \in DOMAIN events : events'[i] = events[i]
           /\ events'[Len(events) + 1].msg = m /\ events'[Len(events) + 1].chat = target[m]
           /\ events'[Len(events) + 1].text = x
           /\ \A i \in DOMAIN events' : events'[i].msg \in AskedFor
<1> DEFINE e == [msg |-> m, chat |-> target[m], text |-> x]
<1>1. e \in Event /\ e.msg = m /\ e.chat = target[m] /\ e.text = x
  BY DEF Event, AskedFor, Typed
<1>2. events' = Append(events, e)
  BY DEF Emit
<1> HIDE DEF e
<1>3. /\ events' \in Seq(Event)
      /\ Len(events) \in Nat
      /\ DOMAIN events = 1 .. Len(events) /\ DOMAIN events' = 1 .. Len(events) + 1
      /\ \A i \in DOMAIN events' : i \in DOMAIN events \/ i = Len(events) + 1
      /\ \A i \in DOMAIN events : events'[i] = events[i]
      /\ events'[Len(events) + 1] = e
  BY <1>1, <1>2, AppendElements DEF Typed
<1>4. \A i \in DOMAIN events' : events'[i].msg \in AskedFor
  BY <1>1, <1>3 DEF Known
<1> QED
  BY <1>1, <1>3, <1>4

LEMMA TaskKnown ==
    ASSUME Typed, Known, NEW m \in Msg, Post(m) \/ Begin(m) \/ Stream(m) \/ Keep(m) \/ Tell(m)
    PROVE  Typed' /\ Known'
<1> USE DEF page, asked
<1>1. /\ task[m] # "none"
      /\ \E st \in TaskStates \ {"none"} : task' = [task EXCEPT ![m] = st]
  BY DEF Post, Begin, Stream, Keep, Tell, TaskStates
<1>2. task' \in [Msg -> TaskStates] /\ AskedFor' = AskedFor /\ m \in AskedFor
  BY <1>1, TaskGoesOn
<1>3. Part \in {Part, Full} /\ Full \in {Part, Full} /\ Empty \in Text /\ Full \in Text
  BY DEF Text, Absent, Empty, Part, Full
<1>4. CASE Post(m)
  <2>1. target' \in [Msg -> Chat]
    BY <1>4 DEF Post, Typed
  <2> QED
    BY <1>2, <1>4, <2>1 DEF Post, Typed, Known
<1>5. CASE Begin(m)
  <2>1. \E x \in Text : Upsert(m, x)
    BY <1>3, <1>5 DEF Begin, Typed, Row
  <2>2. stored' \in [Chat -> Row] /\ \A c \in Chat : Knows(AskedFor, stored'[c])
    BY <1>2, <2>1, UpsertKnown
  <2> QED
    BY <1>2, <1>5, <2>2 DEF Begin, Typed, Known
<1>6. CASE Stream(m) \/ Tell(m)
  <2>1. \E x \in {Part, Full} : Emit(m, x)
    BY <1>3, <1>6 DEF Stream, Tell
  <2>2. events' \in Seq(Event) /\ \A i \in DOMAIN events' : events'[i].msg \in AskedFor
    BY <1>2, <2>1, EmitKnown
  <2> QED
    BY <1>2, <1>6, <2>2 DEF Stream, Tell, Typed, Known
<1>7. CASE Keep(m)
  <2>1. stored' \in [Chat -> Row] /\ \A c \in Chat : Knows(AskedFor, stored'[c])
    BY <1>2, <1>3, <1>7, UpsertKnown DEF Keep
  <2> QED
    BY <1>2, <1>7, <2>1 DEF Keep, Typed, Known
<1> QED
  BY <1>4, <1>5, <1>6, <1>7

\* The branch of an answer: it, and answers that the history has.
LEMMA BranchThere ==
    ASSUME NEW row, NEW m \in Msg, m \in Present(row)
    PROVE  Branch(row, m) \subseteq Present(row) /\ m \in Branch(row, m)
<1>1. m \in Branch(row, m)
  BY DEF Branch
<1>2. Present(row) \in SUBSET Msg
  BY DEF Present
<1> QED
  BY <1>1, <1>2 DEF Branch

\* What a step of the page does with an event.
LEMMA HandleEffect ==
    ASSUME Typed, Handle, NEW e, e = Head(events)
    PROVE  /\ e \in Event /\ e = events[1] /\ 1 \in DOMAIN events /\ events' \in Seq(Event)
           /\ Len(events) \in Nat
           /\ DOMAIN events = 1 .. Len(events) /\ DOMAIN events' = 1 .. Len(events) - 1
           /\ \A i \in DOMAIN events' : i + 1 \in DOMAIN events /\ events'[i] = events[i + 1]
           /\ \A i \in DOMAIN events : i # 1 => i - 1 \in DOMAIN events' /\ events'[i - 1] = events[i]
           /\ hist' \in Row /\ hist'.of = hist.of /\ hist'.current = hist.current
           /\ Present(hist') = Present(hist)
           /\ \A k \in Msg \ {e.msg} : hist'.text[k] = hist.text[k]
           /\ IF e.chat = shown /\ e.msg \in Present(hist)
              THEN /\ hist'.text[e.msg] = e.text
                   /\ done' = IF e.text = Full THEN done \cup {e.msg} ELSE done
                   /\ IF e.text = Full
                      THEN \E c \in Hook :
                             /\ completing' = completing \cup {c}
                             /\ c.chat = shown /\ Holds(c.text) = Branch(hist', e.msg)
                             /\ \A k \in Holds(c.text) : c.text[k] = hist'.text[k]
                      ELSE completing' = completing
              ELSE hist' = hist /\ done' = done /\ completing' = completing
           /\ mishap' \subseteq Mishaps /\ mishap \subseteq mishap'
           /\ e.chat = shown /\ loading /\ e.text = Full => "missed" \in mishap'
           /\ UNCHANGED <<shown, loading, fetched, loads, stored, saves, replies, asked, task,
                          target, held, counts>>
<1>1. /\ e \in Event /\ e = events[1] /\ 1 \in DOMAIN events /\ events' \in Seq(Event)
      /\ Len(events) \in Nat
      /\ DOMAIN events = 1 .. Len(events) /\ DOMAIN events' = 1 .. Len(events) - 1
      /\ \A i \in DOMAIN events' : i + 1 \in DOMAIN events /\ events'[i] = events[i + 1]
      /\ \A i \in DOMAIN events : i # 1 => i - 1 \in DOMAIN events' /\ events'[i - 1] = events[i]
  BY TailElements DEF Typed, Handle
<1>2. e.msg \in Msg /\ e.chat \in Chat /\ e.text \in Text \ {Absent}
  BY <1>1 DEF Event, Text, Absent, Empty, Part, Full
<1> DEFINE heard == e.chat = shown /\ e.msg \in Present(hist)
           new == [hist EXCEPT !.text[e.msg] = e.text]
           c == [chat |-> e.chat,
                 text |-> [m \in Msg |-> IF m \in Branch(new, e.msg) THEN new.text[m] ELSE Absent]]
<1>3. /\ hist' = IF heard THEN new ELSE hist
      /\ done' = IF heard /\ e.text = Full THEN done \cup {e.msg} ELSE done
      /\ completing' = completing \cup IF heard /\ e.text = Full THEN {c} ELSE {}
      /\ MishapIf(e.chat = shown /\ loading /\ e.text = Full, "missed")
      /\ UNCHANGED <<shown, loading, fetched, loads, stored, saves, replies, asked, task,
                     target, held, counts>>
  BY DEF Handle
<1>4. /\ new \in Row /\ new.of = hist.of /\ new.current = hist.current
      /\ new.text[e.msg] = e.text /\ \A k \in Msg \ {e.msg} : new.text[k] = hist.text[k]
  BY <1>2 DEF Row, Typed
<1> HIDE DEF new
<1>5. heard => Present(new) = Present(hist)
  BY <1>2, <1>4 DEF Present
<1>6. ASSUME heard
      PROVE  /\ c \in Hook /\ c.chat = shown /\ Holds(c.text) = Branch(new, e.msg)
             /\ \A k \in Holds(c.text) : c.text[k] = new.text[k]
  <2>1. Branch(new, e.msg) \subseteq Present(new)
    BY <1>2, <1>5, <1>6, BranchThere
  <2>2. c.chat \in Chat /\ c.text \in [Msg -> Text] /\ c.chat = shown
    BY <1>2, <1>4, <1>6 DEF Row, Text, Absent, Empty, Part, Full
  <2>3. \A k \in Msg : c.text[k] = IF k \in Branch(new, e.msg) THEN new.text[k] ELSE Absent
    OBVIOUS
  <2>4. c \in Hook
    BY <2>2 DEF Hook
  <2> HIDE DEF c
  <2> QED
    BY <2>1, <2>2, <2>3, <2>4 DEF Holds, Present
<1> HIDE DEF c
<1>7. /\ mishap' \subseteq Mishaps /\ mishap \subseteq mishap'
      /\ e.chat = shown /\ loading /\ e.text = Full => "missed" \in mishap'
  BY <1>3 DEF MishapIf, Typed, Mishaps
<1>8. CASE heard
  BY <1>1, <1>3, <1>4, <1>5, <1>6, <1>7, <1>8
<1>9. CASE ~heard
  BY <1>1, <1>3, <1>7, <1>9 DEF Typed
<1> QED
  BY <1>8, <1>9

LEMMA HandleKnown == ASSUME Typed, Known, Handle PROVE Typed' /\ Known'
<1> USE DEF page, asked
<1> DEFINE e == Head(events)
<1> HIDE DEF e
<1>0. e = Head(events)
  BY DEF e
<1>1. /\ e \in Event /\ events' \in Seq(Event)
      /\ \A i \in DOMAIN events' : i + 1 \in DOMAIN events /\ events'[i] = events[i + 1]
  BY <1>0, HandleEffect
<1>2. /\ e.msg \in Msg /\ hist' \in Row /\ Present(hist') = Present(hist)
      /\ hist'.current = hist.current
  BY <1>0, <1>1, HandleEffect DEF Event
<1>3. done' \subseteq Present(hist')
  BY <1>0, <1>2, HandleEffect DEF Typed
<1>4. /\ completing' \subseteq Hook
      /\ \A c \in completing' : \/ c \in completing
                                \/ Holds(c.text) \subseteq Present(hist) /\ Holds(c.text) # {}
  <2>1. CASE e.chat = shown /\ e.msg \in Present(hist) /\ e.text = Full
    <3>1. PICK c \in Hook : /\ completing' = completing \cup {c}
                            /\ Holds(c.text) = Branch(hist', e.msg)
      BY <1>0, <2>1, HandleEffect
    <3>2. Holds(c.text) \subseteq Present(hist) /\ Holds(c.text) # {}
      BY <1>2, <2>1, <3>1, BranchThere
    <3> QED
      BY <3>1, <3>2 DEF Typed
  <2>2. CASE ~(e.chat = shown /\ e.msg \in Present(hist) /\ e.text = Full)
    <3>1. completing' = completing
      BY <1>0, <2>2, HandleEffect
    <3> QED
      BY <3>1 DEF Typed
  <2> QED
    BY <2>1, <2>2
<1>5. mishap' \subseteq Mishaps
  BY <1>0, HandleEffect
<1>6. UNCHANGED <<shown, loading, fetched, loads, stored, saves, replies, asked, task,
                  target, held, counts>>
  BY DEF Handle
<1>7. AskedFor' = AskedFor
  BY <1>6, SameTasks
<1>8. Typed'
  BY <1>1, <1>2, <1>3, <1>4, <1>5, <1>6 DEF Typed
<1>9. Known'
  BY <1>1, <1>2, <1>4, <1>6, <1>7 DEF Known, Knows
<1> QED
  BY <1>8, <1>9

LEMMA CompletedKnown ==
    ASSUME Typed, Known, NEW c \in completing, Completed(c) PROVE Typed' /\ Known'
<1> USE DEF page, asked
<1>1. c \in [chat : Chat, text : [Msg -> Text]] /\ hist \in Row /\ shown \in Chat
  BY DEF Typed, Hook
<1>2. /\ hist' \in Row /\ hist'.current = hist.current /\ Present(hist') = Present(hist)
      /\ Save(shown, hist', Null, TRUE) \/ UNCHANGED <<saves, mishap>>
      /\ completing' = completing \ {c}
      /\ UNCHANGED <<shown, loading, done, fetched, loads, stored, replies, asked, task,
                     target, events, counts>>
  BY <1>1, CompletedRow
<1>3. /\ saves' \in Seq(SaveCall) /\ mishap' \subseteq Mishaps
      /\ \A i \in DOMAIN saves' : \/ i \in DOMAIN saves /\ saves'[i] = saves[i]
                                 \/ saves'[i].row = hist'
  BY <1>1, <1>2, SaveJoins DEF Typed
<1>4. AskedFor' = AskedFor
  BY <1>2, SameTasks
<1>0. /\ held' \subseteq Holder
      /\ \A h \in held' : h.msg \in AskedFor /\ Knows(AskedFor, h.row)
      /\ \A h \in held' : h.at = "save" => h.left # 0
  <2>1. held' = Detached({m \in Msg : c.text[m] # Absent /\ There(c, m)})
    BY <1>1, CompletedRow
  <2> QED
    BY <2>1, DetachedKnown
<1>5. Typed'
  BY <1>0, <1>2, <1>3 DEF Typed
<1>6. Known'
  BY <1>0, <1>2, <1>3, <1>4 DEF Known, Knows
<1> QED
  BY <1>5, <1>6

--------------------------------------------------------------------------------
(* Each request waits for one save *)

\* A save that no request waits for.
LEMMA SaveUnwanted ==
    ASSUME Typed, Wanted, NEW c \in Chat, NEW row \in Row, NEW k \in BOOLEAN,
           Save(c, row, Null, k), UNCHANGED <<task, replies>>
    PROVE  Wanted'
<1>1. /\ \A i \in DOMAIN saves' : i \in DOMAIN saves \/ i = Len(saves) + 1
      /\ \A i \in DOMAIN saves : saves'[i] = saves[i]
      /\ saves'[Len(saves) + 1].for = Null
  <2>1. /\ Null \in Msg \cup {Null} /\ saves \in Seq(SaveCall) /\ mishap \subseteq Mishaps
    BY DEF Typed
  <2> QED
    BY <2>1, SaveJoins
<1>2. \A i \in DOMAIN saves' : saves'[i].for # Null => i \in DOMAIN saves /\ saves'[i] = saves[i]
  BY <1>1
<1> QED
  BY <1>2 DEF Wanted

LEMMA SendWanted == ASSUME Typed, Known, Wanted, NEW m \in Msg, Send(m) PROVE Wanted'
<1>1. m # Null /\ task[m] = "none" /\ replies' = replies /\ task' = [task EXCEPT ![m] = "saving"]
  BY BoundsAssumption DEF Send, Msg, Null
<1>2. /\ \A i \in DOMAIN saves' : i \in DOMAIN saves \/ i = Len(saves) + 1
      /\ \A i \in DOMAIN saves : saves'[i] = saves[i]
      /\ saves'[Len(saves) + 1].for = m /\ saves'[Len(saves) + 1].kept
  <2>1. Save(shown, hist', m, TRUE) /\ shown \in Chat
    BY DEF Send, Typed
  <2>2. hist' \in Row
    BY SendKnown DEF Typed
  <2> QED
    BY <2>1, <2>2, SaveJoins DEF Typed
<1>3. task'[m] = "saving" /\ \A k \in Msg : task[k] = "saving" => k # m /\ task'[k] = "saving"
  BY <1>1 DEF Typed
<1>4. /\ \A i \in DOMAIN saves : saves[i].for \in Msg \cup {Null} /\ saves[i].for # m
      /\ \A r \in replies : r.for \in Msg \cup {Null} /\ r.for # m
  <2>1. \A i \in DOMAIN saves : saves[i] \in SaveCall
    BY LenProperties, ElementOfSeq DEF Typed
  <2> QED
    BY <1>1, <2>1 DEF Wanted, SaveCall, Reply, Typed
<1>5. \A i \in DOMAIN saves' :
         saves'[i].for # Null => task'[saves'[i].for] = "saving" /\ saves'[i].kept
  BY <1>2, <1>3, <1>4 DEF Wanted
<1>6. \A r \in replies' : r.for # Null => task'[r.for] = "saving"
  BY <1>1, <1>3, <1>4 DEF Wanted
<1>7. \A i, j \in DOMAIN saves' : saves'[i].for = saves'[j].for /\ saves'[i].for # Null => i = j
  BY <1>2, <1>4 DEF Wanted
<1>8. \A i \in DOMAIN saves', r \in replies' : saves'[i].for = r.for => r.for = Null
  BY <1>1, <1>2, <1>4 DEF Wanted
<1> QED
  BY <1>1, <1>5, <1>6, <1>7, <1>8 DEF Wanted

LEMMA SaveArrivesWanted ==
    ASSUME Typed, Wanted, NEW n \in DOMAIN saves, SaveArrives(n) PROVE Wanted'
<1> DEFINE s == saves[n]
           reply == [row |-> s.row, for |-> s.for]
           at(i) == IF i < n THEN i ELSE i + 1
<1>1. /\ saves' = RemoveAt(saves, n) /\ task' = task
      /\ replies' = replies \cup (IF s.kept THEN {reply} ELSE {})
  BY DEF SaveArrives
<1>2. /\ Len(saves) \in Nat /\ n \in 1 .. Len(saves)
      /\ DOMAIN saves = 1 .. Len(saves) /\ DOMAIN saves' = 1 .. Len(saves) - 1
      /\ \A i \in 1 .. Len(saves) - 1 : saves'[i] = IF i < n THEN saves[i] ELSE saves[i + 1]
  BY <1>1, RemoveAtElements DEF Typed
<1>3. ASSUME NEW i \in DOMAIN saves'
      PROVE  at(i) \in DOMAIN saves /\ at(i) # n /\ saves'[i] = saves[at(i)]
  BY <1>2
<1>4. ASSUME NEW i \in DOMAIN saves', NEW j \in DOMAIN saves', at(i) = at(j) PROVE i = j
  BY <1>2, <1>4
<1> HIDE DEF at
<1>5. \A i \in DOMAIN saves' :
         /\ saves'[i].for # Null => task'[saves'[i].for] = "saving" /\ saves'[i].kept
         /\ saves'[i].for # Null => saves'[i].for # s.for
  BY <1>1, <1>3 DEF Wanted
<1>6. \A i, j \in DOMAIN saves' : saves'[i].for = saves'[j].for /\ saves'[i].for # Null => i = j
  BY <1>3, <1>4 DEF Wanted
<1>7. reply.for = s.for
  OBVIOUS
<1> HIDE DEF reply
<1>8. \A r \in replies' : r \in replies \/ r = reply
  BY <1>1
<1>9. \A r \in replies : s.for = r.for => r.for = Null
  BY DEF Wanted
<1> HIDE DEF s
<1>10. s.for # Null => task[s.for] = "saving"
  BY DEF s, Wanted
<1>11. \A r \in replies' : r.for # Null => task'[r.for] = "saving"
  BY <1>1, <1>7, <1>8, <1>10 DEF Wanted
<1>12. \A r, q \in replies' : r.for = q.for /\ r.for # Null => r = q
  BY <1>7, <1>8, <1>9 DEF Wanted
<1>13. \A i \in DOMAIN saves', r \in replies' : saves'[i].for = r.for => r.for = Null
  BY <1>3, <1>5, <1>7, <1>8 DEF Wanted
<1> QED
  BY <1>5, <1>6, <1>11, <1>12, <1>13 DEF Wanted

LEMMA SaveReturnsWanted ==
    ASSUME Typed, Wanted, NEW r \in replies, SaveReturns(r) PROVE Wanted'
<1>1. /\ replies' = replies \ {r} /\ saves' = saves
      /\ task' = [m \in Msg |-> IF m = r.for THEN "ready" ELSE task[m]]
  BY DEF SaveReturns
<1>2. \A i \in DOMAIN saves : saves[i].for # Null => saves[i].for \in Msg /\ saves[i].for # r.for
  <2>1. \A i \in DOMAIN saves : saves[i] \in SaveCall
    BY LenProperties, ElementOfSeq DEF Typed
  <2> QED
    BY <2>1 DEF Wanted, SaveCall
<1>3. \A q \in replies \ {r} : q.for # Null => q.for \in Msg /\ q.for # r.for
  BY DEF Wanted, Typed, Reply
<1> QED
  BY <1>1, <1>2, <1>3 DEF Wanted

\* What a step of the task leaves alone.
LEMMA TaskWanted ==
    ASSUME Typed, Wanted, NEW m \in Msg, Post(m) \/ Begin(m) \/ Stream(m) \/ Keep(m) \/ Tell(m)
    PROVE  Wanted'
<1>1. /\ task[m] # "saving" /\ replies' = replies /\ saves' = saves
      /\ \A k \in Msg \ {m} : task'[k] = task[k]
  BY DEF Post, Begin, Stream, Keep, Tell, Typed
<1>2. \A i \in DOMAIN saves : saves[i].for \in Msg \cup {Null}
  <2>1. \A i \in DOMAIN saves : saves[i] \in SaveCall
    BY LenProperties, ElementOfSeq DEF Typed
  <2> QED
    BY <2>1 DEF SaveCall
<1>3. \A r \in replies : r.for \in Msg \cup {Null}
  BY DEF Typed, Reply
<1> QED
  BY <1>1, <1>2, <1>3 DEF Wanted

LEMMA StepWanted == ASSUME Typed, Known, Wanted, Step PROVE Wanted'
<1>1. shown \in Chat /\ hist \in Row /\ Null \in Msg \cup {Null}
  BY DEF Typed
<1>2. CASE \E c \in Chat : Navigate(c)
  BY <1>2 DEF Navigate, Wanted
<1>3. CASE \E l \in loads : LoadStep(l)
  BY <1>3 DEF LoadStep, RowRead, RowComes, Install, MarkDone, Loaded, Wanted
<1>4. CASE \E i \in DOMAIN saves : SaveArrives(i)
  BY <1>4, SaveArrivesWanted
<1>5. CASE \E r \in replies : SaveReturns(r)
  BY <1>5, SaveReturnsWanted
<1>6. CASE Rate
  BY <1>1, <1>6, SaveUnwanted DEF Rate
<1>7. CASE \E m \in Msg : Send(m)
  BY <1>7, SendWanted
<1>8. CASE \E m \in Msg : Post(m) \/ Begin(m) \/ Stream(m) \/ Keep(m) \/ Tell(m)
  BY <1>8, TaskWanted
<1>9. CASE Handle
  BY <1>9 DEF Handle, Wanted
<1>10. CASE \E c \in completing : Completed(c)
  <2>1. PICK c \in completing : Completed(c)
    BY <1>10
  <2>2. hist' \in Row
    BY <2>1, CompletedKnown DEF Typed
  <2>3. Save(shown, hist', Null, TRUE) \/ UNCHANGED <<saves, mishap>>
    BY <2>1 DEF Completed
  <2>4. UNCHANGED <<task, replies>>
    BY <2>1 DEF Completed
  <2>5. CASE Save(shown, hist', Null, TRUE)
    BY <1>1, <2>2, <2>4, <2>5, SaveUnwanted
  <2>6. CASE UNCHANGED <<saves, mishap>>
    BY <2>4, <2>6 DEF Wanted
  <2> QED
    BY <2>3, <2>5, <2>6
<1>11. CASE \E m \in Msg : Begins(m)
  <2>1. UNCHANGED <<task, replies, saves>>
    BY <1>11, BeginsEffect DEF Elsewhere
  <2> QED
    BY <2>1 DEF Wanted
<1>12. CASE \E h \in held : HeldStep(h)
  <2>1. PICK h \in held : HeldStep(h)
    BY <1>12
  <2>2. CASE SaveCopy(h)
    <3>1. Save(shown, hist, Null, FALSE) /\ UNCHANGED <<task, replies>>
      BY <2>2 DEF SaveCopy
    <3> QED
      BY <1>1, <3>1, SaveUnwanted
  <2>3. CASE TagsRead(h) \/ TagsCome(h) \/ Resume(h)
    <3>1. UNCHANGED <<task, replies, saves>>
      BY <2>3 DEF TagsRead, TagsCome, Resume
    <3> QED
      BY <3>1 DEF Wanted
  <2> QED
    BY <2>1, <2>2, <2>3 DEF HeldStep
<1> QED
  BY <1>2, <1>3, <1>4, <1>5, <1>6, <1>7, <1>8, <1>9, <1>10, <1>11, <1>12
  DEF Step, LoadStep, Begins, HeldStep

--------------------------------------------------------------------------------
(* Chats stay apart *)

\* A history has answers of its own chat alone.
Own(of, row) == \A m \in Present(row) : of[m] = row.of

OwnRows ==
    /\ Own(home, hist) /\ Own(home, fetched)
    /\ \A c \in Chat : Own(home, stored[c]) /\ stored[c].of = c
    /\ \A l \in loads : Own(home, l.row)
    /\ \A i \in DOMAIN saves : Own(home, saves[i].row)
    /\ \A r \in replies : Own(home, r.row)
    /\ \A h \in held : Own(home, h.row)
\* The page waits for one load at most, and while it does for nothing else; what it
\* waits for concerns the chat of the route.
Here ==
    /\ \A k, l \in loads : k = l
    /\ loading <=> loads # {}
    /\ \A l \in loads : l.chat = shown /\ l.row.of = shown
    /\ \A l \in loads : l.at \notin {"settings", "shown"} =>
                            hist.of # shown /\ saves = <<>> /\ replies = {}
    /\ \A l \in loads : l.at = "tags" => fetched = l.row
    /\ (\A l \in loads : l.at \in {"settings", "shown"}) => hist.of = shown
    /\ \A i \in DOMAIN saves : saves[i].chat = shown /\ saves[i].row.of = shown
    /\ \A r \in replies : r.row.of = shown
    /\ \A m \in Msg : task[m] \in {"saving", "ready"} => home[m] = shown /\ ~loading
    /\ \A h \in held : h.left > 0 => ~loading
\* Requests, events and handlers name the chat of the answer.
Directed ==
    /\ \A m \in Msg : task[m] \notin {"none", "saving", "ready"} => target[m] = home[m]
    /\ \A i \in DOMAIN events : events[i].chat = home[events[i].msg]
    /\ \A c \in completing, m \in Msg : m \in Holds(c.text) => home[m] = c.chat

\* No step of the user left a request behind, and no handler wrote late.
Calm == "hasty" \notin mishap /\ "late" \notin mishap

Apart == Calm => OwnRows /\ Here /\ Directed

\* What a handler holds of a row and of saves to come stays when messages are replaced.
LEMMA DetachedApart ==
    ASSUME Typed, NEW ms, held' = Detached(ms)
    PROVE  \A k \in held' : \E g \in held : k.row = g.row /\ k.left = g.left
<1>1. held \subseteq Holder /\ hist \in Row
  BY DEF Typed
<1>2. SUFFICES ASSUME NEW k \in Detached(ms)
               PROVE  \E g \in held : k.row = g.row /\ k.left = g.left
  OBVIOUS
<1> QED
  BY <1>1, DetachedHolders
LEMMA NavigateApart ==
    ASSUME Typed, OwnRows, Here, Directed, NEW c \in Chat, Navigate(c), "hasty" \notin mishap'
    PROVE  OwnRows' /\ Here' /\ Directed'
<1> USE DEF page, asked
<1>1. /\ loads = {} /\ saves = <<>> /\ replies = {}
      /\ \A m \in Msg : task[m] \notin {"saving", "ready"}
      /\ \A h \in held : ~(h.left > 0)
  BY DEF Navigate, MishapIf, Unanswered
<1> DEFINE k == [id |-> counts.moves, chat |-> c, at |-> "sent", row |-> stored[c]]
<1>2. loads' = {k} /\ k.chat = c /\ k.at = "sent" /\ k.row = stored[c]
  BY <1>1 DEF Navigate
<1> HIDE DEF k
<1>3. shown' = c /\ loading' = TRUE /\ hist.of # c
  BY <1>1 DEF Navigate, Here
<1>4. UNCHANGED <<hist, fetched, stored, saves, replies, home, task, target, events, completing,
                  held>>
  BY DEF Navigate
<1>5. OwnRows'
  BY <1>1, <1>2, <1>4 DEF OwnRows
<1>6. Here'
  BY <1>1, <1>2, <1>3, <1>4 DEF Here, OwnRows
<1>7. Directed'
  BY <1>4 DEF Directed
<1> QED
  BY <1>5, <1>6, <1>7

LEMMA LoadApart ==
    ASSUME Typed, OwnRows, Here, Directed, NEW l \in loads,
           LoadStep(l)
    PROVE  OwnRows' /\ Here' /\ Directed'
<1> USE DEF page, asked
<1>1. /\ loads = {l} /\ l.row \in Row /\ stored[l.chat] \in Row /\ l.chat \in Chat
      /\ l.chat = shown /\ l.row.of = shown /\ stored[l.chat].of = shown /\ loading
      /\ Own(home, l.row) /\ Own(home, stored[l.chat])
      /\ \A m \in Msg : task[m] \notin {"saving", "ready"}
  BY DEF Typed, LoadCall, Here, OwnRows
<1>2. /\ UNCHANGED <<shown, stored, saves, replies, home, task, target, events, completing>>
      /\ Directed'
  BY DEF LoadStep, RowRead, RowComes, Install, MarkDone, Loaded, Directed
<1>0. /\ \A k \in held' : \E g \in held : k.row = g.row /\ k.left = g.left
      /\ \A k \in held' : Own(home, k.row) /\ ~(k.left > 0)
  <2>1. \A k \in held' : \E g \in held : k.row = g.row /\ k.left = g.left
    <3>1. CASE Install(l)
      BY <3>1, DetachedApart DEF Install
    <3>2. CASE ~Install(l)
      BY <3>2 DEF LoadStep, RowRead, RowComes, MarkDone, Loaded
    <3> QED
      BY <3>1, <3>2
  <2> QED
    BY <1>1, <2>1 DEF OwnRows, Here
<1>3. ASSUME NEW at \in {"read", "tags", "settings", "shown"}, NEW row \in Row, LoadTo(l, at, row)
      PROVE  \E k : loads' = {k} /\ k.chat = l.chat /\ k.at = at /\ k.row = row
  <2>1. loads \subseteq LoadCall
    BY DEF Typed
  <2>2. \E k \in LoadCall : /\ k.chat = l.chat /\ k.at = at /\ k.row = row
                            /\ loads' = (loads \ {l}) \cup {k}
    BY <1>3, <2>1, LoadMoves
  <2> QED
    BY <1>1, <2>2
<1>4. CASE RowRead(l)
  <2>1. PICK k : loads' = {k} /\ k.chat = l.chat /\ k.at = "read" /\ k.row = stored[l.chat]
    BY <1>1, <1>3, <1>4 DEF RowRead
  <2>2. l.at = "sent" /\ UNCHANGED <<hist, fetched, loading>>
    BY <1>4 DEF RowRead
  <2> QED
    BY <1>0, <1>1, <1>2, <2>1, <2>2 DEF OwnRows, Here
<1>5. CASE RowComes(l)
  <2>1. PICK k : loads' = {k} /\ k.chat = l.chat /\ k.at = "tags" /\ k.row = l.row
    BY <1>1, <1>3, <1>5 DEF RowComes
  <2>2. l.at = "read" /\ fetched' = l.row /\ UNCHANGED <<hist, loading>>
    BY <1>5 DEF RowComes
  <2> QED
    BY <1>0, <1>1, <1>2, <2>1, <2>2 DEF OwnRows, Here
<1>6. CASE Install(l)
  <2>1. PICK k : loads' = {k} /\ k.chat = l.chat /\ k.at = "settings" /\ k.row = l.row
    BY <1>1, <1>3, <1>6 DEF Install
  <2>2. l.at = "tags" /\ hist' = fetched /\ fetched = l.row /\ UNCHANGED <<fetched, loading>>
    BY <1>6 DEF Install, Here
  <2> QED
    BY <1>0, <1>1, <1>2, <2>1, <2>2 DEF OwnRows, Here
<1>7. CASE MarkDone(l)
  <2>1. PICK k : loads' = {k} /\ k.chat = l.chat /\ k.at = "shown" /\ k.row = l.row
    BY <1>1, <1>3, <1>7 DEF MarkDone
  <2>2. l.at = "settings" /\ UNCHANGED <<hist, fetched, loading>>
    BY <1>7 DEF MarkDone
  <2> QED
    BY <1>0, <1>1, <1>2, <2>1, <2>2 DEF OwnRows, Here
<1>8. CASE Loaded(l)
  <2>1. loads' = {} /\ ~loading' /\ l.at = "shown" /\ UNCHANGED <<hist, fetched>>
    BY <1>1, <1>8 DEF Loaded
  <2> QED
    BY <1>0, <1>1, <1>2, <2>1 DEF OwnRows, Here
<1> QED
  BY <1>2, <1>4, <1>5, <1>6, <1>7, <1>8 DEF LoadStep

LEMMA SaveArrivesApart ==
    ASSUME Typed, OwnRows, Here, Directed, NEW n \in DOMAIN saves, SaveArrives(n)
    PROVE  OwnRows' /\ Here' /\ Directed'
<1> USE DEF page, asked
<1> DEFINE s == saves[n]
<1>1. /\ s \in SaveCall /\ s.chat \in Chat /\ s.row \in Row /\ s.chat = shown /\ s.row.of = shown
      /\ Own(home, s.row)
  <2>1. saves[n] \in SaveCall
    BY LenProperties, ElementOfSeq DEF Typed
  <2> QED
    BY <2>1 DEF SaveCall, Here, OwnRows
<1>2. \A i \in DOMAIN saves' : \E j \in DOMAIN saves : saves'[i] = saves[j]
  <2>1. /\ Len(saves) \in Nat /\ n \in 1 .. Len(saves)
        /\ DOMAIN saves = 1 .. Len(saves) /\ DOMAIN saves' = 1 .. Len(saves) - 1
        /\ \A i \in 1 .. Len(saves) - 1 : saves'[i] = IF i < n THEN saves[i] ELSE saves[i + 1]
    BY RemoveAtElements DEF Typed, SaveArrives
  <2>2. \A i \in 1 .. Len(saves) - 1 : i \in 1 .. Len(saves) /\ i + 1 \in 1 .. Len(saves)
    BY <2>1
  <2> QED
    BY <2>1, <2>2
<1>3. /\ stored' = [stored EXCEPT ![s.chat] = s.row]
      /\ \A r \in replies' : r \in replies \/ r.row = s.row
      /\ UNCHANGED <<shown, loading, hist, fetched, loads, home, task, target, events, completing,
                     held>>
  BY DEF SaveArrives
<1>4. saves # <<>>
  BY LenProperties, EmptySeq DEF Typed
<1>5. \A l \in loads : l.at \in {"settings", "shown"}
  BY <1>4 DEF Here
<1> HIDE DEF s
<1>6. OwnRows'
  BY <1>1, <1>2, <1>3 DEF OwnRows, Typed
<1>7. Here'
  BY <1>1, <1>2, <1>3, <1>5 DEF Here
<1>8. Directed'
  BY <1>3 DEF Directed
<1> QED
  BY <1>6, <1>7, <1>8

LEMMA SaveReturnsApart ==
    ASSUME Typed, Wanted, OwnRows, Here, Directed, NEW r \in replies, SaveReturns(r)
    PROVE  OwnRows' /\ Here' /\ Directed'
<1> USE DEF page, asked
<1>1. /\ fetched' = r.row /\ replies' = replies \ {r}
      /\ UNCHANGED <<shown, loading, hist, loads, stored, saves, home, target, events, completing,
                     held>>
  BY DEF SaveReturns
<1>2. \A m \in Msg : task'[m] # task[m] => task[m] = "saving" /\ task'[m] = "ready"
  BY BoundsAssumption DEF SaveReturns, Wanted, Msg, Null
<1>3. \A l \in loads : l.at \in {"settings", "shown"}
  BY DEF Here
<1>4. OwnRows'
  BY <1>1 DEF OwnRows
<1>5. Here'
  BY <1>1, <1>2, <1>3 DEF Here
<1>6. Directed'
  BY <1>1, <1>2 DEF Directed
<1> QED
  BY <1>4, <1>5, <1>6

\* A save of the page's own history for the chat of the route.
LEMMA SaveApart ==
    ASSUME saves \in Seq(SaveCall), mishap \subseteq Mishaps,
           OwnRows, Here, NEW c \in Chat, NEW row \in Row, NEW m \in Msg \cup {Null},
           Save(c, row, m, TRUE) \/ Save(c, row, m, FALSE), c = shown, row.of = shown
    PROVE  \A i \in DOMAIN saves' : /\ saves'[i].chat = shown /\ saves'[i].row.of = shown
                                   /\ \/ i \in DOMAIN saves /\ saves'[i] = saves[i]
                                      \/ saves'[i].row = row
<1>1. /\ \A i \in DOMAIN saves' : i \in DOMAIN saves \/ i = Len(saves) + 1
      /\ \A i \in DOMAIN saves : saves'[i] = saves[i]
      /\ saves'[Len(saves) + 1].chat = c /\ saves'[Len(saves) + 1].row = row
  <2>1. PICK k \in BOOLEAN : Save(c, row, m, k)
    OBVIOUS
  <2> QED
    BY <2>1, SaveJoins
<1> QED
  BY <1>1 DEF Here

LEMMA RateApart ==
    ASSUME Typed, OwnRows, Here, Directed, Rate PROVE OwnRows' /\ Here' /\ Directed'
<1> USE DEF page, asked
<1>1. /\ ~loading /\ Save(shown, hist, Null, FALSE)
      /\ UNCHANGED <<shown, loading, hist, fetched, loads, stored, replies, home, task, target,
                     events, completing, held>>
  BY DEF Rate
<1>2. loads = {} /\ hist.of = shown /\ shown \in Chat /\ hist \in Row
  BY <1>1 DEF Here, Typed
<1>3. \A i \in DOMAIN saves' : /\ saves'[i].chat = shown /\ saves'[i].row.of = shown
                              /\ \/ i \in DOMAIN saves /\ saves'[i] = saves[i]
                                 \/ saves'[i].row = hist
  <2>1. Null \in Msg \cup {Null} /\ saves \in Seq(SaveCall) /\ mishap \subseteq Mishaps
    BY DEF Typed
  <2> QED
    BY <1>1, <1>2, <2>1, SaveApart
<1>4. OwnRows'
  BY <1>1, <1>3 DEF OwnRows
<1>5. Here'
  BY <1>1, <1>2, <1>3 DEF Here
<1>6. Directed'
  BY <1>1 DEF Directed
<1> QED
  BY <1>4, <1>5, <1>6

LEMMA SendApart ==
    ASSUME Typed, Known, OwnRows, Here, Directed, NEW m \in Msg, Send(m)
    PROVE  OwnRows' /\ Here' /\ Directed'
<1> USE DEF page, asked
<1>1. /\ ~loading /\ Save(shown, hist', m, TRUE) /\ task[m] = "none"
      /\ home' = [home EXCEPT ![m] = shown] /\ task' = [task EXCEPT ![m] = "saving"]
      /\ UNCHANGED <<shown, loading, fetched, loads, stored, replies, target, events, completing,
                     held>>
  BY DEF Send
<1>2. loads = {} /\ hist.of = shown /\ shown \in Chat
  BY <1>1 DEF Here, Typed
<1>3. hist' \in Row /\ hist'.of = shown /\ Present(hist') = Present(hist) \cup {m}
  <2>1. hist \in Row /\ hist' = [hist EXCEPT !.text[m] = Empty, !.current = m]
    BY DEF Typed, Send
  <2>2. Empty \in Text /\ Empty # Absent
    BY DEF Text, Empty, Absent, Full
  <2>3. /\ hist' \in Row /\ hist'.of = hist.of
        /\ hist'.text[m] = Empty /\ \A k \in Msg \ {m} : hist'.text[k] = hist.text[k]
    BY <2>1, <2>2 DEF Row
  <2> QED
    BY <1>2, <2>2, <2>3 DEF Present
<1>4. \A i \in DOMAIN saves' : /\ saves'[i].chat = shown /\ saves'[i].row.of = shown
                              /\ \/ i \in DOMAIN saves /\ saves'[i] = saves[i]
                                 \/ saves'[i].row = hist'
  <2>1. saves \in Seq(SaveCall) /\ mishap \subseteq Mishaps
    BY DEF Typed
  <2> QED
    BY <1>1, <1>2, <1>3, <2>1, SaveApart
<1>5. m \notin AskedFor /\ home'[m] = shown /\ \A k \in AskedFor : home'[k] = home[k]
  BY <1>1 DEF AskedFor, Typed
<1>6. ASSUME NEW row, Own(home, row), Knows(AskedFor, row) PROVE Own(home', row)
  BY <1>5, <1>6 DEF Own, Knows, Present
<1>7. Own(home', hist')
  <2>1. Own(home', hist)
    BY <1>6 DEF OwnRows, Known
  <2> QED
    BY <1>2, <1>3, <1>5, <2>1 DEF Own
<1>8. OwnRows'
  BY <1>1, <1>4, <1>6, <1>7 DEF OwnRows, Known
<1>9. Here'
  BY <1>1, <1>2, <1>3, <1>4, <1>5 DEF Here, Typed, AskedFor
<1>10. Directed'
  <2>1. \A k \in Msg : task'[k] \notin {"none", "saving", "ready"} =>
                           k \in AskedFor /\ task'[k] = task[k]
    BY <1>1 DEF Typed, AskedFor
  <2>2. \A k \in Msg : task'[k] \notin {"none", "saving", "ready"} => target'[k] = home'[k]
    BY <1>1, <1>5, <2>1 DEF Directed
  <2>3. \A i \in DOMAIN events' : events'[i].chat = home'[events'[i].msg]
    BY <1>1, <1>5 DEF Directed, Known
  <2>4. \A c \in completing', k \in Msg : k \in Holds(c.text) => home'[k] = c.chat
    BY <1>1, <1>5 DEF Directed, Known
  <2> QED
    BY <2>2, <2>3, <2>4 DEF Directed
<1> QED
  BY <1>8, <1>9, <1>10

\* What the task of an answer writes, it writes into the chat of the answer.
LEMMA UpsertApart ==
    ASSUME Typed, OwnRows, NEW m \in Msg, target[m] = home[m], NEW x \in Text, Upsert(m, x)
    PROVE  \A c \in Chat : Own(home, stored'[c]) /\ stored'[c].of = c
<1>1. target[m] \in Chat /\ stored \in [Chat -> Row]
  BY DEF Typed
<1>2. /\ \A c \in Chat \ {target[m]} : stored'[c] = stored[c]
      /\ stored'[target[m]].of = stored[target[m]].of
      /\ \A k \in Msg \ {m} : stored'[target[m]].text[k] = stored[target[m]].text[k]
  BY <1>1, UpsertRow
<1>3. stored'[target[m]].of = target[m]
  BY <1>1, <1>2 DEF OwnRows
<1>4. Own(home, stored'[target[m]])
  <2>1. ASSUME NEW k \in Present(stored'[target[m]]) PROVE home[k] = target[m]
    <3>1. CASE k = m
      BY <3>1
    <3>2. CASE k # m
      BY <1>1, <1>2, <2>1, <3>2 DEF Present, OwnRows, Own
    <3> QED
      BY <3>1, <3>2
  <2> QED
    BY <1>3, <2>1 DEF Own
<1> QED
  BY <1>2, <1>3, <1>4 DEF OwnRows

LEMMA TaskApart ==
    ASSUME Typed, Known, OwnRows, Here, Directed, NEW m \in Msg,
           Post(m) \/ Begin(m) \/ Stream(m) \/ Keep(m) \/ Tell(m)
    PROVE  OwnRows' /\ Here' /\ Directed'
<1> USE DEF page, asked
<1>1. /\ UNCHANGED <<shown, loading, hist, fetched, loads, saves, replies, home, completing, held>>
      /\ \A k \in Msg \ {m} : task'[k] = task[k]
      /\ task'[m] \notin {"none", "saving", "ready"} /\ task[m] # "none"
      /\ m \in AskedFor
  BY DEF Post, Begin, Stream, Keep, Tell, Typed, AskedFor
<1>2. Part \in {Part, Full} /\ Full \in {Part, Full} /\ Empty \in Text /\ Full \in Text
  BY DEF Text, Absent, Empty, Part, Full
<1>3. Here'
  BY <1>1 DEF Here
<1>4. CASE Post(m)
  <2>1. /\ UNCHANGED <<stored, events>>
        /\ task[m] = "ready" /\ target'[m] = shown /\ \A k \in Msg \ {m} : target'[k] = target[k]
    BY <1>4 DEF Post, Typed
  <2>2. target'[m] = home[m]
    BY <2>1 DEF Here
  <2>3. OwnRows'
    BY <1>1, <2>1 DEF OwnRows
  <2>4. Directed'
    BY <1>1, <2>1, <2>2 DEF Directed
  <2> QED
    BY <1>3, <2>3, <2>4
<1>5. CASE Begin(m) \/ Keep(m)
  <2>1. UNCHANGED <<target, events>> /\ target[m] = home[m]
    BY <1>5 DEF Begin, Keep, Directed
  <2>2. PICK x \in Text : Upsert(m, x)
    BY <1>2, <1>5 DEF Begin, Keep, Typed, Row
  <2>3. \A c \in Chat : Own(home, stored'[c]) /\ stored'[c].of = c
    BY <2>1, <2>2, UpsertApart
  <2>4. OwnRows'
    BY <1>1, <2>3 DEF OwnRows
  <2>5. Directed'
    BY <1>1, <2>1 DEF Directed
  <2> QED
    BY <1>3, <2>4, <2>5
<1>6. CASE Stream(m) \/ Tell(m)
  <2>1. UNCHANGED <<target, stored>> /\ target[m] = home[m]
    BY <1>6 DEF Stream, Tell, Directed
  <2>2. PICK x \in {Part, Full} : Emit(m, x)
    BY <1>2, <1>6 DEF Stream, Tell
  <2>3. /\ \A i \in DOMAIN events' : i \in DOMAIN events \/ i = Len(events) + 1
        /\ \A i \in DOMAIN events : events'[i] = events[i]
        /\ events'[Len(events) + 1].msg = m /\ events'[Len(events) + 1].chat = target[m]
    BY <1>1, <2>2, EmitKnown
  <2>4. OwnRows'
    BY <1>1, <2>1 DEF OwnRows
  <2>5. Directed'
    BY <1>1, <2>1, <2>3 DEF Directed
  <2> QED
    BY <1>3, <2>4, <2>5
<1> QED
  BY <1>4, <1>5, <1>6

LEMMA HandleApart ==
    ASSUME Typed, OwnRows, Here, Directed, Handle PROVE OwnRows' /\ Here' /\ Directed'
<1> USE DEF page, asked
<1> DEFINE e == Head(events)
<1> HIDE DEF e
<1>0. e = Head(events)
  BY DEF e
<1>1. /\ e = events[1] /\ 1 \in DOMAIN events /\ e.msg \in Msg
      /\ \A i \in DOMAIN events' : i + 1 \in DOMAIN events /\ events'[i] = events[i + 1]
  BY <1>0, HandleEffect DEF Event
<1>2. Present(hist') = Present(hist) /\ hist'.of = hist.of
  BY <1>0, HandleEffect
<1>3. UNCHANGED <<shown, loading, fetched, loads, stored, saves, replies, home, task, target, held>>
  BY DEF Handle
<1>4. e.chat = home[e.msg]
  BY <1>1 DEF Directed
<1>5. OwnRows'
  BY <1>2, <1>3 DEF OwnRows, Own
<1>6. Here'
  BY <1>2, <1>3 DEF Here
<1>7. \A c \in completing', k \in Msg : k \in Holds(c.text) => home[k] = c.chat
  <2>1. CASE e.chat = shown /\ e.msg \in Present(hist) /\ e.text = Full
    <3>1. PICK d \in Hook : /\ completing' = completing \cup {d}
                            /\ d.chat = shown /\ Holds(d.text) = Branch(hist', e.msg)
      BY <1>0, <2>1, HandleEffect
    <3>2. Holds(d.text) \subseteq Present(hist)
      BY <1>1, <1>2, <2>1, <3>1, BranchThere
    <3>3. hist.of = shown
      BY <1>4, <2>1 DEF OwnRows, Own
    <3>4. \A k \in Msg : k \in Holds(d.text) => home[k] = d.chat
      BY <3>1, <3>2, <3>3 DEF OwnRows, Own
    <3> QED
      BY <3>1, <3>4 DEF Directed
  <2>2. CASE ~(e.chat = shown /\ e.msg \in Present(hist) /\ e.text = Full)
    <3>1. completing' = completing
      BY <1>0, <2>2, HandleEffect
    <3> QED
      BY <3>1 DEF Directed
  <2> QED
    BY <2>1, <2>2
<1>8. Directed'
  BY <1>1, <1>3, <1>7 DEF Directed
<1> QED
  BY <1>5, <1>6, <1>8

LEMMA CompletedApart ==
    ASSUME Typed, Known, OwnRows, Here, Directed, NEW c \in completing, Completed(c)
    PROVE  OwnRows' /\ Here' /\ Directed'
<1> USE DEF page, asked
<1>1. c \in [chat : Chat, text : [Msg -> Text]] /\ hist \in Row /\ shown \in Chat
  BY DEF Typed, Hook
<1>2. /\ hist' \in Row /\ hist'.of = hist.of /\ Present(hist') = Present(hist)
      /\ completing' = completing \ {c}
  BY <1>1, CompletedRow
<1>3. UNCHANGED <<shown, loading, fetched, loads, stored, replies, home, task, target, events>>
  BY DEF Completed
<1>4. Own(home, hist')
  BY <1>2 DEF OwnRows, Own
<1>5. Directed'
  BY <1>2, <1>3 DEF Directed
<1>0. \A k \in held' : Own(home, k.row) /\ (k.left > 0 => ~loading)
  <2>1. held' = Detached({m \in Msg : c.text[m] # Absent /\ There(c, m)})
    BY <1>1, CompletedRow
  <2>2. \A k \in held' : \E g \in held : k.row = g.row /\ k.left = g.left
    BY <2>1, DetachedApart
  <2> QED
    BY <2>2 DEF OwnRows, Here
<1>6. CASE c.chat = shown /\ \A m \in Msg : There(c, m)
  <2>1. Save(shown, hist', Null, TRUE)
    BY <1>1, <1>6, CompletedRow
  <2>2. hist.of = shown
    <3>1. PICK m \in Msg : m \in Holds(c.text)
      BY DEF Known, Holds
    <3>2. m \in Present(hist)
      BY <1>1, <1>6, <3>1, CompletedRow DEF Holds
    <3> QED
      BY <1>6, <3>1, <3>2 DEF OwnRows, Own, Directed
  <2>3. \A i \in DOMAIN saves' : /\ saves'[i].chat = shown /\ saves'[i].row.of = shown
                                /\ \/ i \in DOMAIN saves /\ saves'[i] = saves[i]
                                   \/ saves'[i].row = hist'
    <3>1. Null \in Msg \cup {Null} /\ saves \in Seq(SaveCall) /\ mishap \subseteq Mishaps
      BY DEF Typed
    <3> QED
      BY <1>1, <1>2, <2>1, <2>2, <3>1, SaveApart
  <2>4. \A l \in loads : l.at \in {"settings", "shown"}
    BY <2>2 DEF Here
  <2>5. OwnRows'
    BY <1>0, <1>3, <1>4, <2>3 DEF OwnRows
  <2>6. Here'
    BY <1>0, <1>2, <1>3, <2>3, <2>4 DEF Here
  <2> QED
    BY <1>5, <2>5, <2>6
<1>7. CASE ~(c.chat = shown /\ \A m \in Msg : There(c, m))
  <2>1. saves' = saves
    BY <1>1, <1>7, CompletedRow
  <2>2. OwnRows'
    BY <1>0, <1>3, <1>4, <2>1 DEF OwnRows
  <2>3. Here'
    BY <1>0, <1>2, <1>3, <2>1 DEF Here
  <2> QED
    BY <1>5, <2>2, <2>3
<1> QED
  BY <1>6, <1>7

LEMMA BeginsApart ==
    ASSUME Typed, OwnRows, Here, Directed, NEW m \in Msg, Begins(m)
    PROVE  OwnRows' /\ Here' /\ Directed'
<1>1. PICK k \in Holder : /\ held' = held \cup {k} /\ k.row = Blank(shown)
                          /\ k.left > 0 => ~loading
  BY BeginsEffect
<1>2. UNCHANGED <<hist, done, fetched, saves, mishap, Elsewhere>>
  BY BeginsEffect
<1>3. Own(home, k.row)
  <2>1. Present(Blank(shown)) = {}
    BY BlankRow DEF Typed
  <2> QED
    BY <1>1, <2>1 DEF Own
<1>4. OwnRows'
  BY <1>1, <1>2, <1>3 DEF OwnRows, Elsewhere
<1>5. Here'
  BY <1>1, <1>2 DEF Here, Elsewhere
<1>6. Directed'
  BY <1>2 DEF Directed, Elsewhere
<1> QED
  BY <1>4, <1>5, <1>6

LEMMA HeldApart ==
    ASSUME Typed, Known, OwnRows, Here, Directed, NEW h \in held, HeldStep(h),
           "late" \notin mishap'
    PROVE  OwnRows' /\ Here' /\ Directed'
<1>1. /\ h \in Holder /\ h.msg \in Msg /\ target[h.msg] \in Chat /\ shown \in Chat
      /\ h.left \in 0 .. 2 /\ hist \in Row
  BY DEF Typed, Holder
<1>2. Own(home, stored[target[h.msg]]) /\ Own(home, Blank(shown)) /\ Own(home, h.row)
  <2>1. Present(Blank(shown)) = {}
    BY <1>1, BlankRow
  <2> QED
    BY <1>1, <2>1 DEF OwnRows, Own
<1>3. CASE TagsRead(h) \/ TagsCome(h)
  <2>1. /\ \A k \in held' :
              \/ k \in held
              \/ /\ k.left = h.left
                 /\ k.row = stored[target[h.msg]] \/ k.row = Blank(shown)
        /\ fetched' \in {fetched, h.row}
        /\ (\E l \in loads : l.at = "tags") => fetched' = fetched
        /\ UNCHANGED <<hist, done, saves, counts, Elsewhere>>
    BY <1>3, TagsEffect
  <2>2. OwnRows'
    BY <1>2, <2>1 DEF OwnRows, Elsewhere
  <2>3. \A k \in held' : k.left > 0 => ~loading
    BY <2>1 DEF Here
  <2>4. \A l \in loads : l.at = "tags" => fetched' = l.row
    BY <2>1 DEF Here
  <2>5. Here'
    BY <2>1, <2>3, <2>4 DEF Here, Elsewhere
  <2>6. Directed'
    BY <2>1 DEF Directed, Elsewhere
  <2> QED
    BY <2>2, <2>5, <2>6
<1>4. CASE Resume(h)
  <2>1. /\ \A k \in held' : k \in held \/ (k.row = h.row /\ k.left = h.left)
        /\ UNCHANGED <<hist, fetched, saves, counts, Elsewhere>>
    BY <1>4, ResumeEffect
  <2>2. OwnRows'
    BY <1>2, <2>1 DEF OwnRows, Elsewhere
  <2>3. Here'
    BY <2>1 DEF Here, Elsewhere
  <2>4. Directed'
    BY <2>1 DEF Directed, Elsewhere
  <2> QED
    BY <2>2, <2>3, <2>4
<1>5. CASE SaveCopy(h)
  <2>1. /\ \A k \in held' : k \in held \/ (k.row = h.row /\ k.left = 1)
        /\ Save(shown, hist, Null, FALSE)
        /\ UNCHANGED <<hist, done, fetched, counts, Elsewhere>>
    BY <1>5, SaveCopyEffect
  <2>2. ~loading
    <3>1. h.at = "save"
      BY <1>5 DEF SaveCopy
    <3>2. h.left > 0
      BY <1>1, <3>1 DEF Known
    <3> QED
      BY <3>2 DEF Here
  <2>3. loads = {} /\ hist.of = shown
    BY <2>2 DEF Here
  <2>4. \A i \in DOMAIN saves' : /\ saves'[i].chat = shown /\ saves'[i].row.of = shown
                                /\ \/ i \in DOMAIN saves /\ saves'[i] = saves[i]
                                   \/ saves'[i].row = hist
    <3>1. Null \in Msg \cup {Null} /\ saves \in Seq(SaveCall) /\ mishap \subseteq Mishaps
      BY DEF Typed
    <3> QED
      BY <1>1, <2>1, <2>3, <3>1, SaveApart
  <2>5. OwnRows'
    BY <1>2, <2>1, <2>4 DEF OwnRows, Elsewhere
  <2>6. Here'
    BY <2>1, <2>2, <2>3, <2>4 DEF Here, Elsewhere
  <2>7. Directed'
    BY <2>1 DEF Directed, Elsewhere
  <2> QED
    BY <2>5, <2>6, <2>7
<1> QED
  BY <1>3, <1>4, <1>5 DEF HeldStep

\* The record of mishaps only grows.
LEMMA MishapStays == ASSUME Typed, Step PROVE mishap \subseteq mishap'
<1>1. CASE \E c \in completing : Completed(c)
  BY <1>1 DEF Completed, Save, MishapIf
<1>2. CASE Rate
  BY <1>2 DEF Rate, Save, MishapIf
<1>3. CASE \E m \in Msg : Send(m)
  BY <1>3 DEF Send, Save, MishapIf
<1>4. CASE \E l \in loads : LoadStep(l)
  BY <1>4 DEF LoadStep, RowRead, RowComes, Install, MarkDone, Loaded, MishapIf
<1>5. CASE \E m \in Msg : Post(m) \/ Begin(m) \/ Stream(m) \/ Keep(m) \/ Tell(m)
  BY <1>5 DEF Post, Begin, Stream, Keep, Tell
<1>6. CASE Handle
  BY <1>6 DEF Handle, MishapIf
<1>7. CASE \/ \E c \in Chat : Navigate(c)
           \/ \E i \in DOMAIN saves : SaveArrives(i)
           \/ \E r \in replies : SaveReturns(r)
  BY <1>7 DEF Navigate, SaveArrives, SaveReturns, MishapIf
<1>8. CASE \E m \in Msg : Begins(m)
  BY <1>8, BeginsEffect
<1>9. CASE \E h \in held : HeldStep(h)
  BY <1>9 DEF HeldStep, TagsRead, TagsCome, Resume, SaveCopy, Save, MishapIf
<1> QED
  BY <1>1, <1>2, <1>3, <1>4, <1>5, <1>6, <1>7, <1>8, <1>9
  DEF Step, LoadStep, Begins, HeldStep

LEMMA StepApart == ASSUME Typed, Known, Wanted, Apart, Step PROVE Apart'
<1> SUFFICES ASSUME "hasty" \notin mishap', "late" \notin mishap'
             PROVE  OwnRows' /\ Here' /\ Directed'
  BY DEF Apart, Calm
<1>1. OwnRows /\ Here /\ Directed
  BY MishapStays DEF Apart, Calm
<1>2. CASE \E c \in Chat : Navigate(c)
  BY <1>1, <1>2, NavigateApart
<1>3. CASE \E l \in loads : LoadStep(l)
  BY <1>1, <1>3, LoadApart
<1>4. CASE \E i \in DOMAIN saves : SaveArrives(i)
  BY <1>1, <1>4, SaveArrivesApart
<1>5. CASE \E r \in replies : SaveReturns(r)
  BY <1>1, <1>5, SaveReturnsApart
<1>6. CASE Rate
  BY <1>1, <1>6, RateApart
<1>7. CASE \E m \in Msg : Send(m)
  BY <1>1, <1>7, SendApart
<1>8. CASE \E m \in Msg : Post(m) \/ Begin(m) \/ Stream(m) \/ Keep(m) \/ Tell(m)
  BY <1>1, <1>8, TaskApart
<1>9. CASE Handle
  BY <1>1, <1>9, HandleApart
<1>10. CASE \E c \in completing : Completed(c)
  BY <1>1, <1>10, CompletedApart
<1>11. CASE \E m \in Msg : Begins(m)
  BY <1>1, <1>11, BeginsApart
<1>12. CASE \E h \in held : HeldStep(h)
  BY <1>1, <1>12, HeldApart
<1> QED
  BY <1>2, <1>3, <1>4, <1>5, <1>6, <1>7, <1>8, <1>9, <1>10, <1>11, <1>12
  DEF Step, LoadStep, Begins, HeldStep

LEMMA StepKnown == ASSUME Typed, Known, Wanted, Step PROVE Typed' /\ Known'
<1>1. \/ \E c \in Chat : Navigate(c)
      \/ \E l \in loads : LoadStep(l)
      \/ \E i \in DOMAIN saves : SaveArrives(i)
      \/ \E r \in replies : SaveReturns(r)
      \/ Rate
      \/ \E m \in Msg : Send(m)
      \/ \E m \in Msg : Post(m) \/ Begin(m) \/ Stream(m) \/ Keep(m) \/ Tell(m)
      \/ Handle
      \/ \E c \in completing : Completed(c)
      \/ \E m \in Msg : Begins(m)
      \/ \E h \in held : HeldStep(h)
  BY DEF Step, LoadStep, Begins, HeldStep
<1> QED
  BY <1>1, NavigateKnown, LoadKnown, SaveArrivesKnown, SaveReturnsKnown, RateKnown, SendKnown,
     TaskKnown, HandleKnown, CompletedKnown, BeginsKnown, HeldKnown

LEMMA InitCore == ASSUME Init PROVE Typed /\ Known /\ Wanted /\ Apart
<1>1. ASSUME NEW c \in Chat
      PROVE  /\ Blank(c) \in Row /\ Blank(c).of = c /\ Blank(c).current = Null
             /\ Present(Blank(c)) = {}
  BY BlankRow DEF Blank
<1>2. hist \in Row /\ hist.of = shown /\ hist.current = Null /\ Present(hist) = {}
  BY <1>1 DEF Init
<1>3. /\ stored \in [Chat -> Row]
      /\ \A c \in Chat : stored[c].of = c /\ stored[c].current = Null
  BY <1>1 DEF Init
<1>4. \A c \in Chat : Present(stored[c]) = {}
  BY <1>1 DEF Init
<1>5. AskedFor = {}
  BY DEF Init, AskedFor
<1>6. <<>> \in Seq(SaveCall) /\ <<>> \in Seq(Event) /\ DOMAIN <<>> = {}
  BY EmptySeq
<1>7. \A m \in Msg : Null < m
  BY BoundsAssumption DEF Msg, Null
<1>8. Typed
  <2>1. /\ parent \in [Msg -> Msg \cup {Null}] /\ \A m \in Msg : parent[m] < m
        /\ home \in [Msg -> Chat] /\ target \in [Msg -> Chat] /\ task \in [Msg -> TaskStates]
    BY <1>7 DEF Init, TaskStates
  <2>2. counts \in [moves : 0 .. MaxMoves, ratings : 0 .. MaxRatings, asides : 0 .. MaxAsides]
    BY BoundsAssumption DEF Init
  <2> QED
    BY <1>2, <1>3, <1>4, <1>6, <2>1, <2>2 DEF Init, Typed
<1>9. Known
  BY <1>2, <1>3, <1>4, <1>5, <1>6 DEF Init, Known, Knows
<1>10. Wanted
  BY <1>6 DEF Init, Wanted
<1>11. Apart
  <2>1. OwnRows
    BY <1>2, <1>3, <1>4, <1>6 DEF Init, OwnRows, Own
  <2>2. Here
    BY <1>2, <1>6 DEF Init, Here
  <2>3. Directed
    BY <1>6 DEF Init, Directed
  <2> QED
    BY <2>1, <2>2, <2>3 DEF Apart
<1> QED
  BY <1>8, <1>9, <1>10, <1>11

Core == Typed /\ Known /\ Wanted /\ Apart

LEMMA StutterCore == ASSUME Core, UNCHANGED vars PROVE Core'
<1> USE DEF vars, page, asked
<1>1. AskedFor' = AskedFor
  BY DEF AskedFor
<1>2. Typed' /\ Known' /\ Wanted'
  BY <1>1 DEF Core, Typed, Known, Wanted
<1>3. Apart'
  BY DEF Core, Apart, Calm, OwnRows, Here, Directed
<1> QED
  BY <1>2, <1>3 DEF Core

LEMMA CoreAlways == Spec => []Core
<1>1. Init => Core
  BY InitCore DEF Core
<1>2. Core /\ [Next]_vars => Core'
  BY StepKnown, StepWanted, StepApart, StutterCore DEF Core, Next
<1> QED
  BY <1>1, <1>2, PTL DEF Spec

\* The two histories and everything under way between them have their types (TypeOK).
THEOREM TypeCorrect == Spec => []TypeOK
<1>1. Core => TypeOK
  BY TypedIsTypeOK DEF Core
<1> QED
  BY <1>1, CoreAlways, PTL

\* loadChat and the saves keep the chats apart, as long as the user does not move on
\* while the page waits for a load, a save or a copy to put back, and no handler writes
\* late (ChatsStayApart).
THEOREM ChatsStayApartAlways == Spec => []ChatsStayApart
<1>1. Core => ChatsStayApart
  BY DEF Core, Apart, Calm, OwnRows, Own, Here, ChatsStayApart
<1> QED
  BY <1>1, CoreAlways, PTL

--------------------------------------------------------------------------------
(* The events of an answer *)

\* The end of an answer is its last event, and is sent by a task that has told it; a part
\* of it comes from a task that still streams or stores it, or is followed by the end.
EventOrder ==
    \A i \in DOMAIN events :
        /\ events[i].text = Full =>
              /\ task[events[i].msg] \in {"told", "over"}
              /\ \A j \in DOMAIN events : j > i => events[j].msg # events[i].msg
        /\ events[i].text = Part =>
              \/ task[events[i].msg] \in {"streaming", "kept"}
              \/ \E j \in DOMAIN events :
                    j > i /\ events[j].msg = events[i].msg /\ events[j].text = Full

LEMMA EventTypes ==
    ASSUME Typed
    PROVE  /\ Part # Full /\ DOMAIN events \subseteq Nat
           /\ \A i \in DOMAIN events : /\ events[i] \in Event /\ events[i].msg \in Msg
                                      /\ events[i].chat \in Chat /\ events[i].text \in {Part, Full}
<1>1. \A i \in DOMAIN events : events[i] \in Event
  BY LenProperties, ElementOfSeq DEF Typed
<1>2. DOMAIN events \subseteq Nat
  BY LenProperties DEF Typed
<1> QED
  BY <1>1, <1>2 DEF Event, Part, Full

\* There are no events of an answer before its first part was received.
LEMMA NoEventsYet ==
    ASSUME Typed, EventOrder, NEW m \in Msg, task[m] \notin {"streaming", "kept", "told", "over"}
    PROVE  \A i \in DOMAIN events : events[i].msg # m
BY EventTypes DEF EventOrder

\* Steps that send no event and leave the tasks that have sent one alone.
LEMMA EventsStay ==
    ASSUME Typed, EventOrder, UNCHANGED events,
           \A m \in Msg : \/ task'[m] = task[m]
                          \/ task[m] \notin {"streaming", "kept", "told", "over"}
                          \/ task[m] = "streaming" /\ task'[m] = "kept"
                          \/ task[m] = "told" /\ task'[m] = "over"
    PROVE  EventOrder'
<1>1. ASSUME NEW i \in DOMAIN events
      PROVE  /\ events[i].msg \in Msg /\ events[i].text \in {Part, Full}
             /\ task[events[i].msg] \in {"streaming", "kept", "told", "over"}
  BY EventTypes, NoEventsYet
<1> QED
  BY <1>1 DEF EventOrder

LEMMA EmitOrder ==
    ASSUME Typed, Known, EventOrder, NEW m \in Msg, Stream(m) \/ Tell(m) PROVE EventOrder'
<1>0. /\ Part # Full /\ DOMAIN events \subseteq Nat
      /\ \A i \in DOMAIN events : events[i].msg \in Msg /\ events[i].text \in {Part, Full}
  BY EventTypes
<1>1. m \in AskedFor /\ \A k \in Msg \ {m} : task'[k] = task[k]
  BY DEF Stream, Tell, AskedFor, Typed
<1>2. ASSUME NEW x \in {Part, Full}, Emit(m, x)
      PROVE  /\ Len(events) \in Nat
             /\ DOMAIN events = 1 .. Len(events) /\ DOMAIN events' = 1 .. Len(events) + 1
             /\ \A i \in DOMAIN events' : i \in DOMAIN events \/ i = Len(events) + 1
             /\ \A i \in DOMAIN events : events'[i] = events[i]
             /\ events'[Len(events) + 1].msg = m /\ events'[Len(events) + 1].text = x
  BY <1>1, <1>2, EmitKnown
<1>3. CASE Stream(m)
  <2>1. Emit(m, Part) /\ task[m] = "running" /\ task'[m] = "streaming"
    BY <1>3 DEF Stream, Typed
  <2>2. \A i \in DOMAIN events : events[i].msg # m
    BY <2>1, NoEventsYet
  <2> DEFINE n == Len(events) + 1
  <2>3. /\ n \in Nat /\ \A i \in DOMAIN events : i < n /\ i \in DOMAIN events' /\ events'[i] = events[i]
        /\ \A i \in DOMAIN events' : i \in DOMAIN events \/ i = n
        /\ events'[n].msg = m /\ events'[n].text = Part
    BY <1>2, <2>1
  <2> HIDE DEF n
  <2>4. ASSUME NEW i \in DOMAIN events' , events'[i].text = Full
        PROVE  /\ task'[events'[i].msg] \in {"told", "over"}
               /\ \A j \in DOMAIN events' : j > i => events'[j].msg # events'[i].msg
    BY <1>0, <1>1, <2>2, <2>3, <2>4 DEF EventOrder
  <2>5. ASSUME NEW i \in DOMAIN events' , events'[i].text = Part
        PROVE  \/ task'[events'[i].msg] \in {"streaming", "kept"}
               \/ \E j \in DOMAIN events' :
                    j > i /\ events'[j].msg = events'[i].msg /\ events'[j].text = Full
    <3>1. CASE i = n
      BY <2>1, <2>3, <3>1
    <3>2. CASE i \in DOMAIN events
      <4>1. /\ events'[i] = events[i] /\ events[i].msg # m
            /\ task'[events[i].msg] = task[events[i].msg]
        BY <1>0, <1>1, <2>2, <2>3, <3>2
      <4>2. \/ task[events[i].msg] \in {"streaming", "kept"}
            \/ \E j \in DOMAIN events :
                    j > i /\ events[j].msg = events[i].msg /\ events[j].text = Full
        BY <2>5, <3>2, <4>1 DEF EventOrder
      <4> QED
        BY <2>3, <4>1, <4>2
    <3> QED
      BY <2>3, <3>1, <3>2
  <2> QED
    BY <2>4, <2>5 DEF EventOrder
<1>4. CASE Tell(m)
  <2>1. /\ Emit(m, Full) /\ task[m] \in {"running", "kept"} /\ task'[m] \in {"told", "over"}
    BY <1>4 DEF Tell, Typed
  <2> DEFINE n == Len(events) + 1
  <2>3. /\ n \in Nat /\ \A i \in DOMAIN events : i < n /\ i \in DOMAIN events' /\ events'[i] = events[i]
        /\ \A i \in DOMAIN events' : i \in DOMAIN events \/ i = n
        /\ events'[n].msg = m /\ events'[n].text = Full /\ n \in DOMAIN events'
    BY <1>2, <2>1
  <2> HIDE DEF n
  <2>2. \A i \in DOMAIN events : events[i].text = Full => events[i].msg # m
    BY <2>1 DEF EventOrder
  <2>4. ASSUME NEW i \in DOMAIN events' , events'[i].text = Full
        PROVE  /\ task'[events'[i].msg] \in {"told", "over"}
               /\ \A j \in DOMAIN events' : j > i => events'[j].msg # events'[i].msg
    BY <1>0, <1>1, <2>1, <2>2, <2>3, <2>4 DEF EventOrder
  <2>5. ASSUME NEW i \in DOMAIN events' , events'[i].text = Part
        PROVE  \/ task'[events'[i].msg] \in {"streaming", "kept"}
               \/ \E j \in DOMAIN events' :
                    j > i /\ events'[j].msg = events'[i].msg /\ events'[j].text = Full
    <3>1. i \in DOMAIN events /\ events'[i] = events[i] /\ i < n
      BY <1>0, <2>3, <2>5
    <3>2. CASE events[i].msg = m
      <4>1. n > i
        BY <1>0, <2>3, <3>1
      <4> QED
        BY <2>3, <3>1, <3>2, <4>1
    <3>3. CASE events[i].msg # m
      <4>1. task'[events[i].msg] = task[events[i].msg]
        BY <1>0, <1>1, <3>1, <3>3
      <4>2. \/ task[events[i].msg] \in {"streaming", "kept"}
            \/ \E j \in DOMAIN events :
                    j > i /\ events[j].msg = events[i].msg /\ events[j].text = Full
        BY <2>5, <3>1 DEF EventOrder
      <4> QED
        BY <2>3, <3>1, <4>1, <4>2
    <3> QED
      BY <3>2, <3>3
  <2> QED
    BY <2>4, <2>5 DEF EventOrder
<1> QED
  BY <1>3, <1>4

LEMMA HandleOrder == ASSUME Typed, EventOrder, Handle PROVE EventOrder'
<1>1. /\ Len(events) \in Nat /\ DOMAIN events = 1 .. Len(events)
      /\ DOMAIN events' = 1 .. Len(events) - 1
      /\ \A i \in DOMAIN events' : i + 1 \in DOMAIN events /\ events'[i] = events[i + 1]
      /\ \A i \in DOMAIN events : i # 1 => i - 1 \in DOMAIN events' /\ events'[i - 1] = events[i]
  BY HandleEffect
<1>2. task' = task
  BY DEF Handle
<1>3. ASSUME NEW i \in DOMAIN events', events'[i].text = Full
      PROVE  /\ task'[events'[i].msg] \in {"told", "over"}
             /\ \A j \in DOMAIN events' : j > i => events'[j].msg # events'[i].msg
  <2>1. \A j \in DOMAIN events' : j > i => j + 1 > i + 1
    BY <1>1
  <2> QED
    BY <1>1, <1>2, <1>3, <2>1 DEF EventOrder
<1>4. ASSUME NEW i \in DOMAIN events', events'[i].text = Part
      PROVE  \/ task'[events'[i].msg] \in {"streaming", "kept"}
             \/ \E j \in DOMAIN events' :
                  j > i /\ events'[j].msg = events'[i].msg /\ events'[j].text = Full
  <2>1. i + 1 \in DOMAIN events /\ events'[i] = events[i + 1]
    BY <1>1
  <2>2. CASE task[events[i + 1].msg] \in {"streaming", "kept"}
    BY <1>2, <2>1, <2>2
  <2>3. CASE \E j \in DOMAIN events :
                j > i + 1 /\ events[j].msg = events[i + 1].msg /\ events[j].text = Full
    <3>1. PICK j \in DOMAIN events :
                j > i + 1 /\ events[j].msg = events[i + 1].msg /\ events[j].text = Full
      BY <2>3
    <3>2. j # 1 /\ j - 1 > i
      BY <1>1, <3>1
    <3>3. j - 1 \in DOMAIN events' /\ events'[j - 1] = events[j]
      BY <1>1, <3>1, <3>2
    <3> QED
      BY <2>1, <3>1, <3>2, <3>3
  <2> QED
    BY <1>4, <2>1, <2>2, <2>3 DEF EventOrder
<1> QED
  BY <1>3, <1>4 DEF EventOrder

LEMMA StepOrder == ASSUME Typed, Known, Wanted, EventOrder, Step PROVE EventOrder'
<1>1. CASE \/ \E c \in Chat : Navigate(c)
           \/ \E l \in loads : LoadStep(l)
           \/ \E i \in DOMAIN saves : SaveArrives(i)
           \/ Rate
           \/ \E c \in completing : Completed(c)
           \/ \E h \in held : HeldStep(h)
  <2>1. UNCHANGED <<events, task>>
    BY <1>1 DEF Navigate, LoadStep, RowRead, RowComes, Install, MarkDone, Loaded, SaveArrives,
                Rate, Completed, HeldStep, TagsRead, TagsCome, Resume, SaveCopy
  <2> QED
    BY <2>1 DEF EventOrder
<1>2. CASE \E r \in replies : SaveReturns(r)
  <2>1. UNCHANGED events /\ \A m \in Msg : task'[m] = task[m] \/ task[m] = "saving"
    BY <1>2, BoundsAssumption DEF SaveReturns, Wanted, Msg, Null
  <2> QED
    BY <2>1, EventsStay
<1>3. CASE \E m \in Msg : Send(m) \/ Post(m) \/ Begin(m) \/ Keep(m)
  <2>1. /\ UNCHANGED events
        /\ \A m \in Msg : \/ task'[m] = task[m]
                          \/ task[m] \notin {"streaming", "kept", "told", "over"}
                          \/ task[m] = "streaming" /\ task'[m] = "kept"
                          \/ task[m] = "told" /\ task'[m] = "over"
    BY <1>3 DEF Send, Post, Begin, Keep, Typed
  <2> QED
    BY <2>1, EventsStay
<1>4. CASE \E m \in Msg : Stream(m) \/ Tell(m)
  BY <1>4, EmitOrder
<1>5. CASE Handle
  BY <1>5, HandleOrder
<1>6. CASE \E m \in Msg : Begins(m)
  <2>1. UNCHANGED <<events, task>>
    BY <1>6, BeginsEffect DEF Elsewhere
  <2> QED
    BY <2>1 DEF EventOrder
<1> QED
  BY <1>1, <1>2, <1>3, <1>4, <1>5, <1>6 DEF Step, LoadStep, Begins, HeldStep

--------------------------------------------------------------------------------
(* Whoever stays *)

\* The end of the answer is on its way to the page.
FullSent(m) == \E i \in DOMAIN events : events[i].msg = m /\ events[i].text = Full

AtHome ==
    /\ loads = {} /\ ~loading /\ Calm
    /\ \A m \in Msg : home[m] = shown
    /\ AskedFor \subseteq Present(hist)

\* A copy that a handler holds is that of a done answer, all of it.
HeldRight == \A h \in held : h.text # Absent => h.msg \in done /\ h.text = Full /\ h.done

\* What the page takes for done has all its text and no more events; what its task told
\* is done or about to be; what comes before an answer is done, and so is what a handler
\* writes back.
DoneRight ==
    /\ \A m \in done : /\ hist.text[m] = Full /\ task[m] \in {"told", "over"}
                       /\ \A i \in DOMAIN events : events[i].msg # m
    /\ \A m \in Msg : task[m] \in {"told", "over"} => m \in done \/ FullSent(m)
    /\ \A m \in Msg : parent[m] # Null => parent[m] \in done
    /\ \A c \in completing : /\ c.chat = shown
                             /\ \A m \in Holds(c.text) : m \in done /\ c.text[m] = Full
    /\ HeldRight

Staying == counts.moves = 0 => AtHome /\ DoneRight

\* The copy that a handler puts back is what the history has.
LEMMA ResumeSame ==
    ASSUME Typed, DoneRight, NEW h \in held, Resume(h)
    PROVE  UNCHANGED <<hist, done, mishap>>
<1>1. h.text = Absent \/ (h.text = hist.text[h.msg] /\ h.done /\ h.msg \in done)
  BY DEF DoneRight, HeldRight
<1>2. CASE h.text = Absent
  BY <1>2 DEF Resume
<1>3. CASE h.text # Absent
  <2>1. MishapIf(hist.text[h.msg] # h.text \/ (h.msg \in done) # h.done, "late")
    BY <1>3 DEF Resume
  <2>2. (h.msg \in done) = TRUE /\ h.done = TRUE
    BY <1>1, <1>3 DEF Typed, Holder
  <2>3. mishap' = mishap
    BY <1>1, <1>3, <2>1, <2>2 DEF MishapIf
  <2> QED
    BY <1>1, <1>3, <2>3, ResumeEffect
<1> QED
  BY <1>2, <1>3

\* Who does not move on is calm.
LEMMA StaysCalm ==
    ASSUME Typed, AtHome, DoneRight, Step, \A c \in Chat : ~Navigate(c)
    PROVE  Calm'
<1>0. "hasty" \notin mishap /\ "late" \notin mishap /\ loads = {}
  BY DEF AtHome, Calm
<1> SUFFICES "hasty" \notin mishap' /\ "late" \notin mishap'
  BY DEF Calm
<1>1. CASE \E c \in completing : Completed(c)
  BY <1>0, <1>1 DEF Completed, Save, MishapIf
<1>2. CASE Rate
  BY <1>0, <1>2 DEF Rate, Save, MishapIf
<1>3. CASE \E m \in Msg : Send(m)
  BY <1>0, <1>3 DEF Send, Save, MishapIf
<1>4. ~\E l \in loads : LoadStep(l)
  BY <1>0
<1>5. CASE \E m \in Msg : Post(m) \/ Begin(m) \/ Stream(m) \/ Keep(m) \/ Tell(m)
  BY <1>0, <1>5 DEF Post, Begin, Stream, Keep, Tell
<1>6. CASE Handle
  BY <1>0, <1>6 DEF Handle, MishapIf
<1>7. CASE \/ \E i \in DOMAIN saves : SaveArrives(i)
           \/ \E r \in replies : SaveReturns(r)
  BY <1>0, <1>7 DEF SaveArrives, SaveReturns, MishapIf
<1>8. CASE \E m \in Msg : Begins(m)
  BY <1>0, <1>8, BeginsEffect
<1>9. CASE \E h \in held : TagsRead(h) \/ TagsCome(h) \/ SaveCopy(h)
  BY <1>0, <1>9 DEF TagsRead, TagsCome, SaveCopy, Save, MishapIf
<1>10. CASE \E h \in held : Resume(h)
  BY <1>0, <1>10, ResumeSame
<1> QED
  BY <1>1, <1>2, <1>3, <1>4, <1>5, <1>6, <1>7, <1>8, <1>9, <1>10 DEF Step, LoadStep, Begins

\* Steps that touch neither the texts of the page nor the events.
LEMMA QuietStaying ==
    ASSUME Typed, AtHome, DoneRight, Calm', HeldRight',
           UNCHANGED <<shown, loading, hist, done, loads, parent, home, events, completing>>,
           AskedFor' = AskedFor,
           \A m \in Msg : \/ task'[m] = task[m]
                          \/ task[m] = "told" /\ task'[m] = "over"
                          \/ task[m] \notin {"told", "over"} /\ task'[m] \notin {"told", "over"}
    PROVE  AtHome' /\ DoneRight'
<1>1. AtHome'
  BY DEF AtHome
<1>2. done \subseteq Msg
  BY DEF Typed, Present
<1>3. DoneRight'
  BY <1>2 DEF DoneRight, FullSent
<1> QED
  BY <1>1, <1>3

LEMMA SendStaying ==
    ASSUME Typed, Known, AtHome, DoneRight, Calm', NEW m \in Msg, Send(m)
    PROVE  AtHome' /\ DoneRight'
<1>1. /\ hist.current \in done \cup {Null} /\ task[m] = "none"
      /\ parent' = [parent EXCEPT ![m] = hist.current]
      /\ home' = [home EXCEPT ![m] = shown]
      /\ task' = [task EXCEPT ![m] = "saving"]
      /\ UNCHANGED <<shown, loading, done, loads, events, completing, held>>
  BY DEF Send
<1>2. Present(hist') = Present(hist) \cup {m} /\ \A k \in Msg \ {m} : hist'.text[k] = hist.text[k]
  <2>1. hist \in Row /\ hist' = [hist EXCEPT !.text[m] = Empty, !.current = m]
    BY DEF Typed, Send
  <2>2. Empty \in Text /\ Empty # Absent
    BY DEF Text, Empty, Absent, Full
  <2>3. hist'.text[m] = Empty /\ \A k \in Msg \ {m} : hist'.text[k] = hist.text[k]
    BY <2>1, <2>2 DEF Row
  <2> QED
    BY <2>2, <2>3 DEF Present
<1>3. /\ task'[m] = "saving" /\ \A k \in Msg \ {m} : task'[k] = task[k]
      /\ parent'[m] = hist.current /\ \A k \in Msg \ {m} : parent'[k] = parent[k]
      /\ \A k \in Msg : home'[k] = shown
  BY <1>1 DEF Typed, AtHome
<1>4. AtHome'
  BY <1>1, <1>2, <1>3 DEF AtHome, AskedFor
<1>5. m \notin done /\ done \subseteq Msg
  BY <1>1 DEF DoneRight, Typed, Present
<1>6. \A k \in Msg : task'[k] \in {"told", "over"} => k \in done' \/ FullSent(k)'
  BY <1>1, <1>3 DEF DoneRight, FullSent
<1>7. \A k \in Msg : parent'[k] # Null => parent'[k] \in done'
  BY <1>1, <1>3 DEF DoneRight
<1>8. \A k \in done' : /\ hist'.text[k] = Full /\ task'[k] \in {"told", "over"}
                       /\ \A i \in DOMAIN events' : events'[i].msg # k
  BY <1>1, <1>2, <1>3, <1>5 DEF DoneRight
<1>9. \A c \in completing' : /\ c.chat = shown'
                             /\ \A k \in Holds(c.text) : k \in done' /\ c.text[k] = Full
  BY <1>1 DEF DoneRight
<1>10. HeldRight'
  BY <1>1 DEF DoneRight, HeldRight
<1> QED
  BY <1>4, <1>6, <1>7, <1>8, <1>9, <1>10 DEF DoneRight

LEMMA EmitStaying ==
    ASSUME Typed, Known, AtHome, DoneRight, Calm', NEW m \in Msg,
           Stream(m) \/ Tell(m)
    PROVE  AtHome' /\ DoneRight'
<1> USE DEF page, asked
<1>1. /\ m \in AskedFor /\ AskedFor' = AskedFor /\ \A k \in Msg \ {m} : task'[k] = task[k]
      /\ m \notin done /\ done \subseteq Msg
      /\ UNCHANGED <<shown, loading, hist, done, loads, parent, home, completing, held>>
  BY DEF Stream, Tell, AskedFor, Typed, TaskStates, DoneRight, Present
<1>2. PICK x \in {Part, Full} : Emit(m, x) /\ (task'[m] \in {"told", "over"} => x = Full)
  BY DEF Stream, Tell, Typed
<1>3. /\ DOMAIN events' = 1 .. Len(events) + 1 /\ Len(events) \in Nat
      /\ \A i \in DOMAIN events' : i \in DOMAIN events \/ i = Len(events) + 1
      /\ \A i \in DOMAIN events : i \in DOMAIN events' /\ events'[i] = events[i]
      /\ events'[Len(events) + 1].msg = m /\ events'[Len(events) + 1].text = x
  BY <1>1, <1>2, EmitKnown
<1>4. Len(events) + 1 \in DOMAIN events'
  BY <1>3
<1>5. AtHome'
  BY <1>1 DEF AtHome
<1>6. \A k \in Msg : task'[k] \in {"told", "over"} => k \in done' \/ FullSent(k)'
  <2>1. \A k \in Msg : FullSent(k) => FullSent(k)'
    BY <1>3 DEF FullSent
  <2>2. task'[m] \in {"told", "over"} => FullSent(m)'
    BY <1>2, <1>3, <1>4 DEF FullSent
  <2> QED
    BY <1>1, <2>1, <2>2 DEF DoneRight
<1>7. \A k \in done' : /\ hist'.text[k] = Full /\ task'[k] \in {"told", "over"}
                       /\ \A i \in DOMAIN events' : events'[i].msg # k
  BY <1>1, <1>3 DEF DoneRight
<1>8. HeldRight'
  BY <1>1 DEF DoneRight, HeldRight
<1> QED
  BY <1>1, <1>5, <1>6, <1>7, <1>8 DEF DoneRight

\* The branch of an answer whose forerunners are done.
LEMMA BranchDone ==
    ASSUME DoneRight, done \subseteq Msg, NEW row, NEW m \in Msg
    PROVE  Branch(row, m) \subseteq done \cup {m}
<1> DEFINE s == done \cup {m}
<1>1. s \in SUBSET Msg /\ m \in s
  OBVIOUS
<1>2. \A x \in s : parent[x] \in Present(row) => parent[x] \in s
  <2>1. Null \notin Present(row)
    BY BoundsAssumption DEF Present, Msg, Null
  <2> QED
    BY <1>1, <2>1 DEF DoneRight
<1> HIDE DEF s
<1>3. Branch(row, m) \subseteq s
  BY <1>1, <1>2 DEF Branch
<1> QED
  BY <1>3 DEF s

LEMMA HandleStaying ==
    ASSUME Typed, Known, EventOrder, Directed, AtHome, DoneRight, Calm', Handle
    PROVE  AtHome' /\ DoneRight'
<1> USE DEF page, asked
<1> DEFINE e == Head(events)
<1> HIDE DEF e
<1>0. e = Head(events)
  BY DEF e
<1>1. /\ e = events[1] /\ 1 \in DOMAIN events /\ e.msg \in Msg
      /\ Len(events) \in Nat /\ DOMAIN events = 1 .. Len(events)
      /\ \A i \in DOMAIN events' : i + 1 \in DOMAIN events /\ events'[i] = events[i + 1]
      /\ \A i \in DOMAIN events : i # 1 => i - 1 \in DOMAIN events' /\ events'[i - 1] = events[i]
  BY <1>0, HandleEffect DEF Event
<1>2. /\ Present(hist') = Present(hist) /\ \A k \in Msg \ {e.msg} : hist'.text[k] = hist.text[k]
      /\ DOMAIN events' = 1 .. Len(events) - 1
  BY <1>0, HandleEffect
<1>3. UNCHANGED <<shown, loading, loads, parent, home, task, held>>
  BY DEF Handle
<1>4. e.chat = shown /\ e.msg \in Present(hist) /\ e.msg \notin done /\ done \subseteq Msg
  BY <1>1 DEF Directed, AtHome, Known, DoneRight, Typed, Present
<1>5. AtHome'
  BY <1>2, <1>3 DEF AtHome, AskedFor
<1>6. CASE e.text = Full
  <2>1. hist'.text[e.msg] = Full /\ done' = done \cup {e.msg}
    BY <1>0, <1>4, <1>6, HandleEffect
  <2>2. PICK c \in Hook : /\ completing' = completing \cup {c}
                          /\ c.chat = shown /\ Holds(c.text) = Branch(hist', e.msg)
                          /\ \A k \in Holds(c.text) : c.text[k] = hist'.text[k]
    BY <1>0, <1>4, <1>6, HandleEffect
  <2>3. task[e.msg] \in {"told", "over"} /\ \A i \in DOMAIN events' : events'[i].msg # e.msg
    <3>1. \A i \in DOMAIN events' : i + 1 > 1
      BY <1>1, <1>2
    <3> QED
      BY <1>1, <1>6, <3>1 DEF EventOrder
  <2>4. ASSUME NEW k \in done'
        PROVE  /\ hist'.text[k] = Full /\ task'[k] \in {"told", "over"}
               /\ \A i \in DOMAIN events' : events'[i].msg # k
    <3>1. CASE k = e.msg
      BY <1>3, <2>1, <2>3, <3>1
    <3>2. CASE k # e.msg
      <4>1. k \in done /\ k \in Msg \ {e.msg}
        BY <1>4, <2>1, <3>2
      <4> QED
        BY <1>1, <1>2, <1>3, <4>1 DEF DoneRight
    <3> QED
      BY <3>1, <3>2
  <2>5. \A k \in Msg : task'[k] \in {"told", "over"} => k \in done' \/ FullSent(k)'
    <3>1. ASSUME NEW k \in Msg, FullSent(k), k # e.msg PROVE FullSent(k)'
      BY <1>1, <3>1 DEF FullSent
    <3> QED
      BY <1>3, <2>1, <3>1 DEF DoneRight
  <2>6. Branch(hist', e.msg) \subseteq done'
    BY <1>1, <1>4, <2>1, BranchDone
  <2>7. \A d \in completing' : /\ d.chat = shown'
                               /\ \A k \in Holds(d.text) : k \in done' /\ d.text[k] = Full
    BY <1>3, <2>1, <2>2, <2>4, <2>6 DEF DoneRight
  <2>8. HeldRight'
    BY <1>3, <2>1 DEF DoneRight, HeldRight
  <2> QED
    BY <1>3, <1>5, <2>1, <2>4, <2>5, <2>7, <2>8 DEF DoneRight
<1>7. CASE e.text # Full
  <2>1. done' = done /\ completing' = completing
    BY <1>0, <1>4, <1>7, HandleEffect
  <2>2. \A k \in done' : /\ hist'.text[k] = Full /\ task'[k] \in {"told", "over"}
                         /\ \A i \in DOMAIN events' : events'[i].msg # k
    BY <1>1, <1>2, <1>3, <1>4, <2>1 DEF DoneRight
  <2>3. \A k \in Msg : task'[k] \in {"told", "over"} => k \in done' \/ FullSent(k)'
    <3>1. ASSUME NEW k \in Msg, FullSent(k) PROVE FullSent(k)'
      BY <1>1, <1>7, <3>1 DEF FullSent
    <3> QED
      BY <1>3, <2>1, <3>1 DEF DoneRight
  <2>4. HeldRight'
    BY <1>3, <2>1 DEF DoneRight, HeldRight
  <2> QED
    BY <1>3, <1>5, <2>1, <2>2, <2>3, <2>4 DEF DoneRight
<1> QED
  BY <1>6, <1>7

LEMMA CompletedStaying ==
    ASSUME Typed, AtHome, DoneRight, Calm', NEW c \in completing, Completed(c)
    PROVE  AtHome' /\ DoneRight' /\ Save(shown, hist', Null, TRUE)
<1> USE DEF page, asked
<1>1. c \in [chat : Chat, text : [Msg -> Text]] /\ hist \in Row
  BY DEF Typed, Hook
<1>2. UNCHANGED <<shown, loading, done, loads, parent, home, task, events>>
  BY DEF Completed
<1>3. /\ Present(hist') = Present(hist) /\ completing' = completing \ {c}
      /\ \A m \in Msg : \/ hist'.text[m] = hist.text[m]
                        \/ m \in Holds(c.text) /\ hist'.text[m] = c.text[m]
  BY <1>1, CompletedRow DEF Holds
<1>4. done \subseteq Msg
  BY DEF Typed, Present
<1>5. AtHome'
  BY <1>2, <1>3 DEF AtHome, AskedFor
<1>6. \A m \in done' : hist'.text[m] = Full
  BY <1>2, <1>3, <1>4 DEF DoneRight
<1>0. HeldRight'
  <2> DEFINE ms == {m \in Msg : c.text[m] # Absent /\ There(c, m)}
  <2>1. held' = Detached(ms) /\ held \subseteq Holder
    BY <1>1, CompletedRow DEF Typed
  <2>2. \A m \in ms : m \in done /\ hist.text[m] = Full
    BY DEF DoneRight, Holds
  <2> HIDE DEF ms
  <2>3. ASSUME NEW h \in held', h.text # Absent
        PROVE  h.msg \in done /\ h.text = Full /\ h.done
    <3>1. PICK g \in held : /\ h.msg = g.msg
                            /\ \/ h.text = g.text /\ h.done = g.done
                               \/ /\ h.msg \in ms /\ h.text = hist.text[h.msg]
                                  /\ h.done = (h.msg \in done)
      BY <1>1, <2>1, DetachedHolders
    <3>2. CASE h.text = g.text /\ h.done = g.done
      BY <2>3, <3>1, <3>2 DEF DoneRight, HeldRight
    <3>3. CASE h.msg \in ms /\ h.text = hist.text[h.msg] /\ h.done = (h.msg \in done)
      BY <2>2, <3>3
    <3> QED
      BY <3>1, <3>2, <3>3
  <2> QED
    BY <1>2, <2>3 DEF HeldRight
<1>7. DoneRight'
  BY <1>0, <1>2, <1>3, <1>6 DEF DoneRight, FullSent
<1>8. \A m \in Msg : There(c, m)
  <2>1. ASSUME NEW m \in Msg, NEW k \in 1 .. m, c.text[k] # Absent PROVE k \in Present(hist)
    <3>1. k \in Msg
      BY BoundsAssumption DEF Msg
    <3> QED
      BY <2>1, <3>1 DEF DoneRight, Holds, Typed
  <2> QED
    BY <2>1 DEF There
<1>9. c.chat = shown
  BY DEF DoneRight
<1>10. Save(shown, hist', Null, TRUE)
  BY <1>1, <1>8, <1>9, CompletedRow
<1> QED
  BY <1>5, <1>7, <1>10

\* Only a move counts as one.
LEMMA MovesStay ==
    ASSUME Typed, Step, \A c \in Chat : ~Navigate(c)
    PROVE  counts'.moves = counts.moves
<1>1. CASE \E m \in Msg : Begins(m)
  BY <1>1, BeginsEffect
<1>2. CASE Rate
  BY <1>2 DEF Rate, Typed
<1>3. CASE ~Rate /\ ~\E m \in Msg : Begins(m)
  <2>1. counts' = counts
    BY <1>3 DEF Step, Begins, RowRead, RowComes, Install, MarkDone, Loaded, SaveArrives,
                SaveReturns, Send, Post, Begin, Stream, Keep, Tell, Handle, Completed,
                TagsRead, TagsCome, Resume, SaveCopy
  <2> QED
    BY <2>1
<1> QED
  BY <1>1, <1>2, <1>3

LEMMA StepStaying ==
    ASSUME Typed, Known, Wanted, Apart, EventOrder, Staying, Step PROVE Staying'
<1> USE DEF page, asked
<1> SUFFICES ASSUME counts'.moves = 0 PROVE AtHome' /\ DoneRight'
  BY DEF Staying
<1>1. counts.moves = 0 /\ \A c \in Chat : ~Navigate(c)
  <2>1. ASSUME NEW c \in Chat, Navigate(c) PROVE FALSE
    BY <2>1 DEF Navigate, Typed
  <2> QED
    BY <2>1, MovesStay
<1>2. AtHome /\ DoneRight /\ HeldRight
  BY <1>1 DEF Staying, DoneRight
<1>3. Directed /\ Calm'
  BY <1>1, <1>2, StaysCalm DEF AtHome, Apart
<1>4. CASE (\E i \in DOMAIN saves : SaveArrives(i)) \/ Rate
  <2>1. /\ UNCHANGED <<shown, loading, hist, done, loads, parent, home, events, completing, task>>
        /\ HeldRight'
    BY <1>2, <1>4 DEF SaveArrives, Rate, HeldRight
  <2> QED
    BY <1>2, <1>3, <2>1, SameTasks, QuietStaying
<1>5. CASE \E r \in replies : SaveReturns(r)
  <2>1. PICK r \in replies : SaveReturns(r)
    BY <1>5
  <2>2. /\ UNCHANGED <<shown, loading, hist, done, loads, parent, home, events, completing>>
        /\ HeldRight'
    BY <1>2, <2>1 DEF SaveReturns, HeldRight
  <2>3. \A m \in Msg : task'[m] = task[m] \/ (task[m] = "saving" /\ task'[m] = "ready")
    BY <2>1, BoundsAssumption DEF SaveReturns, Wanted, Msg, Null
  <2>4. AskedFor' = AskedFor
    BY <2>3 DEF AskedFor
  <2> QED
    BY <1>2, <1>3, <2>2, <2>3, <2>4, QuietStaying
<1>6. CASE \E m \in Msg : Send(m)
  BY <1>2, <1>3, <1>6, SendStaying
<1>7. CASE \E m \in Msg : Post(m) \/ Begin(m) \/ Keep(m)
  <2>1. PICK m \in Msg : Post(m) \/ Begin(m) \/ Keep(m)
    BY <1>7
  <2>2. /\ UNCHANGED <<shown, loading, hist, done, loads, parent, home, events, completing>>
        /\ HeldRight'
    BY <1>2, <2>1 DEF Post, Begin, Keep, HeldRight
  <2>3. \A k \in Msg : \/ task'[k] = task[k]
                       \/ task[k] = "told" /\ task'[k] = "over"
                       \/ task[k] \notin {"told", "over"} /\ task'[k] \notin {"told", "over"}
    BY <2>1 DEF Post, Begin, Keep, Typed
  <2>4. AskedFor' = AskedFor
    BY <2>1 DEF Post, Begin, Keep, Typed, AskedFor
  <2> QED
    BY <1>2, <1>3, <2>2, <2>3, <2>4, QuietStaying
<1>8. CASE \E m \in Msg : Stream(m) \/ Tell(m)
  BY <1>2, <1>3, <1>8, EmitStaying
<1>9. CASE Handle
  BY <1>2, <1>3, <1>9, HandleStaying
<1>10. CASE \E c \in completing : Completed(c)
  BY <1>2, <1>3, <1>10, CompletedStaying
<1>11. ~\E l \in loads : LoadStep(l)
  BY <1>2 DEF AtHome
<1>12. CASE \E m \in Msg : Begins(m)
  <2>1. PICK m \in Msg : Begins(m)
    BY <1>12
  <2>2. PICK k \in Holder : /\ held' = held \cup {k} /\ k.msg = m
                            /\ \/ k.text = Absent
                               \/ m \in done /\ k.text = hist.text[m] /\ k.done
    BY <2>1, BeginsEffect
  <2>3. UNCHANGED <<shown, loading, hist, done, loads, parent, home, events, completing, task>>
    BY <2>1, BeginsEffect DEF Elsewhere
  <2>4. HeldRight'
    BY <1>2, <2>2, <2>3 DEF HeldRight, DoneRight
  <2> QED
    BY <1>2, <1>3, <2>3, <2>4, SameTasks, QuietStaying
<1>13. CASE \E h \in held : HeldStep(h)
  <2>1. PICK h \in held : HeldStep(h)
    BY <1>13
  <2>2. UNCHANGED <<hist, done, Elsewhere>> /\ HeldRight'
    <3>1. CASE TagsRead(h) \/ TagsCome(h)
      <4>1. /\ UNCHANGED <<hist, done, Elsewhere>>
            /\ \A k \in held' : \/ k \in held
                                \/ k.msg = h.msg /\ k.text = h.text /\ k.done = h.done
        BY <3>1, TagsEffect
      <4> QED
        BY <1>2, <4>1 DEF HeldRight
    <3>2. CASE Resume(h)
      <4>1. /\ UNCHANGED <<hist, done, Elsewhere>>
            /\ \A k \in held' : k \in held \/ k.text = Absent
        BY <1>2, <3>2, ResumeEffect, ResumeSame
      <4> QED
        BY <1>2, <4>1 DEF HeldRight
    <3>3. CASE SaveCopy(h)
      <4>1. /\ UNCHANGED <<hist, done, Elsewhere>>
            /\ \A k \in held' : \/ k \in held
                                \/ k.msg = h.msg /\ k.text = h.text /\ k.done = h.done
        BY <3>3, SaveCopyEffect
      <4> QED
        BY <1>2, <4>1 DEF HeldRight
    <3> QED
      BY <2>1, <3>1, <3>2, <3>3 DEF HeldStep
  <2>3. UNCHANGED <<shown, loading, hist, done, loads, parent, home, events, completing, task>>
    BY <2>2 DEF Elsewhere
  <2> QED
    BY <1>2, <1>3, <2>2, <2>3, SameTasks, QuietStaying
<1> QED
  BY <1>1, <1>4, <1>5, <1>6, <1>7, <1>8, <1>9, <1>10, <1>11, <1>12, <1>13
  DEF Step, LoadStep, Begins, HeldStep

\* The history that is stored when all saves have arrived.
Latest == IF saves = <<>> THEN stored[shown] ELSE saves[Len(saves)].row

\* The text of an answer is stored on the server or saved by the page later on.
Coming(m) ==
    \/ task[m] \in {"posted", "running", "streaming", "kept"}
    \/ FullSent(m)
    \/ \E c \in completing : m \in Holds(c.text)

Matched == \A m \in Msg : Latest.text[m] = hist.text[m] \/ Coming(m)

Settled == counts.moves = 0 /\ "overtaken" \notin mishap => Matched

LEMMA SaveMatches ==
    ASSUME Typed, NEW c \in Chat, hist' \in Row, NEW m \in Msg \cup {Null}, NEW k \in BOOLEAN,
           Save(c, hist', m, k)
    PROVE  Matched'
<1>1. /\ Len(saves) \in Nat /\ DOMAIN saves' = 1 .. Len(saves) + 1
      /\ Len(saves') = Len(saves) + 1 /\ saves'[Len(saves) + 1].row = hist'
  <2>1. saves \in Seq(SaveCall) /\ mishap \subseteq Mishaps
    BY DEF Typed
  <2> QED
    BY <2>1, SaveJoins
<1>2. saves' # <<>>
  <2>1. Len(saves) + 1 \in DOMAIN saves'
    BY <1>1
  <2>2. DOMAIN <<>> = {}
    BY EmptySeq
  <2> QED
    BY <2>1, <2>2
<1>3. Latest' = hist'
  BY <1>1, <1>2 DEF Latest
<1> QED
  BY <1>3 DEF Matched

LEMMA SaveArrivesMatched ==
    ASSUME Typed, Here, Matched, NEW n \in DOMAIN saves, SaveArrives(n),
           "overtaken" \notin mishap'
    PROVE  Matched'
<1> USE DEF page, asked
<1> DEFINE s == saves[n]
<1>1. /\ Len(saves) \in Nat \ {0} /\ n \in 1 .. Len(saves) /\ DOMAIN saves = 1 .. Len(saves)
      /\ saves' = RemoveAt(saves, n) /\ Len(saves') = Len(saves) - 1
      /\ \A i \in 1 .. Len(saves) - 1 : saves'[i] = IF i < n THEN saves[i] ELSE saves[i + 1]
  <2>1. saves' = RemoveAt(saves, n) /\ saves \in Seq(SaveCall)
    BY DEF SaveArrives, Typed
  <2> QED
    BY <2>1, RemoveAtElements
<1>2. n = 1
  <2>1. ASSUME n # 1 PROVE FALSE
    <3>1. 1 \in 1 .. n - 1 /\ 1 \in DOMAIN saves
      BY <1>1, <2>1
    <3>2. saves[1].chat = shown /\ saves[n].chat = shown
      BY <3>1 DEF Here
    <3> QED
      BY <3>1, <3>2 DEF SaveArrives, MishapIf
  <2> QED
    BY <2>1
<1>3. saves # <<>> /\ s.chat = shown /\ shown \in Chat
  <2>1. DOMAIN <<>> = {}
    BY EmptySeq
  <2> QED
    BY <2>1 DEF Here, Typed
<1>4. stored' = [stored EXCEPT ![s.chat] = s.row] /\ stored \in [Chat -> Row]
      /\ UNCHANGED <<shown, hist, task, events, completing>>
  BY DEF SaveArrives, Typed
<1>5. Latest' = Latest
  <2>1. CASE Len(saves) = 1
    <3>1. saves' \in Seq(SaveCall) /\ Len(saves') = 0
      BY <1>1, <2>1, RemoveAtElements DEF Typed
    <3>2. saves' = <<>>
      BY <3>1, EmptySeq
    <3>3. stored'[shown] = s.row
      BY <1>3, <1>4
    <3> QED
      BY <1>2, <1>3, <1>4, <2>1, <3>2, <3>3 DEF Latest
  <2>2. CASE Len(saves) # 1
    <3>1. /\ Len(saves) - 1 \in 1 .. Len(saves) - 1 /\ ~(Len(saves) - 1 < n)
          /\ (Len(saves) - 1) + 1 = Len(saves)
      BY <1>1, <1>2, <2>2
    <3>2. saves'[Len(saves) - 1] = saves[Len(saves)]
      BY <1>1, <3>1
    <3>3. saves' # <<>>
      <4>1. Len(<<>>) = 0 /\ Len(saves') # 0
        BY <1>1, <3>1, EmptySeq
      <4> QED
        BY <4>1
    <3> QED
      BY <1>1, <1>3, <3>2, <3>3 DEF Latest
  <2> QED
    BY <2>1, <2>2
<1> QED
  BY <1>4, <1>5 DEF Matched, Coming, FullSent

LEMMA TaskMatched ==
    ASSUME Typed, Known, AtHome, DoneRight, Matched, NEW m \in Msg,
           Post(m) \/ Begin(m) \/ Stream(m) \/ Keep(m) \/ Tell(m),
           task[m] \notin {"none", "saving", "ready"} => target[m] = home[m]
    PROVE  Matched'
<1> USE DEF page, asked
<1>1. /\ UNCHANGED <<shown, hist, saves, completing>> /\ shown \in Chat
      /\ \A k \in Msg \ {m} : task'[k] = task[k]
      /\ m \in AskedFor
  BY DEF Post, Begin, Stream, Keep, Tell, Typed, AskedFor
<1>2. Part \in {Part, Full} /\ Full \in {Part, Full} /\ Empty \in Text /\ Full \in Text
  BY DEF Text, Absent, Empty, Part, Full
<1>3. \A k \in Msg : FullSent(k) => FullSent(k)'
  <2>1. CASE Stream(m) \/ Tell(m)
    <3>1. PICK x \in {Part, Full} : Emit(m, x)
      BY <1>2, <2>1 DEF Stream, Tell
    <3>2. /\ DOMAIN events' = 1 .. Len(events) + 1 /\ Len(events) \in Nat
          /\ DOMAIN events = 1 .. Len(events)
          /\ \A i \in DOMAIN events : events'[i] = events[i]
      BY <1>1, <3>1, EmitKnown
    <3>3. \A i \in DOMAIN events : i \in DOMAIN events' /\ events'[i] = events[i]
      BY <3>2
    <3> QED
      BY <3>3 DEF FullSent
  <2>2. CASE Post(m) \/ Begin(m) \/ Keep(m)
    BY <2>2 DEF Post, Begin, Keep, FullSent
  <2> QED
    BY <2>1, <2>2
<1>4. \A k \in Msg \ {m} : Latest'.text[k] = Latest.text[k]
  <2>1. CASE Post(m) \/ Stream(m) \/ Tell(m)
    BY <2>1 DEF Post, Stream, Tell, Latest
  <2>2. CASE Begin(m) \/ Keep(m)
    <3>1. PICK x \in Text : Upsert(m, x)
      BY <1>2, <2>2 DEF Begin, Keep, Typed, Row
    <3>2. target[m] = shown
      BY <2>2 DEF Begin, Keep, AtHome
    <3>3. \A k \in Msg \ {m} : stored'[shown].text[k] = stored[shown].text[k]
      BY <1>1, <3>1, <3>2, UpsertRow DEF Typed
    <3> QED
      BY <1>1, <3>3 DEF Latest
  <2> QED
    BY <2>1, <2>2
<1>5. \A k \in Msg \ {m} : Coming(k) => Coming(k)'
  BY <1>1, <1>3 DEF Coming
<1>6. Latest'.text[m] = hist'.text[m] \/ Coming(m)'
  <2>1. CASE Post(m) \/ Begin(m) \/ Stream(m)
    BY <2>1 DEF Post, Begin, Stream, Coming, Typed
  <2>2. CASE Tell(m)
    <3>1. Emit(m, Full)
      BY <2>2 DEF Tell
    <3>2. /\ DOMAIN events' = 1 .. Len(events) + 1 /\ Len(events) \in Nat
          /\ events'[Len(events) + 1].msg = m /\ events'[Len(events) + 1].text = Full
      BY <1>1, <1>2, <3>1, EmitKnown
    <3>3. Len(events) + 1 \in DOMAIN events'
      BY <3>2
    <3> QED
      BY <3>2, <3>3 DEF Coming, FullSent
  <2>3. CASE Keep(m) /\ task[m] = "streaming"
    BY <2>3 DEF Keep, Coming, Typed
  <2>4. CASE Keep(m) /\ task[m] = "told"
    <3>1. Upsert(m, Full) /\ target[m] = shown
      BY <2>4 DEF Keep, AtHome
    <3>2. stored'[shown].text[m] = Full
      BY <1>1, <1>2, <3>1, UpsertRow DEF Typed
    <3>3. FullSent(m) => Coming(m)'
      BY <1>3 DEF Coming
    <3>4. ~FullSent(m) => hist.text[m] = Full
      BY <2>4 DEF DoneRight
    <3>5. CASE saves = <<>>
      <4>1. Latest' = stored'[shown]
        BY <1>1, <3>5 DEF Latest
      <4> QED
        BY <1>1, <3>2, <3>3, <3>4, <4>1
    <3>6. CASE saves # <<>>
      <4>1. Latest' = Latest
        BY <1>1, <3>6 DEF Latest
      <4>2. Coming(m) => Coming(m)'
        BY <1>1, <2>4, <3>3 DEF Coming
      <4> QED
        BY <1>1, <4>1, <4>2 DEF Matched
    <3> QED
      BY <3>5, <3>6
  <2> QED
    BY <2>1, <2>2, <2>3, <2>4 DEF Keep
<1> QED
  BY <1>1, <1>4, <1>5, <1>6 DEF Matched

LEMMA HandleMatched ==
    ASSUME Typed, Known, EventOrder, Directed, AtHome, DoneRight, Matched, Handle
    PROVE  Matched'
<1> USE DEF page, asked
<1> DEFINE e == Head(events)
<1> HIDE DEF e
<1>0. e = Head(events)
  BY DEF e
<1>1. /\ e = events[1] /\ 1 \in DOMAIN events /\ e.msg \in Msg
      /\ Len(events) \in Nat /\ DOMAIN events = 1 .. Len(events)
      /\ \A i \in DOMAIN events : i # 1 => i - 1 \in DOMAIN events' /\ events'[i - 1] = events[i]
  BY <1>0, HandleEffect DEF Event
<1>2. Present(hist') = Present(hist) /\ \A k \in Msg \ {e.msg} : hist'.text[k] = hist.text[k]
  BY <1>0, HandleEffect
<1>3. UNCHANGED <<shown, stored, saves, task>>
  BY DEF Handle
<1>4. e.chat = shown /\ e.msg \in Present(hist)
  BY <1>1 DEF Directed, AtHome, Known
<1>5. completing \subseteq completing'
  BY DEF Handle
<1>6. \A k \in Msg \ {e.msg} : FullSent(k) => FullSent(k)'
  BY <1>1 DEF FullSent
<1>7. \A k \in Msg \ {e.msg} : Latest'.text[k] = hist'.text[k] \/ Coming(k)'
  BY <1>2, <1>3, <1>5, <1>6 DEF Matched, Coming, Latest
<1>8. ASSUME NEW m \in Msg, m = e.msg PROVE Coming(m)'
  <2>1. CASE e.text = Full
    <3>1. PICK c \in Hook : completing' = completing \cup {c} /\ Holds(c.text) = Branch(hist', e.msg)
      BY <1>0, <1>4, <2>1, HandleEffect
    <3>2. m \in Holds(c.text)
      BY <1>2, <1>4, <1>8, <3>1, BranchThere
    <3> QED
      BY <3>1, <3>2 DEF Coming
  <2>2. CASE e.text = Part
    <3>1. \/ task[m] \in {"streaming", "kept"}
          \/ \E j \in DOMAIN events : j > 1 /\ events[j].msg = m /\ events[j].text = Full
      BY <1>1, <1>8, <2>2 DEF EventOrder
    <3>2. CASE task[m] \in {"streaming", "kept"}
      BY <1>3, <3>2 DEF Coming
    <3>3. ASSUME NEW j \in DOMAIN events, j > 1, events[j].msg = m, events[j].text = Full
          PROVE  FullSent(m)'
      <4>1. j # 1
        BY <1>1, <3>3
      <4> QED
        BY <1>1, <3>3, <4>1 DEF FullSent
    <3> QED
      BY <3>1, <3>2, <3>3 DEF Coming
  <2> QED
    BY <1>1, <2>1, <2>2, EventTypes
<1> QED
  BY <1>7, <1>8 DEF Matched

LEMMA StepSettled ==
    ASSUME Typed, Known, Wanted, Apart, EventOrder, Staying, Settled, Step PROVE Settled'
<1> USE DEF page, asked
<1> SUFFICES ASSUME counts'.moves = 0, "overtaken" \notin mishap' PROVE Matched'
  BY DEF Settled
<1>1. counts.moves = 0 /\ \A c \in Chat : ~Navigate(c)
  <2>1. ASSUME NEW c \in Chat, Navigate(c) PROVE FALSE
    BY <2>1 DEF Navigate, Typed
  <2> QED
    BY <2>1, MovesStay
<1>2. AtHome /\ DoneRight /\ Here /\ Directed /\ Matched
  BY <1>1, MishapStays DEF Staying, AtHome, Apart, Settled
<1>3. Calm'
  BY <1>1, <1>2, StaysCalm
<1>4. Null \in Msg \cup {Null} /\ shown \in Chat /\ hist' \in Row
  BY StepKnown DEF Typed
<1>5. CASE \E i \in DOMAIN saves : SaveArrives(i)
  BY <1>2, <1>5, SaveArrivesMatched
<1>6. CASE \E r \in replies : SaveReturns(r)
  <2>1. PICK r \in replies : SaveReturns(r)
    BY <1>6
  <2>2. /\ UNCHANGED <<shown, hist, stored, saves, events, completing>>
        /\ \A m \in Msg : task'[m] = task[m] \/ task[m] = "saving"
    BY <2>1, BoundsAssumption DEF SaveReturns, Wanted, Msg, Null
  <2> QED
    BY <1>2, <2>2 DEF Matched, Coming, Latest, FullSent
<1>7. CASE Rate
  <2>1. Save(shown, hist', Null, FALSE)
    BY <1>7 DEF Rate, Save
  <2> QED
    BY <1>4, <2>1, SaveMatches
<1>8. CASE \E m \in Msg : Send(m)
  <2>1. PICK m \in Msg : Send(m)
    BY <1>8
  <2>2. Save(shown, hist', m, TRUE) /\ m \in Msg \cup {Null}
    BY <2>1 DEF Send
  <2> QED
    BY <1>4, <2>2, SaveMatches
<1>9. CASE \E m \in Msg : Post(m) \/ Begin(m) \/ Stream(m) \/ Keep(m) \/ Tell(m)
  BY <1>2, <1>9, TaskMatched DEF Directed
<1>10. CASE Handle
  BY <1>2, <1>10, HandleMatched
<1>11. CASE \E c \in completing : Completed(c)
  <2>1. Save(shown, hist', Null, TRUE)
    BY <1>2, <1>3, <1>11, CompletedStaying
  <2> QED
    BY <1>4, <2>1, SaveMatches
<1>12. ~\E l \in loads : LoadStep(l)
  BY <1>2 DEF AtHome
<1>13. CASE \E m \in Msg : Begins(m)
  <2>1. UNCHANGED <<hist, saves, Elsewhere>>
    BY <1>13, BeginsEffect
  <2> QED
    BY <1>2, <2>1 DEF Matched, Coming, Latest, FullSent, Elsewhere
<1>14. CASE \E h \in held : TagsRead(h) \/ TagsCome(h) \/ Resume(h)
  <2>1. UNCHANGED <<hist, saves, Elsewhere>>
    BY <1>2, <1>14, TagsEffect, ResumeEffect, ResumeSame
  <2> QED
    BY <1>2, <2>1 DEF Matched, Coming, Latest, FullSent, Elsewhere
<1>15. CASE \E h \in held : SaveCopy(h)
  <2>1. Save(shown, hist, Null, FALSE) /\ hist' = hist
    BY <1>15, SaveCopyEffect
  <2>2. Save(shown, hist', Null, FALSE)
    BY <2>1 DEF Save
  <2> QED
    BY <1>4, <2>2, SaveMatches
<1> QED
  BY <1>1, <1>5, <1>6, <1>7, <1>8, <1>9, <1>10, <1>11, <1>12, <1>13, <1>14, <1>15
  DEF Step, LoadStep, Begins

StayCore == EventOrder /\ Staying /\ Settled

LEMMA InitStay == ASSUME Init PROVE StayCore
<1>1. DOMAIN <<>> = {}
  BY EmptySeq
<1>2. shown \in Chat /\ AskedFor = {}
  BY DEF Init, AskedFor
<1>3. stored[shown].text = hist.text
  BY <1>2 DEF Init
<1>4. EventOrder
  BY <1>1 DEF Init, EventOrder
<1>5. AtHome /\ DoneRight
  BY <1>1, <1>2 DEF Init, AtHome, Calm, DoneRight, HeldRight
<1>6. Matched
  BY <1>3 DEF Init, Matched, Latest
<1> QED
  BY <1>4, <1>5, <1>6 DEF StayCore, Staying, Settled

LEMMA StutterStay == ASSUME StayCore, UNCHANGED vars PROVE StayCore'
<1> USE DEF vars, page, asked
<1>1. EventOrder'
  BY DEF StayCore, EventOrder
<1>2. Staying'
  BY DEF StayCore, Staying, AtHome, Calm, AskedFor, DoneRight, HeldRight, FullSent
<1>3. Settled'
  BY DEF StayCore, Settled, Matched, Latest, Coming, FullSent
<1> QED
  BY <1>1, <1>2, <1>3 DEF StayCore

LEMMA StayCoreAlways == Spec => []StayCore
<1>1. Init => StayCore
  BY InitStay
<1>2. Core /\ StayCore /\ [Next]_vars => StayCore'
  BY StepOrder, StepStaying, StepSettled, StutterStay DEF Core, StayCore, Next
<1> QED
  BY <1>1, <1>2, CoreAlways, PTL DEF Spec

\* While the user stays in a chat and saves arrive in order, what the page shows at rest
\* is what the server keeps, whatever was rated meanwhile (StayingIsSafe).
THEOREM StayingIsSafeAlways == Spec => []StayingIsSafe
<1>1. Core /\ StayCore => StayingIsSafe
  <2> SUFFICES ASSUME Core, StayCore, Quiet, counts.moves = 0, "overtaken" \notin mishap
               PROVE  hist.text = stored[shown].text
    BY DEF StayingIsSafe
  <2>1. Matched /\ Latest = stored[shown]
    BY DEF StayCore, Settled, Quiet, Latest
  <2>2. \A m \in Msg : ~Coming(m)
    <3>1. DOMAIN <<>> = {}
      BY EmptySeq
    <3> QED
      BY <3>1 DEF Quiet, Coming, FullSent
  <2>3. hist.text \in [Msg -> Text] /\ stored[shown].text \in [Msg -> Text]
    BY DEF Core, Typed, Row
  <2> QED
    BY <2>1, <2>2, <2>3 DEF Matched
<1> QED
  BY <1>1, CoreAlways, StayCoreAlways, PTL

--------------------------------------------------------------------------------
(* Without a mishap answers are ready *)

\* The end of the answer is still to come.
FullToCome(m) ==
    \/ task[m] \in {"saving", "ready", "posted", "running", "streaming", "kept"}
    \/ FullSent(m)

\* A history with every answer that was asked for in the chat of the route; it lacks no
\* text whose end the page has been told of.
Ready(row) ==
    \A m \in AskedFor : home[m] = shown =>
        m \in Present(row) /\ (row.text[m] = Full \/ FullToCome(m))

HooksFull == \A c \in completing : \A m \in Holds(c.text) : c.text[m] = Full

ParentsOver ==
    \A m \in Msg : parent[m] # Null =>
        /\ task[parent[m]] = "over"
        /\ \A i \in DOMAIN events : events[i].msg # parent[m]

StoredReady ==
    \A m \in Msg : /\ task[m] \notin {"none", "saving"} => m \in Present(stored[home[m]])
                   /\ task[m] \in {"kept", "over"} => stored[home[m]].text[m] = Full

\* While a save is under way, the answers of the chat are over or wait for it, and the
\* save that one waits for is the last one.
SavesReady ==
    \A i \in DOMAIN saves :
        /\ \A m \in Msg : home[m] = shown /\ task[m] \notin {"none", "saving"} =>
              saves[i].row.text[m] = Full /\ task[m] = "over"
        /\ saves[i].for # Null => i = Len(saves) /\ saves[i].for \in Present(saves[i].row)

RepliesReady ==
    \A r \in replies : r.for # Null => saves = <<>> /\ r.for \in Present(stored[shown])

PageReady ==
    /\ hist.of = shown => Ready(hist)
    /\ \A l \in loads : l.at \in {"read", "tags"} => Ready(l.row)
    /\ HooksFull /\ ParentsOver

ServerReady == StoredReady /\ SavesReady /\ RepliesReady

Fine == mishap = {} => PageReady /\ ServerReady

LEMMA NavigateFine ==
    ASSUME Typed, OwnRows, Here, PageReady, ServerReady, NEW c \in Chat, Navigate(c), mishap' = {}
    PROVE  PageReady' /\ ServerReady'
<1> USE DEF page, asked
<1>1. loads = {} /\ saves = <<>> /\ replies = {}
  BY DEF Navigate, MishapIf, Unanswered
<1>2. /\ shown' = c /\ hist.of # c /\ \A l \in loads' : l.at = "sent"
      /\ UNCHANGED <<hist, stored, saves, replies, home, parent, task, events, completing>>
  BY <1>1 DEF Navigate, Here
<1>3. PageReady'
  BY <1>2 DEF PageReady, HooksFull, ParentsOver
<1>4. ServerReady'
  <2>1. DOMAIN <<>> = {}
    BY EmptySeq
  <2> QED
    BY <1>1, <1>2, <2>1 DEF ServerReady, StoredReady, SavesReady, RepliesReady
<1> QED
  BY <1>3, <1>4

LEMMA LoadFine ==
    ASSUME Typed, OwnRows, Here, Directed, PageReady, ServerReady, mishap' = {}, NEW l \in loads,
           LoadStep(l)
    PROVE  PageReady' /\ ServerReady'
<1> USE DEF page, asked
<1>1. /\ loads = {l} /\ l.row \in Row /\ stored[l.chat] \in Row /\ l.chat = shown /\ loading
      /\ \A m \in Msg : task[m] \notin {"saving", "ready"}
  BY DEF Typed, LoadCall, Here, OwnRows
<1>2. UNCHANGED <<shown, stored, saves, replies, home, parent, task, target, events, completing>>
  BY DEF LoadStep, RowRead, RowComes, Install, MarkDone, Loaded
<1>3. ServerReady' /\ HooksFull' /\ ParentsOver'
  BY <1>2 DEF ServerReady, StoredReady, SavesReady, RepliesReady, PageReady, HooksFull, ParentsOver
<1>4. \A row : Ready(row) => \A m \in AskedFor' : home'[m] = shown' =>
                               m \in Present(row) /\ (row.text[m] = Full \/ FullToCome(m)')
  BY <1>2 DEF Ready, AskedFor, FullToCome, FullSent
<1>5. ASSUME NEW at \in {"read", "tags", "settings", "shown"}, NEW row \in Row, LoadTo(l, at, row)
      PROVE  \E k : loads' = {k} /\ k.at = at /\ k.row = row
  <2>1. loads \subseteq LoadCall
    BY DEF Typed
  <2>2. \E k \in LoadCall : k.at = at /\ k.row = row /\ loads' = (loads \ {l}) \cup {k}
    BY <1>5, <2>1, LoadMoves
  <2> QED
    BY <1>1, <2>2
<1>6. CASE RowRead(l)
  <2>1. PICK k : loads' = {k} /\ k.row = stored[l.chat]
    BY <1>1, <1>5, <1>6 DEF RowRead
  <2>2. Ready(stored[l.chat])
    <3>1. ASSUME NEW m \in AskedFor, home[m] = shown
          PROVE  m \in Present(stored[shown]) /\ (stored[shown].text[m] = Full \/ FullToCome(m))
      <4>1. m \in Msg /\ task[m] \in TaskStates /\ task[m] \notin {"none", "saving", "ready"}
        BY <1>1 DEF AskedFor, Typed
      <4>2. task[m] # "told"
        BY <1>1, <1>6, <3>1, <4>1 DEF RowRead, MishapIf, Directed
      <4> QED
        BY <3>1, <4>1, <4>2 DEF ServerReady, StoredReady, FullToCome, TaskStates
    <3> QED
      BY <1>1, <3>1 DEF Ready
  <2>3. hist' = hist
    BY <1>6 DEF RowRead
  <2> QED
    BY <1>2, <1>3, <1>4, <2>1, <2>2, <2>3 DEF PageReady, Ready
<1>7. CASE RowComes(l)
  <2>1. PICK k : loads' = {k} /\ k.row = l.row
    BY <1>1, <1>5, <1>7 DEF RowComes
  <2>2. l.at = "read" /\ hist' = hist
    BY <1>7 DEF RowComes
  <2> QED
    BY <1>2, <1>3, <1>4, <2>1, <2>2 DEF PageReady, Ready
<1>8. CASE Install(l)
  <2>1. PICK k : loads' = {k} /\ k.at = "settings"
    BY <1>1, <1>5, <1>8 DEF Install
  <2>2. l.at = "tags" /\ hist' = l.row
    BY <1>8 DEF Install, Here
  <2> QED
    BY <1>2, <1>3, <1>4, <2>1, <2>2 DEF PageReady, Ready
<1>9. CASE MarkDone(l)
  <2>1. PICK k : loads' = {k} /\ k.at = "shown"
    BY <1>1, <1>5, <1>9 DEF MarkDone
  <2>2. hist' = hist
    BY <1>9 DEF MarkDone
  <2> QED
    BY <1>2, <1>3, <1>4, <2>1, <2>2 DEF PageReady, Ready
<1>10. CASE Loaded(l)
  <2>1. loads' = {} /\ hist' = hist
    BY <1>1, <1>10 DEF Loaded
  <2> QED
    BY <1>2, <1>3, <1>4, <2>1 DEF PageReady, Ready
<1> QED
  BY <1>6, <1>7, <1>8, <1>9, <1>10 DEF LoadStep

LEMMA SaveArrivesFine ==
    ASSUME Typed, Wanted, OwnRows, Here, PageReady, ServerReady, mishap' = {},
           NEW n \in DOMAIN saves, SaveArrives(n)
    PROVE  PageReady' /\ ServerReady'
<1> USE DEF page, asked
<1> DEFINE s == saves[n]
<1>1. /\ Len(saves) \in Nat \ {0} /\ n \in 1 .. Len(saves) /\ DOMAIN saves = 1 .. Len(saves)
      /\ saves' = RemoveAt(saves, n) /\ Len(saves') = Len(saves) - 1
      /\ DOMAIN saves' = 1 .. Len(saves) - 1
      /\ \A i \in 1 .. Len(saves) - 1 : saves'[i] = IF i < n THEN saves[i] ELSE saves[i + 1]
  <2>1. saves' = RemoveAt(saves, n) /\ saves \in Seq(SaveCall)
    BY DEF SaveArrives, Typed
  <2> QED
    BY <2>1, RemoveAtElements
<1>2. n = 1
  <2>1. ASSUME n # 1 PROVE FALSE
    <3>1. 1 \in 1 .. n - 1 /\ 1 \in DOMAIN saves
      BY <1>1, <2>1
    <3>2. saves[1].chat = shown /\ saves[n].chat = shown
      BY <3>1 DEF Here
    <3> QED
      BY <3>1, <3>2 DEF SaveArrives, MishapIf
  <2> QED
    BY <2>1
<1>3. /\ UNCHANGED <<shown, hist, loads, home, parent, task, events, completing>>
      /\ s.chat = shown /\ shown \in Chat
      /\ stored' = [stored EXCEPT ![s.chat] = s.row] /\ stored \in [Chat -> Row]
      /\ \A r \in replies' : \/ r \in replies
                             \/ r.for = s.for
  BY DEF SaveArrives, Here, Typed
<1>4. PageReady'
  BY <1>3 DEF PageReady, Ready, AskedFor, FullToCome, FullSent, HooksFull, ParentsOver
<1>5. /\ stored'[shown] = s.row /\ \A c \in Chat \ {shown} : stored'[c] = stored[c]
  BY <1>3
<1>6. \A m \in Msg : home[m] = shown /\ task[m] \notin {"none", "saving"} => s.row.text[m] = Full
  BY <1>1 DEF ServerReady, SavesReady
<1>7. s.for # Null => saves' = <<>> /\ s.for \in Present(s.row)
  <2>1. ASSUME s.for # Null PROVE saves' = <<>> /\ s.for \in Present(s.row)
    <3>1. n = Len(saves) /\ s.for \in Present(s.row)
      BY <1>1, <2>1 DEF ServerReady, SavesReady
    <3>2. saves' \in Seq(SaveCall) /\ Len(saves') = 0
      <4>1. saves \in Seq(SaveCall) /\ saves' = RemoveAt(saves, n)
        BY <1>1 DEF Typed
      <4>2. saves' \in Seq(SaveCall)
        BY <4>1, RemoveAtElements
      <4> QED
        BY <1>1, <1>2, <3>1, <4>2
    <3>3. saves' = <<>>
      BY <3>2, EmptySeq
    <3> QED
      BY <3>1, <3>3
  <2> QED
    BY <2>1
<1> HIDE DEF s
<1>8. StoredReady'
  <2>1. \A m \in Msg : home[m] \in Chat
    BY DEF Typed
  <2>2. Full # Absent
    BY DEF Full, Absent
  <2>3. ASSUME NEW m \in Msg, home[m] = shown, task[m] \notin {"none", "saving"}
        PROVE  m \in Present(stored'[home[m]]) /\ stored'[home[m]].text[m] = Full
    BY <1>5, <1>6, <2>2, <2>3 DEF Present
  <2>4. ASSUME NEW m \in Msg, home[m] # shown PROVE stored'[home[m]] = stored[home[m]]
    BY <1>5, <2>1, <2>4
  <2> QED
    BY <1>3, <2>3, <2>4 DEF ServerReady, StoredReady
<1>9. SavesReady'
  <2>1. ASSUME NEW i \in DOMAIN saves'
        PROVE  /\ i + 1 \in DOMAIN saves /\ saves'[i] = saves[i + 1]
               /\ i + 1 = Len(saves) => i = Len(saves')
    BY <1>1, <1>2
  <2> QED
    BY <1>3, <2>1 DEF ServerReady, SavesReady
<1>10. RepliesReady'
  <2>1. \A r \in replies : r.for = Null
    <3>1. saves # <<>>
      <4>1. DOMAIN <<>> = {}
        BY EmptySeq
      <4> QED
        BY <4>1
    <3> QED
      BY <3>1 DEF ServerReady, RepliesReady
  <2> QED
    BY <1>3, <1>5, <1>7, <2>1 DEF RepliesReady
<1> QED
  BY <1>4, <1>8, <1>9, <1>10 DEF ServerReady

LEMMA SaveReturnsFine ==
    ASSUME Typed, Known, Wanted, OwnRows, Here, PageReady, ServerReady,
           NEW r \in replies, SaveReturns(r)
    PROVE  PageReady' /\ ServerReady'
<1> USE DEF page, asked
<1>1. /\ UNCHANGED <<shown, hist, loads, stored, saves, home, parent, events, completing>>
      /\ replies' = replies \ {r}
  BY DEF SaveReturns
<1>2. \A m \in Msg : \/ task'[m] = task[m]
                     \/ /\ m = r.for /\ m # Null
                        /\ task[m] = "saving" /\ task'[m] = "ready"
  BY BoundsAssumption DEF SaveReturns, Wanted, Msg, Null
<1>3. AskedFor' = AskedFor
  BY <1>2 DEF AskedFor
<1>4. PageReady'
  <2>1. \A m \in Msg : FullToCome(m) => FullToCome(m)'
    BY <1>1, <1>2 DEF FullToCome, FullSent
  <2>2. AskedFor \subseteq Msg
    BY DEF AskedFor
  <2>3. (hist'.of = shown' => Ready(hist)') /\ \A l \in loads' : l.at \in {"read", "tags"} => Ready(l.row)'
    BY <1>1, <1>3, <2>1, <2>2 DEF PageReady, Ready
  <2>4. HooksFull' /\ ParentsOver'
    <3>1. \A m \in Msg : parent[m] # Null => parent[m] \in Msg
      BY DEF Typed
    <3> QED
      BY <1>1, <1>2, <3>1 DEF PageReady, HooksFull, ParentsOver
  <2> QED
    BY <2>3, <2>4 DEF PageReady
<1>5. StoredReady'
  <2>1. ASSUME NEW m \in Msg, task'[m] # task[m] PROVE m \in Present(stored[home[m]])
    BY <1>2, <2>1 DEF ServerReady, RepliesReady, Here
  <2> QED
    BY <1>1, <1>2, <2>1 DEF ServerReady, StoredReady
<1>6. SavesReady'
  <2>1. ASSUME NEW i \in DOMAIN saves, NEW m \in Msg PROVE task'[m] = task[m]
    <3>1. DOMAIN <<>> = {}
      BY EmptySeq
    <3> QED
      BY <1>2, <3>1 DEF ServerReady, RepliesReady
  <2> QED
    BY <1>1, <2>1 DEF ServerReady, SavesReady
<1>7. RepliesReady'
  BY <1>1 DEF ServerReady, RepliesReady
<1> QED
  BY <1>4, <1>5, <1>6, <1>7 DEF ServerReady

\* A save that is no mishap finds every answer of the chat over, but the one it is for.
LEMMA NothingUnderway ==
    ASSUME Typed, Known, Ready(hist), NEW row, Present(hist) \subseteq Present(row), NEW m,
           NEW x \in BOOLEAN, NEW c, Save(c, row, m, x), mishap' = {}
    PROVE  \A k \in AskedFor : home[k] = shown /\ k # m =>
               /\ task[k] = "over" /\ hist.text[k] = Full
               /\ \A i \in DOMAIN events : events[i].msg # k
<1>1. (Underway \cap Present(row)) \ {m} = {}
  BY DEF Save, MishapIf
<1>2. ASSUME NEW k \in AskedFor, home[k] = shown, k # m
      PROVE  k \in Msg /\ task[k] = "over" /\ \A i \in DOMAIN events : events[i].msg # k
  <2>1. k \in Msg /\ k \in Present(row) /\ task[k] # "none"
    BY <1>2 DEF Ready, AskedFor
  <2> QED
    BY <1>1, <1>2, <2>1 DEF Underway
<1>3. ASSUME NEW k \in AskedFor, home[k] = shown, k # m PROVE hist.text[k] = Full
  BY <1>2, <1>3 DEF Ready, FullToCome, FullSent
<1> QED
  BY <1>2, <1>3

\* What the page saves is ready, and nothing else waits for a save.
LEMMA PageSaves ==
    ASSUME Typed, Known, Wanted, Here, ServerReady, Ready(hist),
           NEW m \in Msg \cup {Null}, NEW x \in BOOLEAN, Save(shown, hist', m, x), mishap' = {},
           hist' \in Row, Present(hist) \subseteq Present(hist'),
           m # Null => m \notin AskedFor /\ m \in Present(hist'),
           \A k \in AskedFor : /\ home'[k] = home[k] /\ task'[k] = task[k]
                               /\ hist'.text[k] = hist.text[k] \/ hist'.text[k] = Full,
           \A k \in Msg \ AskedFor : task'[k] \in {"none", "saving"},
           UNCHANGED <<shown, stored, replies>>
    PROVE  ServerReady'
<1>1. shown \in Chat /\ AskedFor \subseteq Msg /\ \A k \in Msg : k \notin AskedFor => task[k] = "none"
  BY DEF Typed, AskedFor
<1>2. \A k \in AskedFor : home[k] = shown /\ k # m => task[k] = "over" /\ hist.text[k] = Full
  BY NothingUnderway
<1>3. ASSUME NEW k \in Msg, task[k] = "saving" PROVE FALSE
  <2>1. home[k] = shown /\ k \in AskedFor
    BY <1>1, <1>3 DEF Here
  <2>2. k # m
    BY <1>1, <2>1, BoundsAssumption DEF Msg, Null
  <2> QED
    BY <1>2, <1>3, <2>1, <2>2
<1>4. /\ Len(saves) \in Nat /\ Len(saves') = Len(saves) + 1
      /\ \A i \in DOMAIN saves' : i \in DOMAIN saves \/ i = Len(saves) + 1
      /\ \A i \in DOMAIN saves : saves'[i] = saves[i]
      /\ saves'[Len(saves) + 1].row = hist' /\ saves'[Len(saves) + 1].for = m
  <2>1. saves \in Seq(SaveCall) /\ mishap \subseteq Mishaps
    BY DEF Typed
  <2> QED
    BY <1>1, <2>1, SaveJoins
<1>5. \A i \in DOMAIN saves : saves[i] \in SaveCall
  BY LenProperties, ElementOfSeq DEF Typed
<1>6. \A i \in DOMAIN saves : saves[i].for = Null
  BY <1>3, <1>5 DEF Wanted, SaveCall
<1>7. \A r \in replies : r.for = Null
  BY <1>3 DEF Wanted, Typed, Reply
<1>8. StoredReady'
  BY <1>1 DEF ServerReady, StoredReady
<1>9. SavesReady'
  <2>1. ASSUME NEW k \in Msg, home'[k] = shown', task'[k] \notin {"none", "saving"}
        PROVE  k \in AskedFor /\ home[k] = shown /\ task'[k] = task[k] /\ k # m
    <3>1. k \in AskedFor
      BY <2>1
    <3>2. k # m
      BY <3>1, <1>1, BoundsAssumption DEF Msg, Null
    <3> QED
      BY <2>1, <3>1, <3>2
  <2>2. ASSUME NEW i \in DOMAIN saves'
        PROVE  \A k \in Msg : home'[k] = shown' /\ task'[k] \notin {"none", "saving"} =>
                   saves'[i].row.text[k] = Full /\ task'[k] = "over"
    <3>1. CASE i \in DOMAIN saves
      BY <1>4, <2>1, <3>1 DEF ServerReady, SavesReady
    <3>2. CASE i = Len(saves) + 1
      BY <1>2, <1>4, <2>1, <3>2
    <3> QED
      BY <1>4, <3>1, <3>2
  <2>3. \A i \in DOMAIN saves' : saves'[i].for # Null =>
            i = Len(saves') /\ saves'[i].for \in Present(saves'[i].row)
    BY <1>4, <1>6
  <2> QED
    BY <2>2, <2>3 DEF SavesReady
<1>10. RepliesReady'
  BY <1>7 DEF RepliesReady
<1> QED
  BY <1>8, <1>9, <1>10 DEF ServerReady

LEMMA RateFine ==
    ASSUME Typed, Known, Wanted, OwnRows, Here, PageReady, ServerReady, mishap' = {},
           Rate \/ (\E h \in held : SaveCopy(h))
    PROVE  PageReady' /\ ServerReady'
<1>1. /\ UNCHANGED <<shown, hist, loads, stored, replies, home, parent, task, events, completing>>
      /\ Save(shown, hist', Null, FALSE) /\ ~loading
  <2>1. CASE Rate
    BY <2>1 DEF Rate, Save, page, asked
  <2>2. CASE \E h \in held : SaveCopy(h)
    <3>1. PICK h \in held : SaveCopy(h)
      BY <2>2
    <3>2. h.at = "save" /\ h.left \in 0 .. 2
      BY <3>1 DEF SaveCopy, Typed, Holder
    <3>3. ~loading
      BY <3>2 DEF Known, Here
    <3> QED
      BY <3>1, <3>3 DEF SaveCopy, Save, page, asked
  <2> QED
    BY <2>1, <2>2
<1>2. Ready(hist) /\ hist' \in Row
  BY <1>1 DEF Here, PageReady, Typed
<1>3. PageReady'
  BY <1>1 DEF PageReady, Ready, AskedFor, FullToCome, FullSent, HooksFull, ParentsOver
<1>4. ServerReady'
  <2>1. \A k \in Msg \ AskedFor : task'[k] \in {"none", "saving"}
    BY <1>1 DEF AskedFor
  <2>2. Null \in Msg \cup {Null}
    OBVIOUS
  <2> QED
    BY <1>1, <1>2, <2>1, <2>2, PageSaves
<1> QED
  BY <1>3, <1>4

LEMMA SendFine ==
    ASSUME Typed, Known, Wanted, OwnRows, Here, PageReady, ServerReady, mishap' = {},
           NEW m \in Msg, Send(m)
    PROVE  PageReady' /\ ServerReady'
<1> USE DEF page, asked
<1>1. /\ UNCHANGED <<shown, loads, stored, replies, events, completing>>
      /\ Save(shown, hist', m, TRUE) /\ ~loading /\ task[m] = "none"
      /\ hist.current \in done \cup {Null}
      /\ home' = [home EXCEPT ![m] = shown] /\ task' = [task EXCEPT ![m] = "saving"]
      /\ parent' = [parent EXCEPT ![m] = hist.current]
  BY DEF Send
<1>2. /\ hist' \in Row /\ Present(hist') = Present(hist) \cup {m}
      /\ \A k \in Msg \ {m} : hist'.text[k] = hist.text[k]
  <2>1. hist \in Row /\ hist' = [hist EXCEPT !.text[m] = Empty, !.current = m]
    BY DEF Typed, Send
  <2>2. Empty \in Text /\ Empty # Absent
    BY DEF Text, Empty, Absent, Full
  <2>3. /\ hist' \in Row
        /\ hist'.text[m] = Empty /\ \A k \in Msg \ {m} : hist'.text[k] = hist.text[k]
    BY <2>1, <2>2 DEF Row
  <2> QED
    BY <2>2, <2>3 DEF Present
<1>3. /\ m \notin AskedFor /\ AskedFor \subseteq Msg /\ AskedFor' = AskedFor \cup {m}
      /\ task'[m] = "saving" /\ \A k \in Msg \ {m} : task'[k] = task[k] /\ home'[k] = home[k]
      /\ parent'[m] = hist.current /\ \A k \in Msg \ {m} : parent'[k] = parent[k]
      /\ \A k \in AskedFor : k \in Msg \ {m}
  BY <1>1 DEF AskedFor, Typed
<1>4. Ready(hist) /\ loads = {} /\ hist.of = shown
  BY <1>1 DEF Here, PageReady
<1>5. ServerReady'
  <2>1. \A k \in Msg \ AskedFor : task'[k] \in {"none", "saving"}
    BY <1>1, <1>3 DEF AskedFor
  <2>2. m \in Msg \cup {Null} /\ (m # Null => m \notin AskedFor /\ m \in Present(hist'))
    BY <1>2, <1>3
  <2>3. \A k \in AskedFor : /\ home'[k] = home[k] /\ task'[k] = task[k]
                            /\ hist'.text[k] = hist.text[k] \/ hist'.text[k] = Full
    BY <1>2, <1>3
  <2> QED
    BY <1>1, <1>2, <1>4, <2>1, <2>2, <2>3, PageSaves
<1>6. Ready(hist)'
  <2>1. \A k \in AskedFor : FullToCome(k) => FullToCome(k)'
    BY <1>1, <1>3 DEF FullToCome, FullSent
  <2>2. FullToCome(m)'
    BY <1>3 DEF FullToCome
  <2> QED
    BY <1>1, <1>2, <1>3, <1>4, <2>1, <2>2 DEF Ready
<1>7. ParentsOver'
  <2>1. ASSUME hist.current # Null
        PROVE  /\ task[hist.current] = "over" /\ hist.current \in Msg \ {m}
               /\ \A i \in DOMAIN events : events[i].msg # hist.current
    <3>1. hist.current \in Present(hist) /\ hist.current \in AskedFor
      BY <1>1, <2>1 DEF Typed, Known, Knows
    <3>2. home[hist.current] = shown
      BY <1>4, <3>1 DEF OwnRows, Own
    <3>3. hist.current # m
      BY <1>3, <3>1
    <3>4. \A k \in AskedFor : home[k] = shown /\ k # m =>
               /\ task[k] = "over" /\ hist.text[k] = Full
               /\ \A i \in DOMAIN events : events[i].msg # k
      <4>1. PICK x \in BOOLEAN : Save(shown, hist', m, x)
        BY <1>1
      <4>2. Ready(hist) /\ Present(hist) \subseteq Present(hist')
        BY <1>2, <1>4
      <4> QED
        BY <4>1, <4>2, NothingUnderway
    <3> QED
      BY <1>3, <3>1, <3>2, <3>3, <3>4
  <2>2. ASSUME NEW k \in Msg \ {m}, parent[k] # Null
        PROVE  /\ task[parent[k]] = "over" /\ parent[k] \in Msg \ {m}
               /\ \A i \in DOMAIN events : events[i].msg # parent[k]
    BY <1>1, <2>2 DEF PageReady, ParentsOver, Typed
  <2> QED
    BY <1>1, <1>3, <2>1, <2>2 DEF ParentsOver
<1>8. PageReady'
  BY <1>1, <1>4, <1>6, <1>7 DEF PageReady, HooksFull
<1> QED
  BY <1>5, <1>8

LEMMA CompletedFine ==
    ASSUME Typed, Known, Wanted, OwnRows, Here, Directed, PageReady, ServerReady, mishap' = {},
           NEW c \in completing, Completed(c)
    PROVE  PageReady' /\ ServerReady'
<1> USE DEF page, asked
<1>1. c \in [chat : Chat, text : [Msg -> Text]] /\ hist \in Row /\ AskedFor \subseteq Msg
  BY DEF Typed, Hook, AskedFor
<1>2. UNCHANGED <<shown, loads, stored, replies, home, parent, task, events>>
  BY DEF Completed
<1>3. /\ hist' \in Row /\ hist'.of = hist.of /\ Present(hist') = Present(hist)
      /\ completing' = completing \ {c}
      /\ \A m \in Msg : \/ hist'.text[m] = hist.text[m]
                        \/ c.text[m] # Absent /\ hist'.text[m] = c.text[m]
  BY <1>1, CompletedRow
<1>4. \A m \in Msg : hist'.text[m] = hist.text[m] \/ hist'.text[m] = Full
  BY <1>3 DEF PageReady, HooksFull, Holds
<1>5. PageReady'
  <2>1. AskedFor' = AskedFor /\ \A m \in Msg : FullToCome(m) => FullToCome(m)'
    BY <1>2 DEF AskedFor, FullToCome, FullSent
  <2>2. hist'.of = shown' => Ready(hist)'
    BY <1>1, <1>2, <1>3, <1>4, <2>1 DEF PageReady, Ready
  <2>3. \A l \in loads' : l.at \in {"read", "tags"} => Ready(l.row)'
    BY <1>1, <1>2, <2>1 DEF PageReady, Ready
  <2>4. HooksFull' /\ ParentsOver'
    BY <1>2, <1>3 DEF PageReady, HooksFull, ParentsOver
  <2> QED
    BY <2>2, <2>3, <2>4 DEF PageReady
<1>6. CASE c.chat = shown /\ \A m \in Msg : There(c, m)
  <2>1. Save(shown, hist', Null, TRUE)
    BY <1>1, <1>6, CompletedRow
  <2>2. hist.of = shown
    <3>1. PICK m \in Msg : m \in Holds(c.text)
      BY DEF Known, Holds
    <3>2. m \in Present(hist)
      BY <1>1, <1>6, <3>1, CompletedRow DEF Holds
    <3> QED
      BY <1>6, <3>1, <3>2 DEF OwnRows, Own, Directed
  <2>3. Ready(hist) /\ Null \in Msg \cup {Null}
    BY <2>2 DEF PageReady
  <2>4. \A k \in Msg \ AskedFor : task'[k] \in {"none", "saving"}
    BY <1>2 DEF AskedFor
  <2>5. \A k \in AskedFor : /\ home'[k] = home[k] /\ task'[k] = task[k]
                            /\ hist'.text[k] = hist.text[k] \/ hist'.text[k] = Full
    BY <1>1, <1>2, <1>4
  <2>6. ServerReady'
    BY <1>2, <1>3, <2>1, <2>3, <2>4, <2>5, PageSaves
  <2> QED
    BY <1>5, <2>6
<1>7. CASE ~(c.chat = shown /\ \A m \in Msg : There(c, m))
  <2>1. saves' = saves
    BY <1>1, <1>7, CompletedRow
  <2> QED
    BY <1>2, <1>5, <2>1 DEF ServerReady, StoredReady, SavesReady, RepliesReady
<1> QED
  BY <1>6, <1>7

LEMMA TaskFine ==
    ASSUME Typed, Known, OwnRows, Here, Directed, PageReady, ServerReady, NEW m \in Msg,
           Post(m) \/ Begin(m) \/ Stream(m) \/ Keep(m) \/ Tell(m)
    PROVE  PageReady' /\ ServerReady'
<1> USE DEF page, asked
<1>1. /\ UNCHANGED <<shown, hist, loads, saves, replies, home, parent, completing>>
      /\ \A k \in Msg \ {m} : task'[k] = task[k]
      /\ task[m] \notin {"none", "saving", "over"} /\ task'[m] \notin {"none", "saving", "ready"}
      /\ m \in AskedFor /\ AskedFor \subseteq Msg /\ AskedFor' = AskedFor
      /\ shown \in Chat /\ home[m] \in Chat
  BY DEF Post, Begin, Stream, Keep, Tell, Typed, AskedFor, TaskStates
<1>2. Part \in {Part, Full} /\ Full \in {Part, Full} /\ Empty \in Text /\ Full \in Text
      /\ Full # Absent /\ Empty # Absent
  BY DEF Text, Absent, Empty, Part, Full
<1>3. CASE Stream(m) \/ Tell(m)
  <2>1. PICK x \in {Part, Full} : Emit(m, x) /\ (Tell(m) => x = Full)
    BY <1>2, <1>3 DEF Stream, Tell
  <2> DEFINE n == Len(events) + 1
  <2>2. /\ n \in DOMAIN events' /\ events'[n].msg = m /\ events'[n].text = x
        /\ \A i \in DOMAIN events : i \in DOMAIN events' /\ events'[i] = events[i]
        /\ \A i \in DOMAIN events' : i \in DOMAIN events \/ i = n
    <3>1. /\ Len(events) \in Nat
          /\ DOMAIN events = 1 .. Len(events) /\ DOMAIN events' = 1 .. Len(events) + 1
          /\ \A i \in DOMAIN events' : i \in DOMAIN events \/ i = Len(events) + 1
          /\ \A i \in DOMAIN events : events'[i] = events[i]
          /\ events'[Len(events) + 1].msg = m
          /\ events'[Len(events) + 1].text = x
      BY <1>1, <2>1, EmitKnown
    <3> QED
      BY <3>1
  <2> HIDE DEF n
  <2>3. stored' = stored
    BY <1>3 DEF Stream, Tell
  <2>4. \A k \in Msg : FullSent(k) => FullSent(k)'
    BY <2>2 DEF FullSent
  <2>5. FullToCome(m)'
    BY <1>3, <2>1, <2>2 DEF Stream, Tell, FullToCome, FullSent, Typed
  <2>6. \A k \in Msg : FullToCome(k) => FullToCome(k)'
    BY <1>1, <2>4, <2>5 DEF FullToCome
  <2>7. ParentsOver'
    BY <1>1, <2>2 DEF PageReady, ParentsOver, Typed
  <2>8. PageReady'
    BY <1>1, <2>6, <2>7 DEF PageReady, Ready, HooksFull
  <2>9. task'[m] \in {"kept", "over"} => task[m] = "kept"
    BY <1>3 DEF Stream, Tell, Typed
  <2>10. StoredReady'
    BY <1>1, <2>3, <2>9 DEF ServerReady, StoredReady
  <2>11. SavesReady'
    BY <1>1 DEF ServerReady, SavesReady
  <2>12. RepliesReady'
    BY <1>1, <2>3 DEF ServerReady, RepliesReady
  <2> QED
    BY <2>8, <2>10, <2>11, <2>12 DEF ServerReady
<1>4. CASE Post(m) \/ Begin(m) \/ Keep(m)
  <2>1. events' = events
    BY <1>4 DEF Post, Begin, Keep
  <2>2. \A k \in Msg : FullToCome(k) => FullToCome(k)'
    <3>1. FullToCome(m) => FullToCome(m)'
      BY <1>4, <2>1 DEF Post, Begin, Keep, FullToCome, FullSent, Typed
    <3> QED
      BY <1>1, <2>1, <3>1 DEF FullToCome, FullSent
  <2>3. ParentsOver'
    BY <1>1, <2>1 DEF PageReady, ParentsOver, Typed
  <2>4. PageReady'
    BY <1>1, <2>2, <2>3 DEF PageReady, Ready, HooksFull
  <2>5. SavesReady'
    BY <1>1 DEF ServerReady, SavesReady
  <2>6. CASE Post(m)
    <3>1. stored' = stored /\ task'[m] = "posted"
      BY <2>6 DEF Post, Typed
    <3> QED
      BY <1>1, <2>4, <2>5, <3>1 DEF ServerReady, StoredReady, RepliesReady
  <2>7. CASE Begin(m) \/ Keep(m)
    <3>1. PICK x \in Text \ {Absent} : Upsert(m, x) /\ (Keep(m) => x = Full)
      BY <1>2, <2>7 DEF Begin, Keep, Typed, Row
    <3>2. target[m] = home[m]
      BY <2>7 DEF Begin, Keep, Directed
    <3>3. /\ \A c \in Chat \ {home[m]} : stored'[c] = stored[c]
          /\ stored'[home[m]].text[m] = x
          /\ \A k \in Msg \ {m} : stored'[home[m]].text[k] = stored[home[m]].text[k]
      BY <1>1, <3>1, <3>2, UpsertRow DEF Typed
    <3>4. \A c \in Chat : \A k \in Msg : k \in Present(stored[c]) => k \in Present(stored'[c])
      BY <3>1, <3>3 DEF Present
    <3>5. m \in Present(stored'[home[m]])
      BY <3>1, <3>3 DEF Present
    <3>6. task'[m] \in {"kept", "over"} => stored'[home[m]].text[m] = Full
      BY <2>7, <3>1, <3>3 DEF Begin, Keep, Typed
    <3>7. ASSUME NEW k \in Msg \ {m}, task[k] \in {"kept", "over"}
          PROVE  stored'[home[k]].text[k] = Full
      <4>1. home[k] \in Chat /\ stored[home[k]].text[k] = Full
        BY <3>7 DEF ServerReady, StoredReady, Typed
      <4> QED
        BY <3>3, <4>1
    <3>8. StoredReady'
      <4>1. \A k \in Msg : home[k] \in Chat
        BY DEF Typed
      <4> QED
        BY <1>1, <3>4, <3>5, <3>6, <3>7, <4>1 DEF ServerReady, StoredReady
    <3>9. RepliesReady'
      <4>1. \A k : k \in Present(stored[shown]) => k \in Msg
        BY DEF Present
      <4> QED
        BY <1>1, <3>4, <4>1 DEF ServerReady, RepliesReady
    <3> QED
      BY <2>4, <2>5, <3>8, <3>9 DEF ServerReady
  <2> QED
    BY <1>4, <2>6, <2>7
<1> QED
  BY <1>3, <1>4

LEMMA HandleFine ==
    ASSUME Typed, Known, EventOrder, OwnRows, Here, Directed, PageReady, ServerReady,
           mishap' = {}, Handle
    PROVE  PageReady' /\ ServerReady'
<1> USE DEF page, asked
<1>1. PICK e : e = Head(events)
  OBVIOUS
<1>2. /\ e \in Event /\ e = events[1] /\ 1 \in DOMAIN events
      /\ Len(events) \in Nat /\ DOMAIN events = 1 .. Len(events)
      /\ \A i \in DOMAIN events' : i + 1 \in DOMAIN events /\ events'[i] = events[i + 1]
      /\ \A i \in DOMAIN events : i # 1 => i - 1 \in DOMAIN events' /\ events'[i - 1] = events[i]
  BY <1>1, HandleEffect
<1>3. /\ Present(hist') = Present(hist) /\ hist'.of = hist.of
      /\ \A k \in Msg \ {e.msg} : hist'.text[k] = hist.text[k]
  BY <1>1, HandleEffect
<1>4. UNCHANGED <<shown, loads, stored, saves, replies, home, parent, task>>
  BY DEF Handle
<1>5. e.msg \in AskedFor /\ AskedFor \subseteq Msg /\ AskedFor' = AskedFor /\ e.chat = home[e.msg]
  BY <1>2, <1>4 DEF Known, AskedFor, Directed
<1>6. ~(e.chat = shown /\ loading /\ e.text = Full)
  BY <1>1, HandleEffect
<1>7. \A k \in Msg : k # e.msg \/ e.text # Full => (FullToCome(k) => FullToCome(k)')
  <2>1. ASSUME NEW k \in Msg, k # e.msg \/ e.text # Full, FullSent(k) PROVE FullSent(k)'
    <3>1. PICK i \in DOMAIN events : events[i].msg = k /\ events[i].text = Full
      BY <2>1 DEF FullSent
    <3>2. i # 1
      BY <1>2, <2>1, <3>1
    <3> QED
      BY <1>2, <3>1, <3>2 DEF FullSent
  <2> QED
    BY <1>4, <2>1 DEF FullToCome
<1>8. ServerReady'
  BY <1>4 DEF ServerReady, StoredReady, SavesReady, RepliesReady
<1>9. ParentsOver'
  BY <1>2, <1>4 DEF PageReady, ParentsOver
<1>10. \A l \in loads' : l.at \in {"read", "tags"} => Ready(l.row)'
  <2>1. ASSUME NEW l \in loads, l.at \in {"read", "tags"} PROVE Ready(l.row)'
    <3>1. Ready(l.row) /\ loading
      BY <2>1 DEF PageReady, Here
    <3>2. ASSUME NEW k \in AskedFor, home[k] = shown PROVE FullToCome(k) => FullToCome(k)'
      <4>1. k \in Msg /\ (k # e.msg \/ e.text # Full)
        BY <1>5, <1>6, <3>1, <3>2
      <4> QED
        BY <1>7, <4>1
    <3> QED
      BY <1>4, <1>5, <3>1, <3>2 DEF Ready
  <2> QED
    BY <1>4, <2>1
<1>11. CASE e.chat = shown /\ e.msg \in Present(hist)
  <2>1. hist.of = shown /\ Ready(hist)
    BY <1>5, <1>11 DEF OwnRows, Own, PageReady
  <2>2. hist'.text[e.msg] = e.text
    BY <1>1, <1>11, HandleEffect
  <2>3. e.text = Part => FullToCome(e.msg)
    BY <1>2 DEF EventOrder, FullToCome, FullSent
  <2>4. Ready(hist)'
    <3>1. ASSUME NEW k \in AskedFor, home[k] = shown
          PROVE  k \in Present(hist') /\ (hist'.text[k] = Full \/ FullToCome(k)')
      <4>1. k \in Msg /\ k \in Present(hist') /\ (hist.text[k] = Full \/ FullToCome(k))
        BY <1>3, <1>5, <2>1, <3>1 DEF Ready
      <4>2. CASE k = e.msg /\ e.text = Full
        BY <2>2, <4>1, <4>2
      <4>3. CASE k = e.msg /\ e.text # Full
        <5>1. e.text = Part
          BY <1>2, <4>3 DEF Event
        <5> QED
          BY <1>7, <2>3, <4>1, <4>3, <5>1
      <4>4. CASE k # e.msg
        BY <1>3, <1>7, <4>1, <4>4
      <4> QED
        BY <4>2, <4>3, <4>4
    <3> QED
      BY <1>4, <1>5, <3>1 DEF Ready
  <2>5. HooksFull'
    <3>1. CASE e.text = Full
      <4>1. PICK c \in Hook : /\ completing' = completing \cup {c}
                              /\ Holds(c.text) = Branch(hist', e.msg)
                              /\ \A k \in Holds(c.text) : c.text[k] = hist'.text[k]
        BY <1>1, <1>11, <3>1, HandleEffect
      <4> DEFINE s == {k \in Msg : k = e.msg \/ hist.text[k] = Full}
      <4>2. \A x \in s : parent[x] \in Present(hist') => parent[x] \in s
        <5>1. ASSUME NEW x \in Msg, parent[x] \in Present(hist) PROVE hist.text[parent[x]] = Full
          <6>1. parent[x] \in Msg /\ parent[x] # Null /\ parent[x] \in AskedFor
            BY <5>1, BoundsAssumption DEF Present, Msg, Null, Known, Knows
          <6>2. home[parent[x]] = shown
            BY <2>1, <5>1 DEF OwnRows, Own
          <6>3. ~FullToCome(parent[x])
            BY <6>1 DEF PageReady, ParentsOver, FullToCome, FullSent
          <6> QED
            BY <2>1, <6>1, <6>2, <6>3 DEF Ready
        <5> QED
          BY <1>3, <5>1 DEF Present
      <4>3. s \in SUBSET Msg /\ e.msg \in s
        BY <1>5
      <4>4. Branch(hist', e.msg) \subseteq s
        <5> HIDE DEF s
        <5> QED
          <6>1. parent' = parent
            BY <1>4
          <6> QED
            BY <4>2, <4>3 DEF Branch
      <4>5. \A k \in s : hist'.text[k] = Full
        BY <1>3, <2>2, <3>1
      <4> QED
        BY <4>1, <4>4, <4>5 DEF PageReady, HooksFull
    <3>2. CASE e.text # Full
      <4>1. completing' = completing
        BY <1>1, <1>11, <3>2, HandleEffect
      <4> QED
        BY <4>1 DEF PageReady, HooksFull
    <3> QED
      BY <3>1, <3>2
  <2> QED
    BY <1>8, <1>9, <1>10, <2>4, <2>5 DEF PageReady
<1>12. CASE ~(e.chat = shown /\ e.msg \in Present(hist))
  <2>1. hist' = hist /\ completing' = completing
    BY <1>1, <1>12, HandleEffect
  <2>2. ASSUME hist.of = shown PROVE Ready(hist)'
    <3>1. Ready(hist)
      BY <2>2 DEF PageReady
    <3>2. \A k \in AskedFor : home[k] = shown => k # e.msg
      BY <1>5, <1>12, <3>1 DEF Ready
    <3> QED
      BY <1>4, <1>5, <1>7, <2>1, <3>1, <3>2 DEF Ready
  <2>3. HooksFull'
    BY <2>1 DEF PageReady, HooksFull
  <2> QED
    BY <1>4, <1>8, <1>9, <1>10, <2>1, <2>2, <2>3 DEF PageReady
<1> QED
  BY <1>11, <1>12

LEMMA StepFine ==
    ASSUME Typed, Known, Wanted, Apart, EventOrder, Fine, Step PROVE Fine'
<1> SUFFICES ASSUME mishap' = {} PROVE PageReady' /\ ServerReady'
  BY DEF Fine
<1>1. mishap = {}
  BY MishapStays
<1>2. PageReady /\ ServerReady /\ OwnRows /\ Here /\ Directed
  BY <1>1 DEF Fine, Apart, Calm
<1>3. CASE \E c \in Chat : Navigate(c)
  BY <1>2, <1>3, NavigateFine
<1>4. CASE \E l \in loads : LoadStep(l)
  BY <1>2, <1>4, LoadFine
<1>5. CASE \E i \in DOMAIN saves : SaveArrives(i)
  BY <1>2, <1>5, SaveArrivesFine
<1>6. CASE \E r \in replies : SaveReturns(r)
  BY <1>2, <1>6, SaveReturnsFine
<1>7. CASE Rate \/ \E h \in held : SaveCopy(h)
  BY <1>2, <1>7, RateFine
<1>8. CASE \E m \in Msg : Send(m)
  BY <1>2, <1>8, SendFine
<1>9. CASE \E m \in Msg : Post(m) \/ Begin(m) \/ Stream(m) \/ Keep(m) \/ Tell(m)
  BY <1>2, <1>9, TaskFine
<1>10. CASE Handle
  BY <1>2, <1>10, HandleFine
<1>11. CASE \E c \in completing : Completed(c)
  BY <1>2, <1>11, CompletedFine
<1>12. CASE (\E m \in Msg : Begins(m)) \/ \E h \in held : TagsRead(h) \/ TagsCome(h) \/ Resume(h)
  <2>1. UNCHANGED <<hist, saves, Elsewhere>>
    BY <1>12, BeginsEffect, TagsEffect, ResumeEffect
  <2> QED
    BY <1>2, <2>1 DEF PageReady, Ready, AskedFor, FullToCome, FullSent, HooksFull, ParentsOver,
                      ServerReady, StoredReady, SavesReady, RepliesReady, Elsewhere
<1> QED
  BY <1>3, <1>4, <1>5, <1>6, <1>7, <1>8, <1>9, <1>10, <1>11, <1>12 DEF Step, LoadStep, Begins

LEMMA FineAlways == Spec => []Fine
<1>1. Init => Fine
  <2> SUFFICES ASSUME Init PROVE PageReady /\ ServerReady
    BY DEF Fine
  <2>1. DOMAIN <<>> = {} /\ AskedFor = {}
    BY EmptySeq DEF Init, AskedFor
  <2>2. PageReady
    BY <2>1 DEF Init, PageReady, Ready, HooksFull, ParentsOver
  <2>3. ServerReady
    BY <2>1 DEF Init, ServerReady, StoredReady, SavesReady, RepliesReady
  <2> QED
    BY <2>2, <2>3
<1>2. Fine /\ UNCHANGED vars => Fine'
  BY DEF Fine, PageReady, Ready, AskedFor, FullToCome, FullSent, HooksFull, ParentsOver,
         ServerReady, StoredReady, SavesReady, RepliesReady, vars, page, asked
<1>3. Core /\ StayCore /\ Fine /\ [Next]_vars => Fine'
  BY <1>2, StepFine DEF Core, StayCore, Next
<1> QED
  BY <1>1, <1>3, CoreAlways, StayCoreAlways, PTL DEF Spec

\* Unless a mishap happened, every answer is stored whole in its chat when all is quiet,
\* and the page shows what is stored (AnswersReady).
THEOREM AnswersReadyAlways == Spec => []AnswersReady
<1>1. Core /\ Fine => AnswersReady
  <2> SUFFICES ASSUME Core, Fine, Quiet, mishap = {}
               PROVE  /\ \A m \in Msg : task[m] = "over" => stored[home[m]].text[m] = Full
                      /\ hist.text = stored[shown].text
    BY DEF AnswersReady
  <2>1. PageReady /\ StoredReady /\ OwnRows /\ Here
    BY DEF Core, Apart, Calm, Fine, ServerReady
  <2>2. hist.of = shown /\ Ready(hist) /\ shown \in Chat /\ stored[shown].of = shown
    BY <2>1 DEF Quiet, Here, PageReady, Core, Typed, OwnRows
  <2>3. \A m \in Msg : ~FullToCome(m)
    <3>1. DOMAIN <<>> = {}
      BY EmptySeq
    <3> QED
      BY <3>1 DEF Quiet, FullToCome, FullSent
  <2>4. ASSUME NEW m \in Msg PROVE hist.text[m] = stored[shown].text[m]
    <3>1. CASE m \in AskedFor /\ home[m] = shown
      BY <2>1, <2>2, <2>3, <2>4, <3>1 DEF Ready, StoredReady, Quiet, AskedFor
    <3>2. CASE m \notin AskedFor
      BY <2>2, <2>4, <3>2 DEF Core, Known, Knows, Present
    <3>3. CASE home[m] # shown
      BY <2>1, <2>2, <2>4, <3>3 DEF OwnRows, Own, Present
    <3> QED
      BY <3>1, <3>2, <3>3
  <2>5. hist.text \in [Msg -> Text] /\ stored[shown].text \in [Msg -> Text]
    BY <2>2 DEF Core, Typed, Row
  <2> QED
    BY <2>1, <2>4, <2>5 DEF StoredReady
<1> QED
  BY <1>1, CoreAlways, FineAlways, PTL

================================================================================
