----------------------------- MODULE Page_proofs ------------------------------
(***************************************************************************)
(* Proofs about two parts of the page.                                     *)
(*                                                                         *)
(* FolderTree, for any folders, chats, names and pages: what the handlers  *)
(* keep whatever the pages ask for (names, nothing below what is not       *)
(* there, chats in folders that are there), and what needs that the user   *)
(* acts on what is up to date (no cycles).                                 *)
(*                                                                         *)
(* CallAudio, for any answers, parts and interruptions: an answer is       *)
(* spoken once and in order, and never into an open microphone.            *)
(***************************************************************************)
EXTENDS FolderTree, CallAudio, FiniteSetTheorems, SequenceTheorems, TLAPS

--------------------------------------------------------------------------------
(* Sequences of lists on their way *)

LEMMA AppendElements ==
    ASSUME NEW S, NEW s \in Seq(S), NEW e \in S
    PROVE  /\ Append(s, e) \in Seq(S) /\ Append(s, e) # <<>>
           /\ Len(s) \in Nat /\ Len(Append(s, e)) = Len(s) + 1
           /\ DOMAIN s = 1 .. Len(s) /\ DOMAIN Append(s, e) = 1 .. Len(s) + 1
           /\ \A i \in 1 .. Len(s) : Append(s, e)[i] = s[i]
           /\ Append(s, e)[Len(s) + 1] = e
<1>1. /\ Append(s, e) \in Seq(S) /\ Len(Append(s, e)) = Len(s) + 1
      /\ \A i \in 1 .. Len(s) : Append(s, e)[i] = s[i]
      /\ Append(s, e)[Len(s) + 1] = e
  BY AppendProperties
<1>2. DOMAIN s = 1 .. Len(s) /\ DOMAIN Append(s, e) = 1 .. Len(s) + 1 /\ Len(s) \in Nat
  BY <1>1, LenProperties
<1> QED
  BY <1>1, <1>2, EmptySeq

LEMMA RemoveAtElements ==
    ASSUME NEW S, NEW s \in Seq(S), NEW k \in DOMAIN s
    PROVE  /\ RemoveAt(s, k) \in Seq(S) /\ Len(s) \in Nat \ {0}
           /\ Len(RemoveAt(s, k)) = Len(s) - 1
           /\ DOMAIN s = 1 .. Len(s) /\ DOMAIN RemoveAt(s, k) = 1 .. Len(s) - 1
           /\ \A i \in 1 .. Len(s) - 1 : RemoveAt(s, k)[i] = IF i < k THEN s[i] ELSE s[i + 1]
<1>0. DOMAIN s = 1 .. Len(s) /\ Len(s) \in Nat /\ k \in 1 .. Len(s)
      /\ \A i \in 1 .. Len(s) : s[i] \in S
  BY LenProperties
<1> DEFINE a == SubSeq(s, 1, k - 1)
           b == SubSeq(s, k + 1, Len(s))
           r == RemoveAt(s, k)
<1>1. a \in Seq(S) /\ Len(a) = k - 1 /\ \A i \in 1 .. k - 1 : a[i] = s[i]
  BY <1>0, SubSeqProperties
<1>2. /\ b \in Seq(S) /\ Len(b) = Len(s) - k
      /\ \A i \in 1 .. Len(s) - k : b[i] = s[k + i]
  <2>1. k + 1 \in Int /\ Len(s) \in Int /\ Len(s) - (k + 1) + 1 = Len(s) - k
    BY <1>0
  <2>2. \A i \in k + 1 .. Len(s) : s[i] \in S
    BY <1>0
  <2>3. /\ b \in Seq(S) /\ Len(b) = IF k + 1 <= Len(s) THEN Len(s) - (k + 1) + 1 ELSE 0
        /\ \A i \in 1 .. Len(s) - (k + 1) + 1 : b[i] = s[(k + 1) + i - 1]
    BY <2>1, <2>2, SubSeqProperties
  <2>4. ASSUME NEW i \in 1 .. Len(s) - k PROVE b[i] = s[k + i]
    <3>1. b[i] = s[(k + 1) + i - 1]
      BY <2>1, <2>3
    <3>2. (k + 1) + i - 1 = k + i
      BY <1>0
    <3> QED
      BY <3>1, <3>2
  <2>5. Len(b) = Len(s) - k
    <3>1. CASE k = Len(s)
      <4>1. ~(k + 1 <= Len(s)) /\ Len(s) - k = 0
        BY <1>0, <3>1
      <4> QED
        BY <2>3, <4>1
    <3>2. CASE k < Len(s)
      <4>1. k + 1 <= Len(s) /\ Len(s) - (k + 1) + 1 = Len(s) - k
        BY <1>0, <3>2
      <4> QED
        BY <2>3, <4>1
    <3>3. k \in Int /\ Len(s) \in Int /\ k <= Len(s)
      BY <1>0
    <3> QED
      BY <3>1, <3>2, <3>3
  <2> QED
    BY <2>3, <2>4, <2>5
<1>3. r = a \o b
  BY DEF RemoveAt
<1> HIDE DEF a, b, r
<1>4. /\ r \in Seq(S) /\ Len(r) = Len(a) + Len(b)
      /\ \A i \in 1 .. Len(a) + Len(b) : r[i] = IF i <= Len(a) THEN a[i] ELSE b[i - Len(a)]
  BY <1>1, <1>2, <1>3, ConcatProperties
<1>5. Len(a) + Len(b) = Len(s) - 1
  BY <1>0, <1>1, <1>2
<1>6. ASSUME NEW i \in 1 .. Len(s) - 1 PROVE r[i] = IF i < k THEN s[i] ELSE s[i + 1]
  <2>1. CASE i < k
    <3>1. i \in 1 .. k - 1 /\ i \in 1 .. Len(a) + Len(b) /\ i <= Len(a)
      BY <1>0, <1>1, <1>5, <2>1
    <3> QED
      BY <1>1, <1>4, <2>1, <3>1
  <2>2. CASE i >= k
    <3>1. i - (k - 1) \in 1 .. Len(s) - k /\ i \in 1 .. Len(a) + Len(b) /\ ~(i <= Len(a))
      BY <1>0, <1>1, <1>2, <1>5, <2>2
    <3>2. r[i] = b[i - (k - 1)] /\ b[i - (k - 1)] = s[k + (i - (k - 1))]
      BY <1>1, <1>2, <1>4, <3>1
    <3>3. k + (i - (k - 1)) = i + 1
      BY <1>0
    <3> QED
      BY <1>0, <2>2, <3>2, <3>3
  <2> QED
    BY <1>0, <2>1, <2>2
<1>7. DOMAIN r = 1 .. Len(s) - 1
  BY <1>4, <1>5, LenProperties
<1>8. Len(s) # 0
  BY <1>0
<1> QED
  BY <1>0, <1>4, <1>5, <1>6, <1>7, <1>8 DEF r

--------------------------------------------------------------------------------
(* Type correctness *)

\* The fields of a call of each kind.
LEMMA CallFields ==
    ASSUME NEW r \in Call
    PROVE  /\ r.page \in Page
           /\ r.op = "move" => r.folder \in Folder /\ r.to \in Place
           /\ r.op \in {"create", "insert"} => r.name \in Name
           /\ r.op \in {"rename", "renamed", "refused"} =>
                 r.folder \in Folder /\ r.name \in Name /\ r.was \in Name
           /\ r.op \in {"delete", "select", "selected"} => r.folder \in Folder
           /\ r.op = "newChat" => r.to \in Place
           /\ r.op = "moveChat" => r.chat \in Chat /\ r.to \in Place
BY DEF Call

\* A call that goes on under another name is a call.
LEMMA CallGoesOn ==
    ASSUME NEW r \in Call
    PROVE  /\ r.op = "create" => [op |-> "insert", page |-> r.page, name |-> r.name] \in Call
           /\ r.op = "rename" => Answer(r, "renamed") \in Call /\ Answer(r, "refused") \in Call
           /\ r.op = "select" => [op |-> "selected", page |-> r.page, folder |-> r.folder] \in Call
           /\ [op |-> "deleted", page |-> r.page] \in Call
           /\ [op |-> "chatMade", page |-> r.page] \in Call
BY CallFields DEF Call, Answer

\* Calls that pages make.
LEMMA NewCalls ==
    ASSUME NEW p \in Page, NEW f \in Folder, NEW g \in Place, NEW n \in Name, NEW m \in Name,
           NEW c \in Chat
    PROVE  /\ [op |-> "move", page |-> p, folder |-> f, to |-> g] \in Call
           /\ [op |-> "create", page |-> p, name |-> n] \in Call
           /\ [op |-> "rename", page |-> p, folder |-> f, name |-> n, was |-> m] \in Call
           /\ [op |-> "delete", page |-> p, folder |-> f] \in Call
           /\ [op |-> "select", page |-> p, folder |-> f] \in Call
           /\ [op |-> "newChat", page |-> p, to |-> g] \in Call
           /\ [op |-> "moveChat", page |-> p, chat |-> c, to |-> g] \in Call
BY DEF Call

\* What is there is a row with a place and a name.
LEMMA RowFields ==
    ASSUME NEW t \in [Folder -> Row], NEW f \in Folder
    PROVE  /\ f \in There(t) <=> t[f] \in [parent : Place, name : Name]
           /\ f \in There(t) <=> t[f].parent \in Place
           /\ f \in There(t) => t[f].name \in Name
           /\ f \notin There(t) => t[f] \in {NoRow(Unmade), NoRow(Deleted)}
<1>1. Unmade \notin Place /\ Deleted \notin Place
  BY ConstantsAssumption DEF Place
<1> QED
  BY <1>1 DEF Row, There, NoRow

\* Rows that change stay rows.
LEMMA RowChange ==
    ASSUME NEW t \in [Folder -> Row], NEW f \in There(t), NEW p \in Place, NEW n \in Name
    PROVE  /\ WithParent(t, f, p) \in [Folder -> Row]
           /\ WithName(t, f, n) \in [Folder -> Row]
<1>1. f \in Folder
  BY DEF There
<1>2. t[f].parent \in Place /\ t[f].name \in Name
  BY <1>1, RowFields
<1>3. /\ [parent |-> p, name |-> t[f].name] \in Row
      /\ [parent |-> t[f].parent, name |-> n] \in Row
  BY <1>2 DEF Row
<1> QED
  BY <1>1, <1>3 DEF WithParent, WithName

LEMMA UpsetType ==
    ASSUME upset \subseteq Upsets, NEW what \in SUBSET Upsets, Upset(what)
    PROVE  upset' \subseteq Upsets
BY DEF Upset

LEMMA BelowThere ==
    ASSUME NEW t, NEW p
    PROVE  Below(t, p) \subseteq There(t) /\ There(t) \subseteq Folder
BY DEF Below, There

\* What the user does.
LEMMA UserType == ASSUME TypeOK, UserActs PROVE TypeOK'
<1> USE DEF TypeOK
<1>1. PICK p \in Page :
        \/ DropFolder(p) \/ DropFolderAtTop(p)
        \/ CreateFolder(p) \/ RenameFolder(p) \/ DeleteFolder(p)
        \/ SelectFolder(p) \/ NewChat(p)
        \/ DropChat(p) \/ DropChatAtTop(p) \/ RestoreChat(p)
  BY DEF UserActs
<1>2. Visible(shown[p]) \subseteq Folder /\ \A f \in Visible(shown[p]) : f \in There(shown[p])
  BY BelowThere DEF Visible
<1>3. \A what : Acts(p, what) /\ what \subseteq Upsets => upset' \subseteq Upsets /\ acts' \in Nat
  BY DEF Acts, Upset, If, Upsets
<1>4. ASSUME NEW call \in Call, NEW what \in SUBSET Upsets, Asks(p, call, what),
             shown' \in [Page -> [Folder -> Row]]
      PROVE  TypeOK'
  BY <1>3, <1>4 DEF Asks, server
<1>5. CASE DropFolder(p)
  <2>1. PICK f, g \in Visible(shown[p]) :
          /\ Asks(p, [op |-> "move", page |-> p, folder |-> f, to |-> g],
                  If(g \in Below(shown[p], f) \ Children(shown[p], f), "ontoGrandchild"))
          /\ UNCHANGED shown
    BY <1>5 DEF DropFolder
  <2>2. [op |-> "move", page |-> p, folder |-> f, to |-> g] \in Call
    BY <1>2 DEF Call, Place
  <2>3. If(g \in Below(shown[p], f) \ Children(shown[p], f), "ontoGrandchild") \in SUBSET Upsets
    BY DEF If, Upsets
  <2> QED
    BY <1>4, <2>1, <2>2, <2>3
<1>6. CASE DropFolderAtTop(p)
  <2>1. PICK f \in Visible(shown[p]) :
          Asks(p, [op |-> "move", page |-> p, folder |-> f, to |-> Root], {}) /\ UNCHANGED shown
    BY <1>6 DEF DropFolderAtTop
  <2>2. [op |-> "move", page |-> p, folder |-> f, to |-> Root] \in Call
    BY <1>2 DEF Call, Place
  <2> QED
    BY <1>4, <2>1, <2>2
<1>7. CASE CreateFolder(p)
  <2>1. PICK n \in Name : Asks(p, [op |-> "create", page |-> p, name |-> n], {}) /\ UNCHANGED shown
    BY <1>7 DEF CreateFolder
  <2>2. [op |-> "create", page |-> p, name |-> n] \in Call
    BY DEF Call
  <2> QED
    BY <1>4, <2>1, <2>2
<1>8. CASE RenameFolder(p)
  <2>1. PICK f \in Visible(shown[p]), n \in Name :
          /\ Asks(p, [op |-> "rename", page |-> p, folder |-> f, name |-> n,
                      was |-> shown[p][f].name], {})
          /\ shown' = [shown EXCEPT ![p] = WithName(shown[p], f, n)]
    BY <1>8 DEF RenameFolder
  <2>2. shown[p][f].name \in Name
    BY <1>2, RowFields
  <2>3. [op |-> "rename", page |-> p, folder |-> f, name |-> n, was |-> shown[p][f].name] \in Call
    BY <1>2, <2>2 DEF Call
  <2>4. WithName(shown[p], f, n) \in [Folder -> Row]
    BY <1>2, RowChange
  <2> QED
    BY <1>4, <2>1, <2>3, <2>4
<1>9. CASE DeleteFolder(p)
  <2>1. PICK f \in Visible(shown[p]) :
          Asks(p, [op |-> "delete", page |-> p, folder |-> f], {}) /\ UNCHANGED shown
    BY <1>9 DEF DeleteFolder
  <2>2. [op |-> "delete", page |-> p, folder |-> f] \in Call
    BY <1>2 DEF Call
  <2> QED
    BY <1>4, <2>1, <2>2
<1>10. CASE SelectFolder(p)
  <2>1. PICK f \in Visible(shown[p]) :
          Asks(p, [op |-> "select", page |-> p, folder |-> f], {}) /\ UNCHANGED shown
    BY <1>10 DEF SelectFolder
  <2>2. [op |-> "select", page |-> p, folder |-> f] \in Call
    BY <1>2 DEF Call
  <2> QED
    BY <1>4, <2>1, <2>2
<1>11. CASE NewChat(p)
  <2>1. [op |-> "newChat", page |-> p, to |-> selected[p]] \in Call
    BY DEF Call
  <2> QED
    BY <1>4, <1>11, <2>1 DEF NewChat
<1>12. CASE DropChat(p)
  <2>1. PICK c \in Chat, g \in Visible(shown[p]), d \in Chat :
          /\ Acts(p, {})
          /\ chats' = [chats EXCEPT ![d] = Root] \/ UNCHANGED chats
          /\ calls' = calls \cup {[op |-> "moveChat", page |-> p, chat |-> d, to |-> g]}
          /\ UNCHANGED <<rows, shown, selected, reloads, lists, last>>
    BY <1>12 DEF DropChat
  <2>2. [op |-> "moveChat", page |-> p, chat |-> d, to |-> g] \in Call
    BY <1>2 DEF Call, Place
  <2>3. Root \in Place
    BY DEF Place
  <2> QED
    BY <1>3, <2>1, <2>2, <2>3
<1>13. CASE DropChatAtTop(p)
  <2>1. PICK c \in Chat :
          Asks(p, [op |-> "moveChat", page |-> p, chat |-> c, to |-> Root], {}) /\ UNCHANGED shown
    BY <1>13 DEF DropChatAtTop
  <2>2. [op |-> "moveChat", page |-> p, chat |-> c, to |-> Root] \in Call
    BY DEF Call, Place
  <2> QED
    BY <1>4, <2>1, <2>2
<1>14. CASE RestoreChat(p)
  <2>1. Root \in Place
    BY DEF Place
  <2> QED
    BY <1>3, <1>14, <2>1 DEF RestoreChat
<1> QED
  BY <1>1, <1>5, <1>6, <1>7, <1>8, <1>9, <1>10, <1>11, <1>12, <1>13, <1>14

\* What a handler adds to the upsets is the name of one.
LEMMA HandlerUpsets ==
    /\ \A b \in BOOLEAN : /\ If(b, "intoDeleted") \in SUBSET Upsets
                          /\ If(b, "checkedEarly") \in SUBSET Upsets
                          /\ If(b, "queryFailed") \in SUBSET Upsets
                          /\ If(b, "overtaken") \in SUBSET Upsets
                          /\ If(b, "restored") \in SUBSET Upsets
    /\ {"answerLost"} \in SUBSET Upsets /\ {"deleteFailed"} \in SUBSET Upsets
    /\ {"listFailed"} \in SUBSET Upsets /\ {"nullAnswer"} \in SUBSET Upsets
BY DEF If, Upsets

\* Without a success the page asks for at most one more list.
LEMMA ReloadsType == ASSUME TypeOK, NEW r \in calls PROVE Reloads(r) \in [Page -> Nat]
<1>1. r.page \in Page
  BY CallFields DEF TypeOK
<1> QED
  BY <1>1 DEF TypeOK, Reloads

\* The end of a handler keeps the types, if what it does to the tables does.
LEMMA MadeType ==
    ASSUME TypeOK, NEW r \in calls, NEW what \in SUBSET Upsets,
           rows' \in [Folder -> Row], chats' \in [Chat -> Place \cup {Unmade, Deleted}],
           \/ Made(r, what)
           \/ \E reply \in Call : MadeAndAnswered(r, reply, what)
    PROVE  TypeOK'
<1> USE DEF TypeOK
<1>1. r.page \in Page
  BY CallFields
<1>2. {"answerLost"} \in SUBSET Upsets
  BY HandlerUpsets
<1>3. upset' \subseteq Upsets
  BY <1>2 DEF Made, MadeAndAnswered, Upset
<1>4. CASE Made(r, what)
  <2>1. reloads' \in [Page -> Nat] /\ last' \in Page
    BY <1>1, <1>4, ReloadsType DEF Made
  <2> QED
    BY <1>3, <1>4, <2>1 DEF Made
<1>5. ASSUME NEW reply \in Call, MadeAndAnswered(r, reply, what) PROVE TypeOK'
  BY <1>1, <1>3, <1>5 DEF MadeAndAnswered
<1> QED
  BY <1>4, <1>5

LEMMA RefuseType == ASSUME TypeOK, NEW r \in calls, Refuse(r) PROVE TypeOK'
BY ReloadsType DEF TypeOK, Refuse, server

\* What a deletion leaves.
LEMMA RemoveType ==
    ASSUME TypeOK, NEW fs, NEW es
    PROVE  Removed(fs) \in [Folder -> Row] /\ RemoveChats(es) \in [Chat -> Place \cup {Unmade, Deleted}]
BY DEF TypeOK, Removed, RemoveChats, Row

LEMMA RaisedType ==
    ASSUME TypeOK, NEW fs \in SUBSET There(rows) PROVE Raised(fs) \in [Folder -> Row]
<1>1. ASSUME NEW f \in There(rows) PROVE [parent |-> Root, name |-> rows[f].name] \in Row
  <2>1. f \in Folder /\ Root \in Place
    BY DEF There, Place
  <2>2. rows[f].name \in Name
    BY <2>1, RowFields DEF TypeOK
  <2> QED
    BY <2>1, <2>2 DEF Row
<1> QED
  BY <1>1 DEF TypeOK, Raised

\* What a handler of a list does with the folders that it moves to the top.
Lists(p, fs) ==
    /\ rows' = Raised(fs)
    /\ \/ Orphans \subseteq fs /\ Sends(p, Raised(fs)) /\ Upset(If(~(fs \subseteq Orphans), "queryFailed"))
       \/ /\ Sends(p, [f \in Folder |-> NoRow(Unmade)]) \/ UNCHANGED lists
          /\ Upset(If(~(fs \subseteq Orphans), "queryFailed") \cup {"listFailed"})

LEMMA ListingSteps ==
    ASSUME NEW p, GetFolders(p)
    PROVE  \E fs \in SUBSET There(rows) : Lists(p, fs)
<1>1. PICK fs \in SUBSET {f \in There(rows) : rows[f].parent # Root} : Lists(p, fs)
  BY DEF GetFolders, Lists
<1> QED
  BY <1>1

\* What the handlers do.
LEMMA ServerType == ASSUME TypeOK, ServerActs PROVE TypeOK'
<1> USE DEF TypeOK
<1>0. There(rows) \subseteq Folder
  BY DEF There
<1>1. ASSUME NEW r \in calls, UpdateParent(r) PROVE TypeOK'
  <2>1. CASE Refuse(r)
    BY <2>1, RefuseType
  <2>2. CASE ~Refuse(r)
    <3> DEFINE what == If(Missing(r.to), "intoDeleted")
                       \cup If(Taken(rows, r.to, rows[r.folder].name), "queryFailed")
    <3>1. /\ r.folder \in There(rows) /\ rows' = WithParent(rows, r.folder, r.to)
          /\ UNCHANGED chats /\ Made(r, what)
      BY <1>1, <2>2 DEF UpdateParent
    <3>2. r.to \in Place
      BY <1>1, CallFields DEF UpdateParent
    <3>3. Name # {}
      BY <1>0, <3>1, RowFields
    <3>4. rows' \in [Folder -> Row]
      BY <3>1, <3>2, <3>3, RowChange
    <3>5. what \in SUBSET Upsets
      BY HandlerUpsets DEF Missing, Taken
    <3> HIDE DEF what
    <3> QED
      BY <3>1, <3>4, <3>5, MadeType
  <2> QED
    BY <2>1, <2>2
<1>2. ASSUME NEW r \in calls, CheckName(r) PROVE TypeOK'
  <2>1. CASE Refuse(r)
    BY <2>1, RefuseType
  <2>2. CASE ~Refuse(r)
    <3>1. [op |-> "insert", page |-> r.page, name |-> r.name] \in Call
      BY <1>2, CallGoesOn DEF CheckName
    <3>2. upset' \subseteq Upsets
      BY <1>2, <2>2, HandlerUpsets DEF CheckName, Upset, Taken
    <3> QED
      BY <1>2, <2>2, <3>1, <3>2 DEF CheckName, server
  <2> QED
    BY <2>1, <2>2
<1>3. ASSUME NEW r \in calls, InsertFolder(r) PROVE TypeOK'
  <2>1. r.name \in Name /\ Root \in Place
    BY <1>3, CallFields DEF InsertFolder, Place
  <2>2. [parent |-> Root, name |-> r.name] \in Row
    BY <2>1 DEF Row
  <2>3. If(Taken(rows, Root, r.name), "checkedEarly") \in SUBSET Upsets
    BY HandlerUpsets DEF Taken
  <2>4. CASE /\ UNCHANGED chats /\ Made(r, If(Taken(rows, Root, r.name), "checkedEarly"))
             /\ \E f \in Folder : rows' = [rows EXCEPT ![f] = [parent |-> Root, name |-> r.name]]
    <3>1. rows' \in [Folder -> Row]
      BY <2>2, <2>4
    <3> QED
      BY <2>3, <2>4, <3>1, MadeType
  <2> QED
    BY <1>3, <2>4, RefuseType DEF InsertFolder
<1>4. ASSUME NEW r \in calls, UpdateName(r) PROVE TypeOK'
  <2>1. Answer(r, "refused") \in Call /\ Answer(r, "renamed") \in Call
    BY <1>4, CallGoesOn DEF UpdateName
  <2>2. calls' \subseteq Call /\ UNCHANGED <<chats, shown, selected, reloads, lists, acts>>
    BY <1>4, <2>1 DEF UpdateName, server
  <2>3. r.name \in Name /\ r.page \in Page /\ Root \in Place
    BY <1>4, CallFields DEF UpdateName, Place
  <2>4. last' \in Page
    BY <1>4, <2>3 DEF UpdateName
  <2>5. rows' \in [Folder -> Row]
    <3>1. rows' = rows \/ (r.folder \in There(rows) /\ rows' = WithName(rows, r.folder, r.name))
      BY <1>4 DEF UpdateName, server
    <3> QED
      BY <2>3, <3>1, RowChange
  <2>6. upset' \subseteq Upsets
    <3> DEFINE taken == \E g \in Children(rows, rows[r.folder].parent) \ {r.folder} :
                           rows[g].name = r.name
    <3>1. \E what \in {{}, If(taken, "queryFailed"), If(taken, "queryFailed") \cup {"answerLost"},
                       {"nullAnswer"}} : upset' = upset \cup what
      BY <1>4 DEF UpdateName, Upset
    <3>2. taken \in BOOLEAN
      OBVIOUS
    <3> HIDE DEF taken
    <3> QED
      BY <3>1, <3>2, HandlerUpsets
  <2> QED
    BY <2>2, <2>4, <2>5, <2>6
<1>5. ASSUME NEW r \in calls, DeleteRows(r) PROVE TypeOK'
  <2>1. ASSUME NEW fs, NEW es, NEW what \in SUBSET Upsets, Deletes(r, fs, es, what) PROVE TypeOK'
    <3>1. [op |-> "deleted", page |-> r.page] \in Call
      BY CallGoesOn
    <3>2. rows' \in [Folder -> Row] /\ chats' \in [Chat -> Place \cup {Unmade, Deleted}]
      BY <2>1, RemoveType DEF Deletes
    <3> QED
      BY <2>1, <3>1, <3>2, MadeType DEF Deletes
  <2>2. \/ Refuse(r)
        \/ \E fs, es : \E what \in {{}, {"deleteFailed"}} : Deletes(r, fs, es, what)
    BY <1>5, Zenon DEF DeleteRows, If
  <2>3. {} \in SUBSET Upsets /\ {"deleteFailed"} \in SUBSET Upsets
    BY HandlerUpsets
  <2> QED
    BY <2>1, <2>2, <2>3, RefuseType
<1>6. ASSUME NEW r \in calls, ReadFolder(r) PROVE TypeOK'
  <2>1. [op |-> "selected", page |-> r.page, folder |-> r.folder] \in Call
    BY <1>6, CallGoesOn DEF ReadFolder
  <2> QED
    BY <1>6, <2>1, RefuseType DEF ReadFolder, server
<1>7. ASSUME NEW r \in calls, UpdateChatFolder(r) PROVE TypeOK'
  <2>1. r.chat \in Chat /\ r.to \in Place
    BY <1>7, CallFields DEF UpdateChatFolder
  <2>2. If(Missing(r.to), "intoDeleted") \in SUBSET Upsets
    BY HandlerUpsets DEF Missing
  <2> QED
    BY <1>7, <2>1, <2>2, RefuseType, MadeType DEF UpdateChatFolder
<1>8. ASSUME NEW r \in calls, InsertChat(r) PROVE TypeOK'
  <2>1. r.to \in Place /\ [op |-> "chatMade", page |-> r.page] \in Call
    BY <1>8, CallFields, CallGoesOn DEF InsertChat
  <2>2. If(Missing(r.to), "intoDeleted") \in SUBSET Upsets
    BY HandlerUpsets DEF Missing
  <2> QED
    BY <1>8, <2>1, <2>2, RefuseType, MadeType DEF InsertChat
<1>9. ASSUME NEW p \in Page, GetFolders(p) PROVE TypeOK'
  <2>0. PICK fs \in SUBSET There(rows) : Lists(p, fs)
    BY <1>9, ListingSteps
  <2>1. Raised(fs) \in [Folder -> Row] /\ [f \in Folder |-> NoRow(Unmade)] \in [Folder -> Row]
    BY RaisedType DEF Row
  <2>2. ASSUME NEW t \in [Folder -> Row], Sends(p, t) PROVE lists' \in Sent
    <3>1. Append(lists[p], t) \in Seq([Folder -> Row])
      BY AppendElements DEF Sent
    <3> QED
      BY <2>2, <3>1 DEF Sends, Sent
  <2>3. reloads' \in [Page -> Nat]
    BY <1>9 DEF GetFolders
  <2>4. upset' \subseteq Upsets
    <3>1. \E b \in BOOLEAN : \E what \in {If(b, "queryFailed"), If(b, "queryFailed") \cup {"listFailed"}} :
             upset' = upset \cup what
      BY <2>0 DEF Lists, Upset
    <3> QED
      BY <3>1, HandlerUpsets
  <2>5. lists' \in Sent
    BY <2>0, <2>1, <2>2 DEF Lists
  <2> QED
    BY <1>9, <2>0, <2>1, <2>3, <2>4, <2>5 DEF GetFolders, Lists
<1> QED
  BY <1>1, <1>2, <1>3, <1>4, <1>5, <1>6, <1>7, <1>8, <1>9 DEF ServerActs

\* What a page does with answers.
LEMMA PageType == ASSUME TypeOK, PageGoesOn PROVE TypeOK'
<1> USE DEF TypeOK
<1>1. ASSUME NEW p \in Page, NEW i \in DOMAIN lists[p], ShowFolders(p, i) PROVE TypeOK'
  <2>1. RemoveAt(lists[p], i) \in Seq([Folder -> Row]) /\ lists[p][i] \in [Folder -> Row]
    <3>1. lists[p] \in Seq([Folder -> Row])
      BY DEF Sent
    <3> QED
      BY <3>1, RemoveAtElements, ElementOfSeq
  <2>2. lists' \in Sent /\ shown' \in [Page -> [Folder -> Row]]
    BY <1>1, <2>1 DEF ShowFolders, Sent
  <2>3. upset' \subseteq Upsets
    BY <1>1, HandlerUpsets DEF ShowFolders, Upset
  <2> QED
    BY <1>1, <2>2, <2>3 DEF ShowFolders, server
<1>2. ASSUME NEW r \in calls, NEW n \in Name, r.page \in Page, r.folder \in There(shown[r.page])
      PROVE  [shown EXCEPT ![r.page] = WithName(shown[r.page], r.folder, n)]
                 \in [Page -> [Folder -> Row]]
  BY <1>2, RowChange DEF Place
<1>3. ASSUME NEW r \in calls, Renamed(r) PROVE TypeOK'
  <2>1. r.page \in Page /\ r.name \in Name
    BY <1>3, CallFields DEF Renamed
  <2>2. shown' \in [Page -> [Folder -> Row]] /\ reloads' \in [Page -> Nat]
    <3>1. CASE r.folder \in There(shown[r.page])
      BY <1>2, <1>3, <2>1, <3>1 DEF Renamed
    <3>2. CASE r.folder \notin There(shown[r.page])
      BY <1>3, <3>2 DEF Renamed
    <3> QED
      BY <3>1, <3>2
  <2> QED
    BY <1>3, <2>2 DEF Renamed, server
<1>4. ASSUME NEW r \in calls, NotRenamed(r) PROVE TypeOK'
  <2>1. r.page \in Page /\ r.was \in Name
    BY <1>4, CallFields DEF NotRenamed
  <2>2. shown' \in [Page -> [Folder -> Row]]
    <3>1. CASE r.folder \in There(shown[r.page])
      BY <1>2, <1>4, <2>1, <3>1 DEF NotRenamed
    <3>2. CASE r.folder \notin There(shown[r.page])
      BY <1>4, <3>2 DEF NotRenamed
    <3> QED
      BY <3>1, <3>2
  <2> QED
    BY <1>4, <2>2, HandlerUpsets DEF NotRenamed, server, Upset
<1>5. ASSUME NEW r \in calls, FolderDeleted(r) \/ FolderSelected(r) \/ ChatMade(r) PROVE TypeOK'
  <2>1. r.page \in Page /\ (r.op = "selected" => r.folder \in Place) /\ Root \in Place
    BY CallFields DEF Place
  <2> QED
    <3>1. CASE FolderDeleted(r)
      BY <2>1, <3>1 DEF FolderDeleted, server
    <3>2. CASE FolderSelected(r)
      BY <2>1, <3>2 DEF FolderSelected, server
    <3>3. CASE ChatMade(r)
      BY <2>1, <3>3 DEF ChatMade, server
    <3> QED
      BY <1>5, <3>1, <3>2, <3>3
<1> QED
  BY <1>1, <1>3, <1>4, <1>5 DEF PageGoesOn

LEMMA TypeInit == Init => TypeOK
<1>1. \A S : <<>> \in Seq(S)
  BY EmptySeq
<1>2. Init => lists \in Sent
  BY <1>1 DEF Init, Sent
<1> QED
  BY <1>2 DEF Init, TypeOK, Place, There

\* Rows, pages, calls and lists keep their types.
THEOREM TypeCorrect == Spec => []TypeOK
<1>1. TypeOK /\ [Next]_vars => TypeOK'
  <2> SUFFICES ASSUME TypeOK, [Next]_vars PROVE TypeOK'
    OBVIOUS
  <2>1. CASE UNCHANGED vars
    BY <2>1 DEF TypeOK, vars
  <2> QED
    BY <2>1, UserType, ServerType, PageType DEF Next
<1> QED
  BY <1>1, TypeInit, PTL DEF Spec

--------------------------------------------------------------------------------
(* What the tables keep whatever the pages ask for *)

\* Everything is at the top or below something that is there.
Rooted(t) == \A f \in There(t) : t[f].parent \in There(t) \cup {Root}

Distinct(t) ==
    \A f, g \in There(t) : f # g /\ t[f].parent = t[g].parent => t[f].name # t[g].name

ChatsThere(t) == \A c \in Chat : chats[c] \in Folder => chats[c] \in There(t)

TableInv ==
    /\ "intoDeleted" \notin upset => Rooted(rows)
    /\ Without({"checkedEarly", "queryFailed", "intoDeleted"}) => Distinct(rows)
    /\ Without({"deleteFailed", "intoDeleted"}) => ChatsThere(rows)

\* A new parent or name leaves the same folders there.
LEMMA ThereChange ==
    ASSUME NEW t \in [Folder -> Row], NEW f \in There(t), NEW p \in Place
    PROVE  /\ There(WithParent(t, f, p)) = There(t)
           /\ \A g \in Folder : g # f => WithParent(t, f, p)[g] = t[g]
           /\ WithParent(t, f, p)[f] = [parent |-> p, name |-> t[f].name]
BY DEF There, WithParent

LEMMA NameChange ==
    ASSUME NEW t \in [Folder -> Row], NEW f \in There(t), NEW n
    PROVE  /\ There(WithName(t, f, n)) = There(t)
           /\ \A g \in Folder : g # f => WithName(t, f, n)[g] = t[g]
           /\ WithName(t, f, n)[f] = [parent |-> t[f].parent, name |-> n]
BY DEF There, WithName

\* What is below a folder is closed under children.
LEMMA BelowClosed ==
    ASSUME NEW t \in [Folder -> Row], NEW p
    PROVE  /\ Below(t, p) \subseteq There(t)
           /\ Children(t, p) \subseteq Below(t, p)
           /\ \A x \in Below(t, p) : Children(t, x) \subseteq Below(t, p)
<1>1. Children(t, p) \subseteq There(t) /\ \A x : Children(t, x) \subseteq There(t)
  BY DEF Children
<1> QED
  BY <1>1 DEF Below

\* Deletion of a set of folders that is closed under children.
LEMMA RemoveKeeps ==
    ASSUME rows \in [Folder -> Row], NEW s \in SUBSET There(rows),
           \A x \in s : Children(rows, x) \subseteq s
    PROVE  /\ There(Removed(s)) = There(rows) \ s
           /\ \A f \in There(rows) \ s : Removed(s)[f] = rows[f]
           /\ Rooted(rows) => Rooted(Removed(s))
           /\ Distinct(rows) => Distinct(Removed(s))
<1>1. Deleted \notin Place
  BY ConstantsAssumption DEF Place
<1>2. There(Removed(s)) = There(rows) \ s
  BY <1>1 DEF There, Removed, NoRow
<1>3. \A f \in There(rows) \ s : Removed(s)[f] = rows[f]
  BY DEF Removed, There
<1>4. ASSUME Rooted(rows), NEW f \in There(rows) \ s PROVE rows[f].parent \notin s
  BY <1>4 DEF Children
<1> QED
  BY <1>2, <1>3, <1>4 DEF Rooted, Distinct

\* What a deletion that fails has removed is closed under children.
LEMMA RemovedClosed ==
    ASSUME rows \in [Folder -> Row], NEW f \in There(rows)
    PROVE  /\ \A s \in RemovedBefore(f) : s \in SUBSET There(rows)
                                          /\ \A x \in s : Children(rows, x) \subseteq s
           /\ Below(rows, f) \cup {f} \in SUBSET There(rows)
           /\ \A x \in Below(rows, f) \cup {f} : Children(rows, x) \subseteq Below(rows, f) \cup {f}
BY BelowClosed DEF RemovedBefore

\* Folders that are moved to the top: the same are there; with those whose parent is
\* missing all are rooted; rooted rows need no such move.
LEMMA RaisedRooted ==
    ASSUME rows \in [Folder -> Row], NEW fs \in SUBSET There(rows)
    PROVE  /\ There(Raised(fs)) = There(rows)
           /\ Orphans \subseteq fs \/ Rooted(rows) => Rooted(Raised(fs))
           /\ Rooted(rows) /\ fs \subseteq Orphans => Raised(fs) = rows
           /\ \A f \in There(rows) : Raised(fs)[f].parent \in {Root, rows[f].parent}
<1>1. Root \in Place /\ There(rows) \subseteq Folder
  BY DEF Place, There
<1>2. There(Raised(fs)) = There(rows)
  BY <1>1 DEF There, Raised
<1>3. \A f \in There(rows) : /\ f \in fs => Raised(fs)[f].parent = Root
                             /\ f \notin fs => Raised(fs)[f] = rows[f]
  BY <1>1 DEF Raised
<1>4. ASSUME Orphans \subseteq fs \/ Rooted(rows) PROVE Rooted(Raised(fs))
  <2>1. \A f \in There(rows) \ fs : rows[f].parent \in There(rows) \cup {Root}
    BY <1>4 DEF Orphans, Missing, Rooted
  <2> QED
    BY <1>2, <1>3, <2>1 DEF Rooted
<1>5. ASSUME Rooted(rows), fs \subseteq Orphans PROVE Raised(fs) = rows
  <2>1. fs = {}
    BY <1>5 DEF Orphans, Rooted, Missing
  <2> QED
    BY <2>1 DEF Raised
<1> QED
  BY <1>2, <1>3, <1>4, <1>5

\* Steps of the user and of the pages do not touch the rows; the user may import a chat.
LEMMA OtherSteps ==
    ASSUME UserActs \/ PageGoesOn
    PROVE  /\ rows' = rows /\ upset \subseteq upset'
           /\ \/ chats' = chats
              \/ \E c \in Chat : chats[c] = Unmade /\ chats' = [chats EXCEPT ![c] = Root]
<1>1. \A what : Upset(what) => upset \subseteq upset'
  BY DEF Upset
<1>2. \A p, what : Acts(p, what) => upset \subseteq upset'
  BY <1>1 DEF Acts
<1>3. \A p, call, what : Asks(p, call, what) => UNCHANGED <<rows, chats>> /\ upset \subseteq upset'
  BY <1>2, Zenon DEF Asks, server
<1>4. ASSUME NEW p \in Page, DropChat(p) \/ RestoreChat(p)
      PROVE  /\ rows' = rows /\ upset \subseteq upset'
             /\ \/ chats' = chats
                \/ \E c \in Chat : chats[c] = Unmade /\ chats' = [chats EXCEPT ![c] = Root]
  BY <1>2, <1>4 DEF DropChat, RestoreChat
<1>5. CASE UserActs
  BY <1>3, <1>4, <1>5, Zenon DEF UserActs, DropFolder, DropFolderAtTop, CreateFolder, RenameFolder,
     DeleteFolder, SelectFolder, NewChat, DropChatAtTop
<1>6. CASE PageGoesOn
  <2>1. UNCHANGED <<rows, chats>>
    BY <1>6 DEF PageGoesOn, ShowFolders, Renamed, NotRenamed, FolderDeleted, FolderSelected,
       ChatMade, server
  <2>2. ASSUME NEW p, NEW i, ShowFolders(p, i) PROVE upset \subseteq upset'
    BY <1>1, <2>2, Zenon DEF ShowFolders
  <2>3. ASSUME NEW r \in calls, NotRenamed(r) PROVE upset \subseteq upset'
    BY <1>1, <2>3, Zenon DEF NotRenamed
  <2>4. ASSUME NEW r \in calls, Renamed(r) \/ FolderDeleted(r) \/ FolderSelected(r) \/ ChatMade(r)
        PROVE  upset \subseteq upset'
    BY <2>4 DEF Renamed, FolderDeleted, FolderSelected, ChatMade
  <2> QED
    BY <1>6, <2>1, <2>2, <2>3, <2>4 DEF PageGoesOn
<1> QED
  BY <1>5, <1>6

\* What Made and MadeAndAnswered say of the upsets.
LEMMA MadeUpset ==
    ASSUME NEW r, NEW what,
           Made(r, what) \/ \E reply : MadeAndAnswered(r, reply, what)
    PROVE  upset \cup what \subseteq upset'
BY DEF Made, MadeAndAnswered, Upset

\* What a handler may do to the tables: nothing, a new parent, a new folder, a new
\* name, a deletion, a chat that moves or is made, the repair.
NewParent(f, p) ==
    /\ rows' = WithParent(rows, f, p) /\ chats' = chats
    /\ Taken(rows, p, rows[f].name) => "queryFailed" \in upset'
    /\ Missing(p) => "intoDeleted" \in upset'
    /\ \E r \in calls : r.op = "move" /\ r.folder = f /\ r.to = p

NewFolder(f, n) ==
    /\ rows[f].parent = Unmade /\ chats' = chats
    /\ rows' = [rows EXCEPT ![f] = [parent |-> Root, name |-> n]]
    /\ Taken(rows, Root, n) => "checkedEarly" \in upset'

NewName(f, n) ==
    /\ rows' = WithName(rows, f, n) /\ chats' = chats
    /\ (\E g \in Children(rows, rows[f].parent) \ {f} : rows[g].name = n) => "queryFailed" \in upset'

Deletion(s, t) ==
    /\ s \in SUBSET There(rows) /\ \A x \in s : Children(rows, x) \subseteq s
    /\ rows' = Removed(s) /\ chats' = RemoveChats(t)
    /\ t = s \/ "deleteFailed" \in upset'

NewPlace(c, p) ==
    /\ rows' = rows /\ chats' = [chats EXCEPT ![c] = p]
    /\ Missing(p) => "intoDeleted" \in upset'

Repair(fs) ==
    /\ fs \subseteq There(rows) /\ rows' = Raised(fs) /\ chats' = chats
    /\ fs \subseteq Orphans \/ "queryFailed" \in upset'

HandlerStep ==
    \/ UNCHANGED <<rows, chats>>
    \/ \E f \in There(rows), p \in Place : NewParent(f, p)
    \/ \E f \in Folder, n \in Name : NewFolder(f, n)
    \/ \E f \in There(rows), n \in Name : NewName(f, n)
    \/ \E s, t : Deletion(s, t)
    \/ \E c \in Chat, p \in Place : NewPlace(c, p)
    \/ \E fs : Repair(fs)

LEMMA HandlerCases == ASSUME TypeOK, ServerActs PROVE upset \subseteq upset' /\ HandlerStep
<1> DEFINE Goal == upset \subseteq upset' /\ HandlerStep
<1>0. \A r \in calls : r \in Call
  BY DEF TypeOK
<1>1. ASSUME NEW r, Refuse(r) PROVE Goal
  BY <1>1 DEF Refuse, server, HandlerStep
<1>2. \A b, w : b => w \in If(b, w)
  BY DEF If
<1>3. ASSUME NEW r \in calls, UpdateParent(r) PROVE Goal
  <2>1. CASE Refuse(r)
    BY <1>1, <2>1
  <2>2. CASE ~Refuse(r)
    <3> DEFINE what == If(Missing(r.to), "intoDeleted")
                       \cup If(Taken(rows, r.to, rows[r.folder].name), "queryFailed")
    <3>1. /\ r.folder \in There(rows)
          /\ rows' = WithParent(rows, r.folder, r.to)
          /\ chats' = chats /\ Made(r, what) /\ r.op = "move"
      BY <1>3, <2>2 DEF UpdateParent
    <3>2. r.to \in Place
      BY <1>0, <3>1, CallFields
    <3>3. upset \cup what \subseteq upset'
      <4> HIDE DEF what
      <4> QED
        BY <3>1, MadeUpset
    <3> QED
      BY <1>2, <3>1, <3>2, <3>3 DEF HandlerStep, NewParent
  <2> QED
    BY <2>1, <2>2
<1>4. ASSUME NEW r \in calls, CheckName(r) \/ ReadFolder(r) PROVE Goal
  BY <1>4 DEF CheckName, ReadFolder, Refuse, Upset, server, HandlerStep
<1>5. ASSUME NEW r \in calls, InsertFolder(r) PROVE Goal
  <2>1. CASE Refuse(r)
    BY <1>1, <2>1
  <2>2. CASE ~Refuse(r)
    <3>1. PICK f \in Folder : rows[f].parent = Unmade
                              /\ rows' = [rows EXCEPT ![f] = [parent |-> Root, name |-> r.name]]
      BY <1>5, <2>2 DEF InsertFolder
    <3>2. r.name \in Name
      BY <1>0, <1>5, CallFields DEF InsertFolder
    <3>3. upset \cup If(Taken(rows, Root, r.name), "checkedEarly") \subseteq upset'
      BY <1>5, <2>2, MadeUpset DEF InsertFolder
    <3>4. chats' = chats
      BY <1>5, <2>2 DEF InsertFolder
    <3> QED
      BY <1>2, <3>1, <3>2, <3>3, <3>4 DEF HandlerStep, NewFolder
  <2> QED
    BY <2>1, <2>2
<1>6. ASSUME NEW r \in calls, UpdateName(r) PROVE Goal
  <2>1. r.name \in Name
    BY <1>0, <1>6, CallFields DEF UpdateName
  <2>2. upset \subseteq upset' /\ chats' = chats
    BY <1>6 DEF UpdateName, Upset, server
  <2> DEFINE taken == \E g \in Children(rows, rows[r.folder].parent) \ {r.folder} :
                         rows[g].name = r.name
  <2>3. \/ rows' = rows
        \/ /\ r.folder \in There(rows) /\ rows' = WithName(rows, r.folder, r.name)
           /\ \E what : Upset(If(taken, "queryFailed") \cup what)
    BY <1>6, Zenon DEF UpdateName, server
  <2>4. rows' = rows \/ (taken => "queryFailed" \in upset')
    BY <1>2, <2>3 DEF Upset
  <2> QED
    BY <2>1, <2>2, <2>3, <2>4 DEF HandlerStep, NewName
<1>7. ASSUME NEW r \in calls, DeleteRows(r) PROVE Goal
  <2>1. ASSUME NEW s \in SUBSET There(rows), \A x \in s : Children(rows, x) \subseteq s,
               NEW t, NEW what, t = s \/ "deleteFailed" \in what, Deletes(r, s, t, what)
        PROVE  Goal
    <3>1. upset \cup what \subseteq upset'
      BY <2>1, MadeUpset DEF Deletes
    <3>2. rows' = Removed(s) /\ chats' = RemoveChats(t)
      BY <2>1 DEF Deletes
    <3> QED
      BY <2>1, <3>1, <3>2 DEF HandlerStep, Deletion
  <2>2. CASE Refuse(r)
    BY <1>1, <2>2
  <2>3. CASE ~Refuse(r)
    <3> DEFINE f == r.folder
               all == Below(rows, f) \cup {f}
    <3>1. f \in There(rows)
      BY <1>7, <2>3 DEF DeleteRows
    <3>2. \/ \E s \in SUBSET (Below(rows, f) \ {f}) :
                /\ \A x \in s : Children(rows, x) \subseteq s
                /\ Deletes(r, s, {}, If(s # {}, "deleteFailed"))
          \/ Deletes(r, all, all, {})
          \/ \E s \in RemovedBefore(f) : Deletes(r, s, {}, {"deleteFailed"})
          \/ \E s \in SUBSET all : Deletes(r, all, s, {"deleteFailed"})
      BY <1>7, <2>3, Zenon DEF DeleteRows
    <3>3. /\ \A s \in RemovedBefore(f) : s \in SUBSET There(rows)
                                          /\ \A x \in s : Children(rows, x) \subseteq s
          /\ all \in SUBSET There(rows) /\ \A x \in all : Children(rows, x) \subseteq all
      BY <3>1, RemovedClosed DEF TypeOK
    <3>4. ASSUME NEW s \in SUBSET (Below(rows, f) \ {f}), \A x \in s : Children(rows, x) \subseteq s,
                 Deletes(r, s, {}, If(s # {}, "deleteFailed"))
          PROVE  Goal
      <4>1. {} = s \/ "deleteFailed" \in If(s # {}, "deleteFailed")
        BY DEF If
      <4>2. s \in SUBSET There(rows)
        BY <3>3
      <4> QED
        BY <2>1, <3>4, <4>1, <4>2
    <3>5. CASE Deletes(r, all, all, {})
      BY <2>1, <3>3, <3>5
    <3>6. ASSUME NEW s \in RemovedBefore(f), Deletes(r, s, {}, {"deleteFailed"}) PROVE Goal
      BY <2>1, <3>3, <3>6
    <3>7. ASSUME NEW s \in SUBSET all, Deletes(r, all, s, {"deleteFailed"}) PROVE Goal
      BY <2>1, <3>3, <3>7
    <3> QED
      BY <3>2, <3>4, <3>5, <3>6, <3>7
  <2> QED
    BY <2>2, <2>3
<1>8. ASSUME NEW r \in calls, UpdateChatFolder(r) PROVE Goal
  <2>1. CASE Refuse(r)
    BY <1>1, <2>1
  <2>2. CASE ~Refuse(r)
    <3>1. r.chat \in Chat /\ r.to \in Place
      BY <1>0, <1>8, CallFields DEF UpdateChatFolder
    <3>2. rows' = rows /\ chats' = [chats EXCEPT ![r.chat] = r.to]
          /\ Made(r, If(Missing(r.to), "intoDeleted"))
      BY <1>8, <2>2 DEF UpdateChatFolder
    <3>3. upset \cup If(Missing(r.to), "intoDeleted") \subseteq upset'
      BY <3>2, MadeUpset
    <3> QED
      BY <1>2, <3>1, <3>2, <3>3 DEF HandlerStep, NewPlace
  <2> QED
    BY <2>1, <2>2
<1>9. ASSUME NEW r \in calls, InsertChat(r) PROVE Goal
  <2>1. CASE Refuse(r)
    BY <1>1, <2>1
  <2>2. CASE ~Refuse(r)
    <3>1. r.to \in Place
      BY <1>0, <1>9, CallFields DEF InsertChat
    <3>2. PICK c \in Chat : chats' = [chats EXCEPT ![c] = r.to]
      BY <1>9, <2>2 DEF InsertChat
    <3>3. upset \cup If(Missing(r.to), "intoDeleted") \subseteq upset' /\ rows' = rows
      BY <1>9, <2>2, MadeUpset DEF InsertChat
    <3> QED
      BY <1>2, <3>1, <3>2, <3>3 DEF HandlerStep, NewPlace
  <2> QED
    BY <2>1, <2>2
<1>10. ASSUME NEW p \in Page, GetFolders(p) PROVE Goal
  <2>1. PICK fs \in SUBSET There(rows) : Lists(p, fs)
    BY <1>10, ListingSteps
  <2>2. chats' = chats
    BY <1>10 DEF GetFolders
  <2>3. upset \subseteq upset' /\ (fs \subseteq Orphans \/ "queryFailed" \in upset')
    BY <1>2, <2>1 DEF Lists, Upset
  <2>4. Repair(fs)
    BY <2>1, <2>2, <2>3 DEF Lists, Repair
  <2> QED
    BY <2>3, <2>4 DEF HandlerStep
<1> QED
  BY <1>3, <1>4, <1>5, <1>6, <1>7, <1>8, <1>9, <1>10 DEF ServerActs

LEMMA TableStep == ASSUME TypeOK, TableInv, [Next]_vars PROVE TableInv'
<1>1. rows \in [Folder -> Row] /\ chats \in [Chat -> Place \cup {Unmade, Deleted}]
  BY DEF TypeOK
<1>2. Root \in Place /\ Root \notin Folder /\ Unmade \notin Place /\ Deleted \notin Folder
      /\ Folder \subseteq Place
  BY ConstantsAssumption DEF Place
<1>3. ASSUME upset \subseteq upset' PROVE \A b : Without(b)' => Without(b)
  BY <1>3 DEF Without
<1>5. ASSUME upset \subseteq upset', rows' = rows,
             \/ chats' = chats
             \/ \E c \in Chat, p \in Place : /\ chats' = [chats EXCEPT ![c] = p]
                                             /\ Missing(p) => "intoDeleted" \in upset'
      PROVE  TableInv'
  <2>1. Without({"deleteFailed", "intoDeleted"})' => ChatsThere(rows)'
    <3> SUFFICES ASSUME Without({"deleteFailed", "intoDeleted"})' PROVE ChatsThere(rows)'
      OBVIOUS
    <3>1. ChatsThere(rows) /\ "intoDeleted" \notin upset'
      BY <1>3, <1>5 DEF TableInv, Without
    <3>2. CASE chats' = chats
      BY <1>5, <3>1, <3>2 DEF ChatsThere
    <3>3. ASSUME NEW c \in Chat, NEW p \in Place, chats' = [chats EXCEPT ![c] = p],
                 Missing(p) => "intoDeleted" \in upset'
          PROVE  ChatsThere(rows)'
      <4>1. p \in Folder => p \in There(rows)
        BY <1>2, <3>1, <3>3 DEF Missing
      <4> QED
        BY <1>1, <1>5, <3>1, <3>3, <4>1 DEF ChatsThere
    <3> QED
      BY <1>5, <3>2, <3>3
  <2> QED
    BY <1>3, <1>5, <2>1 DEF TableInv, Rooted, Distinct, There, Without
<1>6. CASE UserActs \/ PageGoesOn
  <2>1. ~Missing(Root)
    BY DEF Missing
  <2> QED
    BY <1>2, <1>5, <1>6, <2>1, OtherSteps
<1>7. CASE ServerActs
  <2>0. upset \subseteq upset' /\ HandlerStep
    BY <1>7, HandlerCases
  <2>1. ASSUME NEW f \in There(rows), NEW p \in Place, NewParent(f, p) PROVE TableInv'
    <3>1. /\ There(rows') = There(rows)
          /\ \A g \in Folder : g # f => rows'[g] = rows[g]
          /\ rows'[f] = [parent |-> p, name |-> rows[f].name]
      BY <1>1, <2>1, ThereChange DEF NewParent
    <3>2. There(rows) \subseteq Folder
      BY DEF There
    <3>3. "intoDeleted" \notin upset' => Rooted(rows')
      BY <2>0, <2>1, <3>1, <3>2 DEF TableInv, Rooted, NewParent, Missing
    <3>4. Distinct(rows) /\ "queryFailed" \notin upset' => Distinct(rows')
      BY <2>1, <3>1, <3>2 DEF Distinct, NewParent, Taken, Children
    <3> QED
      BY <1>3, <2>0, <2>1, <3>1, <3>3, <3>4 DEF TableInv, NewParent, ChatsThere, Without
  <2>2. ASSUME NEW f \in Folder, NEW n \in Name, NewFolder(f, n) PROVE TableInv'
    <3>1. /\ There(rows') = There(rows) \cup {f} /\ f \notin There(rows)
          /\ \A g \in Folder : g # f => rows'[g] = rows[g]
          /\ rows'[f] = [parent |-> Root, name |-> n]
      BY <1>1, <1>2, <2>2 DEF NewFolder, There
    <3>2. There(rows) \subseteq Folder
      BY DEF There
    <3>3. Rooted(rows) => Rooted(rows')
      BY <3>1, <3>2 DEF Rooted
    <3>4. Distinct(rows) /\ "checkedEarly" \notin upset' => Distinct(rows')
      BY <2>2, <3>1, <3>2 DEF Distinct, NewFolder, Taken, Children
    <3>5. ChatsThere(rows) => ChatsThere(rows)'
      BY <2>2, <3>1 DEF ChatsThere, NewFolder
    <3> QED
      BY <1>3, <2>0, <3>3, <3>4, <3>5 DEF TableInv, Without
  <2>3. ASSUME NEW f \in There(rows), NEW n \in Name, NewName(f, n) PROVE TableInv'
    <3>1. /\ There(rows') = There(rows)
          /\ \A g \in Folder : g # f => rows'[g] = rows[g]
          /\ rows'[f] = [parent |-> rows[f].parent, name |-> n]
      BY <1>1, <2>3, NameChange DEF NewName
    <3>2. There(rows) \subseteq Folder
      BY DEF There
    <3>3. Rooted(rows) => Rooted(rows')
      BY <3>1, <3>2 DEF Rooted
    <3>4. Distinct(rows) /\ "queryFailed" \notin upset' => Distinct(rows')
      BY <2>3, <3>1, <3>2 DEF Distinct, NewName, Children
    <3>5. ChatsThere(rows) => ChatsThere(rows)'
      BY <2>3, <3>1 DEF ChatsThere, NewName
    <3> QED
      BY <1>3, <2>0, <3>3, <3>4, <3>5 DEF TableInv, Without
  <2>4. ASSUME NEW s, NEW t, Deletion(s, t) PROVE TableInv'
    <3>1. /\ There(rows') = There(rows) \ s
          /\ Rooted(rows) => Rooted(rows')
          /\ Distinct(rows) => Distinct(rows')
      BY <1>1, <2>4, RemoveKeeps DEF Deletion
    <3>2. ASSUME t = s, ChatsThere(rows) PROVE ChatsThere(rows)'
      BY <1>2, <2>4, <3>1, <3>2 DEF ChatsThere, Deletion, RemoveChats
    <3> QED
      <4>1. Without({"deleteFailed", "intoDeleted"})' => ChatsThere(rows)'
        BY <1>3, <2>0, <2>4, <3>2 DEF TableInv, Deletion, Without
      <4> QED
        BY <1>3, <2>0, <3>1, <4>1 DEF TableInv
  <2>5. ASSUME NEW fs, Repair(fs) PROVE TableInv'
    <3>1. /\ There(rows') = There(rows)
          /\ Rooted(rows) => Rooted(rows')
          /\ Rooted(rows) /\ fs \subseteq Orphans => rows' = rows
      BY <1>1, <2>5, RaisedRooted DEF Repair
    <3>2. ChatsThere(rows) => ChatsThere(rows)'
      BY <2>5, <3>1 DEF ChatsThere, Repair
    <3>3. Without({"checkedEarly", "queryFailed", "intoDeleted"})' => Distinct(rows')
      <4>1. ASSUME Without({"checkedEarly", "queryFailed", "intoDeleted"})'
            PROVE  Rooted(rows) /\ Distinct(rows) /\ fs \subseteq Orphans
        BY <2>0, <2>5, <4>1 DEF TableInv, Without, Repair
      <4> QED
        BY <3>1, <4>1
    <3>4. "intoDeleted" \notin upset' => Rooted(rows')
      BY <2>0, <3>1 DEF TableInv
    <3> QED
      BY <1>3, <2>0, <3>2, <3>3, <3>4 DEF TableInv
  <2> QED
    <3>1. CASE UNCHANGED <<rows, chats>>
      BY <1>5, <2>0, <3>1
    <3>2. ASSUME NEW c \in Chat, NEW p \in Place, NewPlace(c, p) PROVE TableInv'
      BY <1>5, <2>0, <3>2 DEF NewPlace
    <3> QED
      BY <2>0, <2>1, <2>2, <2>3, <2>4, <2>5, <3>1, <3>2, Zenon DEF HandlerStep
<1>8. CASE UNCHANGED vars
  BY <1>8 DEF vars, TableInv, Without, Rooted, Distinct, ChatsThere, There
<1> QED
  BY <1>6, <1>7, <1>8 DEF Next

LEMMA TableInit == Init => TableInv
<1> SUFFICES ASSUME Init PROVE TableInv
  OBVIOUS
<1>1. PICK c \in Chat, p \in There(rows) \cup {Root} :
        chats = [d \in Chat |-> IF d = c THEN p ELSE Unmade]
  BY DEF Init
<1>2. Root \notin Folder /\ Unmade \notin Folder
  BY ConstantsAssumption
<1>3. ChatsThere(rows)
  BY <1>1, <1>2 DEF ChatsThere
<1>4. Rooted(rows) /\ Distinct(rows)
  BY DEF Init, Forest, Rooted, Distinct
<1> QED
  BY <1>3, <1>4 DEF TableInv

LEMMA TableAlways == Spec => []TableInv
<1>1. TypeOK /\ TableInv /\ [Next]_vars => TableInv'
  BY TableStep
<1> QED
  BY <1>1, TableInit, TypeCorrect, PTL DEF Spec

\* Folders below one parent have different names, whatever pages ask for and however
\* requests overtake each other, but for the three ways round the queries for a name.
THEOREM SiblingsDifferAlways == Spec => []SiblingsDiffer
<1>1. TableInv => SiblingsDiffer
  BY DEF TableInv, SiblingsDiffer, Distinct
<1> QED
  BY <1>1, TableAlways, PTL

--------------------------------------------------------------------------------
(* No folder is below itself *)

Careful == Without({"hasty", "ontoGrandchild"})

\* A move under way is alone, and does not go below the folder that it moves.
MoveInv ==
    Careful => \A r \in calls : r.op = "move" =>
        /\ calls = {r} /\ reloads = [p \in Page |-> 0]
        /\ r.to # r.folder /\ r.to \notin Below(rows, r.folder)

\* A move to what is not below the folder closes no cycle: what would be on one, and
\* not below the folder, was on one before.
LEMMA MoveKeepsAcyclic ==
    ASSUME NEW t \in [Folder -> Row], Acyclic(t), NEW f \in There(t), NEW p \in Place,
           p # f, p \notin Below(t, f)
    PROVE  Acyclic(WithParent(t, f, p))
<1> DEFINE u == WithParent(t, f, p)
<1>1. /\ There(u) = There(t)
      /\ \A g \in Folder : g # f => u[g] = t[g]
      /\ u[f].parent = p
  <2>1. u[f] = [parent |-> p, name |-> t[f].name]
    BY ThereChange
  <2>2. u[f].parent = p
    BY <2>1
  <2>3. There(u) = There(t) /\ \A g \in Folder : g # f => u[g] = t[g]
    BY ThereChange
  <2> QED
    BY <2>2, <2>3
<1>2. There(t) \subseteq Folder
  BY DEF There
<1> SUFFICES ASSUME NEW s \in SUBSET There(t), s # {}, \A g \in s : u[g].parent \in s
             PROVE  FALSE
  BY <1>1 DEF Acyclic
<1> HIDE DEF u
<1>3. CASE f \notin s
  BY <1>1, <1>2, <1>3 DEF Acyclic
<1>4. CASE f \in s
  <2>1. p \in s
    BY <1>1, <1>4
  <2>2. PICK b \in SUBSET There(t) : /\ \A x \in b \cup {f} : Children(t, x) \subseteq b
                                     /\ p \notin b
    BY <2>1 DEF Below
  <2> DEFINE w == s \ (b \cup {f})
  <2>3. p \in w
    BY <2>1, <2>2
  <2>4. ASSUME NEW g \in w PROVE t[g].parent \in w
    <3>1. t[g].parent \in s
      BY <1>1, <1>2
    <3>2. \A x \in b \cup {f} : g \notin Children(t, x)
      BY <2>2
    <3>3. t[g].parent \notin b \cup {f}
      BY <3>2 DEF Children
    <3> QED
      BY <3>1, <3>3
  <2> QED
    BY <2>3, <2>4 DEF Acyclic
<1> QED
  BY <1>3, <1>4

\* What else the handlers do closes no cycle either.
LEMMA HandlersKeepAcyclic ==
    ASSUME TypeOK, HandlerStep, Acyclic(rows),
           \A r \in calls : r.op = "move" => r.to # r.folder /\ r.to \notin Below(rows, r.folder)
    PROVE  Acyclic(rows')
<1>1. rows \in [Folder -> Row] /\ There(rows) \subseteq Folder
  BY DEF TypeOK, There
<1>2. Root \in Place /\ Root \notin Folder /\ Unmade \notin Place
  BY ConstantsAssumption DEF Place
<1>3. ASSUME NEW f \in There(rows), NEW p \in Place, NewParent(f, p) PROVE Acyclic(rows')
  BY <1>1, <1>3, MoveKeepsAcyclic DEF NewParent
<1>4. ASSUME NEW f \in Folder, NEW n \in Name, NewFolder(f, n) PROVE Acyclic(rows')
  <2>1. /\ There(rows') = There(rows) \cup {f}
        /\ \A g \in Folder : g # f => rows'[g] = rows[g]
        /\ rows'[f].parent = Root
    BY <1>1, <1>2, <1>4 DEF NewFolder, There
  <2>2. ASSUME NEW s \in SUBSET There(rows'), s # {} PROVE \E g \in s : rows'[g].parent \notin s
    <3>1. CASE f \in s
      BY <1>1, <1>2, <2>1, <3>1
    <3>2. CASE f \notin s
      <4>1. s \in SUBSET There(rows)
        BY <2>1, <3>2
      <4> QED
        BY <1>1, <2>1, <2>2, <3>2, <4>1 DEF Acyclic
    <3> QED
      BY <3>1, <3>2
  <2> QED
    BY <2>2 DEF Acyclic
<1>5. ASSUME NEW f \in There(rows), NEW n \in Name, NewName(f, n) PROVE Acyclic(rows')
  <2>1. There(rows') = There(rows) /\ \A g \in Folder : rows'[g].parent = rows[g].parent
    <3>1. /\ There(rows') = There(rows)
          /\ \A g \in Folder : g # f => rows'[g] = rows[g]
          /\ rows'[f] = [parent |-> rows[f].parent, name |-> n]
      BY <1>1, <1>5, NameChange DEF NewName
    <3> QED
      BY <3>1
  <2> QED
    BY <1>1, <2>1 DEF Acyclic
<1>6. ASSUME NEW s, NEW t, Deletion(s, t) PROVE Acyclic(rows')
  <2>1. There(rows') = There(rows) \ s /\ \A f \in There(rows) \ s : rows'[f] = rows[f]
    BY <1>1, <1>6, RemoveKeeps DEF Deletion
  <2> QED
    BY <2>1 DEF Acyclic
<1>7. ASSUME NEW fs, Repair(fs) PROVE Acyclic(rows')
  <2>1. /\ There(rows') = There(rows)
        /\ \A f \in There(rows) : rows'[f].parent \in {Root, rows[f].parent}
    BY <1>1, <1>7, RaisedRooted DEF Repair
  <2>2. ASSUME NEW s \in SUBSET There(rows'), s # {} PROVE \E g \in s : rows'[g].parent \notin s
    <3>1. PICK g \in s : rows[g].parent \notin s
      BY <2>1, <2>2 DEF Acyclic
    <3> QED
      BY <1>1, <1>2, <2>1, <3>1
  <2> QED
    BY <2>2 DEF Acyclic
<1> QED
  BY <1>3, <1>4, <1>5, <1>6, <1>7 DEF HandlerStep, NewPlace

\* The user acts with nothing under way, and a drop does not end below the folder.
LEMMA UserMoves ==
    ASSUME TypeOK, UserActs, Careful'
    PROVE  \A r \in calls' : r.op = "move" =>
               /\ calls' = {r} /\ reloads' = [p \in Page |-> 0] /\ rows' = rows
               /\ r.to # r.folder /\ r.to \notin Below(rows, r.folder)
<1> SUFFICES ASSUME NEW r \in calls', r.op = "move"
             PROVE  /\ calls' = {r} /\ reloads' = [p \in Page |-> 0] /\ rows' = rows
                    /\ r.to # r.folder /\ r.to \notin Below(rows, r.folder)
  OBVIOUS
<1>0. Root \notin Folder /\ \A x : Below(rows, x) \subseteq Folder
  BY ConstantsAssumption DEF Below, There
<1>1. ASSUME NEW p, NEW what, Acts(p, what)
      PROVE  UpToDate(p) /\ what \cap {"hasty", "ontoGrandchild"} = {}
  <2>1. what \cup If(~UpToDate(p), "hasty") \subseteq upset'
    BY <1>1 DEF Acts, Upset
  <2>2. "hasty" \notin upset' /\ "ontoGrandchild" \notin upset'
    BY DEF Careful, Without
  <2> QED
    BY <2>1, <2>2 DEF If
<1>2. ASSUME NEW p, NEW call, NEW what, Asks(p, call, what)
      PROVE  /\ calls' = {call} /\ r = call /\ reloads' = [q \in Page |-> 0] /\ rows' = rows
             /\ shown[p] = rows /\ what \cap {"hasty", "ontoGrandchild"} = {}
  <2>1. UpToDate(p) /\ what \cap {"hasty", "ontoGrandchild"} = {}
    BY <1>1, <1>2 DEF Asks
  <2> QED
    BY <1>2, <2>1 DEF Asks, UpToDate, server
<1>3. ASSUME NEW p \in Page, DropFolder(p)
      PROVE  /\ calls' = {r} /\ reloads' = [q \in Page |-> 0] /\ rows' = rows
             /\ r.to # r.folder /\ r.to \notin Below(rows, r.folder)
  <2>1. PICK f, g \in Visible(shown[p]) :
          /\ f # g /\ shown[p][g].parent # f
          /\ Asks(p, [op |-> "move", page |-> p, folder |-> f, to |-> g],
                  If(g \in Below(shown[p], f) \ Children(shown[p], f), "ontoGrandchild"))
    BY <1>3 DEF DropFolder
  <2> DEFINE call == [op |-> "move", page |-> p, folder |-> f, to |-> g]
             what == If(g \in Below(shown[p], f) \ Children(shown[p], f), "ontoGrandchild")
  <2>2. /\ calls' = {call} /\ r = call /\ reloads' = [q \in Page |-> 0] /\ rows' = rows
        /\ shown[p] = rows /\ what \cap {"hasty", "ontoGrandchild"} = {}
    BY <1>2, <2>1
  <2>3. r.folder = f /\ r.to = g
    BY <2>2
  <2>4. g \notin Below(rows, f) \ Children(rows, f)
    BY <2>2 DEF If
  <2>5. g \notin Children(rows, f)
    BY <2>1, <2>2 DEF Children
  <2> QED
    BY <2>1, <2>2, <2>3, <2>4, <2>5
<1>4. ASSUME NEW p \in Page, DropFolderAtTop(p)
      PROVE  /\ calls' = {r} /\ reloads' = [q \in Page |-> 0] /\ rows' = rows
             /\ r.to # r.folder /\ r.to \notin Below(rows, r.folder)
  <2>1. PICK f \in Visible(shown[p]) : Asks(p, [op |-> "move", page |-> p, folder |-> f, to |-> Root], {})
    BY <1>4 DEF DropFolderAtTop
  <2>2. /\ calls' = {r} /\ reloads' = [q \in Page |-> 0] /\ rows' = rows
        /\ r = [op |-> "move", page |-> p, folder |-> f, to |-> Root]
    BY <1>2, <2>1
  <2>3. r.folder = f /\ r.to = Root
    BY <2>2
  <2>4. f \in Folder
    BY BelowThere DEF Visible
  <2> QED
    BY <1>0, <2>2, <2>3, <2>4
<1>5. ASSUME NEW p \in Page, DropChat(p) PROVE FALSE
  <2>1. PICK d \in Chat, g \in Visible(shown[p]) :
          Acts(p, {}) /\ calls' = calls \cup {[op |-> "moveChat", page |-> p, chat |-> d, to |-> g]}
    BY <1>5 DEF DropChat
  <2>2. calls = {}
    BY <1>1, <2>1 DEF UpToDate
  <2>3. r = [op |-> "moveChat", page |-> p, chat |-> d, to |-> g]
    BY <2>1, <2>2
  <2> QED
    BY <2>3
<1>6. ASSUME NEW p \in Page, CreateFolder(p) PROVE FALSE
  <2>1. PICK n \in Name :
          Asks(p, [op |-> "create", page |-> p, name |-> n], {})
    BY <1>6, Zenon DEF CreateFolder
  <2>2. r = [op |-> "create", page |-> p, name |-> n]
    BY <1>2, <2>1, Zenon
  <2> QED
    BY <2>2
<1>7. ASSUME NEW p \in Page, RenameFolder(p) PROVE FALSE
  <2>1. PICK f \in Visible(shown[p]), n \in Name :
          Asks(p, [op |-> "rename", page |-> p, folder |-> f, name |-> n, was |-> shown[p][f].name], {})
    BY <1>7, Zenon DEF RenameFolder
  <2>2. r = [op |-> "rename", page |-> p, folder |-> f, name |-> n, was |-> shown[p][f].name]
    BY <1>2, <2>1, Zenon
  <2> QED
    BY <2>2
<1>8. ASSUME NEW p \in Page, DeleteFolder(p) PROVE FALSE
  <2>1. PICK f \in Visible(shown[p]) :
          Asks(p, [op |-> "delete", page |-> p, folder |-> f], {})
    BY <1>8, Zenon DEF DeleteFolder
  <2>2. r = [op |-> "delete", page |-> p, folder |-> f]
    BY <1>2, <2>1, Zenon
  <2> QED
    BY <2>2
<1>9. ASSUME NEW p \in Page, SelectFolder(p) PROVE FALSE
  <2>1. PICK f \in Visible(shown[p]) :
          Asks(p, [op |-> "select", page |-> p, folder |-> f], {})
    BY <1>9, Zenon DEF SelectFolder
  <2>2. r = [op |-> "select", page |-> p, folder |-> f]
    BY <1>2, <2>1, Zenon
  <2> QED
    BY <2>2
<1>10. ASSUME NEW p \in Page, DropChatAtTop(p) PROVE FALSE
  <2>1. PICK c \in Chat :
          Asks(p, [op |-> "moveChat", page |-> p, chat |-> c, to |-> Root], {})
    BY <1>10, Zenon DEF DropChatAtTop
  <2>2. r = [op |-> "moveChat", page |-> p, chat |-> c, to |-> Root]
    BY <1>2, <2>1, Zenon
  <2> QED
    BY <2>2
<1>11. ASSUME NEW p \in Page, NewChat(p) PROVE FALSE
  <2>1. r = [op |-> "newChat", page |-> p, to |-> selected[p]]
    BY <1>2, <1>11, Zenon DEF NewChat
  <2> QED
    BY <2>1
<1>12. ASSUME NEW p \in Page, RestoreChat(p) PROVE FALSE
  <2>1. calls = {} /\ r \in calls
    BY <1>1, <1>12 DEF RestoreChat, UpToDate
  <2> QED
    BY <2>1
<1> QED
  BY <1>3, <1>4, <1>5, <1>6, <1>7, <1>8, <1>9, <1>10, <1>11, <1>12 DEF UserActs

\* No handler and no answer makes a move; a move that is under way alone is handled.
LEMMA NoNewMoves ==
    ASSUME NEW q \in calls,
           \/ UpdateParent(q) \/ CheckName(q) \/ InsertFolder(q) \/ UpdateName(q)
           \/ DeleteRows(q) \/ ReadFolder(q) \/ UpdateChatFolder(q) \/ InsertChat(q)
           \/ Renamed(q) \/ NotRenamed(q) \/ FolderDeleted(q) \/ FolderSelected(q) \/ ChatMade(q)
    PROVE  \A r \in calls' : r.op = "move" => r \in calls \ {q}
<1>1. Refuse(q) => calls' = calls \ {q}
  BY DEF Refuse
<1>2. \A what : Made(q, what) => calls' = calls \ {q}
  BY DEF Made
<1>3. ASSUME NEW a, NEW what, MadeAndAnswered(q, a, what), a.op # "move"
      PROVE  \A r \in calls' : r.op = "move" => r \in calls \ {q}
  BY <1>3 DEF MadeAndAnswered
<1>4. CASE UpdateParent(q) \/ InsertFolder(q) \/ UpdateChatFolder(q)
  <2>1. Refuse(q) \/ \E what : Made(q, what)
    BY <1>4, Zenon DEF UpdateParent, InsertFolder, UpdateChatFolder
  <2> QED
    BY <1>1, <1>2, <2>1
<1>5. CASE CheckName(q)
  <2>1. [op |-> "insert", page |-> q.page, name |-> q.name].op # "move"
    OBVIOUS
  <2> QED
    BY <1>1, <1>5, <2>1 DEF CheckName
<1>6. CASE UpdateName(q)
  <2>1. Answer(q, "refused").op # "move" /\ Answer(q, "renamed").op # "move"
    BY DEF Answer
  <2> QED
    BY <1>6, <2>1 DEF UpdateName
<1>7. CASE DeleteRows(q)
  <2>1. Refuse(q) \/ \E what : MadeAndAnswered(q, [op |-> "deleted", page |-> q.page], what)
    BY <1>7, Zenon DEF DeleteRows, Deletes
  <2>2. [op |-> "deleted", page |-> q.page].op # "move"
    OBVIOUS
  <2> QED
    BY <1>1, <1>3, <2>1, <2>2
<1>8. CASE ReadFolder(q)
  <2>1. [op |-> "selected", page |-> q.page, folder |-> q.folder].op # "move"
    OBVIOUS
  <2> QED
    BY <1>1, <1>8, <2>1 DEF ReadFolder
<1>9. CASE InsertChat(q)
  <2>1. [op |-> "chatMade", page |-> q.page].op # "move"
    OBVIOUS
  <2> QED
    BY <1>1, <1>3, <1>9, <2>1 DEF InsertChat
<1>10. CASE Renamed(q) \/ NotRenamed(q) \/ FolderDeleted(q) \/ FolderSelected(q) \/ ChatMade(q)
  BY <1>10 DEF Renamed, NotRenamed, FolderDeleted, FolderSelected, ChatMade
<1> QED
  BY <1>4, <1>5, <1>6, <1>7, <1>8, <1>9, <1>10

LEMMA TreeStep == ASSUME TypeOK, TreeHolds, MoveInv, [Next]_vars PROVE TreeHolds' /\ MoveInv'
<1> SUFFICES ASSUME Careful'
             PROVE  /\ Acyclic(rows')
                    /\ \A r \in calls' : r.op = "move" =>
                          /\ calls' = {r} /\ reloads' = [p \in Page |-> 0]
                          /\ r.to # r.folder /\ r.to \notin Below(rows', r.folder)
  BY DEF TreeHolds, MoveInv, Careful
<1>1. ASSUME upset \subseteq upset'
      PROVE  /\ Acyclic(rows)
             /\ \A r \in calls : r.op = "move" =>
                   /\ calls = {r} /\ reloads = [p \in Page |-> 0]
                   /\ r.to # r.folder /\ r.to \notin Below(rows, r.folder)
  <2>1. Careful
    BY <1>1 DEF Careful, Without
  <2> QED
    BY <2>1 DEF TreeHolds, MoveInv, Careful
<1>2. CASE UserActs
  BY <1>1, <1>2, OtherSteps, UserMoves
<1>3. CASE ServerActs
  <2>1. upset \subseteq upset' /\ HandlerStep
    BY <1>3, HandlerCases
  <2>2. Acyclic(rows')
    BY <1>1, <2>1, HandlersKeepAcyclic
  <2>3. \A r \in calls' : r.op # "move"
    <3> SUFFICES ASSUME NEW r \in calls', r.op = "move" PROVE FALSE
      OBVIOUS
    <3>1. ASSUME NEW p \in Page, GetFolders(p) PROVE FALSE
      <4>1. reloads[p] > 0 /\ calls' = calls
        BY <3>1 DEF GetFolders
      <4>2. reloads[p] = 0
        BY <1>1, <2>1, <4>1
      <4> QED
        BY <4>1, <4>2
    <3>2. PICK q \in calls :
            \/ UpdateParent(q) \/ CheckName(q) \/ InsertFolder(q) \/ UpdateName(q)
            \/ DeleteRows(q) \/ ReadFolder(q) \/ UpdateChatFolder(q) \/ InsertChat(q)
      BY <1>3, <3>1 DEF ServerActs
    <3>3. r \in calls \ {q}
      BY <3>2, NoNewMoves
    <3> QED
      BY <1>1, <2>1, <3>3
  <2> QED
    BY <2>2, <2>3
<1>4. CASE PageGoesOn
  <2>1. rows' = rows /\ upset \subseteq upset'
    BY <1>4, OtherSteps
  <2>2. ASSUME NEW p, NEW i, ShowFolders(p, i) PROVE UNCHANGED <<calls, reloads>>
    BY <2>2 DEF ShowFolders
  <2>3. ASSUME NEW q \in calls,
               Renamed(q) \/ NotRenamed(q) \/ FolderDeleted(q) \/ FolderSelected(q) \/ ChatMade(q),
               NEW r \in calls', r.op = "move"
        PROVE  FALSE
    <3>1. r \in calls \ {q}
      BY <2>3, NoNewMoves
    <3> QED
      BY <1>1, <2>1, <2>3, <3>1
  <2> QED
    BY <1>1, <1>4, <2>1, <2>2, <2>3 DEF PageGoesOn
<1>5. CASE UNCHANGED vars
  BY <1>1, <1>5 DEF vars
<1> QED
  BY <1>2, <1>3, <1>4, <1>5 DEF Next

LEMMA TreeAlways == Spec => [](TreeHolds /\ MoveInv)
<1>1. Init => TreeHolds /\ MoveInv
  BY DEF Init, Forest, TreeHolds, MoveInv
<1>2. TypeOK /\ (TreeHolds /\ MoveInv) /\ [Next]_vars => (TreeHolds /\ MoveInv)'
  BY TreeStep
<1> QED
  BY <1>1, <1>2, TypeCorrect, PTL DEF Spec

\* No folder is ever below itself, as long as the user acts on what is up to date and
\* drops no folder two or more levels below itself.
THEOREM TreeHoldsAlways == Spec => []TreeHolds
BY TreeAlways, PTL

--------------------------------------------------------------------------------
(* What the sidebar shows *)

\* Without cycles, everything that is rooted is below the root.
LEMMA RootedIsVisible ==
    ASSUME NEW t \in [Folder -> Row], Acyclic(t), Rooted(t)
    PROVE  There(t) \subseteq Visible(t)
<1> SUFFICES ASSUME NEW f \in There(t), NEW s \in SUBSET There(t),
                    \A x \in s \cup {Root} : Children(t, x) \subseteq s, f \notin s
             PROVE  FALSE
  BY DEF Visible, Below
<1> DEFINE w == There(t) \ s
<1>1. PICK g \in w : t[g].parent \notin w
  BY DEF Acyclic
<1>2. t[g].parent \in s \cup {Root}
  BY <1>1 DEF Rooted
<1>3. g \in Children(t, t[g].parent)
  BY DEF Children
<1> QED
  BY <1>1, <1>2, <1>3

\* A chat that is in a folder is in one that the sidebar shows.
THEOREM ChatsAreListedAlways == Spec => []ChatsAreListed
<1>1. TypeOK /\ TableInv /\ TreeHolds => ChatsAreListed
  BY RootedIsVisible DEF TypeOK, TableInv, TreeHolds, ChatsAreListed, ChatsThere, Without
<1> QED
  BY <1>1, TypeCorrect, TableAlways, TreeHoldsAlways, PTL

\* Lists that are sent, and shown, are rooted.
ListsInv ==
    \A p \in Page : Rooted(shown[p]) /\ \A i \in DOMAIN lists[p] : Rooted(lists[p][i])

LEMMA ListsStep == ASSUME TypeOK, ListsInv, [Next]_vars PROVE ListsInv'
<1> USE DEF ListsInv
<1>0. \A p \in Page : shown[p] \in [Folder -> Row]
  BY DEF TypeOK
<1>1. ASSUME NEW p \in Page, NEW f \in There(shown[p]), NEW n,
             shown' = [shown EXCEPT ![p] = WithName(shown[p], f, n)], lists' = lists
      PROVE  ListsInv'
  <2> DEFINE t == shown[p]
             u == WithName(t, f, n)
  <2>1. /\ There(u) = There(t)
        /\ \A g \in Folder : g # f => u[g] = t[g]
        /\ u[f] = [parent |-> t[f].parent, name |-> n]
    BY <1>0, NameChange
  <2>2. There(t) \subseteq Folder
    BY DEF There
  <2> HIDE DEF u
  <2>3. \A g \in There(u) : u[g].parent = t[g].parent
    BY <2>1, <2>2
  <2>4. Rooted(u)
    BY <2>1, <2>3 DEF Rooted
  <2>5. shown' = [shown EXCEPT ![p] = u]
    BY <1>1 DEF u
  <2>6. \A q \in Page : shown'[q] \in {u, shown[q]}
    BY <2>5 DEF TypeOK
  <2> QED
    BY <1>1, <2>4, <2>6
<1>2. ASSUME UNCHANGED <<shown, lists>> PROVE ListsInv'
  BY <1>2
<1>3. CASE UserActs
  <2>1. \A p, call, what : Asks(p, call, what) => lists' = lists
    BY DEF Asks
  <2>2. ASSUME NEW p \in Page, RenameFolder(p) PROVE ListsInv'
    <3>1. PICK f \in Visible(shown[p]), n \in Name :
            lists' = lists /\ shown' = [shown EXCEPT ![p] = WithName(shown[p], f, n)]
      BY <2>1, <2>2, Zenon DEF RenameFolder
    <3>2. f \in There(shown[p])
      BY BelowThere DEF Visible
    <3> QED
      BY <1>1, <3>1, <3>2
  <2>3. ASSUME NEW p \in Page,
               \/ DropFolder(p) \/ DropFolderAtTop(p) \/ CreateFolder(p) \/ DeleteFolder(p)
               \/ SelectFolder(p) \/ NewChat(p) \/ DropChat(p) \/ DropChatAtTop(p)
               \/ RestoreChat(p)
        PROVE  UNCHANGED <<shown, lists>>
    BY <2>1, <2>3, Zenon DEF DropFolder, DropFolderAtTop, CreateFolder, DeleteFolder, SelectFolder,
       NewChat, DropChat, DropChatAtTop, RestoreChat
  <2> QED
    BY <1>2, <1>3, <2>2, <2>3 DEF UserActs
<1>4. CASE ServerActs
  <2>1. ASSUME NEW p \in Page, GetFolders(p) PROVE ListsInv'
    <3>0. PICK fs \in SUBSET There(rows) : Lists(p, fs)
      BY <2>1, ListingSteps
    <3>1. Orphans \subseteq fs => Rooted(Raised(fs))
      BY RaisedRooted DEF TypeOK
    <3>2. Rooted([f \in Folder |-> NoRow(Unmade)])
      <4>1. Unmade \notin Place
        BY ConstantsAssumption DEF Place
      <4> QED
        BY <4>1 DEF Rooted, There, NoRow
    <3>a. shown' = shown
      BY <2>1 DEF GetFolders
    <3>b. CASE lists' = lists
      BY <1>2, <3>a, <3>b
    <3> SUFFICES ASSUME lists' # lists PROVE ListsInv'
      BY <3>b
    <3>3. PICK t \in [Folder -> Row] : Rooted(t) /\ Sends(p, t)
      <4>1. Raised(fs) \in [Folder -> Row] /\ [f \in Folder |-> NoRow(Unmade)] \in [Folder -> Row]
        BY RaisedType DEF Row
      <4> QED
        BY <3>0, <3>1, <3>2, <4>1 DEF Lists
    <3>4. \A i \in DOMAIN Append(lists[p], t) :
            \/ i \in DOMAIN lists[p] /\ Append(lists[p], t)[i] = lists[p][i]
            \/ Append(lists[p], t)[i] = t
      <4>1. lists[p] \in Seq([Folder -> Row])
        BY DEF TypeOK, Sent
      <4> QED
        BY <3>3, <4>1, AppendElements
    <3>5. lists' = [lists EXCEPT ![p] = Append(lists[p], t)]
      BY <3>3 DEF Sends
    <3> QED
      BY <3>a, <3>3, <3>4, <3>5 DEF TypeOK, Sent
  <2>2. ASSUME NEW r \in calls,
               \/ UpdateParent(r) \/ CheckName(r) \/ InsertFolder(r) \/ UpdateName(r)
               \/ DeleteRows(r) \/ ReadFolder(r) \/ UpdateChatFolder(r) \/ InsertChat(r)
        PROVE  UNCHANGED <<shown, lists>>
    <3>1. Refuse(r) => UNCHANGED <<shown, lists>>
      BY DEF Refuse
    <3>2. \A what : Made(r, what) => UNCHANGED <<shown, lists>>
      BY DEF Made
    <3>3. \A a, what : MadeAndAnswered(r, a, what) => UNCHANGED <<shown, lists>>
      BY DEF MadeAndAnswered
    <3> QED
      BY <2>2, <3>1, <3>2, <3>3, Zenon DEF UpdateParent, CheckName, InsertFolder, UpdateName,
         DeleteRows, Deletes, ReadFolder, UpdateChatFolder, InsertChat
  <2> QED
    BY <1>2, <1>4, <2>1, <2>2 DEF ServerActs
<1>5. CASE PageGoesOn
  <2>1. ASSUME NEW p \in Page, NEW i \in DOMAIN lists[p], ShowFolders(p, i) PROVE ListsInv'
    <3>1. \A k \in DOMAIN RemoveAt(lists[p], i) :
            \E j \in DOMAIN lists[p] : RemoveAt(lists[p], i)[k] = lists[p][j]
      <4>1. lists[p] \in Seq([Folder -> Row])
        BY DEF TypeOK, Sent
      <4> SUFFICES ASSUME NEW k \in DOMAIN RemoveAt(lists[p], i)
                   PROVE  \E j \in DOMAIN lists[p] : RemoveAt(lists[p], i)[k] = lists[p][j]
        OBVIOUS
      <4>2. /\ k \in 1 .. Len(lists[p]) - 1 /\ Len(lists[p]) \in Nat /\ DOMAIN lists[p] = 1 .. Len(lists[p])
            /\ RemoveAt(lists[p], i)[k] = IF k < i THEN lists[p][k] ELSE lists[p][k + 1]
        BY <4>1, RemoveAtElements
      <4>3. k \in DOMAIN lists[p] /\ k + 1 \in DOMAIN lists[p]
        BY <4>2
      <4> QED
        BY <4>2, <4>3
    <3>2. /\ lists' = [lists EXCEPT ![p] = RemoveAt(lists[p], i)]
          /\ shown' = [shown EXCEPT ![p] = lists[p][i]]
      BY <2>1 DEF ShowFolders
    <3> QED
      BY <3>1, <3>2 DEF TypeOK, Sent
  <2>2. ASSUME NEW r \in calls, Renamed(r) \/ NotRenamed(r) PROVE ListsInv'
    <3>1. r.page \in Page
      BY CallFields DEF TypeOK
    <3>2. \/ UNCHANGED <<shown, lists>>
          \/ \E n : /\ r.folder \in There(shown[r.page]) /\ lists' = lists
                    /\ shown' = [shown EXCEPT ![r.page] = WithName(shown[r.page], r.folder, n)]
      BY <2>2 DEF Renamed, NotRenamed
    <3> QED
      BY <1>1, <1>2, <3>1, <3>2
  <2>3. ASSUME NEW r \in calls, FolderDeleted(r) \/ FolderSelected(r) \/ ChatMade(r)
        PROVE  UNCHANGED <<shown, lists>>
    BY <2>3 DEF FolderDeleted, FolderSelected, ChatMade
  <2> QED
    BY <1>2, <1>5, <2>1, <2>2, <2>3 DEF PageGoesOn
<1> QED
  BY <1>2, <1>3, <1>4, <1>5 DEF Next, vars

\* No page ever shows a folder below one that it does not know.
THEOREM NoPlaceholdersAlways == Spec => []NoPlaceholders
<1>1. Init => ListsInv
  BY DEF Init, Forest, ListsInv, Rooted
<1>2. TypeOK /\ ListsInv /\ [Next]_vars => ListsInv'
  BY ListsStep
<1>3. ListsInv => NoPlaceholders
  BY DEF ListsInv, Rooted, NoPlaceholders
<1> QED
  BY <1>1, <1>2, <1>3, TypeCorrect, PTL DEF Spec

--------------------------------------------------------------------------------
(* What pages are shown, in order *)

\* Folders whose name a page waits for.
Renaming(p) ==
    {f \in Folder : \E r \in calls : /\ r.op \in {"rename", "renamed", "refused"}
                                     /\ r.page = p /\ r.folder = f}

\* A folder that was not made yet is nowhere.
OnlyMade ==
    \A f \in Folder, p \in Page : rows[f].parent = Unmade =>
        /\ f \notin There(shown[p]) /\ f \notin Renaming(p)
        /\ \A i \in DOMAIN lists[p] : f \notin There(lists[p][i])

\* What a page shows or was sent is in everything that comes to it later, unless it
\* is deleted.
InOrder ==
    \A f \in There(rows), p \in Page :
        /\ f \in There(shown[p]) \cup Renaming(p) =>
              f \in There(shown[p]) /\ \A i \in DOMAIN lists[p] : f \in There(lists[p][i])
        /\ \A i, j \in DOMAIN lists[p] :
              i < j /\ f \in There(lists[p][i]) => f \in There(lists[p][j])

OrderInv == OnlyMade /\ (Without({"overtaken", "listFailed"}) => InOrder)

\* What a step may do to what pages show and are sent.
NoNewNames == \A p \in Page : Renaming(p)' \subseteq Renaming(p)

Renames(p, f, n) ==
    /\ shown' = [shown EXCEPT ![p] = WithName(shown[p], f, n)] /\ lists' = lists
    /\ Renaming(p)' \subseteq Renaming(p) \cup {f}
    /\ \A q \in Page \ {p} : Renaming(q)' \subseteq Renaming(q)

Sent1(p, t) ==
    /\ lists' = [lists EXCEPT ![p] = Append(lists[p], t)] /\ shown' = shown
    /\ NoNewNames
    /\ There(t) \subseteq There(rows')
    /\ t = rows' \/ "listFailed" \in upset'

Shows(p, i) ==
    /\ shown' = [shown EXCEPT ![p] = lists[p][i]]
    /\ lists' = [lists EXCEPT ![p] = RemoveAt(lists[p], i)]
    /\ NoNewNames
    /\ i = 1 \/ "overtaken" \in upset'

PageStep ==
    \/ UNCHANGED <<shown, lists>> /\ NoNewNames
    \/ \E p \in Page : \E f \in There(shown[p]), n \in Name : Renames(p, f, n)
    \/ \E p \in Page, t \in [Folder -> Row] : Sent1(p, t)
    \/ \E p \in Page : \E i \in DOMAIN lists[p] : Shows(p, i)

\* Folders come out of ids that were not given out, and never go back there.
LEMMA RowsGoOn ==
    ASSUME TypeOK, [Next]_vars
    PROVE  /\ upset \subseteq upset'
           /\ \A f \in Folder : rows'[f].parent = Unmade => rows[f].parent = Unmade
           /\ \A f \in There(rows') : f \in There(rows) \/ rows[f].parent = Unmade
<1> DEFINE Goal == /\ \A f \in Folder : rows'[f].parent = Unmade => rows[f].parent = Unmade
                   /\ \A f \in There(rows') : f \in There(rows) \/ rows[f].parent = Unmade
<1>0. Unmade \notin Place /\ Unmade # Deleted /\ Root \in Place /\ rows \in [Folder -> Row]
  BY ConstantsAssumption DEF Place, TypeOK
<1>1. ASSUME rows' = rows PROVE Goal
  <2>1. There(rows') = There(rows)
    BY <1>1 DEF There
  <2> QED
    BY <1>1, <2>1
<1>2. ASSUME NEW f \in There(rows), NEW p \in Place, NewParent(f, p) PROVE Goal
  <2>1. rows' = WithParent(rows, f, p)
    BY <1>2 DEF NewParent
  <2>2. There(rows') = There(rows)
    BY <1>0, <2>1, ThereChange
  <2>3. \A g \in Folder : rows'[g].parent \in {rows[g].parent, p}
    BY <1>0, <2>1 DEF WithParent
  <2> QED
    BY <1>0, <2>2, <2>3
<1>3. ASSUME NEW f \in Folder, NEW n \in Name, NewFolder(f, n) PROVE Goal
  BY <1>0, <1>3 DEF NewFolder, There
<1>4. ASSUME NEW f \in There(rows), NEW n \in Name, NewName(f, n) PROVE Goal
  <2>1. rows' = WithName(rows, f, n)
    BY <1>4 DEF NewName
  <2>2. There(rows') = There(rows)
    BY <1>0, <2>1, NameChange
  <2>3. \A g \in Folder : rows'[g].parent = rows[g].parent
    BY <1>0, <2>1 DEF WithName
  <2> QED
    BY <1>0, <2>2, <2>3
<1>5. ASSUME NEW s, NEW t, Deletion(s, t) PROVE Goal
  <2>1. rows' = Removed(s)
    BY <1>5 DEF Deletion
  <2>2. There(rows') = There(rows) \ s
    BY <1>0, <1>5, <2>1, RemoveKeeps DEF Deletion
  <2>3. \A g \in Folder : rows'[g].parent \in {rows[g].parent, Deleted}
    BY <1>0, <2>1 DEF Removed, NoRow
  <2> QED
    BY <1>0, <2>2, <2>3
<1>6. ASSUME NEW fs, Repair(fs) PROVE Goal
  <2>1. rows' = Raised(fs) /\ fs \in SUBSET There(rows)
    BY <1>6 DEF Repair
  <2>2. There(rows') = There(rows)
    BY <1>0, <2>1, RaisedRooted
  <2>3. \A g \in Folder : rows'[g].parent \in {rows[g].parent, Root}
    BY <1>0, <2>1 DEF Raised
  <2> QED
    BY <1>0, <2>2, <2>3
<1>7. CASE ServerActs
  <2>1. upset \subseteq upset' /\ HandlerStep
    BY <1>7, HandlerCases
  <2>2. ASSUME NEW c \in Chat, NEW p \in Place, NewPlace(c, p) PROVE Goal
    BY <1>1, <2>2 DEF NewPlace
  <2> HIDE DEF Goal
  <2>3. Goal
    BY <1>1, <1>2, <1>3, <1>4, <1>5, <1>6, <2>1, <2>2 DEF HandlerStep
  <2> QED
    BY <2>1, <2>3 DEF Goal
<1>8. CASE UserActs \/ PageGoesOn
  BY <1>1, <1>8, OtherSteps
<1>9. CASE UNCHANGED vars
  BY <1>1, <1>9 DEF vars
<1> QED
  BY <1>7, <1>8, <1>9 DEF Next

\* A page waits for a name only after its user gave it.
LEMMA NoNameAdded ==
    ASSUME \A q \in calls' : \/ q \in calls
                             \/ q.op \notin {"rename", "renamed", "refused"}
                             \/ \E r \in calls : r.op = "rename" /\ r.page = q.page /\ r.folder = q.folder
    PROVE  NoNewNames
BY DEF NoNewNames, Renaming

LEMMA UserPages == ASSUME TypeOK, UserActs PROVE PageStep
<1>1. PICK p \in Page :
        \/ DropFolder(p) \/ DropFolderAtTop(p)
        \/ CreateFolder(p) \/ RenameFolder(p) \/ DeleteFolder(p)
        \/ SelectFolder(p) \/ NewChat(p)
        \/ DropChat(p) \/ DropChatAtTop(p) \/ RestoreChat(p)
  BY DEF UserActs
<1>2. ASSUME NEW call, NEW what, Asks(p, call, what), UNCHANGED shown,
             call.op \notin {"rename", "renamed", "refused"}
      PROVE  PageStep
  <2>1. calls' = calls \cup {call} /\ lists' = lists
    BY <1>2 DEF Asks
  <2> QED
    BY <1>2, <2>1, NoNameAdded DEF PageStep
<1>3. CASE DropFolder(p)
  <2>1. PICK f, g \in Visible(shown[p]) : \E what :
          Asks(p, [op |-> "move", page |-> p, folder |-> f, to |-> g], what) /\ UNCHANGED shown
    BY <1>3 DEF DropFolder
  <2> QED
    BY <1>2, <2>1
<1>4. CASE DropFolderAtTop(p) \/ DropChatAtTop(p) \/ NewChat(p) \/ DeleteFolder(p) \/ SelectFolder(p)
  <2>1. PICK f, c : \E what :
          /\ \/ Asks(p, [op |-> "move", page |-> p, folder |-> f, to |-> Root], what)
             \/ Asks(p, [op |-> "moveChat", page |-> p, chat |-> c, to |-> Root], what)
             \/ Asks(p, [op |-> "newChat", page |-> p, to |-> selected[p]], what)
             \/ Asks(p, [op |-> "delete", page |-> p, folder |-> f], what)
             \/ Asks(p, [op |-> "select", page |-> p, folder |-> f], what)
          /\ UNCHANGED shown
    BY <1>4, Zenon DEF DropFolderAtTop, DropChatAtTop, NewChat, DeleteFolder, SelectFolder
  <2> QED
    BY <1>2, <2>1
<1>5. CASE CreateFolder(p)
  <2>1. PICK n \in Name : Asks(p, [op |-> "create", page |-> p, name |-> n], {}) /\ UNCHANGED shown
    BY <1>5 DEF CreateFolder
  <2> QED
    BY <1>2, <2>1
<1>6. CASE RenameFolder(p)
  <2>1. PICK f \in Visible(shown[p]), n \in Name :
          /\ Asks(p, [op |-> "rename", page |-> p, folder |-> f, name |-> n,
                      was |-> shown[p][f].name], {})
          /\ shown' = [shown EXCEPT ![p] = WithName(shown[p], f, n)]
    BY <1>6 DEF RenameFolder
  <2>2. f \in There(shown[p])
    BY BelowThere DEF Visible
  <2> DEFINE call == [op |-> "rename", page |-> p, folder |-> f, name |-> n,
                      was |-> shown[p][f].name]
  <2>3. calls' = calls \cup {call} /\ lists' = lists
    BY <2>1 DEF Asks
  <2>4. call.page = p /\ call.folder = f
    OBVIOUS
  <2> HIDE DEF call
  <2>5. Renames(p, f, n)
    BY <2>1, <2>3, <2>4 DEF Renames, Renaming
  <2> QED
    BY <2>2, <2>5 DEF PageStep
<1>7. CASE DropChat(p)
  <2>1. PICK g, d :
          /\ calls' = calls \cup {[op |-> "moveChat", page |-> p, chat |-> d, to |-> g]}
          /\ UNCHANGED <<shown, lists>>
    BY <1>7 DEF DropChat
  <2> QED
    BY <2>1, NoNameAdded DEF PageStep
<1>8. CASE RestoreChat(p)
  <2>1. calls' = calls /\ UNCHANGED <<shown, lists>>
    BY <1>8 DEF RestoreChat
  <2> QED
    BY <2>1, NoNameAdded DEF PageStep
<1> QED
  BY <1>1, <1>3, <1>4, <1>5, <1>6, <1>7, <1>8

LEMMA ServerPages == ASSUME TypeOK, ServerActs PROVE PageStep
<1>1. ASSUME NEW r \in calls, UNCHANGED <<shown, lists>>,
             \A q \in calls' : \/ q \in calls
                               \/ q.op \notin {"rename", "renamed", "refused"}
                               \/ r.op = "rename" /\ r.page = q.page /\ r.folder = q.folder
      PROVE  PageStep
  BY <1>1, NoNameAdded DEF PageStep
<1>2. ASSUME NEW r \in calls, Refuse(r) PROVE PageStep
  <2>1. calls' = calls \ {r} /\ UNCHANGED <<shown, lists>>
    BY <1>2 DEF Refuse
  <2> QED
    BY <1>1, <2>1
<1>3. ASSUME NEW r \in calls, NEW what, Made(r, what) PROVE PageStep
  <2>1. calls' = calls \ {r} /\ UNCHANGED <<shown, lists>>
    BY <1>3 DEF Made
  <2> QED
    BY <1>1, <2>1
<1>4. ASSUME NEW r \in calls, NEW reply, NEW what, MadeAndAnswered(r, reply, what),
             reply.op \notin {"rename", "renamed", "refused"}
      PROVE  PageStep
  <2>1. calls' \subseteq calls \cup {reply} /\ UNCHANGED <<shown, lists>>
    BY <1>4 DEF MadeAndAnswered
  <2> QED
    BY <1>1, <1>4, <2>1
<1>5. ASSUME NEW r \in calls, UpdateParent(r) \/ UpdateChatFolder(r) \/ InsertFolder(r) PROVE PageStep
  BY <1>2, <1>3, <1>5, Zenon DEF UpdateParent, UpdateChatFolder, InsertFolder
<1>6. ASSUME NEW r \in calls, CheckName(r) \/ ReadFolder(r) PROVE PageStep
  <2>1. \/ Refuse(r)
        \/ /\ \/ calls' = (calls \ {r}) \cup {[op |-> "insert", page |-> r.page, name |-> r.name]}
              \/ calls' = (calls \ {r}) \cup {[op |-> "selected", page |-> r.page, folder |-> r.folder]}
           /\ UNCHANGED <<shown, lists>>
    BY <1>6 DEF CheckName, ReadFolder
  <2> QED
    BY <1>1, <1>2, <2>1
<1>7. ASSUME NEW r \in calls, UpdateName(r) PROVE PageStep
  <2>1. /\ \/ calls' = (calls \ {r}) \cup {Answer(r, "refused")}
           \/ calls' = (calls \ {r}) \cup {Answer(r, "renamed")}
           \/ calls' = calls \ {r}
        /\ UNCHANGED <<shown, lists>> /\ r.op = "rename"
    BY <1>7 DEF UpdateName
  <2>2. \A o : Answer(r, o).page = r.page /\ Answer(r, o).folder = r.folder
    BY DEF Answer
  <2> QED
    BY <1>1, <2>1, <2>2, Zenon
<1>8. ASSUME NEW r \in calls, DeleteRows(r) \/ InsertChat(r) PROVE PageStep
  <2>1. \/ Refuse(r)
        \/ \E what : \/ MadeAndAnswered(r, [op |-> "deleted", page |-> r.page], what)
                     \/ MadeAndAnswered(r, [op |-> "chatMade", page |-> r.page], what)
    BY <1>8, Zenon DEF DeleteRows, Deletes, InsertChat
  <2> QED
    BY <1>2, <1>4, <2>1
<1>9. ASSUME NEW p \in Page, GetFolders(p) PROVE PageStep
  <2>1. \/ lists' = lists
        \/ \E t \in [Folder -> Row] :
              /\ Sends(p, t) /\ There(t) \subseteq There(rows')
              /\ t = rows' \/ "listFailed" \in upset'
    <3>0. PICK fs \in SUBSET There(rows) : Lists(p, fs)
      BY <1>9, ListingSteps
    <3>1. Raised(fs) \in [Folder -> Row] /\ [f \in Folder |-> NoRow(Unmade)] \in [Folder -> Row]
      BY RaisedType DEF Row
    <3>2. There([f \in Folder |-> NoRow(Unmade)]) = {}
      BY ConstantsAssumption DEF There, NoRow, Place
    <3> QED
      BY <3>0, <3>1, <3>2 DEF Lists, Upset
  <2>2. calls' = calls /\ shown' = shown
    BY <1>9 DEF GetFolders
  <2>3. NoNewNames
    BY <2>2, NoNameAdded
  <2> QED
    BY <2>1, <2>2, <2>3 DEF PageStep, Sent1, Sends
<1> QED
  BY <1>5, <1>6, <1>7, <1>8, <1>9 DEF ServerActs

LEMMA AnswerPages == ASSUME TypeOK, PageGoesOn PROVE PageStep
<1>1. ASSUME NEW p \in Page, NEW i \in DOMAIN lists[p], ShowFolders(p, i) PROVE PageStep
  <2>1. /\ shown' = [shown EXCEPT ![p] = lists[p][i]]
        /\ lists' = [lists EXCEPT ![p] = RemoveAt(lists[p], i)]
        /\ calls' = calls
    BY <1>1 DEF ShowFolders
  <2>2. i = 1 \/ "overtaken" \in upset'
    BY <1>1 DEF ShowFolders, Upset, If
  <2>3. NoNewNames
    BY <2>1, NoNameAdded
  <2> QED
    BY <2>1, <2>2, <2>3 DEF PageStep, Shows
<1>2. ASSUME NEW r \in calls, calls' = calls \ {r}, UNCHANGED <<shown, lists>> PROVE PageStep
  BY <1>2, NoNameAdded DEF PageStep
<1>3. ASSUME NEW r \in calls, Renamed(r) \/ NotRenamed(r) PROVE PageStep
  <2>1. r.page \in Page /\ r.name \in Name /\ r.was \in Name
    BY <1>3, CallFields DEF Renamed, NotRenamed, TypeOK
  <2>2. calls' = calls \ {r} /\ lists' = lists
    BY <1>3 DEF Renamed, NotRenamed
  <2>3. NoNewNames
    BY <2>2, NoNameAdded
  <2>4. CASE r.folder \in There(shown[r.page])
    <3>1. PICK n \in Name : shown' = [shown EXCEPT ![r.page] = WithName(shown[r.page], r.folder, n)]
      BY <1>3, <2>1, <2>4 DEF Renamed, NotRenamed
    <3>2. Renames(r.page, r.folder, n)
      BY <2>2, <2>3, <3>1, <2>1 DEF Renames, NoNewNames
    <3> QED
      BY <2>1, <2>4, <3>2 DEF PageStep
  <2>5. CASE r.folder \notin There(shown[r.page])
    BY <1>2, <1>3, <2>2, <2>5 DEF Renamed, NotRenamed
  <2> QED
    BY <2>4, <2>5
<1>4. ASSUME NEW r \in calls, FolderDeleted(r) \/ FolderSelected(r) \/ ChatMade(r) PROVE PageStep
  BY <1>2, <1>4 DEF FolderDeleted, FolderSelected, ChatMade
<1> QED
  BY <1>1, <1>3, <1>4 DEF PageGoesOn

LEMMA StepPages == ASSUME TypeOK, [Next]_vars PROVE PageStep
<1>1. CASE UNCHANGED vars
  BY <1>1, NoNameAdded DEF vars, PageStep
<1> QED
  BY <1>1, UserPages, ServerPages, AnswerPages DEF Next

\* The order of lists is kept.
LEMMA OrderStep == ASSUME TypeOK, OrderInv, [Next]_vars PROVE OrderInv'
<1>1. /\ upset \subseteq upset'
      /\ \A f \in Folder : rows'[f].parent = Unmade => rows[f].parent = Unmade
      /\ \A f \in There(rows') : f \in There(rows) \/ rows[f].parent = Unmade
  BY RowsGoOn
<1>2. PageStep
  BY StepPages
<1>3. /\ \A p \in Page : /\ shown[p] \in [Folder -> Row] /\ lists[p] \in Seq([Folder -> Row])
                         /\ There(shown[p]) \subseteq Folder /\ Renaming(p) \subseteq Folder
                         /\ \A i \in DOMAIN lists[p] : There(lists[p][i]) \subseteq Folder
      /\ \A t : There(t) \subseteq Folder
      /\ shown \in [Page -> [Folder -> Row]] /\ lists \in [Page -> Seq([Folder -> Row])]
  BY DEF TypeOK, Sent, There, Renaming
<1>4. OnlyMade /\ Unmade \notin Place
  BY ConstantsAssumption DEF OrderInv, Place
<1> DEFINE Nowhere(f, p) == /\ f \notin There(shown[p]) /\ f \notin Renaming(p)
                            /\ \A i \in DOMAIN lists[p] : f \notin There(lists[p][i])
           Ordered(f, p) == /\ f \in There(shown[p]) \cup Renaming(p) =>
                                 f \in There(shown[p]) /\ \A i \in DOMAIN lists[p] : f \in There(lists[p][i])
                            /\ \A i, j \in DOMAIN lists[p] :
                                 i < j /\ f \in There(lists[p][i]) => f \in There(lists[p][j])
\* What is nowhere stays nowhere, and what is in order stays in order.
<1>5. ASSUME NEW p \in Page, NEW f \in Folder
      PROVE  /\ f \notin There(rows') /\ Nowhere(f, p) => Nowhere(f, p)'
             /\ f \in There(rows') /\ (Nowhere(f, p) \/ Ordered(f, p)) =>
                  Ordered(f, p)' \/ upset' \cap {"overtaken", "listFailed"} # {}
  <2>1. ASSUME lists'[p] = lists[p], Renaming(p)' \subseteq Renaming(p) \cup There(shown[p]),
               There(shown'[p]) = There(shown[p])
        PROVE  /\ Nowhere(f, p) => Nowhere(f, p)'
               /\ Nowhere(f, p) \/ Ordered(f, p) => Ordered(f, p)'
    BY <2>1, Zenon
  <2>2. CASE UNCHANGED <<shown, lists>> /\ NoNewNames
    BY <2>1, <2>2 DEF NoNewNames
  <2>3. ASSUME NEW q \in Page, NEW g \in There(shown[q]), NEW n \in Name, Renames(q, g, n)
        PROVE  /\ Nowhere(f, p) => Nowhere(f, p)'
               /\ Nowhere(f, p) \/ Ordered(f, p) => Ordered(f, p)'
    <3>1. There(WithName(shown[q], g, n)) = There(shown[q])
      <4>1. shown[q] \in [Folder -> Row]
        BY <1>3
      <4> QED
        BY <2>3, <4>1 DEF There, WithName
    <3>2. shown' = [shown EXCEPT ![q] = WithName(shown[q], g, n)]
      BY <2>3 DEF Renames
    <3>3. shown'[p] = IF p = q THEN WithName(shown[q], g, n) ELSE shown[p]
      BY <1>3, <3>2
    <3>4. There(shown'[p]) = There(shown[p])
      <4>1. CASE p = q
        BY <3>1, <3>3, <4>1
      <4>2. CASE p # q
        BY <3>3, <4>2
      <4> QED
        BY <4>1, <4>2
    <3>5. lists'[p] = lists[p] /\ Renaming(p)' \subseteq Renaming(p) \cup There(shown[p])
      BY <2>3 DEF Renames
    <3> QED
      BY <2>1, <3>4, <3>5
  <2>4. ASSUME NEW q \in Page, NEW t \in [Folder -> Row], Sent1(q, t)
        PROVE  /\ f \notin There(rows') /\ Nowhere(f, p) => Nowhere(f, p)'
               /\ f \in There(rows') /\ (Nowhere(f, p) \/ Ordered(f, p)) =>
                    Ordered(f, p)' \/ upset' \cap {"overtaken", "listFailed"} # {}
    <3>1. lists'[p] = IF p = q THEN Append(lists[p], t) ELSE lists[p]
      BY <1>3, <2>4 DEF Sent1
    <3>2. shown' = shown /\ Renaming(p)' \subseteq Renaming(p)
      BY <2>4 DEF Sent1, NoNewNames
    <3>3. CASE p # q
      BY <2>1, <3>1, <3>2, <3>3
    <3>4. CASE p = q
      <4> DEFINE s == lists[p]
                 u == Append(s, t)
      <4>1. /\ DOMAIN s = 1 .. Len(s) /\ DOMAIN u = 1 .. Len(s) + 1 /\ Len(s) \in Nat
            /\ \A i \in 1 .. Len(s) : u[i] = s[i]
            /\ u[Len(s) + 1] = t
        BY <1>3, AppendElements
      <4>2. lists'[p] = u
        BY <3>1, <3>4
      <4> HIDE DEF u
      <4>3. \A i \in DOMAIN u : (i \in DOMAIN s /\ u[i] = s[i]) \/ (i = Len(s) + 1 /\ u[i] = t)
        BY <4>1
      <4>4. \A i, j \in DOMAIN u : i < j => i \in DOMAIN s /\ u[i] = s[i]
        BY <4>1
      <4> HIDE DEF s
      <4>5. ASSUME f \notin There(rows'), Nowhere(f, p) PROVE Nowhere(f, p)'
        <5>1. f \notin There(t)
          BY <2>4, <4>5 DEF Sent1
        <5> QED
          BY <3>2, <4>2, <4>3, <4>5, <5>1 DEF s
      <4>6. ASSUME f \in There(rows'), Nowhere(f, p) \/ Ordered(f, p),
                   upset' \cap {"overtaken", "listFailed"} = {}
            PROVE  Ordered(f, p)'
        <5>1. f \in There(t)
          BY <2>4, <4>6 DEF Sent1
        <5>2. f \in There(shown[p]) \cup Renaming(p) =>
                f \in There(shown[p]) /\ \A i \in DOMAIN u : f \in There(u[i])
          BY <4>3, <4>6, <5>1 DEF s
        <5>3. ASSUME NEW i \in DOMAIN u, NEW j \in DOMAIN u, i < j, f \in There(u[i])
              PROVE  f \in There(u[j])
          BY <4>3, <4>4, <4>6, <5>1, <5>3 DEF s
        <5> QED
          BY <3>2, <4>2, <5>2, <5>3
      <4> QED
        BY <4>5, <4>6
    <3> QED
      BY <3>3, <3>4
  <2>5. ASSUME NEW q \in Page, NEW k \in DOMAIN lists[q], Shows(q, k)
        PROVE  /\ Nowhere(f, p) => Nowhere(f, p)'
               /\ Nowhere(f, p) \/ Ordered(f, p) =>
                    Ordered(f, p)' \/ upset' \cap {"overtaken", "listFailed"} # {}
    <3>1. /\ lists'[p] = IF p = q THEN RemoveAt(lists[p], k) ELSE lists[p]
          /\ shown'[p] = IF p = q THEN lists[p][k] ELSE shown[p]
      BY <1>3, <2>5 DEF Shows
    <3>2. Renaming(p)' \subseteq Renaming(p)
      BY <2>5 DEF Shows, NoNewNames
    <3>3. CASE p # q
      BY <2>1, <3>1, <3>2, <3>3
    <3>4. CASE p = q
      <4> DEFINE s == lists[p]
                 u == RemoveAt(s, k)
      <4>0. s \in Seq([Folder -> Row]) /\ k \in DOMAIN s
        BY <1>3, <3>4
      <4>1. /\ DOMAIN s = 1 .. Len(s) /\ Len(s) \in Nat \ {0} /\ DOMAIN u = 1 .. Len(s) - 1
            /\ \A i \in 1 .. Len(s) - 1 : u[i] = IF i < k THEN s[i] ELSE s[i + 1]
        BY <4>0, RemoveAtElements
      <4>2. lists'[p] = u /\ shown'[p] = s[k] /\ k \in DOMAIN s
        BY <3>1, <3>4
      <4> HIDE DEF u
      <4>3. \A i \in DOMAIN u : \E j \in DOMAIN s : u[i] = s[j]
        <5> SUFFICES ASSUME NEW i \in DOMAIN u PROVE \E j \in DOMAIN s : u[i] = s[j]
          OBVIOUS
        <5>1. i \in DOMAIN s /\ i + 1 \in DOMAIN s
          BY <4>1
        <5> QED
          BY <4>1, <5>1
      <4>4. k = 1 => \A i \in DOMAIN u : /\ i + 1 \in DOMAIN s /\ 1 < i + 1 /\ u[i] = s[i + 1]
                                         /\ \A j \in DOMAIN u : i < j => i + 1 < j + 1
        BY <4>1
      <4>5. k = 1 \/ "overtaken" \in upset'
        BY <2>5 DEF Shows
      <4> HIDE DEF s
      <4>6. ASSUME Nowhere(f, p) PROVE Nowhere(f, p)' /\ Ordered(f, p)'
        <5>1. f \notin There(s[k]) /\ \A i \in DOMAIN u : f \notin There(u[i])
          BY <4>2, <4>3, <4>6 DEF s
        <5> QED
          BY <3>2, <4>2, <4>6, <5>1
      <4>7. ASSUME k = 1, Ordered(f, p) PROVE Ordered(f, p)'
        <5>1. ASSUME f \in There(s[1]) \cup Renaming(p)
              PROVE  f \in There(s[1]) /\ \A i \in DOMAIN u : f \in There(u[i])
          BY <4>2, <4>4, <4>7, <5>1 DEF s
        <5>2. ASSUME NEW i \in DOMAIN u, NEW j \in DOMAIN u, i < j, f \in There(u[i])
              PROVE  f \in There(u[j])
          BY <4>4, <4>7, <5>2 DEF s
        <5> QED
          BY <3>2, <4>2, <4>7, <5>1, <5>2
      <4> QED
        BY <4>5, <4>6, <4>7
    <3> QED
      BY <3>3, <3>4
  <2> HIDE DEF Nowhere, Ordered
  <2> QED
    BY <1>2, <2>2, <2>3, <2>4, <2>5 DEF PageStep, NoNewNames
<1>6. OnlyMade'
  <2> SUFFICES ASSUME NEW f \in Folder, NEW p \in Page, rows'[f].parent = Unmade
               PROVE  Nowhere(f, p)'
    BY DEF OnlyMade
  <2>1. Nowhere(f, p) /\ f \notin There(rows')
    BY <1>1, <1>4 DEF OnlyMade, There
  <2> QED
    BY <1>5, <2>1
<1>7. ASSUME Without({"overtaken", "listFailed"})' PROVE InOrder'
  <2>1. InOrder
    BY <1>1, <1>7 DEF OrderInv, Without
  <2> SUFFICES ASSUME NEW f \in There(rows'), NEW p \in Page PROVE Ordered(f, p)'
    BY DEF InOrder
  <2>2. Nowhere(f, p) \/ Ordered(f, p)
    BY <1>1, <1>3, <1>4, <2>1 DEF OnlyMade, InOrder
  <2>3. f \in Folder
    BY <1>3
  <2> HIDE DEF Nowhere, Ordered
  <2> QED
    BY <1>5, <1>7, <2>2, <2>3 DEF Without
<1> QED
  BY <1>6, <1>7 DEF OrderInv

LEMMA OrderAlways == Spec => []OrderInv
<1>1. ASSUME Init PROVE OrderInv
  <2>1. \A p \in Page : shown[p] = rows /\ Renaming(p) = {} /\ DOMAIN lists[p] = {}
    BY <1>1 DEF Init, Renaming
  <2>2. Unmade \notin Place
    BY ConstantsAssumption DEF Place
  <2> QED
    BY <2>1, <2>2 DEF OrderInv, OnlyMade, InOrder, There
<1>2. TypeOK /\ OrderInv /\ [Next]_vars => OrderInv'
  BY OrderStep
<1> QED
  BY <1>1, <1>2, TypeCorrect, PTL DEF Spec

--------------------------------------------------------------------------------
(* The page of the last change *)

Mishaps == {"answerLost", "nullAnswer", "overtaken", "listFailed", "restored"}

\* A page shows the rows but for names that it waits for.
AsStored(p) ==
    \A f \in Folder :
        \/ shown[p][f] = rows[f]
        \/ shown[p][f].parent = rows[f].parent /\ f \in Renaming(p)

\* A page will ask for a list once it has an reply.
WillAsk(p) ==
    \E r \in calls : /\ r.page = p
                     /\ r.op = "deleted" \/ (r.op = "renamed" /\ r.folder \in There(rows))

ListComes(p) == lists[p] # <<>> /\ lists[p][Len(lists[p])] = rows

\* A page shows the rows, or comes to show them.
Coming(p) ==
    \/ reloads[p] > 0 \/ WillAsk(p)
    \/ ListComes(p)
    \/ lists[p] = <<>> /\ AsStored(p)

ComingInv == upset \cap Mishaps = {} => Coming(last)

\* A step that leaves a page alone, and what it waits for.
Leaves(p) ==
    /\ rows' = rows /\ shown'[p] = shown[p] /\ lists'[p] = lists[p]
    /\ reloads[p] > 0 => reloads'[p] > 0
    /\ Renaming(p) \subseteq Renaming(p)'
    /\ \A r \in calls : r.page = p /\ r.op \in {"deleted", "renamed"} => r \in calls'

LEMMA LeavesComing == ASSUME NEW p, Leaves(p), Coming(p) PROVE Coming(p)'
BY DEF Leaves, Coming, WillAsk, ListComes, AsStored, There

\* A page waits for the names that it waited for while the calls go on.
LEMMA StillRenaming ==
    ASSUME \A r \in calls : r.op \in {"rename", "renamed", "refused"} =>
             \E q \in calls' : /\ q.op \in {"rename", "renamed", "refused"}
                               /\ q.page = r.page /\ q.folder = r.folder
    PROVE  \A p : Renaming(p) \subseteq Renaming(p)'
BY DEF Renaming

\* What the user does.
LEMMA UserComing == ASSUME TypeOK, UserActs, Coming(last) PROVE Coming(last)'
<1>1. PICK p \in Page :
        \/ DropFolder(p) \/ DropFolderAtTop(p)
        \/ CreateFolder(p) \/ RenameFolder(p) \/ DeleteFolder(p)
        \/ SelectFolder(p) \/ NewChat(p)
        \/ DropChat(p) \/ DropChatAtTop(p) \/ RestoreChat(p)
  BY DEF UserActs
<1>2. ASSUME NEW call, NEW what, Asks(p, call, what)
      PROVE  /\ UNCHANGED <<rows, lists, reloads, last>>
             /\ calls \subseteq calls' /\ call \in calls'
             /\ \A q : Renaming(q) \subseteq Renaming(q)'
  <2>1. UNCHANGED <<rows, lists, reloads, last>> /\ calls' = calls \cup {call}
    BY <1>2 DEF Asks, server
  <2> QED
    BY <2>1, StillRenaming
<1>3. ASSUME NEW call, NEW what, Asks(p, call, what), UNCHANGED shown PROVE Coming(last)'
  <2>1. Leaves(last) /\ last' = last
    BY <1>2, <1>3 DEF Leaves
  <2> QED
    BY <2>1, LeavesComing
<1>4. CASE RenameFolder(p)
  <2>1. PICK f \in Visible(shown[p]), n \in Name : \E was :
          /\ Asks(p, [op |-> "rename", page |-> p, folder |-> f, name |-> n, was |-> was], {})
          /\ shown' = [shown EXCEPT ![p] = WithName(shown[p], f, n)]
    BY <1>4 DEF RenameFolder
  <2>2. f \in There(shown[p]) /\ f \in Folder
    BY BelowThere DEF Visible, There
  <2>3. PICK was :
          Asks(p, [op |-> "rename", page |-> p, folder |-> f, name |-> n, was |-> was], {})
    BY <2>1
  <2> DEFINE call == [op |-> "rename", page |-> p, folder |-> f, name |-> n, was |-> was]
  <2>4. call.op = "rename" /\ call.page = p /\ call.folder = f
    OBVIOUS
  <2> HIDE DEF call
  <2>5. /\ UNCHANGED <<rows, lists, reloads, last>>
        /\ calls \subseteq calls' /\ call \in calls'
        /\ \A q : Renaming(q) \subseteq Renaming(q)'
    BY <1>2, <2>3 DEF call
  <2>6. f \in Renaming(p)'
    BY <2>2, <2>4, <2>5 DEF Renaming
  <2>7. CASE p # last
    <3>1. shown'[last] = shown[last]
      BY <2>1, <2>7 DEF TypeOK
    <3>2. Leaves(last)
      BY <2>5, <3>1 DEF Leaves
    <3> QED
      BY <2>5, <3>2, LeavesComing
  <2>8. CASE p = last
    <3>1. shown'[p] = WithName(shown[p], f, n)
      BY <2>1 DEF TypeOK
    <3>2. \A g \in Folder : g # f => shown'[p][g] = shown[p][g]
      BY <3>1 DEF WithName, TypeOK
    <3>3. shown'[p][f].parent = shown[p][f].parent
      BY <2>2, <3>1 DEF WithName, TypeOK
    <3>4. AsStored(p) => AsStored(p)'
      <4> SUFFICES ASSUME AsStored(p), NEW g \in Folder
                   PROVE  \/ shown'[p][g] = rows'[g]
                          \/ shown'[p][g].parent = rows'[g].parent /\ g \in Renaming(p)'
        BY DEF AsStored
      <4>1. \/ shown[p][g] = rows[g]
            \/ shown[p][g].parent = rows[g].parent /\ g \in Renaming(p)
        BY DEF AsStored
      <4>2. shown[p][g].parent = rows[g].parent
        BY <4>1
      <4>3. CASE g = f
        BY <2>5, <2>6, <3>3, <4>2, <4>3
      <4>4. CASE g # f
        BY <2>5, <3>2, <4>1, <4>4
      <4> QED
        BY <4>3, <4>4
    <3>5. (reloads[p] > 0 => reloads'[p] > 0) /\ (WillAsk(p) => WillAsk(p)') /\ (ListComes(p) => ListComes(p)')
      BY <2>5 DEF WillAsk, ListComes, There
    <3> QED
      BY <2>5, <2>8, <3>4, <3>5 DEF Coming
  <2> QED
    BY <2>7, <2>8
<1>5. CASE \/ DropFolder(p) \/ DropFolderAtTop(p) \/ CreateFolder(p) \/ DeleteFolder(p)
           \/ SelectFolder(p) \/ NewChat(p) \/ DropChatAtTop(p)
  <2>1. \E call, what : Asks(p, call, what) /\ UNCHANGED shown
    BY <1>5, Zenon DEF DropFolder, DropFolderAtTop, CreateFolder, DeleteFolder, SelectFolder,
       NewChat, DropChatAtTop
  <2> QED
    BY <1>3, <2>1
<1>6. CASE DropChat(p) \/ RestoreChat(p)
  <2>1. /\ UNCHANGED <<rows, shown, lists, last>> /\ calls \subseteq calls'
        /\ reloads' = reloads \/ reloads' = [reloads EXCEPT ![p] = @ + 1]
    BY <1>6 DEF DropChat, RestoreChat
  <2>2. last \in Page /\ reloads \in [Page -> Nat]
    BY DEF TypeOK
  <2>3. reloads[last] > 0 => reloads'[last] > 0
    BY <2>1, <2>2
  <2>4. Leaves(last)
    BY <2>1, <2>3, StillRenaming DEF Leaves
  <2> QED
    BY <2>1, <2>4, LeavesComing
<1> QED
  BY <1>1, <1>4, <1>5, <1>6

\* What the handlers do.
LEMMA ServerComing ==
    ASSUME TypeOK, ServerActs, Coming(last), upset' \cap Mishaps = {}
    PROVE  Coming(last)'
<1>0. /\ last \in Page /\ reloads \in [Page -> Nat] /\ rows \in [Folder -> Row]
      /\ \A r \in calls : r.page \in Page
  BY CallFields DEF TypeOK
<1>1. ASSUME NEW r \in calls, r.op \notin {"deleted", "rename", "renamed", "refused"},
             calls \ {r} \subseteq calls', UNCHANGED <<rows, shown, lists, last>>,
             \/ reloads' = reloads \/ reloads' = [reloads EXCEPT ![r.page] = @ + 1]
      PROVE  Coming(last)'
  <2>1. reloads[last] > 0 => reloads'[last] > 0
    BY <1>0, <1>1
  <2>2. \A q \in calls : q.op \in {"deleted", "rename", "renamed", "refused"} => q \in calls'
    BY <1>1
  <2>3. \A p : Renaming(p) \subseteq Renaming(p)'
    BY <2>2, StillRenaming
  <2>4. Leaves(last)
    BY <1>1, <2>1, <2>2, <2>3 DEF Leaves
  <2> QED
    BY <1>1, <2>4, LeavesComing
<1>2. ASSUME NEW r \in calls, r.op \notin {"deleted", "rename", "renamed", "refused"}, Refuse(r)
      PROVE  Coming(last)'
  <2>1. /\ calls' = calls \ {r} /\ UNCHANGED <<rows, shown, lists, last>>
        /\ \/ reloads' = reloads \/ reloads' = [reloads EXCEPT ![r.page] = @ + 1]
    BY <1>2 DEF Refuse, Reloads, server
  <2> QED
    BY <1>1, <1>2, <2>1
<1>3. ASSUME NEW r \in calls, r.op \notin {"deleted", "rename", "renamed", "refused"},
             NEW what, Made(r, what)
      PROVE  Coming(last)'
  <2>1. /\ calls' = calls \ {r} /\ UNCHANGED <<shown, lists>>
        /\ last' = IF rows' = rows THEN last ELSE r.page
        /\ reloads' = [reloads EXCEPT ![r.page] = @ + 1]
    BY <1>3 DEF Made, Upset, Mishaps
  <2>2. CASE rows' = rows
    BY <1>1, <1>3, <2>1, <2>2
  <2>3. CASE rows' # rows
    <3>1. last' = r.page /\ reloads'[r.page] > 0
      BY <1>0, <2>1, <2>3
    <3> QED
      BY <3>1 DEF Coming
  <2> QED
    BY <2>2, <2>3
<1>4. ASSUME NEW r \in calls, r.op \notin {"deleted", "rename", "renamed", "refused"},
             NEW what, NEW reply, MadeAndAnswered(r, reply, what),
             rows' = rows \/ (reply.op = "deleted" /\ reply.page = r.page)
      PROVE  Coming(last)'
  <2>1. /\ calls' = (calls \ {r}) \cup {reply} /\ UNCHANGED <<shown, lists, reloads>>
        /\ last' = IF rows' = rows THEN last ELSE r.page
    BY <1>4 DEF MadeAndAnswered, Upset, Mishaps
  <2>2. CASE rows' = rows
    BY <1>1, <1>4, <2>1, <2>2
  <2>3. CASE rows' # rows
    <3>1. last' = r.page /\ reply \in calls'
      BY <2>1, <2>3
    <3> QED
      BY <1>4, <2>3, <3>1 DEF Coming, WillAsk
  <2> QED
    BY <2>2, <2>3
<1>5. ASSUME NEW r \in calls, UpdateParent(r) \/ InsertFolder(r) \/ UpdateChatFolder(r) PROVE Coming(last)'
  <2>1. r.op \notin {"deleted", "rename", "renamed", "refused"}
    BY <1>5 DEF UpdateParent, InsertFolder, UpdateChatFolder
  <2>2. Refuse(r) \/ \E what : Made(r, what)
    BY <1>5, Zenon DEF UpdateParent, InsertFolder, UpdateChatFolder
  <2> QED
    BY <1>2, <1>3, <2>1, <2>2
<1>6. ASSUME NEW r \in calls, CheckName(r) \/ ReadFolder(r) PROVE Coming(last)'
  <2>1. r.op \notin {"deleted", "rename", "renamed", "refused"}
    BY <1>6 DEF CheckName, ReadFolder
  <2>2. \/ Refuse(r)
        \/ calls \ {r} \subseteq calls' /\ UNCHANGED <<rows, shown, lists, last, reloads>>
    BY <1>6 DEF CheckName, ReadFolder, server
  <2> QED
    BY <1>1, <1>2, <2>1, <2>2
<1>7. ASSUME NEW r \in calls, DeleteRows(r) \/ InsertChat(r) PROVE Coming(last)'
  <2>1. r.op \notin {"deleted", "rename", "renamed", "refused"}
    BY <1>7 DEF DeleteRows, InsertChat
  <2>2. \/ Refuse(r)
        \/ \E what : \/ MadeAndAnswered(r, [op |-> "deleted", page |-> r.page], what)
                     \/ /\ MadeAndAnswered(r, [op |-> "chatMade", page |-> r.page], what)
                        /\ rows' = rows
    BY <1>7, Zenon DEF DeleteRows, Deletes, InsertChat
  <2> QED
    BY <1>2, <1>4, <2>1, <2>2
<1>8. ASSUME NEW r \in calls, UpdateName(r) PROVE Coming(last)'
  <2>1. /\ \A o : Answer(r, o).op = o /\ Answer(r, o).page = r.page /\ Answer(r, o).folder = r.folder
        /\ r.op = "rename"
    BY <1>8 DEF Answer, UpdateName
  <2>0. UNCHANGED <<shown, reloads, lists>>
    BY <1>8 DEF UpdateName
  <2>2. CASE /\ calls' = (calls \ {r}) \cup {Answer(r, "refused")}
             /\ UNCHANGED <<server, last, upset>>
    <3>1. Answer(r, "refused") \in calls' /\ \A q \in calls : q # r => q \in calls'
      BY <2>2
    <3>2. \A p : Renaming(p) \subseteq Renaming(p)'
      BY <2>1, <3>1, StillRenaming
    <3>3. Leaves(last)
      BY <2>0, <2>1, <2>2, <3>1, <3>2 DEF Leaves, server
    <3> QED
      BY <2>2, <3>3, LeavesComing
  <2>3. CASE /\ r.folder \in There(rows) /\ rows' = WithName(rows, r.folder, r.name)
             /\ last' = r.page
             /\ \/ calls' = (calls \ {r}) \cup {Answer(r, "renamed")}
                \/ \E what : Upset(what \cup {"answerLost"})
    <3>1. Answer(r, "renamed") \in calls'
      BY <2>3 DEF Upset, Mishaps
    <3>2. r.folder \in There(rows')
      BY <1>0, <2>3, NameChange
    <3>3. WillAsk(r.page)'
      BY <2>1, <3>1, <3>2 DEF WillAsk
    <3> QED
      BY <2>3, <3>3 DEF Coming
  <2>4. ~Upset({"nullAnswer"})
    BY DEF Upset, Mishaps
  <2> QED
    BY <1>8, <2>2, <2>3, <2>4, Zenon DEF UpdateName
<1>9. ASSUME NEW p \in Page, GetFolders(p) PROVE Coming(last)'
  <2>0. PICK fs \in SUBSET There(rows) : Lists(p, fs)
    BY <1>9, ListingSteps
  <2>1. /\ reloads' = [reloads EXCEPT ![p] = @ - 1] /\ calls' = calls /\ shown' = shown
        /\ rows' = Raised(fs) /\ Sends(p, Raised(fs))
        /\ last' = IF rows' = rows THEN last ELSE p
    BY <1>9, <2>0 DEF GetFolders, Lists, Upset, Mishaps
  <2>2. ListComes(p)'
    <3>1. lists[p] \in Seq([Folder -> Row]) /\ Raised(fs) \in [Folder -> Row]
      BY RaisedType DEF TypeOK, Sent
    <3> DEFINE u == Append(lists[p], Raised(fs))
    <3>2. u # <<>> /\ u[Len(u)] = Raised(fs)
      BY <3>1, AppendElements
    <3>3. lists'[p] = u
      BY <2>1 DEF Sends, TypeOK, Sent
    <3> HIDE DEF u
    <3> QED
      BY <2>1, <3>2, <3>3 DEF ListComes
  <2>3. CASE last' = p
    BY <2>2, <2>3 DEF Coming
  <2>4. CASE last' # p
    <3>1. rows' = rows /\ last' = last /\ last # p
      BY <2>1, <2>4
    <3>2. lists'[last] = lists[last] /\ reloads'[last] = reloads[last]
      BY <1>0, <2>1, <3>1 DEF Sends, TypeOK, Sent
    <3>3. \A q : Renaming(q) \subseteq Renaming(q)'
      BY <2>1, StillRenaming
    <3>4. Leaves(last)
      BY <2>1, <3>1, <3>2, <3>3 DEF Leaves
    <3> QED
      BY <3>1, <3>4, LeavesComing
  <2> QED
    BY <2>3, <2>4
<1> QED
  BY <1>5, <1>6, <1>7, <1>8, <1>9 DEF ServerActs

\* What the pages do with answers.
LEMMA PageComing ==
    ASSUME TypeOK, InOrder, PageGoesOn, Coming(last), upset' \cap Mishaps = {}
    PROVE  Coming(last)'
<1>0. /\ last \in Page /\ reloads \in [Page -> Nat] /\ rows \in [Folder -> Row]
      /\ shown \in [Page -> [Folder -> Row]] /\ lists \in [Page -> Seq([Folder -> Row])]
      /\ \A r \in calls : r.page \in Page
  BY CallFields DEF TypeOK, Sent
<1>1. ASSUME NEW p \in Page, NEW i \in DOMAIN lists[p], ShowFolders(p, i) PROVE Coming(last)'
  <2>1. /\ shown' = [shown EXCEPT ![p] = lists[p][1]]
        /\ lists' = [lists EXCEPT ![p] = RemoveAt(lists[p], 1)]
        /\ UNCHANGED <<rows, calls, reloads, last>> /\ i = 1
    BY <1>1 DEF ShowFolders, server, Upset, If, Mishaps
  <2>2. \A q : Renaming(q) \subseteq Renaming(q)'
    BY <2>1, StillRenaming
  <2>3. CASE p # last
    <3>1. shown'[last] = shown[last] /\ lists'[last] = lists[last]
      BY <1>0, <2>1, <2>3
    <3>2. Leaves(last)
      BY <2>1, <2>2, <3>1 DEF Leaves
    <3> QED
      BY <2>1, <3>2, LeavesComing
  <2>4. CASE p = last
    <3> DEFINE s == lists[p]
               u == RemoveAt(s, 1)
    <3>1. /\ s \in Seq([Folder -> Row]) /\ 1 \in DOMAIN s /\ u \in Seq([Folder -> Row])
          /\ Len(s) \in Nat \ {0} /\ DOMAIN s = 1 .. Len(s) /\ Len(u) = Len(s) - 1
          /\ \A k \in 1 .. Len(s) - 1 : u[k] = s[k + 1]
      <4>1. s \in Seq([Folder -> Row]) /\ 1 \in DOMAIN s
        BY <1>0, <2>1
      <4>2. /\ u \in Seq([Folder -> Row]) /\ Len(s) \in Nat \ {0} /\ DOMAIN s = 1 .. Len(s)
            /\ Len(u) = Len(s) - 1
            /\ \A k \in 1 .. Len(s) - 1 : u[k] = IF k < 1 THEN s[k] ELSE s[k + 1]
        BY <4>1, RemoveAtElements
      <4> QED
        BY <4>1, <4>2
    <3>2. lists'[p] = u /\ shown'[p] = s[1] /\ s # <<>>
      <4>1. s # <<>>
        BY <3>1, EmptySeq
      <4> QED
        BY <1>0, <2>1, <4>1
    <3> HIDE DEF u
    <3>3. CASE ListComes(p) /\ Len(s) = 1
      <4>1. u = <<>> /\ s[1] = rows
        BY <3>1, <3>3, EmptySeq DEF ListComes
      <4>2. AsStored(p)'
        BY <2>1, <3>2, <4>1 DEF AsStored
      <4> QED
        BY <2>1, <2>4, <3>2, <4>1, <4>2 DEF Coming
    <3>4. CASE ListComes(p) /\ Len(s) # 1
      <4>0. Len(s) \in Nat /\ Len(s) # 0 /\ Len(s) # 1
        BY <3>1, <3>4
      <4>1. Len(s) - 1 \in 1 .. Len(s) - 1 /\ (Len(s) - 1) + 1 = Len(s)
        <5>1. \A n \in Nat : n # 0 /\ n # 1 => n - 1 \in 1 .. n - 1 /\ (n - 1) + 1 = n
          OBVIOUS
        <5> QED
          BY <4>0, <5>1
      <4> HIDE DEF s
      <4>2. u[Len(u)] = s[Len(s)]
        BY <3>1, <4>1
      <4>3. u # <<>>
        BY <3>1, <4>1, EmptySeq
      <4> QED
        BY <2>1, <2>4, <3>2, <3>4, <4>2, <4>3 DEF Coming, ListComes, s
    <3>5. CASE reloads[p] > 0 \/ WillAsk(p)
      BY <2>1, <2>4, <3>5 DEF Coming, WillAsk
    <3> QED
      BY <2>4, <3>2, <3>3, <3>4, <3>5 DEF Coming
  <2> QED
    BY <2>3, <2>4
\* An answer that is no refusal of a name is taken by another page, or asks for a list.
<1>2. ASSUME NEW r \in calls, calls' = calls \ {r}, UNCHANGED <<rows, lists, last>>,
             \A p \in Page \ {r.page} : shown'[p] = shown[p] /\ reloads'[p] = reloads[p],
             r.page # last
      PROVE  Coming(last)'
  <2>1. shown'[last] = shown[last] /\ reloads'[last] = reloads[last]
    BY <1>0, <1>2
  <2>2. \A q \in calls : q.page = last => q \in calls'
    BY <1>2
  <2>3. Renaming(last) \subseteq Renaming(last)'
    BY <1>2, <2>2 DEF Renaming
  <2>4. Leaves(last)
    BY <1>2, <2>1, <2>2, <2>3 DEF Leaves
  <2> QED
    BY <1>2, <2>4, LeavesComing
<1>3. ASSUME NEW r \in calls, FolderDeleted(r) \/ FolderSelected(r) \/ ChatMade(r) PROVE Coming(last)'
  <2>1. /\ calls' = calls \ {r} /\ UNCHANGED <<rows, lists, last, shown>>
        /\ IF r.op = "deleted" THEN reloads' = [reloads EXCEPT ![r.page] = @ + 1]
                               ELSE reloads' = reloads /\ r.op \in {"selected", "chatMade"}
    BY <1>3 DEF FolderDeleted, FolderSelected, ChatMade, server
  <2>2. CASE r.page # last
    BY <1>0, <1>2, <2>1, <2>2
  <2>3. CASE r.page = last /\ r.op = "deleted"
    BY <1>0, <2>1, <2>3 DEF Coming
  <2>4. CASE r.op # "deleted"
    <3>1. \A q \in calls : q.op \in {"deleted", "rename", "renamed", "refused"} => q \in calls'
      BY <2>1, <2>4
    <3>2. \A p : Renaming(p) \subseteq Renaming(p)'
      BY <3>1, StillRenaming
    <3>3. Leaves(last)
      BY <2>1, <2>4, <3>1, <3>2 DEF Leaves
    <3> QED
      BY <2>1, <3>3, LeavesComing
  <2> QED
    BY <2>2, <2>3, <2>4
\* A folder that is not shown has the same row everywhere.
<1>4. ASSUME NEW p \in Page, NEW f \in Folder, f \notin There(shown[p]),
             shown[p][f].parent = rows[f].parent
      PROVE  shown[p][f] = rows[f]
  <2>1. shown[p][f] \in Row /\ rows[f] \in Row
    BY <1>0
  <2>2. shown[p][f].parent \notin Place
    BY <1>4 DEF There
  <2> QED
    BY <1>4, <2>1, <2>2 DEF Row, NoRow
\* What remains of a page's names when one has been answered.
<1>5. ASSUME NEW r \in calls, calls' = calls \ {r}, NEW p \in Page, NEW g \in Folder, g # r.folder,
             g \in Renaming(p)
      PROVE  g \in Renaming(p)'
  BY <1>5 DEF Renaming
<1>6. ASSUME NEW r \in calls, Renamed(r) PROVE Coming(last)'
  <2>1. /\ calls' = calls \ {r} /\ UNCHANGED <<rows, lists, last>> /\ r.op = "renamed"
        /\ r.folder \in Folder
    BY <1>6, CallFields DEF Renamed, server, TypeOK
  <2>2. CASE r.page # last
    <3>1. \A p \in Page \ {r.page} : shown'[p] = shown[p] /\ reloads'[p] = reloads[p]
      BY <1>0, <1>6 DEF Renamed
    <3> QED
      BY <1>2, <2>1, <2>2, <3>1
  <2>3. CASE r.page = last /\ r.folder \in There(shown[last])
    <3>1. reloads'[last] > 0
      BY <1>0, <1>6, <2>3 DEF Renamed
    <3> QED
      BY <2>1, <3>1 DEF Coming
  <2>4. CASE r.page = last /\ r.folder \notin There(shown[last])
    <3>1. UNCHANGED <<shown, reloads>>
      BY <1>6, <2>4 DEF Renamed
    <3>2. r.folder \notin There(rows)
      <4>1. r.folder \in Renaming(last)
        BY <2>1, <2>4 DEF Renaming
      <4> QED
        BY <1>0, <2>4, <4>1 DEF InOrder
    <3>3. WillAsk(last) => WillAsk(last)'
      BY <2>1, <3>2 DEF WillAsk
    <3>4. AsStored(last) => AsStored(last)'
      <4> SUFFICES ASSUME AsStored(last), NEW g \in Folder
                   PROVE  \/ shown'[last][g] = rows'[g]
                          \/ shown'[last][g].parent = rows'[g].parent /\ g \in Renaming(last)'
        BY <2>1 DEF AsStored
      <4>1. \/ shown[last][g] = rows[g]
            \/ shown[last][g].parent = rows[g].parent /\ g \in Renaming(last)
        BY DEF AsStored
      <4>2. CASE g = r.folder
        BY <1>0, <1>4, <2>1, <2>4, <3>1, <4>1, <4>2
      <4>3. CASE g # r.folder
        BY <1>0, <1>5, <2>1, <3>1, <4>1, <4>3
      <4> QED
        BY <4>2, <4>3
    <3>5. (reloads[last] > 0 => reloads'[last] > 0) /\ (ListComes(last) => ListComes(last)')
      BY <2>1, <3>1 DEF ListComes
    <3> QED
      BY <2>1, <3>3, <3>4, <3>5 DEF Coming
  <2> QED
    BY <2>2, <2>3, <2>4
<1>7. ASSUME NEW r \in calls, NotRenamed(r) PROVE Coming(last)'
  <2>1. /\ calls' = calls \ {r} /\ UNCHANGED <<rows, lists, last, reloads>> /\ r.op = "refused"
        /\ r.folder \in Folder
    BY <1>7, CallFields DEF NotRenamed, server, TypeOK
  <2>2. CASE r.page # last
    <3>1. \A p \in Page \ {r.page} : shown'[p] = shown[p]
      BY <1>0, <1>7 DEF NotRenamed
    <3> QED
      BY <1>2, <2>1, <2>2, <3>1
  <2>3. CASE r.page = last
    <3> DEFINE f == r.folder
               p == last
    <3>1. (WillAsk(p) => WillAsk(p)') /\ (ListComes(p) => ListComes(p)')
      BY <2>1 DEF WillAsk, ListComes
    <3>2. \A g \in Folder : g # f => shown'[p][g] = shown[p][g]
      BY <1>0, <1>7, <2>3 DEF NotRenamed, WithName
    <3>3. shown[p][f].parent = rows[f].parent => shown'[p][f] = rows[f]
      <4> SUFFICES ASSUME shown[p][f].parent = rows[f].parent PROVE shown'[p][f] = rows[f]
        OBVIOUS
      <4>1. CASE f \in There(shown[p])
        <5>1. shown'[p][f] = [parent |-> shown[p][f].parent, name |-> r.was]
          BY <1>0, <1>7, <2>1, <2>3, <4>1 DEF NotRenamed, WithName
        <5>2. r.was = rows[f].name
          BY <1>7, <2>3, <4>1 DEF NotRenamed, Upset, If, Mishaps
        <5>3. rows[f] \in Row
          BY <1>0, <2>1
        <5> QED
          BY <5>1, <5>2, <5>3 DEF Row, NoRow
      <4>2. CASE f \notin There(shown[p])
        <5>1. shown' = shown
          BY <1>7, <2>3, <4>2 DEF NotRenamed
        <5> QED
          BY <1>0, <1>4, <2>1, <4>2, <5>1
      <4> QED
        BY <4>1, <4>2
    <3>4. AsStored(p) => AsStored(p)'
      <4> SUFFICES ASSUME AsStored(p), NEW g \in Folder
                   PROVE  \/ shown'[p][g] = rows'[g]
                          \/ shown'[p][g].parent = rows'[g].parent /\ g \in Renaming(p)'
        BY <2>1 DEF AsStored
      <4>1. \/ shown[p][g] = rows[g]
            \/ shown[p][g].parent = rows[g].parent /\ g \in Renaming(p)
        BY DEF AsStored
      <4>2. CASE g = f
        BY <2>1, <3>3, <4>1, <4>2
      <4>3. CASE g # f
        BY <1>0, <1>5, <2>1, <3>2, <4>1, <4>3
      <4> QED
        BY <4>2, <4>3
    <3> QED
      BY <2>1, <3>1, <3>4 DEF Coming
  <2> QED
    BY <2>2, <2>3
<1> QED
  BY <1>1, <1>3, <1>6, <1>7 DEF PageGoesOn

LEMMA ComingStep ==
    ASSUME TypeOK, OrderInv, ComingInv, [Next]_vars PROVE ComingInv'
<1> SUFFICES ASSUME upset' \cap Mishaps = {} PROVE Coming(last)'
  BY DEF ComingInv
<1>1. Coming(last) /\ InOrder
  BY RowsGoOn DEF ComingInv, OrderInv, Without, Mishaps
<1>2. CASE UNCHANGED vars
  BY <1>1, <1>2 DEF vars, Coming, WillAsk, ListComes, AsStored, Renaming
<1> QED
  BY <1>1, <1>2, UserComing, ServerComing, PageComing DEF Next

\* When nothing is under way, the page of the last change shows the rows, unless an
\* answer was lost, lists crossed, a list failed or an older name was restored.
THEOREM LastChangeShownAlways == Spec => []LastChangeShown
<1>1. ASSUME Init PROVE ComingInv
  <2>1. lists[last] = <<>> /\ shown[last] = rows
    BY <1>1 DEF Init
  <2> QED
    BY <2>1 DEF ComingInv, Coming, AsStored
<1>2. TypeOK /\ OrderInv /\ ComingInv /\ [Next]_vars => ComingInv'
  BY ComingStep
<1>3. TypeOK /\ ComingInv => LastChangeShown
  <2> SUFFICES ASSUME TypeOK, ComingInv, Quiet, upset \cap Mishaps = {} PROVE shown[last] = rows
    BY DEF LastChangeShown, Without, Mishaps
  <2>1. /\ last \in Page /\ rows \in [Folder -> Row] /\ shown[last] \in [Folder -> Row]
        /\ reloads[last] = 0 /\ lists[last] = <<>> /\ calls = {}
    BY DEF TypeOK, Quiet
  <2>2. AsStored(last) /\ Renaming(last) = {}
    BY <2>1 DEF ComingInv, Coming, WillAsk, ListComes, Renaming
  <2>3. \A f \in Folder : shown[last][f] = rows[f]
    BY <2>2 DEF AsStored
  <2> QED
    BY <2>1, <2>3
<1> QED
  BY <1>1, <1>2, <1>3, TypeCorrect, OrderAlways, PTL DEF Spec

--------------------------------------------------------------------------------
(* CallAudio: types *)

\* The types of what the microphone, and what the answers and their audio keep.
ListeningOK ==
    /\ open \in BOOLEAN /\ confirmed \in BOOLEAN
    /\ mic \in {"listening", "hearing", "stopping", "off"}
    /\ said \in 0 .. MaxUtterances
    /\ jobs \subseteq [id : 0 .. MaxUtterances, answers : SUBSET Msg]

ContentOK ==
    /\ answer \in [Msg -> AnswerStates]
    /\ text \in [Msg -> Part] /\ lastSentence \in [Msg -> Part]
    /\ done \subseteq Msg /\ stopping \subseteq Msg
    /\ leaps \subseteq Msg /\ faults \subseteq Msg \X Kinds

QueueOK ==
    /\ queue \in [Msg -> Seq(Part)] /\ spoken \in [Msg -> Seq(Part)]
    /\ opened \subseteq Msg /\ finished \subseteq Msg
    /\ cache \subseteq Msg \X Part /\ fetching \subseteq (Msg \X Part) \ cache

PlayingOK ==
    /\ current \in Msg \cup {Null}
    /\ monitor \in [Msg -> MonitorStates]
    /\ audio \in Msg \cup {Null} /\ (audio # Null => monitor[audio] = "playing")
    /\ assistantSpeaking \in BOOLEAN /\ chatStreaming \in BOOLEAN
    /\ hushed \subseteq Msg

\* Before its chat:start an answer has nothing.
Untouched(m) ==
    answer[m] \in {"none", "asked"} =>
        /\ text[m] = 0 /\ lastSentence[m] = 0
        /\ queue[m] = <<>> /\ spoken[m] = <<>>
        /\ monitor[m] = "none"
        /\ m # current /\ m \notin opened

\* An answer that comes without leaps: all parts but the last are dispatched.
Counted(m) ==
    answer[m] = "written" /\ m \notin leaps =>
        lastSentence[m] = IF text[m] = 0 THEN 0 ELSE text[m] - 1

\* The parts 1 .. k were spoken or wait, in this order.
Line(past, next, k) ==
    /\ Len(past) + Len(next) = k
    /\ \A i \in 1 .. Len(past) : past[i] = i
    /\ \A i \in 1 .. Len(next) : next[i] = Len(past) + i
InLine(m, k) == Line(spoken[m], queue[m], k)

Followed(m) ==
    m = current /\ open /\ monitor[m] # "stuck" /\ m \notin hushed \cup leaps =>
        /\ answer[m] = "written" => InLine(m, lastSentence[m])
        /\ answer[m] = "ended" => InLine(m, text[m])

\* A loop that has left after the last part has played them all.
PlayedOut(m) ==
    monitor[m] = "closed" /\ m \notin hushed \cup leaps =>
        answer[m] = "ended" /\ spoken[m] = [i \in 1 .. text[m] |-> i]

SpokenInv ==
    /\ \A m \in Msg : Untouched(m) /\ Counted(m) /\ Followed(m) /\ PlayedOut(m)
    /\ \A m \in finished : answer[m] = "ended"

\* The turn of the current answer lasts until its loop leaves, or the user interrupts it.
HasTurn ==
    open /\ current # Null /\ current \notin hushed =>
        monitor[current] = "closed" \/ assistantSpeaking

\* Once the current answer has played a part, no other answer plays; and it plays no
\* more when its loop has left.
OnlyCurrentPlays ==
    current # Null =>
        /\ spoken[current] # <<>> => audio \in {Null, current}
        /\ monitor[current] = "closed" => audio = Null

\* While a part plays the flag that mutes the sound detection is up, although several loops
\* set and clear it; but not for an answer that the user has interrupted.
MutedWhileSpeaking == audio # Null => assistantSpeaking \/ audio \in hushed

TurnInv ==
    /\ HasTurn /\ OnlyCurrentPlays /\ MutedWhileSpeaking
    /\ audio # Null => open
    /\ \A m \in opened : spoken[m] # <<>> \/ queue[m] # <<>> \/ monitor[m] = "stuck"


LEMMA TypeParts == CallTypeOK <=> ListeningOK /\ ContentOK /\ QueueOK /\ PlayingOK
BY DEF CallTypeOK, ListeningOK, ContentOK, QueueOK, PlayingOK

LEMMA TypePartsNext == CallTypeOK' <=> ListeningOK' /\ ContentOK' /\ QueueOK' /\ PlayingOK'
BY DEF CallTypeOK, ListeningOK, ContentOK, QueueOK, PlayingOK

LEMMA SameListening == ASSUME ListeningOK, UNCHANGED listening PROVE ListeningOK'
BY DEF ListeningOK, listening

LEMMA CallTypeInit == CallInit => CallTypeOK
<1> SUFFICES ASSUME CallInit PROVE ListeningOK /\ ContentOK /\ QueueOK /\ PlayingOK
  BY TypeParts
<1>1. ListeningOK
  <2>1. open \in BOOLEAN /\ confirmed \in BOOLEAN /\ mic = "listening" /\ jobs = {}
    BY DEF CallInit
  <2>2. said \in 0 .. MaxUtterances
    BY BoundsAssumption DEF CallInit
  <2> QED
    BY <2>1, <2>2 DEF ListeningOK
<1>2. ContentOK
  BY BoundsAssumption DEF CallInit, ContentOK, AnswerStates, Part
<1>3. QueueOK
  <2>1. <<>> \in Seq(Part)
    OBVIOUS
  <2> QED
    BY <2>1 DEF CallInit, QueueOK
<1>4. PlayingOK
  BY DEF CallInit, PlayingOK, MonitorStates, Null
<1> QED
  BY <1>1, <1>2, <1>3, <1>4

LEMMA StopAllAudioType ==
    ASSUME CallTypeOK, StopAllAudio
    PROVE  ContentOK' /\ QueueOK' /\ PlayingOK'
<1>1. ContentOK'
  BY TypeParts DEF StopAllAudio, Written, ContentOK
<1>2. QueueOK'
  BY TypeParts DEF StopAllAudio, QueueOK
<1>3. PlayingOK'
  BY TypeParts DEF StopAllAudio, Paused, PlayingOK, MonitorStates
<1> QED
  BY <1>1, <1>2, <1>3

LEMMA InterruptType ==
    ASSUME CallTypeOK, Tap \/ HangUp \/ Sound
    PROVE  CallTypeOK'
<1>1. StopAllAudio
  BY DEF Tap, HangUp, Sound
<1>2. CASE Tap
  BY <1>2, TypeParts, SameListening, <1>1, StopAllAudioType, TypePartsNext DEF Tap
<1>3. CASE HangUp
  <2>1. ListeningOK'
    BY <1>3, TypeParts DEF HangUp, ListeningOK
  <2> QED
    BY <1>1, <2>1, StopAllAudioType, TypePartsNext
<1>4. CASE Sound
  <2>1. ListeningOK'
    BY <1>4, TypeParts, BoundsAssumption DEF Sound, ListeningOK
  <2> QED
    BY <1>1, <2>1, StopAllAudioType, TypePartsNext
<1> QED
  BY <1>2, <1>3, <1>4

LEMMA SamePlaying ==
    ASSUME QueueOK, PlayingOK, UNCHANGED playing
    PROVE  QueueOK' /\ PlayingOK'
BY DEF QueueOK, PlayingOK, playing

LEMMA SameContent ==
    ASSUME ContentOK, UNCHANGED <<content, leaps, faults>>
    PROVE  ContentOK'
BY DEF ContentOK, content

LEMMA UtteranceType ==
    ASSUME CallTypeOK, Silence \/ RecorderStops
    PROVE  CallTypeOK'
<1>1. ListeningOK'
  <2>1. CASE Silence
    BY <2>1, TypeParts DEF Silence, ListeningOK
  <2>2. CASE RecorderStops
    <3>1. [id |-> said, answers |-> {}] \in [id : 0 .. MaxUtterances, answers : SUBSET Msg]
      BY TypeParts DEF ListeningOK
    <3> QED
      BY <2>2, <3>1, TypeParts DEF RecorderStops, ListeningOK
  <2> QED
    BY <2>1, <2>2
<1>2. UNCHANGED <<content, playing, leaps, faults>>
  BY DEF Silence, RecorderStops
<1> QED
  BY <1>1, <1>2, TypeParts, SamePlaying, SameContent, TypePartsNext

LEMMA JobType ==
    ASSUME CallTypeOK, NEW j \in jobs,
           JobEnds(j) \/ \E k \in 1 .. MaxModels : Submit(j, k)
    PROVE  CallTypeOK'
<1>1. CASE JobEnds(j)
  <2>1. ListeningOK'
    BY <1>1, TypeParts DEF JobEnds, ListeningOK
  <2> QED
    BY <1>1, <2>1, TypeParts, SamePlaying, SameContent, TypePartsNext DEF JobEnds
<1>2. ASSUME NEW k \in 1 .. MaxModels, Submit(j, k) PROVE CallTypeOK'
  <2> DEFINE new == Next1 .. Next1 + k - 1
  <2>1. /\ new \subseteq Msg
        /\ answer' = [m \in Msg |-> IF m \in new THEN "asked" ELSE answer[m]]
        /\ jobs' = (jobs \ {j}) \cup {[j EXCEPT !.answers = new]}
        /\ UNCHANGED <<text, lastSentence, done, stopping, playing, open, mic, confirmed, said,
                       leaps, faults>>
    BY <1>2 DEF Submit
  <2> HIDE DEF new
  <2>2. [j EXCEPT !.answers = new] \in [id : 0 .. MaxUtterances, answers : SUBSET Msg]
    BY <2>1, TypeParts DEF ListeningOK
  <2>3. ListeningOK'
    BY <2>1, <2>2, TypeParts DEF ListeningOK
  <2>4. ContentOK'
    BY <2>1, TypeParts DEF ContentOK, AnswerStates
  <2> QED
    BY <2>1, <2>3, <2>4, TypeParts, SamePlaying, TypePartsNext
<1> QED
  BY <1>1, <1>2


LEMMA SameFree ==
    ASSUME ListeningOK, QueueOK, UNCHANGED <<listening, queue, opened, finished, cache, fetching, spoken>>
    PROVE  ListeningOK' /\ QueueOK'
BY DEF ListeningOK, QueueOK, listening

LEMMA StartType == ASSUME CallTypeOK, NEW m \in Msg, Untouched(m), Start(m) PROVE CallTypeOK'
<1>1. ListeningOK' /\ QueueOK'
  BY TypeParts, SameFree DEF Start
<1>2. ContentOK'
  BY TypeParts DEF Start, ContentOK, AnswerStates
<1>3. m # audio
  BY TypeParts DEF Start, Untouched, PlayingOK, Null, Msg
<1>4. PlayingOK'
  <2>1. chatStreaming' \in BOOLEAN /\ assistantSpeaking' \in BOOLEAN
    BY TypeParts DEF Start, PlayingOK
  <2>2. audio' = audio /\ hushed' = hushed /\ current' \in Msg \cup {Null}
    BY TypeParts DEF Start, PlayingOK
  <2>3. monitor' \in [Msg -> MonitorStates] /\ (audio # Null => monitor'[audio] = monitor[audio])
    BY <1>3, TypeParts DEF Start, PlayingOK, MonitorStates
  <2> QED
    BY <2>1, <2>2, <2>3, TypeParts DEF PlayingOK
<1> QED
  BY <1>1, <1>2, <1>4, TypePartsNext

\* What is dispatched.
LEMMA DispatchType ==
    ASSUME QueueOK, NEW m \in Msg, NEW parts \in Seq(Part), Dispatch(m, parts),
           finished' \subseteq Msg, UNCHANGED <<cache, spoken>>
    PROVE  QueueOK'
<1>1. queue' \in [Msg -> Seq(Part)] /\ opened' \subseteq Msg
  <2>1. queue[m] \o parts \in Seq(Part)
    BY ConcatProperties DEF QueueOK
  <2> QED
    BY <2>1 DEF Dispatch, QueueOK
<1>2. fetching' \subseteq (Msg \X Part) \ cache
  <2>1. \A i \in DOMAIN parts : <<m, parts[i]>> \in Msg \X Part
    BY ElementOfSeq
  <2>2. {<<m, parts[i]>> : i \in DOMAIN parts} \ cache \subseteq (Msg \X Part) \ cache
    BY <2>1
  <2> QED
    BY <2>2 DEF Dispatch, QueueOK
<1> QED
  BY <1>1, <1>2 DEF QueueOK

LEMMA CompleteType ==
    ASSUME NEW m, NEW n \in Part
    PROVE  /\ Complete(m, n) \in Seq(Part)
           /\ Complete(m, n) \o (IF n > 0 THEN <<n>> ELSE <<>>) \in Seq(Part)
<1>1. n > 1 => n - 1 \in Part
  BY BoundsAssumption DEF Part
<1> QED
  BY <1>1 DEF Complete

LEMMA GrowType == ASSUME CallTypeOK, NEW m \in Msg, NEW n \in Part, Grow(m, n) PROVE CallTypeOK'
<1>1. ListeningOK'
  BY TypeParts, SameListening DEF Grow
<1>2. ContentOK'
  <2>1. Complete(m, n) # <<>> => n - 1 \in Part
    BY BoundsAssumption DEF Complete, Part
  <2>2. lastSentence' \in [Msg -> Part] /\ text' \in [Msg -> Part]
    BY <2>1, TypeParts DEF Grow, ContentOK
  <2> QED
    BY <2>2, TypeParts DEF Grow, ContentOK
<1>3. QueueOK'
  BY TypeParts, CompleteType, DispatchType DEF Grow, QueueOK
<1>4. PlayingOK'
  BY TypeParts DEF Grow, PlayingOK
<1> QED
  BY <1>1, <1>2, <1>3, <1>4, TypePartsNext

LEMMA FinishType == ASSUME CallTypeOK, NEW m \in Msg, NEW n \in Part, Finish(m, n) PROVE CallTypeOK'
<1>1. ListeningOK'
  BY TypeParts, SameListening DEF Finish
<1>2. ContentOK'
  BY TypeParts DEF Finish, Fault, Kinds, ContentOK, AnswerStates
<1>3. QueueOK'
  <2>1. finished' \subseteq Msg
    BY TypeParts DEF Finish, QueueOK
  <2> QED
    BY <2>1, TypeParts, CompleteType, DispatchType DEF Finish
<1>4. PlayingOK'
  BY TypeParts DEF Finish, PlayingOK
<1> QED
  BY <1>1, <1>2, <1>3, <1>4, TypePartsNext

LEMMA EndsType ==
    ASSUME CallTypeOK, StopElsewhere \/ \E m \in Msg : Stopped(m) \/ Fails(m)
    PROVE  CallTypeOK'
<1>1. ContentOK'
  <2>1. CASE StopElsewhere
    BY <2>1, TypeParts DEF StopElsewhere, Written, Fault, Kinds, ContentOK
  <2>2. CASE \E m \in Msg : Stopped(m) \/ Fails(m)
    BY <2>2, TypeParts DEF Stopped, Fails, EndsShort, Fault, Kinds, ContentOK, AnswerStates
  <2> QED
    BY <2>1, <2>2
<1>2. UNCHANGED <<playing, listening>>
  BY DEF Stopped, Fails, EndsShort, StopElsewhere
<1> QED
  BY <1>1, <1>2, TypeParts, SamePlaying, SameListening, TypePartsNext

LEMMA FetchType == ASSUME CallTypeOK, NEW p \in fetching, Fetched(p) \/ FetchFails(p) PROVE CallTypeOK'
<1>1. ListeningOK'
  BY TypeParts, SameListening DEF Fetched, FetchFails
<1>2. ContentOK'
  <2>1. p[1] \in Msg
    BY TypeParts DEF QueueOK
  <2> QED
    BY <2>1, TypeParts DEF Fetched, FetchFails, Fault, Kinds, ContentOK, content
<1>3. QueueOK'
  BY TypeParts DEF Fetched, FetchFails, QueueOK
<1>4. PlayingOK'
  BY TypeParts DEF Fetched, FetchFails, PlayingOK
<1> QED
  BY <1>1, <1>2, <1>3, <1>4, TypePartsNext

\* Taking a part from the queue.
LEMMA TakeType ==
    ASSUME CallTypeOK, NEW m \in Msg, NEW state \in {"playing", "stuck"}, Take(m, state)
    PROVE  /\ queue' \in [Msg -> Seq(Part)] /\ Head(queue[m]) \in Part /\ queue[m] # <<>>
           /\ queue'[m] = Tail(queue[m]) /\ \A k \in Msg \ {m} : queue'[k] = queue[k]
           /\ monitor' \in [Msg -> MonitorStates] /\ monitor'[m] = state
           /\ \A k \in Msg \ {m} : \/ monitor'[k] = monitor[k]
                                   \/ monitor[k] = "playing" /\ monitor'[k] = "stuck"
<1>1. queue[m] \in Seq(Part) /\ queue[m] # <<>> /\ queue' = [queue EXCEPT ![m] = Tail(@)]
  BY TypeParts DEF Take, QueueOK
<1>2. Tail(queue[m]) \in Seq(Part) /\ Head(queue[m]) \in Part
  BY <1>1
<1>3. /\ Paused \in [Msg -> MonitorStates]
      /\ \A k \in Msg : Paused[k] = monitor[k] \/ (monitor[k] = "playing" /\ Paused[k] = "stuck")
  BY TypeParts DEF Paused, PlayingOK, MonitorStates, Null, Msg
<1>4. monitor' = [Paused EXCEPT ![m] = state]
  BY DEF Take
<1>5. /\ monitor' \in [Msg -> MonitorStates] /\ monitor'[m] = state
      /\ \A k \in Msg \ {m} : monitor'[k] = Paused[k]
  BY <1>3, <1>4 DEF MonitorStates
<1> QED
  BY <1>1, <1>2, <1>3, <1>5, TypeParts DEF QueueOK

LEMMA PlayType ==
    ASSUME CallTypeOK, NEW m \in Msg, Play(m) \/ PlayFails(m)
    PROVE  CallTypeOK'
<1>1. ListeningOK' /\ ContentOK'
  <2>1. UNCHANGED <<listening, content, leaps>>
    BY DEF Play, PlayFails, Take
  <2>2. faults' \subseteq Msg \X Kinds
    BY TypeParts DEF Play, PlayFails, Fault, Kinds, ContentOK
  <2> QED
    BY <2>1, <2>2, TypeParts, SameListening DEF ContentOK, content
<1>2. PICK state \in {"playing", "stuck"} :
          Take(m, state) /\ audio' = IF state = "playing" THEN m ELSE Null
  BY DEF Play, PlayFails
<1>3. QueueOK'
  <2>1. queue' \in [Msg -> Seq(Part)] /\ Head(queue[m]) \in Part
    BY <1>2, TakeType
  <2>2. spoken' \in [Msg -> Seq(Part)]
    <3>1. Append(spoken[m], Head(queue[m])) \in Seq(Part)
      BY <2>1, TypeParts DEF QueueOK
    <3> QED
      BY <3>1, TypeParts DEF Play, PlayFails, QueueOK
  <2>3. UNCHANGED <<opened, finished, cache, fetching>>
    BY <1>2 DEF Take
  <2> QED
    BY <2>1, <2>2, <2>3, TypeParts DEF QueueOK
<1>4. PlayingOK'
  <2>1. monitor' \in [Msg -> MonitorStates] /\ monitor'[m] = state
    BY <1>2, TakeType
  <2>2. UNCHANGED <<current, assistantSpeaking, chatStreaming, hushed>>
    BY <1>2 DEF Take
  <2> QED
    BY <1>2, <2>1, <2>2, TypeParts DEF PlayingOK
<1> QED
  BY <1>1, <1>3, <1>4, TypePartsNext

LEMMA LoopType ==
    ASSUME CallTypeOK, AudioEnds \/ \E m \in Msg : Close(m) \/ Abort(m)
    PROVE  CallTypeOK'
<1>1. ListeningOK' /\ ContentOK'
  BY TypeParts, SameListening, SameContent DEF Close, Abort, AudioEnds
<1>2. QueueOK'
  BY TypeParts DEF Close, Abort, AudioEnds, QueueOK
<1>3. PlayingOK'
  <2>1. ASSUME NEW m \in Msg, Close(m) PROVE PlayingOK'
    BY <2>1, TypeParts DEF Close, Looks, PlayingOK, MonitorStates
  <2>2. ASSUME NEW m \in Msg, Abort(m) PROVE PlayingOK'
    BY <2>2, TypeParts DEF Abort, PlayingOK, MonitorStates
  <2>3. CASE AudioEnds
    BY <2>3, TypeParts DEF AudioEnds, PlayingOK, MonitorStates
  <2> QED
    BY <2>1, <2>2, <2>3
<1> QED
  BY <1>1, <1>2, <1>3, TypePartsNext

--------------------------------------------------------------------------------
(* Answers are asked for in their order *)

\* The answers that were asked for are the first ones.
AskedInOrder == \E n \in 0 .. MaxMsgs : {k \in Msg : answer[k] # "none"} = 1 .. n

LEMMA NextAnswer ==
    ASSUME NEW n \in 0 .. MaxMsgs, {k \in Msg : answer[k] # "none"} = 1 .. n
    PROVE  Next1 = n + 1
<1>1. Cardinality(1 .. n) = n
  <2>1. n \in Nat
    BY BoundsAssumption
  <2> QED
    BY <2>1, FS_Interval
<1> QED
  BY <1>1 DEF Next1

\* No step but Submit takes an answer from "none", or back to it.
LEMMA OrderKept ==
    ASSUME AskedInOrder, \A k \in Msg : answer'[k] = "none" <=> answer[k] = "none"
    PROVE  AskedInOrder'
BY DEF AskedInOrder

LEMMA SubmitNew ==
    ASSUME CallTypeOK, AskedInOrder, NEW j \in jobs, NEW k \in 1 .. MaxModels, Submit(j, k)
    PROVE  /\ AskedInOrder'
           /\ \A m \in Msg : answer'[m] = answer[m] \/ (answer[m] = "none" /\ answer'[m] = "asked")
<1>1. PICK n \in 0 .. MaxMsgs : {m \in Msg : answer[m] # "none"} = 1 .. n
  BY DEF AskedInOrder
<1> DEFINE new == n + 1 .. n + k
<1>2. k \in Nat \ {0} /\ MaxMsgs \in Nat
  BY BoundsAssumption
<1>3. new \subseteq Msg /\ answer' = [m \in Msg |-> IF m \in new THEN "asked" ELSE answer[m]]
  <2>1. Next1 .. Next1 + k - 1 = new
    BY <1>1, <1>2, NextAnswer, BoundsAssumption
  <2> QED
    BY <2>1 DEF Submit
<1>4. n + k \in 0 .. MaxMsgs
  <2>1. n + k \in new
    BY <1>1, <1>2
  <2> QED
    BY <1>1, <1>2, <1>3, <2>1 DEF Msg
<1>5. {m \in Msg : answer'[m] # "none"} = 1 .. n + k
  BY <1>1, <1>2, <1>3, <1>4 DEF Msg
<1>6. AskedInOrder'
  BY <1>4, <1>5 DEF AskedInOrder
<1>7. \A m \in new : m \notin 1 .. n
  BY <1>1, <1>2
<1> QED
  BY <1>1, <1>3, <1>6, <1>7

--------------------------------------------------------------------------------
(* What is spoken *)

\* A step that changes neither what was dispatched nor what was spoken.
Aside ==
    /\ UNCHANGED <<text, lastSentence, queue, spoken, opened, finished, leaps, current>>
    /\ (open' => open) /\ hushed \subseteq hushed'
    /\ \A k \in Msg :
          /\ \/ answer'[k] = answer[k]
             \/ answer[k] = "none" /\ answer'[k] = "asked"
             \/ answer[k] = "written" /\ answer'[k] \in {"stopped", "failed"}
          /\ \/ monitor'[k] = monitor[k]
             \/ monitor[k] \in {"idle", "playing"} /\ monitor'[k] \in {"idle", "stuck", "aborted"}

LEMMA AsideSpoken == ASSUME CallTypeOK, SpokenInv, Aside PROVE SpokenInv'
<1> SUFFICES ASSUME NEW m \in Msg
             PROVE  Untouched(m)' /\ Counted(m)' /\ Followed(m)' /\ PlayedOut(m)'
  BY TypeParts DEF SpokenInv, Aside, QueueOK
<1>1. Untouched(m)'
  BY DEF SpokenInv, Aside, Untouched
<1>2. Counted(m)'
  BY DEF SpokenInv, Aside, Counted
<1>3. Followed(m)'
  BY DEF SpokenInv, Aside, Followed, InLine
<1>4. PlayedOut(m)'
  BY DEF SpokenInv, Aside, PlayedOut
<1> QED
  BY <1>1, <1>2, <1>3, <1>4

LEMMA StopIsAside ==
    ASSUME CallTypeOK, StopAllAudio, open' => open
    PROVE  Aside
<1>1. ASSUME NEW k \in Msg
      PROVE  \/ monitor'[k] = monitor[k]
             \/ monitor[k] = "playing" /\ monitor'[k] = "stuck"
  BY TypeParts DEF StopAllAudio, Paused, PlayingOK, Null, Msg
<1> QED
  BY <1>1 DEF StopAllAudio, Aside

LEMMA AsideSteps ==
    ASSUME CallTypeOK,
           \/ Tap \/ HangUp \/ Sound \/ Silence \/ RecorderStops \/ AudioEnds \/ StopElsewhere
           \/ \E j \in jobs : JobEnds(j)
           \/ \E m \in Msg : Stopped(m) \/ Fails(m) \/ Abort(m)
           \/ \E p \in fetching : Fetched(p) \/ FetchFails(p)
    PROVE  Aside
<1>1. CASE Tap \/ HangUp \/ Sound
  BY <1>1, StopIsAside DEF Tap, HangUp, Sound, listening
<1>2. CASE Silence \/ RecorderStops \/ \E j \in jobs : JobEnds(j)
  BY <1>2 DEF Silence, RecorderStops, JobEnds, Aside, content, playing
<1>3. CASE AudioEnds
  BY <1>3, TypeParts DEF AudioEnds, Aside, content, listening, PlayingOK
<1>4. ASSUME NEW m \in Msg, Stopped(m) \/ Fails(m) PROVE Aside
  <2>1. answer[m] = "written" /\ \E how \in {"stopped", "failed"} : answer' = [answer EXCEPT ![m] = how]
    BY <1>4 DEF Stopped, Fails, EndsShort
  <2> QED
    BY <1>4, <2>1, TypeParts DEF Stopped, Fails, EndsShort, Aside, playing, listening, ContentOK
<1>5. ASSUME NEW m \in Msg, Abort(m) PROVE Aside
  BY <1>5, TypeParts DEF Abort, Aside, content, listening, PlayingOK
<1>6. CASE \E p \in fetching : Fetched(p) \/ FetchFails(p)
  BY <1>6 DEF Fetched, FetchFails, Aside, content, listening
<1>7. CASE StopElsewhere
  BY <1>7 DEF StopElsewhere, Aside, playing, listening
<1> QED
  BY <1>1, <1>2, <1>3, <1>4, <1>5, <1>6, <1>7

LEMMA SubmitIsAside ==
    ASSUME CallTypeOK, AskedInOrder, NEW j \in jobs, NEW k \in 1 .. MaxModels, Submit(j, k)
    PROVE  Aside
BY SubmitNew DEF Submit, Aside, playing


\* The line grows by the parts that come next.
LEMMA LineGrows ==
    ASSUME NEW k \in Nat, NEW sp \in Seq(Part), NEW qu \in Seq(Part), Line(sp, qu, k),
           NEW parts \in Seq(Part), \A i \in 1 .. Len(parts) : parts[i] = k + i
    PROVE  Line(sp, qu \o parts, k + Len(parts))
<1> DEFINE new == qu \o parts
<1>1. Len(sp) \in Nat /\ Len(qu) \in Nat /\ Len(parts) \in Nat
  BY LenProperties
<1>2. /\ Len(new) = Len(qu) + Len(parts)
      /\ \A i \in 1 .. Len(qu) + Len(parts) :
            new[i] = IF i <= Len(qu) THEN qu[i] ELSE parts[i - Len(qu)]
  BY ConcatProperties
<1>3. k = Len(sp) + Len(qu) /\ (\A i \in 1 .. Len(sp) : sp[i] = i)
      /\ (\A i \in 1 .. Len(qu) : qu[i] = Len(sp) + i)
  BY DEF Line
<1> HIDE DEF new
<1>4. ASSUME NEW i \in 1 .. Len(new) PROVE new[i] = Len(sp) + i
  <2>1. CASE i <= Len(qu)
    BY <1>1, <1>2, <1>3, <2>1
  <2>2. CASE ~(i <= Len(qu))
    <3>1. i - Len(qu) \in 1 .. Len(parts)
      BY <1>1, <1>2, <2>2
    <3>2. new[i] = k + (i - Len(qu))
      BY <1>1, <1>2, <2>2, <3>1
    <3> QED
      BY <1>1, <1>2, <1>3, <3>2
  <2> QED
    BY <2>1, <2>2
<1>5. Line(sp, new, k + Len(parts))
  BY <1>1, <1>2, <1>3, <1>4 DEF Line
<1> QED
  BY <1>5 DEF new

LEMMA LineStep ==
    ASSUME QueueOK, NEW m \in Msg, NEW k \in Nat, InLine(m, k),
           NEW parts \in Seq(Part), \A i \in 1 .. Len(parts) : parts[i] = k + i,
           queue'[m] = queue[m] \o parts, spoken'[m] = spoken[m]
    PROVE  Line(spoken'[m], queue'[m], k + Len(parts))
BY LineGrows DEF QueueOK, InLine

\* What Grow and Finish dispatch of an answer that comes without leaps: what its line lacks.
LEMMA NextParts ==
    ASSUME CallTypeOK, NEW m \in Msg, NEW n \in Part, Counted(m), answer[m] = "written", m \notin leaps,
           n \in {text[m], text[m] + 1}
    PROVE  LET some == Complete(m, n)
               all == Complete(m, n) \o (IF n > 0 THEN <<n>> ELSE <<>>)
           IN  /\ n > text[m] => lastSentence[m] + Len(some) = n - 1 /\ (some # <<>> <=> n > 1)
               /\ \A i \in 1 .. Len(some) : some[i] = lastSentence[m] + i
               /\ lastSentence[m] + Len(all) = n
               /\ \A i \in 1 .. Len(all) : all[i] = lastSentence[m] + i
<1> DEFINE some == Complete(m, n)
           all == Complete(m, n) \o (IF n > 0 THEN <<n>> ELSE <<>>)
           final == lastSentence[m]
<1> SUFFICES /\ n > text[m] => final + Len(some) = n - 1 /\ (some # <<>> <=> n > 1)
             /\ \A i \in 1 .. Len(some) : some[i] = final + i
             /\ final + Len(all) = n
             /\ \A i \in 1 .. Len(all) : all[i] = final + i
  OBVIOUS
<1>1. text[m] \in Nat /\ n \in Nat
  BY TypeParts, BoundsAssumption DEF ContentOK, Part
<1>2. final = IF text[m] = 0 THEN 0 ELSE text[m] - 1
  BY DEF Counted
<1>3. CASE n = 0
  <2>1. some = <<>> /\ all = <<>> \o <<>> /\ final = 0 /\ ~(n > text[m])
    BY <1>1, <1>2, <1>3 DEF Complete
  <2>2. all = <<>>
    BY <2>1, ConcatEmptySeq
  <2> HIDE DEF some, all, final
  <2> QED
    BY <1>3, <2>1, <2>2
<1>4. CASE (n > 0 /\ n = text[m]) \/ (n = 1 /\ n = text[m] + 1)
  <2>0. final = n - 1 /\ (n > text[m] => n = 1) /\ n > 0
    BY <1>1, <1>2, <1>4
  <2>1. some = <<>> /\ all = <<>> \o <<n>>
    BY <1>1, <2>0 DEF Complete
  <2>2. all = <<n>>
    BY <2>1, <1>1, ConcatEmptySeq
  <2> HIDE DEF some, all, final
  <2> QED
    BY <1>1, <2>0, <2>1, <2>2
<1>5. CASE n > 1 /\ n = text[m] + 1
  <2>1. some = <<n - 1>> /\ all = <<n - 1>> \o <<n>> /\ final = n - 2
    BY <1>1, <1>2, <1>5 DEF Complete
  <2>2. Len(all) = 2 /\ all[1] = n - 1 /\ all[2] = n
    <3>1. <<n - 1>> \in Seq(Nat) /\ <<n>> \in Seq(Nat) /\ Len(<<n - 1>>) = 1 /\ Len(<<n>>) = 1
      BY <1>1, <1>5
    <3> HIDE DEF some, all, final
    <3> QED
      BY <2>1, <3>1, ConcatProperties
  <2> HIDE DEF some, all, final
  <2> QED
    BY <1>1, <1>5, <2>1, <2>2
<1> QED
  BY <1>1, <1>3, <1>4, <1>5

\* For the answers that a step leaves alone.
LEMMA OthersSpoken ==
    ASSUME CallTypeOK, SpokenInv, NEW k \in Msg,
           answer'[k] = answer[k], text'[k] = text[k], lastSentence'[k] = lastSentence[k],
           queue'[k] = queue[k], spoken'[k] = spoken[k], monitor'[k] = monitor[k],
           k \in opened' => k \in opened, leaps \subseteq leaps',
           hushed \subseteq hushed', open' => open, k = current' => k = current
    PROVE  Untouched(k)' /\ Counted(k)' /\ Followed(k)' /\ PlayedOut(k)'
<1>1. Untouched(k) /\ Counted(k) /\ Followed(k) /\ PlayedOut(k)
  BY DEF SpokenInv
<1>2. Untouched(k)'
  BY <1>1 DEF Untouched
<1>3. Counted(k)'
  BY <1>1 DEF Counted
<1>4. Followed(k)'
  BY <1>1 DEF Followed, InLine
<1>5. PlayedOut(k)'
  BY <1>1 DEF PlayedOut
<1> QED
  BY <1>2, <1>3, <1>4, <1>5

LEMMA GrowSpoken ==
    ASSUME CallTypeOK, SpokenInv, NEW m \in Msg, NEW n \in Part, Grow(m, n)
    PROVE  SpokenInv'
<1>1. /\ answer[m] = "written" /\ text[m] \in Nat /\ n \in Nat /\ n > text[m]
      /\ m \in leaps \/ n <= text[m] + 1 \/ m \in leaps'
      /\ leaps \subseteq leaps' /\ leaps' \subseteq leaps \cup {m}
  BY TypeParts, BoundsAssumption DEF Grow, ContentOK, Part
<1>2. UNCHANGED <<answer, monitor, spoken, finished, current, open, hushed>>
  BY DEF Grow, listening
<1>3. /\ lastSentence' = [lastSentence EXCEPT ![m] = IF Complete(m, n) # <<>> THEN n - 1 ELSE @]
      /\ text' = [text EXCEPT ![m] = n] /\ Dispatch(m, Complete(m, n))
  BY DEF Grow
<1>4. ASSUME NEW k \in Msg, k # m PROVE Untouched(k)' /\ Counted(k)' /\ Followed(k)' /\ PlayedOut(k)'
  <2>1. text'[k] = text[k] /\ lastSentence'[k] = lastSentence[k] /\ queue'[k] = queue[k]
    BY <1>3, <1>4, TypeParts DEF ContentOK, QueueOK, Dispatch
  <2>2. k \in opened' => k \in opened
    BY <1>3, <1>4 DEF Dispatch
  <2> QED
    BY <1>1, <1>2, <2>1, <2>2, OthersSpoken
<1>5. Untouched(m)' /\ PlayedOut(m)'
  <2>1. answer'[m] = "written" /\ monitor'[m] = monitor[m]
    BY <1>1, <1>2
  <2>2. Untouched(m)'
    BY <2>1 DEF Untouched
  <2>3. PlayedOut(m)'
    BY <1>1, <1>2, <2>1 DEF PlayedOut, SpokenInv
  <2> QED
    BY <2>2, <2>3
<1>6. ASSUME m \notin leaps' PROVE Counted(m)' /\ Followed(m)'
  <2>1. m \notin leaps /\ n = text[m] + 1 /\ Counted(m) /\ Followed(m)
    BY <1>1, <1>6 DEF SpokenInv
  <2>2. text'[m] = n /\ lastSentence'[m] = (IF Complete(m, n) # <<>> THEN n - 1 ELSE lastSentence[m])
    BY <1>3, TypeParts DEF ContentOK
  <2>a. lastSentence[m] \in Nat
    BY TypeParts, BoundsAssumption DEF ContentOK, Part
  <2>3. lastSentence[m] + Len(Complete(m, n)) = n - 1 /\ (Complete(m, n) # <<>> <=> n > 1)
        /\ (\A i \in 1 .. Len(Complete(m, n)) : Complete(m, n)[i] = lastSentence[m] + i)
    BY <1>1, <2>1, NextParts
  <2>4. lastSentence'[m] = n - 1
    <3>1. CASE Complete(m, n) # <<>>
      BY <2>2, <3>1
    <3>2. CASE Complete(m, n) = <<>>
      <4>1. ~(n > 1)
        BY <2>3, <3>2
      <4>2. n = 1 /\ text[m] = 0
        BY <1>1, <2>1, <4>1
      <4>3. lastSentence'[m] = lastSentence[m]
        BY <2>2, <3>2
      <4> QED
        BY <1>1, <2>1, <4>2, <4>3 DEF Counted
    <3> QED
      BY <3>1, <3>2
  <2>5. Counted(m)'
    BY <1>1, <2>1, <2>2, <2>4 DEF Counted
  <2>6. ASSUME m = current, open, m \notin hushed, monitor[m] # "stuck" PROVE Line(spoken'[m], queue'[m], n - 1)
    <3>1. Complete(m, n) \in Seq(Part) /\ queue[m] \in Seq(Part)
      BY CompleteType, TypeParts DEF QueueOK
    <3>2. queue'[m] = queue[m] \o Complete(m, n)
      BY <1>3, <2>6, <3>1, ConcatEmptySeq, TypeParts DEF Dispatch, QueueOK
    <3>3. InLine(m, lastSentence[m])
      BY <1>1, <2>1, <2>6 DEF Followed
    <3>4. spoken'[m] = spoken[m] /\ QueueOK
      BY <1>2, TypeParts
    <3>5. Line(spoken'[m], queue'[m], lastSentence[m] + Len(Complete(m, n)))
      BY <2>a, <2>3, <3>1, <3>2, <3>3, <3>4, LineStep
    <3> QED
      BY <2>3, <3>5
  <2>8. Followed(m)'
    BY <1>1, <1>2, <2>4, <2>6 DEF Followed, InLine
  <2> QED
    BY <2>5, <2>8
<1>7. ASSUME m \in leaps' PROVE Counted(m)' /\ Followed(m)'
  BY <1>7 DEF Counted, Followed
<1> QED
  BY <1>2, <1>4, <1>5, <1>6, <1>7, TypeParts DEF SpokenInv, QueueOK


LEMMA FinishSpoken ==
    ASSUME CallTypeOK, SpokenInv, NEW m \in Msg, NEW n \in Part, Finish(m, n)
    PROVE  SpokenInv'
<1> DEFINE all == Complete(m, n) \o (IF n > 0 THEN <<n>> ELSE <<>>)
<1>1. /\ answer[m] = "written" /\ text[m] \in Nat /\ n \in Nat /\ n >= text[m]
      /\ n <= text[m] + 1 \/ m \in leaps'
      /\ leaps \subseteq leaps'
  BY TypeParts, BoundsAssumption DEF Finish, ContentOK, Part
<1>2. UNCHANGED <<lastSentence, monitor, spoken, current, open, hushed>>
  BY DEF Finish, listening
<1>3. /\ answer' = [answer EXCEPT ![m] = "ended"]
      /\ text' = [text EXCEPT ![m] = n] /\ Dispatch(m, all)
  BY DEF Finish
<1>4. answer'[m] = "ended" /\ text'[m] = n
  BY <1>3, TypeParts DEF ContentOK
<1>5. ASSUME NEW k \in Msg, k # m PROVE Untouched(k)' /\ Counted(k)' /\ Followed(k)' /\ PlayedOut(k)'
  <2>1. text'[k] = text[k] /\ answer'[k] = answer[k] /\ queue'[k] = queue[k]
    BY <1>3, <1>5, TypeParts DEF ContentOK, QueueOK, Dispatch
  <2>2. k \in opened' => k \in opened
    BY <1>3, <1>5 DEF Dispatch
  <2> QED
    BY <1>1, <1>2, <2>1, <2>2, OthersSpoken
<1>6. Untouched(m)' /\ PlayedOut(m)' /\ Counted(m)'
  <2>1. Untouched(m)' /\ Counted(m)'
    BY <1>4 DEF Untouched, Counted
  <2>2. PlayedOut(m)'
    BY <1>1, <1>2 DEF PlayedOut, SpokenInv
  <2> QED
    BY <2>1, <2>2
<1>7. ASSUME m \notin leaps', m = current, open, m \notin hushed, monitor[m] # "stuck"
      PROVE  Line(spoken'[m], queue'[m], n)
  <2>1. m \notin leaps /\ n \in {text[m], text[m] + 1} /\ Counted(m) /\ Followed(m)
    BY <1>1, <1>7 DEF SpokenInv
  <2>2. lastSentence[m] \in Nat
    BY TypeParts, BoundsAssumption DEF ContentOK, Part
  <2>3. lastSentence[m] + Len(all) = n /\ (\A i \in 1 .. Len(all) : all[i] = lastSentence[m] + i)
    BY <1>1, <2>1, NextParts
  <2>4. all \in Seq(Part) /\ queue[m] \in Seq(Part)
    BY CompleteType, TypeParts DEF QueueOK
  <2>5. queue'[m] = queue[m] \o all
    <3> HIDE DEF all
    <3> QED
      BY <1>3, <1>7, <2>4, ConcatEmptySeq, TypeParts DEF Dispatch, QueueOK
  <2>6. InLine(m, lastSentence[m])
    BY <1>1, <1>7, <2>1 DEF Followed
  <2>7. spoken'[m] = spoken[m] /\ QueueOK
    BY <1>2, TypeParts
  <2> HIDE DEF all
  <2>8. Line(spoken'[m], queue'[m], lastSentence[m] + Len(all))
    BY <2>2, <2>3, <2>4, <2>5, <2>6, <2>7, LineStep
  <2> QED
    BY <2>3, <2>8
<1>8. Followed(m)'
  BY <1>2, <1>4, <1>7 DEF Followed, InLine
<1>9. \A k \in finished' : k \in Msg /\ answer'[k] = "ended"
  BY <1>3, TypeParts DEF Finish, SpokenInv, ContentOK, QueueOK
<1> QED
  BY <1>5, <1>6, <1>8, <1>9 DEF SpokenInv

LEMMA StartSpoken ==
    ASSUME CallTypeOK, SpokenInv, NEW m \in Msg, Start(m)
    PROVE  SpokenInv'
<1>1. UNCHANGED <<text, lastSentence, queue, spoken, opened, finished, leaps, open, hushed>>
  BY DEF Start, listening
<1>2. /\ answer[m] = "asked" /\ answer' = [answer EXCEPT ![m] = "written"]
      /\ monitor' = monitor \/ monitor' = [monitor EXCEPT ![m] = "idle"]
      /\ current' = current \/ current' = m
  BY DEF Start
<1>3. ASSUME NEW k \in Msg, k # m PROVE Untouched(k)' /\ Counted(k)' /\ Followed(k)' /\ PlayedOut(k)'
  <2>1. answer'[k] = answer[k] /\ monitor'[k] = monitor[k]
    BY <1>2, <1>3, TypeParts DEF ContentOK, PlayingOK
  <2> QED
    BY <1>1, <1>2, <1>3, <2>1, OthersSpoken
<1>4. /\ text[m] = 0 /\ lastSentence[m] = 0 /\ queue[m] = <<>> /\ spoken[m] = <<>> /\ monitor[m] = "none"
  BY <1>2 DEF SpokenInv, Untouched
<1>5. answer'[m] = "written" /\ monitor'[m] \in {"none", "idle"}
  BY <1>2, <1>4, TypeParts DEF ContentOK, PlayingOK
<1>6. Untouched(m)' /\ Counted(m)' /\ PlayedOut(m)'
  BY <1>1, <1>4, <1>5 DEF Untouched, Counted, PlayedOut
<1>7. Followed(m)'
  BY <1>1, <1>4, <1>5 DEF Followed, InLine, Line
<1>8. \A k \in finished' : answer'[k] = "ended"
  BY <1>1, <1>2, TypeParts DEF SpokenInv, ContentOK, QueueOK
<1> QED
  BY <1>3, <1>6, <1>7, <1>8 DEF SpokenInv

\* The next part is spoken.
LEMMA LineMoves ==
    ASSUME NEW k, NEW sp \in Seq(Part), NEW qu \in Seq(Part), Line(sp, qu, k), qu # <<>>
    PROVE  Line(Append(sp, Head(qu)), Tail(qu), k)
<1>1. Len(sp) \in Nat /\ Len(qu) \in Nat /\ Len(qu) > 0
  BY LenProperties, EmptySeq
<1>2. k = Len(sp) + Len(qu) /\ (\A i \in 1 .. Len(sp) : sp[i] = i)
      /\ (\A i \in 1 .. Len(qu) : qu[i] = Len(sp) + i)
  BY DEF Line
<1>3. Head(qu) \in Part /\ Head(qu) = Len(sp) + 1
  <2>1. Head(qu) = qu[1]
    OBVIOUS
  <2>2. 1 \in 1 .. Len(qu)
    BY <1>1
  <2> QED
    BY <1>2, <2>1, <2>2, HeadTailProperties
<1> DEFINE sp2 == Append(sp, Head(qu))
           qu2 == Tail(qu)
<1>4. /\ Len(sp2) = Len(sp) + 1 /\ sp2[Len(sp) + 1] = Head(qu)
      /\ \A i \in 1 .. Len(sp) : sp2[i] = sp[i]
  BY <1>3, AppendProperties
<1>5. Len(qu2) = Len(qu) - 1 /\ (\A i \in 1 .. Len(qu2) : qu2[i] = qu[i + 1])
  BY HeadTailProperties
<1> HIDE DEF sp2, qu2
<1>6. ASSUME NEW i \in 1 .. Len(sp2) PROVE sp2[i] = i
  <2>1. i \in 1 .. Len(sp) \/ i = Len(sp) + 1
    BY <1>1, <1>4
  <2> QED
    BY <1>2, <1>3, <1>4, <2>1
<1>7. ASSUME NEW i \in 1 .. Len(qu2) PROVE qu2[i] = Len(sp2) + i
  <2>1. i + 1 \in 1 .. Len(qu)
    BY <1>1, <1>5
  <2>2. qu2[i] = Len(sp) + (i + 1)
    BY <1>2, <1>5, <2>1
  <2> QED
    BY <1>1, <1>4, <2>2
<1>8. Line(sp2, qu2, k)
  BY <1>1, <1>2, <1>4, <1>5, <1>6, <1>7 DEF Line
<1> QED
  BY <1>8 DEF sp2, qu2

LEMMA PlaySpoken ==
    ASSUME CallTypeOK, SpokenInv, NEW m \in Msg, Play(m) \/ PlayFails(m)
    PROVE  SpokenInv'
<1>0. PICK state \in {"playing", "stuck"} :
          /\ Take(m, state)
          /\ state = "playing" => spoken' = [spoken EXCEPT ![m] = Append(@, Head(queue[m]))]
          /\ state = "stuck" => spoken' = spoken
  BY DEF Play, PlayFails
<1>1. UNCHANGED <<answer, text, lastSentence, opened, finished, leaps, open, hushed, current>>
  BY <1>0 DEF Take, listening, content
<1>2. monitor[m] = "idle" /\ open /\ m = current /\ queue[m] # <<>>
  BY <1>0 DEF Take, Looks
<1>3. /\ queue'[m] = Tail(queue[m]) /\ \A k \in Msg \ {m} : queue'[k] = queue[k]
      /\ monitor'[m] = state
      /\ \A k \in Msg \ {m} : monitor'[k] = monitor[k] \/ (monitor[k] = "playing" /\ monitor'[k] = "stuck")
  BY <1>0, TakeType
<1>4. \A k \in Msg \ {m} : spoken'[k] = spoken[k]
  BY <1>0, TypeParts DEF QueueOK
<1>5. ASSUME NEW k \in Msg, k # m PROVE Untouched(k)' /\ Counted(k)' /\ Followed(k)' /\ PlayedOut(k)'
  <2>1. queue'[k] = queue[k] /\ spoken'[k] = spoken[k]
    BY <1>3, <1>4, <1>5
  <2>2. CASE monitor'[k] = monitor[k]
    BY <1>1, <1>5, <2>1, <2>2, OthersSpoken
  <2>3. CASE monitor[k] = "playing" /\ monitor'[k] = "stuck"
    BY <1>1, <1>2, <1>5, <2>1, <2>3 DEF SpokenInv, Untouched, Counted, Followed, PlayedOut
  <2> QED
    BY <1>3, <1>5, <2>2, <2>3
<1>6. answer[m] \notin {"none", "asked"}
  BY <1>2 DEF SpokenInv, Untouched
<1>7. Untouched(m)' /\ Counted(m)' /\ PlayedOut(m)'
  BY <1>1, <1>3, <1>6 DEF SpokenInv, Untouched, Counted, PlayedOut
<1>8. state = "playing" => \A k : Line(spoken[m], queue[m], k) => Line(spoken'[m], queue'[m], k)
  <2>1. state = "playing" => spoken'[m] = Append(spoken[m], Head(queue[m]))
    BY <1>0, TypeParts DEF QueueOK
  <2>2. spoken[m] \in Seq(Part) /\ queue[m] \in Seq(Part)
    BY TypeParts DEF QueueOK
  <2>3. ASSUME NEW k, Line(spoken[m], queue[m], k)
        PROVE  Line(Append(spoken[m], Head(queue[m])), Tail(queue[m]), k)
    BY <1>2, <2>2, <2>3, LineMoves
  <2> QED
    BY <1>3, <2>1, <2>3
<1>9. Followed(m)'
  BY <1>1, <1>2, <1>3, <1>8 DEF SpokenInv, Followed, InLine
<1> QED
  BY <1>1, <1>5, <1>7, <1>9, TypeParts DEF SpokenInv, QueueOK

LEMMA CloseSpoken ==
    ASSUME CallTypeOK, SpokenInv, NEW m \in Msg, Close(m)
    PROVE  SpokenInv'
<1>1. UNCHANGED <<answer, text, lastSentence, queue, spoken, opened, finished, leaps, open, hushed, current>>
  BY DEF Close, listening, content
<1>2. monitor[m] = "idle" /\ open /\ m = current /\ queue[m] = <<>> /\ m \in finished
      /\ monitor' = [monitor EXCEPT ![m] = "closed"]
  BY DEF Close, Looks
<1>3. ASSUME NEW k \in Msg, k # m PROVE Untouched(k)' /\ Counted(k)' /\ Followed(k)' /\ PlayedOut(k)'
  <2>1. monitor'[k] = monitor[k]
    BY <1>2, <1>3, TypeParts DEF PlayingOK
  <2> QED
    BY <1>1, <1>3, <2>1, OthersSpoken
<1>4. answer[m] = "ended"
  BY <1>2 DEF SpokenInv
<1>5. Untouched(m)' /\ Counted(m)'
  BY <1>1, <1>4 DEF Untouched, Counted
<1>6. Followed(m)'
  BY <1>1, <1>2 DEF SpokenInv, Followed, InLine
<1>7. ASSUME m \notin hushed \cup leaps PROVE spoken[m] = [i \in 1 .. text[m] |-> i]
  <2>1. Line(spoken[m], queue[m], text[m])
    BY <1>2, <1>4, <1>7 DEF SpokenInv, Followed, InLine
  <2>2. Len(spoken[m]) \in Nat /\ Len(queue[m]) = 0 /\ spoken[m] \in Seq(Part)
    BY <1>2, LenProperties, EmptySeq, TypeParts DEF QueueOK
  <2>3. Len(spoken[m]) = text[m] /\ (\A i \in 1 .. Len(spoken[m]) : spoken[m][i] = i)
    BY <2>1, <2>2 DEF Line
  <2>4. spoken[m] = [i \in 1 .. Len(spoken[m]) |-> spoken[m][i]]
    BY <2>2, LenProperties
  <2> QED
    BY <2>3, <2>4
<1>8. PlayedOut(m)'
  BY <1>1, <1>4, <1>7 DEF PlayedOut
<1> QED
  BY <1>1, <1>3, <1>5, <1>6, <1>8, TypeParts DEF SpokenInv, QueueOK


--------------------------------------------------------------------------------
(* Whose turn it is *)

LEMMA InterruptTurn ==
    ASSUME CallTypeOK, TurnInv, Tap \/ HangUp \/ Sound
    PROVE  TurnInv'
<1>1. StopAllAudio
  BY DEF Tap, HangUp, Sound
<1>2. /\ audio' = Null /\ hushed' = hushed \cup ({current} \cap Msg) /\ current \in Msg \cup {Null}
      /\ UNCHANGED <<current, queue, opened, spoken>>
  BY <1>1, TypeParts DEF StopAllAudio, PlayingOK
<1>3. HasTurn' /\ OnlyCurrentPlays' /\ MutedWhileSpeaking'
  BY <1>2 DEF HasTurn, OnlyCurrentPlays, MutedWhileSpeaking
<1>4. \A m \in Msg : monitor[m] = "stuck" => monitor'[m] = "stuck"
  BY <1>1 DEF StopAllAudio, Paused
<1> QED
  BY <1>2, <1>3, <1>4, TypeParts DEF TurnInv, QueueOK

\* Steps that leave the turn alone; the queues may grow.
LEMMA OutOfTurn ==
    ASSUME CallTypeOK, TurnInv,
           UNCHANGED <<open, current, hushed, monitor, assistantSpeaking, audio, spoken>>,
           \A m \in opened' : (m \in opened /\ queue'[m] = queue[m]) \/ queue'[m] # <<>>
    PROVE  TurnInv'
<1>1. HasTurn' /\ OnlyCurrentPlays' /\ MutedWhileSpeaking'
  BY DEF TurnInv, HasTurn, OnlyCurrentPlays, MutedWhileSpeaking
<1> QED
  BY <1>1 DEF TurnInv

LEMMA DispatchTurn ==
    ASSUME CallTypeOK, TurnInv, NEW m \in Msg, NEW n \in Part, Grow(m, n) \/ Finish(m, n)
    PROVE  TurnInv'
<1>1. UNCHANGED <<open, current, hushed, monitor, assistantSpeaking, audio, spoken>>
  BY DEF Grow, Finish, listening
<1>2. PICK parts \in Seq(Part) : Dispatch(m, parts)
  BY CompleteType DEF Grow, Finish
<1>3. ASSUME NEW k \in opened' PROVE (k \in opened /\ queue'[k] = queue[k]) \/ queue'[k] # <<>>
  <2>1. queue[m] \in Seq(Part) /\ queue \in [Msg -> Seq(Part)] /\ opened \subseteq Msg
    BY TypeParts DEF QueueOK
  <2>2. CASE k = m /\ open /\ m = current /\ parts # <<>>
    <3>1. queue'[k] = queue[m] \o parts
      BY <1>2, <2>1, <2>2 DEF Dispatch
    <3> QED
      BY <2>1, <2>2, <3>1, ConcatEqualIffEmpty
  <2>3. CASE ~(k = m /\ open /\ m = current /\ parts # <<>>)
    BY <1>2, <2>1, <2>3 DEF Dispatch
  <2> QED
    BY <2>2, <2>3
<1> QED
  BY <1>1, <1>3, OutOfTurn

LEMMA AsideTurn ==
    ASSUME CallTypeOK, TurnInv,
           \/ Silence \/ RecorderStops
           \/ \E j \in jobs : JobEnds(j) \/ \E k \in 1 .. MaxModels : Submit(j, k)
           \/ StopElsewhere \/ \E m \in Msg : Stopped(m) \/ Fails(m)
           \/ \E p \in fetching : Fetched(p) \/ FetchFails(p)
    PROVE  TurnInv'
<1>1. /\ UNCHANGED <<open, current, hushed, monitor, assistantSpeaking, audio, spoken>>
      /\ UNCHANGED <<opened, queue>>
  BY DEF Silence, RecorderStops, JobEnds, Submit, Stopped, Fails, EndsShort, StopElsewhere,
         Fetched, FetchFails, playing, listening
<1> QED
  BY <1>1, OutOfTurn

LEMMA StartTurn ==
    ASSUME CallTypeOK, SpokenInv, TurnInv, NEW m \in Msg, Start(m)
    PROVE  TurnInv'
<1>1. /\ UNCHANGED <<open, hushed, audio, spoken, opened, queue>>
      /\ answer[m] = "asked"
  BY DEF Start, listening
<1>2. CASE ~open
  BY <1>1, <1>2, OutOfTurn DEF Start
<1>3. CASE open
  <2>1. current' = m /\ assistantSpeaking' = TRUE /\ monitor' = [monitor EXCEPT ![m] = "idle"]
    BY <1>3 DEF Start
  <2>2. spoken[m] = <<>> /\ monitor'[m] = "idle"
    BY <1>1, <2>1, TypeParts DEF SpokenInv, Untouched, PlayingOK
  <2>3. HasTurn' /\ OnlyCurrentPlays' /\ MutedWhileSpeaking'
    BY <1>1, <2>1, <2>2 DEF HasTurn, OnlyCurrentPlays, MutedWhileSpeaking
  <2>4. m \notin opened /\ \A k \in Msg \ {m} : monitor'[k] = monitor[k]
    BY <1>1, <2>1, TypeParts DEF SpokenInv, Untouched, PlayingOK
  <2> QED
    BY <1>1, <2>3, <2>4, TypeParts DEF TurnInv, QueueOK
<1> QED
  BY <1>2, <1>3

LEMMA PlayTurn ==
    ASSUME CallTypeOK, TurnInv, NEW m \in Msg, Play(m) \/ PlayFails(m)
    PROVE  TurnInv'
<1>0. PICK state \in {"playing", "stuck"} :
          /\ Take(m, state)
          /\ state = "playing" =>
                audio' = m /\ spoken' = [spoken EXCEPT ![m] = Append(@, Head(queue[m]))]
          /\ state = "stuck" => audio' = Null /\ spoken' = spoken
  BY DEF Play, PlayFails
<1>1. /\ UNCHANGED <<open, hushed, current, assistantSpeaking, opened>>
      /\ monitor[m] = "idle" /\ open /\ m = current /\ m # Null
  BY <1>0 DEF Take, Looks, listening, Msg, Null
<1>2. /\ Head(queue[m]) \in Part /\ monitor'[m] = state
      /\ \A k \in Msg \ {m} : /\ queue'[k] = queue[k]
                              /\ monitor[k] = "stuck" => monitor'[k] = "stuck"
  BY <1>0, TakeType
<1>3. state = "playing" => spoken'[m] # <<>>
  <2>1. spoken[m] \in Seq(Part)
    BY TypeParts DEF QueueOK
  <2> QED
    BY <1>0, <1>2, <2>1, AppendProperties, TypeParts DEF QueueOK
<1>4. \A k \in Msg \ {m} : spoken'[k] = spoken[k]
  BY <1>0, TypeParts DEF QueueOK
<1>5. m \in hushed \/ assistantSpeaking
  BY <1>1 DEF TurnInv, HasTurn
<1>6. HasTurn' /\ OnlyCurrentPlays' /\ MutedWhileSpeaking'
  BY <1>0, <1>1, <1>2, <1>5 DEF HasTurn, OnlyCurrentPlays, MutedWhileSpeaking
<1>7. ASSUME NEW k \in opened'
      PROVE  spoken'[k] # <<>> \/ queue'[k] # <<>> \/ monitor'[k] = "stuck"
  <2>1. k \in Msg /\ k \in opened
    BY <1>1, TypeParts DEF QueueOK
  <2>2. CASE k = m
    BY <1>2, <1>3, <2>2
  <2>3. CASE k # m
    BY <1>2, <1>4, <2>1, <2>3 DEF TurnInv
  <2> QED
    BY <2>2, <2>3
<1>8. audio' # Null => open'
  BY <1>1
<1> QED
  BY <1>6, <1>7, <1>8 DEF TurnInv

LEMMA CloseTurn ==
    ASSUME CallTypeOK, TurnInv, NEW m \in Msg, Close(m)
    PROVE  TurnInv'
<1>1. /\ UNCHANGED <<open, hushed, current, opened, queue, spoken, audio>>
      /\ monitor[m] = "idle" /\ open /\ m = current /\ queue[m] = <<>> /\ m \in opened /\ m # Null
  BY DEF Close, Looks, listening, Msg, Null
<1>2. monitor'[m] = "closed"
  BY TypeParts DEF Close, PlayingOK
<1>3. audio = Null
  <2>1. spoken[m] # <<>> /\ audio \in {Null, m}
    BY <1>1 DEF TurnInv, OnlyCurrentPlays
  <2> QED
    BY <1>1, <2>1, TypeParts DEF PlayingOK
<1>4. HasTurn' /\ OnlyCurrentPlays' /\ MutedWhileSpeaking'
  BY <1>1, <1>2, <1>3 DEF HasTurn, OnlyCurrentPlays, MutedWhileSpeaking
<1>5. \A k \in Msg : monitor[k] = "stuck" => monitor'[k] = "stuck"
  BY <1>1, TypeParts DEF Close, PlayingOK
<1> QED
  BY <1>1, <1>3, <1>4, <1>5, TypeParts DEF TurnInv, QueueOK

LEMMA LoopTurn ==
    ASSUME CallTypeOK, TurnInv, AudioEnds \/ \E m \in Msg : Abort(m)
    PROVE  TurnInv'
<1>1. UNCHANGED <<open, hushed, current, opened, queue, spoken, assistantSpeaking>>
  BY DEF AudioEnds, Abort, listening
<1>0. \A k \in opened : k \in Msg /\ (monitor[k] = "stuck" => monitor'[k] = "stuck")
  BY TypeParts DEF AudioEnds, Abort, PlayingOK, QueueOK
<1>2. CASE AudioEnds
  <2>1. audio \in Msg /\ audio' = Null /\ monitor[audio] = "playing" /\ monitor' = [monitor EXCEPT ![audio] = "idle"]
    BY <1>2, TypeParts DEF AudioEnds, PlayingOK
  <2>2. HasTurn' /\ OnlyCurrentPlays' /\ MutedWhileSpeaking'
    BY <1>1, <2>1, TypeParts DEF TurnInv, HasTurn, OnlyCurrentPlays, MutedWhileSpeaking, PlayingOK
  <2> QED
    BY <1>0, <1>1, <2>1, <2>2 DEF TurnInv
<1>3. ASSUME NEW m \in Msg, Abort(m) PROVE TurnInv'
  <2>1. audio' = audio /\ monitor' = [monitor EXCEPT ![m] = "aborted"] /\ ~(open /\ m = current)
    BY <1>3 DEF Abort, Looks
  <2>2. open /\ current # Null => monitor'[current] = monitor[current]
    BY <2>1, TypeParts DEF PlayingOK
  <2>3. HasTurn' /\ MutedWhileSpeaking'
    BY <1>1, <2>1, <2>2 DEF TurnInv, HasTurn, MutedWhileSpeaking
  <2>4. OnlyCurrentPlays'
    BY <1>1, <2>1, <2>2, TypeParts DEF TurnInv, OnlyCurrentPlays, PlayingOK
  <2> QED
    BY <1>0, <1>1, <2>1, <2>3, <2>4 DEF TurnInv
<1> QED
  BY <1>2, <1>3

--------------------------------------------------------------------------------
(* The theorems *)

CallInv == CallTypeOK /\ AskedInOrder /\ SpokenInv /\ TurnInv

LEMMA InitCallInv == CallInit => CallInv
<1> SUFFICES ASSUME CallInit PROVE CallInv
  OBVIOUS
<1>1. CallTypeOK
  BY CallTypeInit
<1>2. AskedInOrder
  <2>1. 0 \in 0 .. MaxMsgs /\ 1 .. 0 = {}
    BY BoundsAssumption
  <2>2. {k \in Msg : answer[k] # "none"} = {}
    BY DEF CallInit
  <2> QED
    BY <2>1, <2>2 DEF AskedInOrder
<1>3. SpokenInv
  <2>1. ASSUME NEW m \in Msg PROVE Untouched(m) /\ Counted(m) /\ Followed(m) /\ PlayedOut(m)
    BY DEF CallInit, Untouched, Counted, Followed, PlayedOut, Msg, Null
  <2> QED
    BY <2>1 DEF CallInit, SpokenInv
<1>4. TurnInv
  BY DEF CallInit, TurnInv, HasTurn, OnlyCurrentPlays, MutedWhileSpeaking
<1> QED
  BY <1>1, <1>2, <1>3, <1>4 DEF CallInv

LEMMA StepCallInv == ASSUME CallInv, Step PROVE CallInv'
<1> USE DEF CallInv
<1>1. CASE Tap \/ HangUp \/ Sound
  <2>1. UNCHANGED answer
    BY <1>1 DEF Tap, HangUp, Sound, StopAllAudio
  <2> QED
    BY <1>1, <2>1, InterruptType, OrderKept, AsideSteps, AsideSpoken, InterruptTurn
<1>2. CASE Silence \/ RecorderStops
  <2>1. UNCHANGED answer
    BY <1>2 DEF Silence, RecorderStops, content
  <2> QED
    BY <1>2, <2>1, UtteranceType, OrderKept, AsideSteps, AsideSpoken, AsideTurn
<1>3. ASSUME NEW j \in jobs, JobEnds(j) PROVE CallInv'
  <2>1. UNCHANGED answer
    BY <1>3 DEF JobEnds, content
  <2> QED
    BY <1>3, <2>1, JobType, OrderKept, AsideSteps, AsideSpoken, AsideTurn
<1>4. ASSUME NEW j \in jobs, NEW k \in 1 .. MaxModels, Submit(j, k) PROVE CallInv'
  BY <1>4, JobType, SubmitNew, SubmitIsAside, AsideSpoken, AsideTurn
<1>5. ASSUME NEW m \in Msg, Start(m) PROVE CallInv'
  <2>1. AskedInOrder'
    <3>1. answer[m] = "asked" /\ answer' = [answer EXCEPT ![m] = "written"]
      BY <1>5 DEF Start
    <3> QED
      BY <3>1, OrderKept, TypeParts DEF ContentOK
  <2>2. Untouched(m)
    BY DEF SpokenInv
  <2> QED
    BY <1>5, <2>1, <2>2, StartType, StartSpoken, StartTurn
<1>6. ASSUME NEW m \in Msg, NEW n \in Part, Grow(m, n) PROVE CallInv'
  <2>1. UNCHANGED answer
    BY <1>6 DEF Grow
  <2> QED
    BY <1>6, <2>1, GrowType, OrderKept, GrowSpoken, DispatchTurn
<1>7. ASSUME NEW m \in Msg, NEW n \in Part, Finish(m, n) PROVE CallInv'
  <2>1. AskedInOrder'
    <3>1. answer[m] = "written" /\ answer' = [answer EXCEPT ![m] = "ended"]
      BY <1>7 DEF Finish
    <3> QED
      BY <3>1, OrderKept, TypeParts DEF ContentOK
  <2> QED
    BY <1>7, <2>1, FinishType, FinishSpoken, DispatchTurn
<1>8. ASSUME NEW m \in Msg, Stopped(m) \/ Fails(m) PROVE CallInv'
  <2>1. AskedInOrder'
    <3>1. answer[m] = "written" /\ \E how \in {"stopped", "failed"} : answer' = [answer EXCEPT ![m] = how]
      BY <1>8 DEF Stopped, Fails, EndsShort
    <3> QED
      BY <3>1, OrderKept, TypeParts DEF ContentOK
  <2> QED
    BY <1>8, <2>1, EndsType, AsideSteps, AsideSpoken, AsideTurn
<1>9. ASSUME NEW m \in Msg, Play(m) \/ PlayFails(m) \/ Close(m) \/ Abort(m) PROVE CallInv'
  <2>1. AskedInOrder'
    BY <1>9, OrderKept DEF Play, PlayFails, Take, Close, Abort, content
  <2>2. CallTypeOK'
    BY <1>9, PlayType, LoopType
  <2> QED
    BY <1>9, <2>1, <2>2, PlaySpoken, PlayTurn, CloseSpoken, CloseTurn, AsideSteps, AsideSpoken, LoopTurn
<1>10. ASSUME NEW p \in fetching, Fetched(p) \/ FetchFails(p) PROVE CallInv'
  <2>1. UNCHANGED answer
    BY <1>10 DEF Fetched, FetchFails, content
  <2> QED
    BY <1>10, <2>1, FetchType, OrderKept, AsideSteps, AsideSpoken, AsideTurn
<1>11. CASE AudioEnds
  <2>1. AskedInOrder'
    BY <1>11, OrderKept DEF AudioEnds, content
  <2>2. CallTypeOK'
    BY <1>11, LoopType
  <2> QED
    BY <1>11, <2>1, <2>2, AsideSteps, AsideSpoken, LoopTurn
<1>12. CASE StopElsewhere
  <2>1. UNCHANGED answer
    BY <1>12 DEF StopElsewhere
  <2> QED
    BY <1>12, <2>1, EndsType, OrderKept, AsideSteps, AsideSpoken, AsideTurn
<1> QED
  BY <1>1, <1>2, <1>3, <1>4, <1>5, <1>6, <1>7, <1>8, <1>9, <1>10, <1>11, <1>12 DEF Step

LEMMA StutterCallInv == ASSUME CallInv, UNCHANGED callVars PROVE CallInv'
<1>1. UNCHANGED <<content, playing, listening, leaps, faults>>
  BY DEF callVars
<1>2. CallTypeOK'
  BY <1>1, TypeParts, SamePlaying, SameContent, SameListening, TypePartsNext DEF CallInv
<1>3. AskedInOrder'
  BY <1>1, OrderKept DEF CallInv, content
<1>4. SpokenInv'
  BY <1>1, AsideSpoken DEF CallInv, Aside, content, playing, listening
<1>5. TurnInv'
  BY <1>1, OutOfTurn DEF CallInv, playing, listening
<1> QED
  BY <1>2, <1>3, <1>4, <1>5 DEF CallInv

LEMMA CallInvariant == CallSpec => []CallInv
<1>1. CallInv /\ [CallNext]_callVars => CallInv'
  BY StepCallInv, StutterCallInv DEF CallNext
<1> QED
  BY <1>1, InitCallInv, PTL DEF CallSpec

\* A voice call keeps the types of its state.
THEOREM CallTypeCorrect == CallSpec => []CallTypeOK
BY CallInvariant, PTL DEF CallInv

\* While a part of an answer plays, no sound begins an utterance, unless the voice may
\* interrupt or the user has interrupted that answer before; however many answers start,
\* end, fail, get stuck or are interrupted meanwhile.
THEOREM NotHeardWhileSpeakingAlways == CallSpec => NotHeardWhileSpeaking
<1>1. ASSUME CallInv, [CallNext]_callVars, mic = "listening", mic' = "hearing"
      PROVE  audio \in {Null} \cup hushed \/ VoiceInterruption
  <2>1. CASE Sound
    BY <1>1, <2>1 DEF Sound, Muted, CallInv, TurnInv, MutedWhileSpeaking
  <2>2. CASE ~Sound
    <3>1. UNCHANGED mic \/ mic' \in {"off", "stopping", "listening"}
      BY <1>1, <2>2 DEF CallNext, Step, Tap, HangUp, Silence, RecorderStops, JobEnds, Submit,
         Start, Grow, Finish, Stopped, Fails, EndsShort, StopElsewhere, Fetched, FetchFails,
         Play, PlayFails, Take, Close, Abort, AudioEnds, listening, callVars
    <3> QED
      BY <1>1, <3>1
  <2> QED
    BY <2>1, <2>2
<1> QED
  BY <1>1, CallInvariant, PTL DEF CallSpec, NotHeardWhileSpeaking

\* An answer that was spoken to its end, was not interrupted and came without leaps was spoken
\* part by part in order, each part once.
THEOREM SpokenInFullAlways == CallSpec => []SpokenInFull
<1>1. CallInv => SpokenInFull
  BY DEF CallInv, SpokenInv, PlayedOut, SpokenInFull
<1> QED
  BY <1>1, CallInvariant, PTL

================================================================================
