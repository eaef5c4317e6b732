------------------------------ MODULE FolderTree -------------------------------
(***************************************************************************)
(* Folders of chats: the rows of models/folders.py and models/chats.py,    *)
(* the handlers of routers/folders.py, and the pages of one user that show *)
(* the folders in their sidebars and change them (Sidebar.svelte,          *)
(* RecursiveFolder.svelte).                                                *)
(*                                                                         *)
(* The server is one process.  Its handlers for folders and chats do not   *)
(* wait, so each is one step, except create_folder, which runs in a thread *)
(* and may be overtaken between its query and its insertion.  The requests *)
(* of a page, and the answers, may overtake each other.  Names are         *)
(* compared as the queries do (case aside).                                *)
(***************************************************************************)
EXTENDS Naturals, FiniteSets, SequencesExt

CONSTANTS
    Folder,        \* ids of folders
    Chat,          \* ids of chats
    Name,          \* names of folders
    Page,          \* pages of the user
    Root,          \* parent_id or folder_id null
    Unmade,        \* an id that was not given out yet
    Deleted,       \* an id whose row was deleted
    NoName,        \* name of an id without a row
    MaxActions,    \* bound: things the user does
    MaxUpsets      \* bound: kinds of upset

ASSUME ConstantsAssumption ==
    /\ Root \notin Folder /\ Unmade \notin Folder \cup {Root}
    /\ Deleted \notin Folder \cup {Root, Unmade}
    /\ NoName \notin Name
    /\ MaxActions \in Nat /\ MaxUpsets \in Nat

Place == Folder \cup {Root}
NoRow(why) == [parent |-> why, name |-> NoName]
Row == [parent : Place, name : Name] \cup {NoRow(Unmade), NoRow(Deleted)}
WithParent(t, f, p) == [t EXCEPT ![f] = [parent |-> p, name |-> t[f].name]]
WithName(t, f, n) == [t EXCEPT ![f] = [parent |-> t[f].parent, name |-> n]]

VARIABLES
    rows,          \* the table of folders
    chats,         \* the folder_id of each chat
    shown,         \* `folders` of each page
    selected,      \* selectedFolder of each page
    calls,         \* requests of pages under way, and answers to them
    reloads,       \* requests for the list of folders under way, of each page
    lists,         \* lists of folders on their way to each page, in the order of sending
    last,          \* history: the page that had the last change made
    acts,          \* number of things the user did
    upset          \* history: what happened that the design does not absorb

server == <<rows, chats>>
vars == <<rows, chats, shown, selected, calls, reloads, lists, last, acts, upset>>

--------------------------------------------------------------------------------
(* Trees *)

There(t) == {f \in Folder : t[f].parent \in Place}
Children(t, p) == {f \in There(t) : t[f].parent = p}

\* What is below p: the least set with p's children and those of its members.
Below(t, p) ==
    {f \in There(t) : \A s \in SUBSET There(t) :
        (\A x \in s \cup {p} : Children(t, x) \subseteq s) => f \in s}

\* The sidebar shows the folders without a parent and what is below them.
Visible(t) == Below(t, Root)

Taken(t, p, n) == \E f \in Children(t, p) : t[f].name = n

\* Whatever is picked, something in it has its parent elsewhere.
Acyclic(t) == \A s \in SUBSET There(t) : s # {} => \E f \in s : t[f].parent \notin s

\* Upsets: the user acts on a page that is out of date, or while a call is under
\* way; drops a folder onto one that is two or more levels below it; something is
\* put into a folder that was deleted; a folder is inserted under a name that is
\* taken by then; a query that fails is taken for one that finds nothing; a deletion
\* fails halfway; an answer is lost; a renaming that was not made is answered with
\* null, or not at all; a list comes before an older one; a list request fails; a
\* refusal restores a name that has changed.
Upsets == {"hasty", "ontoGrandchild", "intoDeleted", "checkedEarly", "queryFailed",
           "deleteFailed", "answerLost", "nullAnswer", "overtaken", "listFailed", "restored"}
Upset(what) == upset' = upset \cup what /\ Cardinality(upset') <= MaxUpsets
If(cond, what) == IF cond THEN {what} ELSE {}

Forest(t) ==
    /\ Acyclic(t)
    /\ \A f \in There(t) : t[f].parent \in There(t) \cup {Root}
    /\ \A f, g \in There(t) : f # g /\ t[f].parent = t[g].parent => t[f].name # t[g].name

\* Some folders, a chat in one of them or in none, and pages that show them.
Init ==
    /\ rows \in [Folder -> Row]
    /\ \A f \in Folder : rows[f] # NoRow(Deleted)
    /\ Forest(rows)
    /\ \E c \in Chat, p \in There(rows) \cup {Root} :
         chats = [d \in Chat |-> IF d = c THEN p ELSE Unmade]
    /\ shown = [p \in Page |-> rows]
    /\ selected = [p \in Page |-> Root]
    /\ calls = {}
    /\ reloads = [p \in Page |-> 0]
    /\ lists = [p \in Page |-> <<>>]
    /\ last \in Page
    /\ acts = 0
    /\ upset = {}

--------------------------------------------------------------------------------
(* What the user does on a page *)

UpToDate(p) ==
    /\ shown[p] = rows
    /\ calls = {}
    /\ reloads = [q \in Page |-> 0]
    /\ lists = [q \in Page |-> <<>>]

Acts(p, what) ==
    /\ acts' = acts + 1
    /\ Upset(what \cup If(~UpToDate(p), "hasty"))

Asks(p, call, what) ==
    /\ Acts(p, what)
    /\ calls' = calls \cup {call}
    /\ UNCHANGED <<server, selected, reloads, lists, last>>

\* Mutation of DropFolder: a folder may be dropped onto one of its children.
DropOntoAny(p) ==
    \E f, g \in Visible(shown[p]) :
        /\ f # g
        /\ Asks(p, [op |-> "move", page |-> p, folder |-> f, to |-> g],
                If(g \in Below(shown[p], f) \ Children(shown[p], f), "ontoGrandchild"))
        /\ UNCHANGED shown

\* A folder is dropped onto another; the folder itself and its children do not take it.
DropFolder(p) ==
    \E f, g \in Visible(shown[p]) :
        /\ f # g
        /\ shown[p][g].parent # f
        /\ Asks(p, [op |-> "move", page |-> p, folder |-> f, to |-> g],
                If(g \in Below(shown[p], f) \ Children(shown[p], f), "ontoGrandchild"))
        /\ UNCHANGED shown

\* A folder is dropped onto the heading of the folders, or of the chats.
DropFolderAtTop(p) ==
    \E f \in Visible(shown[p]) :
        /\ shown[p][f].parent # Root
        /\ Asks(p, [op |-> "move", page |-> p, folder |-> f, to |-> Root], {})
        /\ UNCHANGED shown

\* A number makes the name differ from those at the top of the tree that is shown.
CreateFolder(p) ==
    \E n \in Name :
        /\ ~Taken(shown[p], Root, n)
        /\ Asks(p, [op |-> "create", page |-> p, name |-> n], {})
        /\ UNCHANGED shown

\* The page shows the new name before the server has it.
RenameFolder(p) ==
    \E f \in Visible(shown[p]), n \in Name :
        /\ Asks(p, [op |-> "rename", page |-> p, folder |-> f, name |-> n,
                    was |-> shown[p][f].name], {})
        /\ shown' = [shown EXCEPT ![p] = WithName(shown[p], f, n)]

DeleteFolder(p) ==
    \E f \in Visible(shown[p]) :
        /\ Asks(p, [op |-> "delete", page |-> p, folder |-> f], {})
        /\ UNCHANGED shown

SelectFolder(p) ==
    \E f \in Visible(shown[p]) :
        /\ Asks(p, [op |-> "select", page |-> p, folder |-> f], {})
        /\ UNCHANGED shown

\* The first prompt of a new chat goes into the folder that is selected.
NewChat(p) ==
    /\ Asks(p, [op |-> "newChat", page |-> p, to |-> selected[p]], {})
    /\ UNCHANGED shown

\* A chat is dropped onto a folder.  The page reads it first, and imports a copy of
\* one that was deleted, since lists of chats may be out of date.
DropChat(p) ==
    \E c \in {d \in Chat : chats[d] # Unmade}, g \in Visible(shown[p]) :
        /\ Acts(p, {})
        /\ \E d \in Chat :
             /\ IF chats[c] = Deleted
                THEN chats[d] = Unmade /\ chats' = [chats EXCEPT ![d] = Root]
                ELSE d = c /\ UNCHANGED chats
             /\ calls' = calls \cup {[op |-> "moveChat", page |-> p, chat |-> d, to |-> g]}
        /\ UNCHANGED <<rows, shown, selected, reloads, lists, last>>

\* Dropped onto the heading of the chats, a chat leaves the folder it was read to be in.
DropChatAtTop(p) ==
    \E c \in {d \in Chat : chats[d] \in Folder} :
        /\ Asks(p, [op |-> "moveChat", page |-> p, chat |-> c, to |-> Root], {})
        /\ UNCHANGED shown

\* One that was deleted is imported again, into no folder.
RestoreChat(p) ==
    /\ \E c, d \in Chat :
         /\ chats[c] = Deleted /\ chats[d] = Unmade
         /\ chats' = [chats EXCEPT ![d] = Root]
    /\ Acts(p, {})
    /\ reloads' = [reloads EXCEPT ![p] = @ + 1]
    /\ UNCHANGED <<rows, shown, selected, calls, lists, last>>

UserActs ==
    acts < MaxActions /\ \E p \in Page :
        \/ DropFolder(p) \/ DropFolderAtTop(p)
        \/ CreateFolder(p) \/ RenameFolder(p) \/ DeleteFolder(p)
        \/ SelectFolder(p) \/ NewChat(p)
        \/ DropChat(p) \/ DropChatAtTop(p) \/ RestoreChat(p)

--------------------------------------------------------------------------------
(* The handlers of the server *)

\* Without a success, a page asks for the list again only after a chat was dropped
\* onto the heading of the chats.
Reloads(r) ==
    IF r.op = "moveChat" /\ r.to = Root THEN [reloads EXCEPT ![r.page] = @ + 1] ELSE reloads

\* Refused, or a statement failed: the row is as it was.
Refuse(r) ==
    /\ calls' = calls \ {r}
    /\ reloads' = Reloads(r)
    /\ UNCHANGED <<server, shown, selected, lists, last, acts, upset>>

\* A change is made; the page asks for the list again once it has the answer.
Made(r, what) ==
    /\ calls' = calls \ {r}
    /\ last' = IF rows' = rows THEN last ELSE r.page
    /\ \/ reloads' = [reloads EXCEPT ![r.page] = @ + 1] /\ Upset(what)
       \/ reloads' = Reloads(r) /\ Upset(what \cup {"answerLost"})
    /\ UNCHANGED <<shown, selected, lists, acts>>

\* As Made, where the page does something else with the answer.
MadeAndAnswered(r, answer, what) ==
    /\ last' = IF rows' = rows THEN last ELSE r.page
    /\ \/ calls' = (calls \ {r}) \cup {answer} /\ Upset(what)
       \/ calls' = calls \ {r} /\ Upset(what \cup {"answerLost"})
    /\ UNCHANGED <<shown, selected, reloads, lists, acts>>

Missing(p) == p \notin There(rows) \cup {Root}

\* Mutation of UpdateParent: the name is looked for at the top of the tree.
UpdateParentUnderRoot(r) ==
    /\ r.op = "move"
    /\ \/ Refuse(r)
       \/ /\ r.folder \in There(rows)
          /\ rows' = WithParent(rows, r.folder, r.to)
          /\ UNCHANGED chats
          /\ Made(r, If(Missing(r.to), "intoDeleted")
                     \cup If(Taken(rows, Root, rows[r.folder].name), "queryFailed"))

\* The query for the name answers None when it fails; then the folder is moved.
UpdateParent(r) ==
    /\ r.op = "move"
    /\ \/ Refuse(r)
       \/ /\ r.folder \in There(rows)
          /\ rows' = WithParent(rows, r.folder, r.to)
          /\ UNCHANGED chats
          /\ Made(r, If(Missing(r.to), "intoDeleted")
                     \cup If(Taken(rows, r.to, rows[r.folder].name), "queryFailed"))

CheckName(r) ==
    /\ r.op = "create"
    /\ \/ Taken(rows, Root, r.name) /\ Refuse(r)
       \/ /\ calls' = (calls \ {r}) \cup {[op |-> "insert", page |-> r.page, name |-> r.name]}
          /\ Upset(If(Taken(rows, Root, r.name), "queryFailed"))
          /\ UNCHANGED <<server, shown, selected, reloads, lists, last, acts>>

InsertFolder(r) ==
    /\ r.op = "insert"
    /\ \/ Refuse(r)
       \/ /\ \E f \in Folder :
               /\ rows[f].parent = Unmade
               /\ rows' = [rows EXCEPT ![f] = [parent |-> Root, name |-> r.name]]
          /\ UNCHANGED chats
          /\ Made(r, If(Taken(rows, Root, r.name), "checkedEarly"))

Answer(r, op) == [op |-> op, page |-> r.page, folder |-> r.folder, name |-> r.name, was |-> r.was]

\* It looks for the name twice.  A failure is answered with null; so is a name that only
\* the second query finds.  An answer that does not come is null to the page, too.
UpdateName(r) ==
    /\ r.op = "rename"
    /\ \/ /\ calls' = (calls \ {r}) \cup {Answer(r, "refused")}
          /\ UNCHANGED <<server, last, upset>>
       \/ /\ r.folder \in There(rows)
          /\ rows' = WithName(rows, r.folder, r.name)
          /\ UNCHANGED chats
          /\ last' = r.page
          /\ LET what == If(\E g \in Children(rows, rows[r.folder].parent) \ {r.folder} :
                                rows[g].name = r.name, "queryFailed")
             IN  \/ calls' = (calls \ {r}) \cup {Answer(r, "renamed")} /\ Upset(what)
                 \/ calls' = calls \ {r} /\ Upset(what \cup {"answerLost"})
       \/ /\ calls' = calls \ {r}
          /\ Upset({"nullAnswer"})
          /\ UNCHANGED <<server, last>>
    /\ UNCHANGED <<shown, selected, reloads, lists, acts>>

\* Rows that a deletion below f has removed when a statement fails: what is below a
\* folder goes before it, and the part below one child before that below the next.
RemovedBefore(f) ==
    {s \in SUBSET Below(rows, f) :
        /\ \A x \in s : Children(rows, x) \subseteq s
        /\ \A x, y \in Below(rows, f) \ s :
             /\ rows[x].parent = rows[y].parent
             /\ Below(rows, x) \cap s # {} /\ Below(rows, y) \cap s # {}
             => x = y}

Removed(fs) == [f \in Folder |-> IF f \in fs THEN NoRow(Deleted) ELSE rows[f]]
RemoveChats(fs) == [c \in Chat |-> IF chats[c] \in fs THEN Deleted ELSE chats[c]]

\* Mutation of Deletes: the chats of the folder go, those of its subfolders stay.
DeletesOwnChats(r, folders, emptied, what) ==
    /\ rows' = Removed(folders)
    /\ chats' = RemoveChats(emptied \cap {r.folder})
    /\ MadeAndAnswered(r, [op |-> "deleted", page |-> r.page], what)

\* The folders are deleted, then the chats of each.  A failure among the folders is
\* answered as a success and leaves the chats; so is the recursion without end in a
\* cycle, before which branches beside the cycle may have gone.
Deletes(r, folders, emptied, what) ==
    /\ rows' = Removed(folders)
    /\ chats' = RemoveChats(emptied)
    /\ MadeAndAnswered(r, [op |-> "deleted", page |-> r.page], what)

DeleteRows(r) ==
    /\ r.op = "delete"
    /\ LET f == r.folder
           all == Below(rows, f) \cup {f}
       IN  \/ Refuse(r)                                    \* not there, or not permitted
           \/ /\ f \in There(rows)
              /\ IF f \in Below(rows, f)
                 THEN \E s \in SUBSET (Below(rows, f) \ {f}) :
                        /\ \A x \in s : Children(rows, x) \subseteq s
                        /\ Deletes(r, s, {}, If(s # {}, "deleteFailed"))
                 ELSE \/ Deletes(r, all, all, {})
                      \/ \E s \in RemovedBefore(f) : Deletes(r, s, {}, {"deleteFailed"})
                      \/ \E s \in SUBSET all : Deletes(r, all, s, {"deleteFailed"})

ReadFolder(r) ==
    /\ r.op = "select"
    /\ \/ Refuse(r)
       \/ /\ r.folder \in There(rows)
          /\ calls' = (calls \ {r}) \cup {[op |-> "selected", page |-> r.page, folder |-> r.folder]}
          /\ UNCHANGED <<server, shown, selected, reloads, lists, last, acts, upset>>

UpdateChatFolder(r) ==
    /\ r.op = "moveChat"
    /\ \/ Refuse(r)
       \/ /\ chats[r.chat] # Deleted
          /\ chats' = [chats EXCEPT ![r.chat] = r.to]
          /\ UNCHANGED rows
          /\ Made(r, If(Missing(r.to), "intoDeleted"))

InsertChat(r) ==
    /\ r.op = "newChat"
    /\ \/ Refuse(r)
       \/ /\ \E c \in Chat :
               /\ chats[c] = Unmade
               /\ chats' = [chats EXCEPT ![c] = r.to]
          /\ UNCHANGED rows
          /\ MadeAndAnswered(r, [op |-> "chatMade", page |-> r.page],
                             If(Missing(r.to), "intoDeleted"))

Orphans == {f \in There(rows) : Missing(rows[f].parent)}

\* Mutation of Raised: the folders stay where the table has them.
Unraised(fs) == rows

\* get_folders moves folders to the top.
Raised(fs) ==
    [f \in Folder |-> IF f \in fs THEN [parent |-> Root, name |-> rows[f].name] ELSE rows[f]]

Sends(p, t) == lists' = [lists EXCEPT ![p] = Append(@, t)]

\* ... those whose parent is missing, and those for which the query for the parent fails.
\* A list that fails halfway is shown as an empty one, or leaves the page as it is.
GetFolders(p) ==
    /\ reloads[p] > 0
    /\ reloads' = [reloads EXCEPT ![p] = @ - 1]
    /\ \E fs \in SUBSET {f \in There(rows) : rows[f].parent # Root} :
         LET what == If(~(fs \subseteq Orphans), "queryFailed")
         IN  /\ rows' = Raised(fs)
             /\ \/ Orphans \subseteq fs /\ Sends(p, Raised(fs)) /\ Upset(what)
                \/ /\ Sends(p, [f \in Folder |-> NoRow(Unmade)]) \/ UNCHANGED lists
                   /\ Upset(what \cup {"listFailed"})
    /\ last' = IF rows' = rows THEN last ELSE p
    /\ UNCHANGED <<chats, shown, selected, calls, acts>>

ServerActs ==
    \/ \E r \in calls :
        \/ UpdateParent(r) \/ CheckName(r) \/ InsertFolder(r) \/ UpdateName(r)
        \/ DeleteRows(r) \/ ReadFolder(r) \/ UpdateChatFolder(r) \/ InsertChat(r)
    \/ \E p \in Page : GetFolders(p)

--------------------------------------------------------------------------------
(* What a page does with answers *)

ShowFolders(p, i) ==
    /\ shown' = [shown EXCEPT ![p] = lists[p][i]]
    /\ lists' = [lists EXCEPT ![p] = RemoveAt(@, i)]
    /\ Upset(If(i # 1, "overtaken"))
    /\ UNCHANGED <<server, selected, calls, reloads, last, acts>>

\* The name is set again; a folder that is no longer in the list raises an error.
Renamed(r) ==
    /\ r.op = "renamed"
    /\ calls' = calls \ {r}
    /\ IF r.folder \in There(shown[r.page])
       THEN /\ shown' = [shown EXCEPT ![r.page] = WithName(shown[r.page], r.folder, r.name)]
            /\ reloads' = [reloads EXCEPT ![r.page] = @ + 1]
       ELSE UNCHANGED <<shown, reloads>>
    /\ UNCHANGED <<server, selected, lists, last, acts, upset>>

NotRenamed(r) ==
    /\ r.op = "refused"
    /\ calls' = calls \ {r}
    /\ IF r.folder \in There(shown[r.page])
       THEN /\ shown' = [shown EXCEPT ![r.page] = WithName(shown[r.page], r.folder, r.was)]
            /\ Upset(If(r.was # rows[r.folder].name, "restored"))
       ELSE UNCHANGED <<shown, upset>>
    /\ UNCHANGED <<server, selected, reloads, lists, last, acts>>

\* Mutation of FolderDeleted: the page does not ask for the list again.
DeletedNotReloaded(r) ==
    /\ r.op = "deleted"
    /\ calls' = calls \ {r}
    /\ selected' = [selected EXCEPT ![r.page] = Root]
    /\ UNCHANGED <<server, shown, reloads, lists, last, acts, upset>>

FolderDeleted(r) ==
    /\ r.op = "deleted"
    /\ calls' = calls \ {r}
    /\ selected' = [selected EXCEPT ![r.page] = Root]
    /\ reloads' = [reloads EXCEPT ![r.page] = @ + 1]
    /\ UNCHANGED <<server, shown, lists, last, acts, upset>>

FolderSelected(r) ==
    /\ r.op = "selected"
    /\ calls' = calls \ {r}
    /\ selected' = [selected EXCEPT ![r.page] = r.folder]
    /\ UNCHANGED <<server, shown, reloads, lists, last, acts, upset>>

ChatMade(r) ==
    /\ r.op = "chatMade"
    /\ calls' = calls \ {r}
    /\ selected' = [selected EXCEPT ![r.page] = Root]
    /\ UNCHANGED <<server, shown, reloads, lists, last, acts, upset>>

PageGoesOn ==
    \/ \E p \in Page : \E i \in DOMAIN lists[p] : ShowFolders(p, i)
    \/ \E r \in calls :
        Renamed(r) \/ NotRenamed(r) \/ FolderDeleted(r) \/ FolderSelected(r) \/ ChatMade(r)

Next == UserActs \/ ServerActs \/ PageGoesOn

Spec == Init /\ [][Next]_vars

--------------------------------------------------------------------------------
(* Properties *)

Without(bad) == upset \cap bad = {}
Quiet == calls = {} /\ reloads = [p \in Page |-> 0] /\ lists = [p \in Page |-> <<>>]

Call ==
    [op : {"move"}, page : Page, folder : Folder, to : Place]
    \cup [op : {"create", "insert"}, page : Page, name : Name]
    \cup [op : {"rename", "renamed", "refused"}, page : Page, folder : Folder,
          name : Name, was : Name]
    \cup [op : {"delete", "select", "selected"}, page : Page, folder : Folder]
    \cup [op : {"newChat"}, page : Page, to : Place]
    \cup [op : {"moveChat"}, page : Page, chat : Chat, to : Place]
    \cup [op : {"deleted", "chatMade"}, page : Page]

\* What is on its way to each page.
Sent == [Page -> Seq([Folder -> Row])]

\* Every variable has its type.
TypeOK ==
    /\ rows \in [Folder -> Row]
    /\ chats \in [Chat -> Place \cup {Unmade, Deleted}]
    /\ shown \in [Page -> [Folder -> Row]]
    /\ selected \in [Page -> Place]
    /\ calls \subseteq Call
    /\ reloads \in [Page -> Nat]
    /\ lists \in Sent
    /\ last \in Page
    /\ acts \in Nat
    /\ upset \subseteq Upsets

\* No folder is below itself: the handler of a drop refuses what would close a
\* cycle, as long as the user acts on what is up to date and the drop does not end
\* two or more levels below the folder, where nothing refuses it.
TreeHolds == Without({"hasty", "ontoGrandchild"}) => Acyclic(rows)

\* Folders below one parent have different names, whatever pages are out of date and
\* whatever overtakes what, but for three ways round the queries for a name: a creation
\* that inserts late, a query that fails, and the repair of missing parents, which asks none.
SiblingsDiffer ==
    Without({"checkedEarly", "queryFailed", "intoDeleted"}) =>
        \A f, g \in There(rows) :
            f # g /\ rows[f].parent = rows[g].parent => rows[f].name # rows[g].name

\* A chat that was not deleted is in a list of the sidebar: that of the chats, or that
\* of a folder that the sidebar of an up-to-date page shows.
ChatsAreListed ==
    Without({"intoDeleted", "deleteFailed", "hasty", "ontoGrandchild"}) =>
        \A c \in Chat : chats[c] \in Folder => chats[c] \in Visible(rows)

\* A folder never hangs below one that the page does not know, on any page.
NoPlaceholders ==
    \A p \in Page : \A f \in There(shown[p]) :
        shown[p][f].parent \in There(shown[p]) \cup {Root}

\* When nothing is under way, the page that had the last change made shows the
\* folders as they are, although lists, refusals and the answers cross, and statements
\* fail; but not when an answer says nothing, of a renaming that was made or was not.
LastChangeShown ==
    Quiet /\ Without({"answerLost", "nullAnswer", "overtaken", "listFailed", "restored"}) =>
        shown[last] = rows
================================================================================
