-------------------------- MODULE MessageTree_proofs --------------------------
(***************************************************************************)
(* The tree of messages stays a tree whose branches are shown to their end *)
(* and in which answers answer questions, for any number of messages,      *)
(* models and waiting handlers, as long as no handler puts back a message  *)
(* that has been deleted or moved.                                         *)
(***************************************************************************)
EXTENDS MessageTree, FiniteSetTheorems, TLAPS

Calm == "staleCopy" \notin upset

\* A parent is older than its children: there are no cycles.
Older == \A m \in nodes : parent[m] < m

CurrentThere == current \in nodes \/ (current = Null /\ nodes = {})

TreeInv ==
    /\ LinksAgree
    /\ Older
    /\ nodes \subseteq 1 .. used
    /\ CurrentThere

\* What is asked for is an answer that was made.
AskedInv ==
    /\ \A r \in asked : r.msg <= used /\ role[r.msg] = "assistant"
    /\ \A s \in sends : \A m \in s.msgs : m <= used /\ role[m] = "assistant"

\* An answer has no children before it is done.
LeafInv ==
    /\ current \in nodes => children[current] = {}
    /\ \A m \in nodes \ done : role[m] = "assistant" => children[m] = {}

\* Questions and answers alternate, and every question has an answer.
Alternate ==
    \A m \in nodes :
        /\ role[m] = "assistant" => parent[m] \in nodes /\ role[parent[m]] = "user"
        /\ role[m] = "user" => /\ parent[m] # Null => role[parent[m]] = "assistant"
                               /\ children[m] # {}

AltInv ==
    /\ Alternate
    /\ current \in nodes => role[current] = "assistant"

--------------------------------------------------------------------------------
(* Type correctness *)

LEMMA GraftType ==
    ASSUME TypeOK, NEW n \in Nat, NEW above \in [Fresh(n) -> Id \cup {Null}],
           NEW roles \in [Fresh(n) -> {"user", "assistant"}],
           Graft(Fresh(n), above, roles), used' = used + n
    PROVE  /\ nodes' \subseteq Id
           /\ parent' \in [Id -> Id \cup {Null}]
           /\ children' \in [Id -> SUBSET Id]
           /\ role' \in [Id -> {"user", "assistant"}]
           /\ used' \in 0 .. MaxMessages
<1>1. used \in Nat /\ used <= MaxMessages /\ MaxMessages \in Nat
  BY BoundsAssumption DEF TypeOK
<1>2. n # 0 => used + n \in Id
  BY <1>1 DEF Graft, Fresh
<1>3. used' \in 0 .. MaxMessages
  BY <1>1, <1>2 DEF Id
<1> QED
  BY <1>3 DEF Graft, TypeOK

LEMMA AddQuestionType ==
    ASSUME TypeOK, NEW p \in Id \cup {Null}, NEW k \in 0 .. MaxModels, AddQuestion(p, k)
    PROVE  /\ nodes' \subseteq Id
           /\ parent' \in [Id -> Id \cup {Null}]
           /\ children' \in [Id -> SUBSET Id]
           /\ role' \in [Id -> {"user", "assistant"}]
           /\ used' \in 0 .. MaxMessages
           /\ current' \in Id \cup {Null}
           /\ Fresh(k + 1) \subseteq Id
           /\ used + 1 \in Fresh(k + 1) /\ used + k + 1 \in Fresh(k + 1)
<1>1. k + 1 \in Nat /\ used \in Nat /\ k \in Nat
  BY BoundsAssumption DEF TypeOK
<1>2. used + 1 \in Fresh(k + 1) /\ used + k + 1 \in Fresh(k + 1) /\ used' = used + (k + 1)
  BY <1>1 DEF Fresh, AddQuestion
<1>3. Fresh(k + 1) \subseteq Id
  BY DEF AddQuestion, Graft
<1>4. [m \in Fresh(k + 1) |-> IF m = used + 1 THEN p ELSE used + 1]
        \in [Fresh(k + 1) -> Id \cup {Null}]
  BY <1>2, <1>3
<1>5. [m \in Fresh(k + 1) |-> IF m = used + 1 THEN "user" ELSE "assistant"]
        \in [Fresh(k + 1) -> {"user", "assistant"}]
  OBVIOUS
<1> QED
  BY <1>1, <1>2, <1>3, <1>4, <1>5, GraftType DEF AddQuestion

LEMMA AddAnswersType ==
    ASSUME TypeOK, NEW p \in Id, NEW k \in 1 .. MaxModels, AddAnswers(p, k)
    PROVE  /\ nodes' \subseteq Id
           /\ parent' \in [Id -> Id \cup {Null}]
           /\ children' \in [Id -> SUBSET Id]
           /\ role' \in [Id -> {"user", "assistant"}]
           /\ used' \in 0 .. MaxMessages
           /\ current' \in Id \cup {Null}
           /\ Fresh(k) \subseteq Id
           /\ used + k \in Fresh(k)
<1>1. k \in Nat /\ used \in Nat
  BY BoundsAssumption DEF TypeOK
<1>2. used + k \in Fresh(k) /\ used' = used + k
  BY <1>1 DEF Fresh, AddAnswers
<1>3. Fresh(k) \subseteq Id
  BY DEF AddAnswers, Graft
<1>4. [m \in Fresh(k) |-> p] \in [Fresh(k) -> Id \cup {Null}]
  OBVIOUS
<1>5. [m \in Fresh(k) |-> "assistant"] \in [Fresh(k) -> {"user", "assistant"}]
  OBVIOUS
<1> QED
  BY <1>1, <1>2, <1>3, <1>4, <1>5, GraftType DEF AddAnswers

\* What a send holds is of the right type.
LEMMA SendType ==
    ASSUME NEW msgs \in SUBSET Id, NEW p \in Id, NEW b \in BOOLEAN
    PROVE  SendOK(SendOf(msgs, p, b))
BY DEF SendOK, SendOf, LinkSet

LEMMA CutType ==
    ASSUME TypeOK, NEW m \in Id
    PROVE  /\ Cut(m).nodes \subseteq nodes
           /\ Cut(m).parent \in [Id -> Id \cup {Null}]
           /\ Cut(m).children \in [Id -> SUBSET Id]
BY DEF TypeOK, Cut

\* Who waits keeps a message, also when it is put back.
LEMMA DetachedType ==
    ASSUME TypeOK, NEW holders, holders \subseteq HolderSet, NEW h \in HolderSet
    PROVE  /\ Detached(holders, h) \subseteq HolderSet
           /\ \A y \in Detached(holders, h) : \E x \in holders : y.msg = x.msg
<1> SUFFICES ASSUME NEW y \in Detached(holders, h)
             PROVE  y \in HolderSet /\ \E x \in holders : y.msg = x.msg
  OBVIOUS
<1>1. PICK x \in holders : y = IF ~h.live /\ x.live /\ x.msg = h.msg
                               THEN Holder(x.msg, FALSE, Links(x.msg), x.msg \in done) ELSE x
  BY DEF Detached
<1>2. x \in HolderSet /\ x.msg \in Id /\ Links(x.msg) \in LinkSet
  BY DEF HolderSet, TypeOK, Links, LinkSet
<1>3. CASE y = x
  BY <1>2, <1>3
<1>4. CASE y = Holder(x.msg, FALSE, Links(x.msg), x.msg \in done)
  <2> HIDE DEF LinkSet, Links
  <2> DEFINE d == x.msg \in done
  <2>1. d \in BOOLEAN
    OBVIOUS
  <2> HIDE DEF d
  <2>2. y = [msg |-> x.msg, live |-> FALSE, copy |-> Links(x.msg), done |-> d]
    BY <1>4 DEF Holder, d
  <2> QED
    BY <1>2, <2>1, <2>2 DEF HolderSet
<1> QED
  BY <1>1, <1>3, <1>4

LEMMA TypeStep == TypeOK /\ [Next]_vars => TypeOK'
<1> SUFFICES ASSUME TypeOK, [Next]_vars PROVE TypeOK'
  OBVIOUS
<1>m. MaxModels \in Nat \ {0} /\ MaxMessages \in Nat /\ used \in Nat /\ 1 \in 0 .. MaxModels
  BY BoundsAssumption DEF TypeOK
<1>1. ASSUME NEW k \in 1 .. MaxModels, SubmitPrompt(k) PROVE TypeOK'
  <2>1. k \in 0 .. MaxModels /\ current \in Id \cup {Null} /\ AddQuestion(current, k)
    BY <1>1, <1>m DEF SubmitPrompt, TypeOK
  <2>2. SendOK(SendOf(Fresh(k + 1) \ {used + 1}, used + 1, current = Null))
    BY <2>1, AddQuestionType, SendType
  <2> QED
    BY <1>1, <2>1, <2>2, AddQuestionType DEF SubmitPrompt, TypeOK
<1>20. ASSUME NEW k \in 0 .. MaxModels, NEW m \in Id, SubmitMessage(m, k) PROVE TypeOK'
  <2>1. AddQuestion(m, k) /\ SendOK(SendOf(Fresh(k + 1) \ {used + 1}, used + 1, FALSE))
    BY <1>20, AddQuestionType, SendType DEF SubmitMessage
  <2> QED
    BY <1>20, <2>1, AddQuestionType DEF SubmitMessage, TypeOK, UpsetIf, Upset, Upsets
<1>2. ASSUME NEW k \in 0 .. MaxModels, NEW m \in Id, EditQuestion(m, k) PROVE TypeOK'
  <2>1. parent[m] \in Id \cup {Null} /\ AddQuestion(parent[m], k)
    BY <1>2 DEF EditQuestion, TypeOK
  <2>2. SendOK(SendOf(Fresh(k + 1) \ {used + 1}, used + 1, FALSE))
    BY <2>1, AddQuestionType, SendType
  <2> QED
    BY <1>2, <2>1, <2>2, AddQuestionType DEF EditQuestion, TypeOK, UpsetIf, Upset, Upsets
<1>3. ASSUME NEW k \in 1 .. MaxModels, NEW m \in Id, Regenerate(m, k) PROVE TypeOK'
  <2>1. parent[m] \in Id /\ AddAnswers(parent[m], k)
    BY <1>3 DEF Regenerate, TypeOK
  <2>2. SendOK(SendOf(Fresh(k), parent[m], FALSE))
    BY <2>1, AddAnswersType, SendType
  <2> QED
    BY <1>3, <2>1, <2>2, AddAnswersType DEF Regenerate, TypeOK
<1>4. ASSUME NEW m \in Id, CopyAnswer(m) PROVE TypeOK'
  <2>1. parent[m] \in Id /\ AddAnswers(parent[m], 1) /\ 1 \in 1 .. MaxModels
    BY <1>4, <1>m DEF CopyAnswer, TypeOK
  <2>2. used + 1 \in Id
    BY <2>1, AddAnswersType
  <2> QED
    BY <1>4, <2>1, <2>2, AddAnswersType DEF CopyAnswer, TypeOK
<1>5. ASSUME NEW p \in Id \cup {Null}, AddPair(p), upset' \subseteq Upsets PROVE TypeOK'
  <2>1. AddQuestion(p, 1)
    BY <1>5 DEF AddPair
  <2>2. used + 2 \in Id
    <3>1. used + 1 + 1 \in Fresh(1 + 1) /\ Fresh(1 + 1) \subseteq Id
      BY <2>1, <1>m, AddQuestionType
    <3> QED
      BY <3>1, <1>m
  <2> QED
    BY <1>5, <1>m, <2>1, <2>2, AddQuestionType DEF AddPair, TypeOK
<1>6. ASSUME CreateMessagePair PROVE TypeOK'
  BY <1>5, <1>6 DEF CreateMessagePair, UpsetIf, Upset, Upsets, TypeOK
<1>7. ASSUME NEW p \in Id, AddMessages(p) PROVE TypeOK'
  BY <1>5, <1>7 DEF AddMessages, TypeOK
<1>8. ASSUME NEW m \in Id, DeleteMessage(m) PROVE TypeOK'
  <2>1. current' \in Id \cup {Null}
    BY <1>8, CutType DEF DeleteMessage, Remove, Leaves, TypeOK
  <2> QED
    BY <1>8, <2>1, CutType DEF DeleteMessage, Remove, TypeOK
<1>9. ASSUME NEW m \in Id, NEW s \in Id, ShowSibling(m, s) PROVE TypeOK'
  BY <1>9 DEF ShowSibling, Leaves, TypeOK
<1>10. ASSUME NEW s \in sends, ChatCreated(s) PROVE TypeOK'
  <2>1. SendOK([msgs |-> s.msgs \cap nodes, creating |-> FALSE,
                copy |-> [m \in s.msgs \cap nodes |-> Links(m)]])
    BY DEF TypeOK, SendOK, Links, LinkSet
  <2> QED
    BY <1>10, <2>1 DEF ChatCreated, TypeOK, tree
<1>11. ASSUME NEW s \in sends, ChatSaved(s) PROVE TypeOK'
  <2>1. SendOK(s)
    BY DEF TypeOK
  <2>2. \A m \in s.msgs : m \in Id /\ s.copy[m] \in LinkSet
    BY <2>1 DEF SendOK
  <2>3. ASSUME NEW r \in asked'
        PROVE  r \in HolderSet
    <3>1. CASE r \in asked
      BY <3>1 DEF TypeOK
    <3>2. CASE \E m \in s.msgs : r = RequestOf(m, FALSE, s.copy[m])
      BY <3>2, <2>2 DEF RequestOf, Holder, HolderSet
    <3> QED
      BY <3>1, <3>2, <1>11 DEF ChatSaved
  <2> QED
    BY <1>11, <2>3 DEF ChatSaved, TypeOK, tree
<1>12. ASSUME NEW s \in sends, SaveFails(s) PROVE TypeOK'
  BY <1>12 DEF SaveFails, TypeOK, tree
<1>13. ASSUME ContinueResponse PROVE TypeOK'
  <2>1. current \in Id
    BY <1>13 DEF ContinueResponse, TypeOK
  <2>2. NoLinks \in LinkSet
    BY DEF NoLinks, LinkSet
  <2>3. ASSUME NEW r \in asked'
        PROVE  r \in HolderSet
    <3>1. CASE r \in asked
      BY <3>1 DEF TypeOK
    <3>2. CASE r = RequestOf(current, TRUE, NoLinks)
      BY <3>2, <2>1, <2>2 DEF RequestOf, Holder, HolderSet
    <3> QED
      BY <3>1, <3>2, <1>13 DEF ContinueResponse
  <2> QED
    BY <1>13, <2>3 DEF ContinueResponse, TypeOK, tree
<1>14. ASSUME NEW r \in asked, Answered(r) PROVE TypeOK'
  BY <1>14 DEF Answered, TypeOK, tree
<1>15. ASSUME NEW r \in asked, PostFails(r) PROVE TypeOK'
  <2>1. r \in HolderSet /\ asked \ {r} \subseteq HolderSet /\ held \subseteq HolderSet
    BY DEF TypeOK
  <2>2. r.msg \in Id /\ Links(r.msg) \in LinkSet /\ r.copy \in LinkSet
    BY <2>1 DEF TypeOK, HolderSet, Links, LinkSet
  <2>3. asked' \subseteq HolderSet /\ held' \subseteq HolderSet
    BY <1>15, <2>1, DetachedType DEF PostFails
  <2> QED
    BY <1>15, <2>2, <2>3 DEF PostFails, PutBack, Upset, Upsets, LinkSet, TypeOK
<1>16. ASSUME NEW answers, AnswersEnd(answers) PROVE TypeOK'
  BY <1>16 DEF AnswersEnd, TypeOK, tree
<1>17. ASSUME NEW m \in Id, HoldMessage(m) PROVE TypeOK'
  <2>1. NoLinks \in LinkSet /\ Links(m) \in LinkSet
    BY DEF TypeOK, Links, NoLinks, LinkSet
  <2>2. Holder(m, TRUE, NoLinks, FALSE) \in HolderSet
    BY <2>1 DEF Holder, HolderSet
  <2>3. Holder(m, FALSE, Links(m), TRUE) \in HolderSet
    BY <2>1 DEF Holder, HolderSet
  <2> QED
    BY <1>17, <2>2, <2>3 DEF HoldMessage, TypeOK, tree
<1>18. ASSUME NEW h \in held, WriteBack(h) PROVE TypeOK'
  <2>1. h \in HolderSet /\ held \ {h} \subseteq HolderSet /\ asked \subseteq HolderSet
    BY DEF TypeOK
  <2>2. h.msg \in Id /\ Links(h.msg) \in LinkSet /\ h.copy \in LinkSet
    BY <2>1 DEF TypeOK, HolderSet, Links, LinkSet
  <2>3. held' \subseteq HolderSet /\ asked' \subseteq HolderSet
    BY <1>18, <2>1, DetachedType DEF WriteBack
  <2> QED
    BY <1>18, <2>2, <2>3 DEF WriteBack, PutBack, UpsetIf, Upset, Upsets, LinkSet, TypeOK
<1>21. ASSUME NEW h \in held, HandlerFails(h) PROVE TypeOK'
  BY <1>21 DEF HandlerFails, TypeOK, tree
<1>22. ASSUME NEW m \in Id, Renewed(m) PROVE TypeOK'
  <2>1. Holder(m, FALSE, Links(m), FALSE) \in HolderSet
    BY DEF Holder, HolderSet, TypeOK, Links, LinkSet
  <2>2. asked \subseteq HolderSet /\ held \subseteq HolderSet
    BY DEF TypeOK
  <2>3. asked' \subseteq HolderSet /\ held' \subseteq HolderSet
    BY <1>22, <2>1, <2>2, DetachedType DEF Renewed
  <2> QED
    BY <1>22, <2>3 DEF Renewed, TypeOK, tree
<1>19. CASE UNCHANGED vars
  BY <1>19 DEF vars, tree, TypeOK
<1> QED
  BY <1>1, <1>2, <1>3, <1>4, <1>6, <1>7, <1>8, <1>9, <1>10, <1>11, <1>12, <1>13, <1>14,
     <1>15, <1>16, <1>17, <1>18, <1>19, <1>20, <1>21, <1>22 DEF Next, Step

\* Every variable has its type, in every reachable state.
THEOREM TypeCorrect == Spec => []TypeOK
<1>1. Init => TypeOK
  <2> SUFFICES ASSUME Init PROVE TypeOK
    OBVIOUS
  <2>1. PICK n \in {0, 2} : n <= MaxMessages /\ Chain(n)
    BY DEF Init
  <2>2. MaxMessages \in Nat
    BY BoundsAssumption
  <2>3. 1 .. n \subseteq Id /\ n \in Id \cup {Null} /\ n \in 0 .. MaxMessages
    BY <2>1, <2>2 DEF Id, Null
  <2>4. \A m \in 1 .. n : m - 1 \in Id \cup {Null}
    BY <2>1, <2>2 DEF Id, Null
  <2>5. parent \in [Id -> Id \cup {Null}]
    BY <2>1, <2>4 DEF Chain
  <2>6. children \in [Id -> SUBSET Id]
    BY <2>1, <2>3 DEF Chain
  <2>7. role \in [Id -> {"user", "assistant"}]
    BY <2>1 DEF Chain
  <2> QED
    BY <2>1, <2>3, <2>5, <2>6, <2>7 DEF Chain, Init, TypeOK
<1> QED
  BY <1>1, TypeStep, PTL DEF Spec

--------------------------------------------------------------------------------
(* The links agree *)

\* New messages hang below messages that are there: the links still agree.
LEMMA GraftTree ==
    ASSUME TypeOK, TreeInv, NEW n \in Nat,
           NEW above \in [Fresh(n) -> Id \cup {Null}], NEW roles,
           Graft(Fresh(n), above, roles), used' = used + n,
           \A c \in Fresh(n) : /\ above[c] < c
                                /\ above[c] \in nodes \cup Fresh(n) \cup {Null}
    PROVE  LinksAgree' /\ Older' /\ (nodes \subseteq 1 .. used)'
<1>1. used \in Nat /\ Null \notin Id
  BY BoundsAssumption DEF TypeOK, Id, Null
<1>2. Fresh(n) \cap nodes = {} /\ Fresh(n) \subseteq Id /\ nodes \subseteq Id
  BY <1>1 DEF TreeInv, Fresh, Graft, TypeOK
<1>3. /\ nodes' = nodes \cup Fresh(n)
      /\ \A m \in nodes : parent'[m] = parent[m]
      /\ \A m \in Fresh(n) : parent'[m] = above[m]
  BY <1>2 DEF Graft
<1>4. /\ \A m \in nodes : children'[m] = children[m] \cup {c \in Fresh(n) : above[c] = m}
      /\ \A m \in Fresh(n) : children'[m] = {c \in Fresh(n) : above[c] = m}
  BY <1>2 DEF Graft
<1>5. ASSUME NEW m \in nodes', parent'[m] # Null
      PROVE  parent'[m] \in nodes' /\ m \in children'[parent'[m]]
  <2>1. CASE m \in nodes
    <3>1. parent[m] \in nodes /\ m \in children[parent[m]]
      BY <2>1, <1>3, <1>5 DEF TreeInv, LinksAgree
    <3> QED
      BY <2>1, <3>1, <1>3, <1>4
  <2>2. CASE m \in Fresh(n)
    <3>1. parent'[m] = above[m] /\ above[m] \in nodes \cup Fresh(n)
      BY <2>2, <1>3, <1>5
    <3> QED
      BY <2>2, <3>1, <1>3, <1>4
  <2> QED
    BY <2>1, <2>2, <1>3
<1>6. ASSUME NEW m \in nodes', NEW c \in children'[m]
      PROVE  c \in nodes' /\ parent'[c] = m
  <2>1. CASE c \in Fresh(n) /\ above[c] = m
    BY <2>1, <1>3
  <2>2. CASE m \in nodes /\ c \in children[m]
    <3>1. c \in nodes /\ parent[c] = m
      BY <2>2 DEF TreeInv, LinksAgree
    <3> QED
      BY <3>1, <1>3
  <2> QED
    BY <2>1, <2>2, <1>3, <1>4, <1>6
<1>7. LinksAgree'
  BY <1>5, <1>6 DEF LinksAgree
<1>8. Older'
  BY <1>3 DEF TreeInv, Older
<1>9. (nodes \subseteq 1 .. used)'
  BY <1>1, <1>3 DEF TreeInv, Fresh
<1> QED
  BY <1>7, <1>8, <1>9

LEMMA AddQuestionTree ==
    ASSUME TypeOK, TreeInv, NEW p \in nodes \cup {Null}, NEW k \in 0 .. MaxModels,
           AddQuestion(p, k)
    PROVE  /\ TreeInv'
           /\ \A m \in Fresh(k + 1) \ {used + 1} : m <= used' /\ role'[m] = "assistant"
<1> DEFINE above == [m \in Fresh(k + 1) |-> IF m = used + 1 THEN p ELSE used + 1]
           roles == [m \in Fresh(k + 1) |-> IF m = used + 1 THEN "user" ELSE "assistant"]
<1>1. k + 1 \in Nat /\ used \in Nat /\ k \in Nat /\ p \in Nat /\ p <= used /\ p \in Id \cup {Null}
  BY BoundsAssumption DEF TypeOK, TreeInv, Null, Id
<1>2. /\ Fresh(k + 1) \subseteq Id
      /\ used + 1 \in Fresh(k + 1) /\ used + k + 1 \in Fresh(k + 1)
  BY <1>1, AddQuestionType
<1>3. used' = used + (k + 1) /\ Graft(Fresh(k + 1), above, roles) /\ current' = used + k + 1
  BY <1>1 DEF AddQuestion
<1>4. above \in [Fresh(k + 1) -> Id \cup {Null}]
  BY <1>1, <1>2
<1>5. \A c \in Fresh(k + 1) : /\ above[c] < c
                               /\ above[c] \in nodes \cup Fresh(k + 1) \cup {Null}
  BY <1>1, <1>2 DEF Fresh
<1>6. LinksAgree' /\ Older' /\ (nodes \subseteq 1 .. used)'
  <2> HIDE DEF above, roles
  <2> QED
    BY <1>1, <1>3, <1>4, <1>5, GraftTree
<1>7. current' \in nodes'
  BY <1>2, <1>3 DEF Graft
<1>8. \A m \in Fresh(k + 1) \ {used + 1} : m <= used' /\ role'[m] = "assistant"
  BY <1>1, <1>2, <1>3 DEF Graft, Fresh
<1> QED
  BY <1>6, <1>7, <1>8 DEF TreeInv, CurrentThere

LEMMA AddAnswersTree ==
    ASSUME TypeOK, TreeInv, NEW p \in nodes, NEW k \in 1 .. MaxModels, AddAnswers(p, k)
    PROVE  /\ TreeInv'
           /\ \A m \in Fresh(k) : m <= used' /\ role'[m] = "assistant"
<1> DEFINE above == [m \in Fresh(k) |-> p]
           roles == [m \in Fresh(k) |-> "assistant"]
<1>1. k \in Nat /\ used \in Nat /\ p \in Id /\ p <= used /\ p \in Nat
  BY BoundsAssumption DEF TypeOK, TreeInv, Id
<1>2. Fresh(k) \subseteq Id /\ used + k \in Fresh(k)
  BY <1>1, AddAnswersType
<1>3. used' = used + k /\ Graft(Fresh(k), above, roles) /\ current' = used + k
  BY <1>1 DEF AddAnswers
<1>4. above \in [Fresh(k) -> Id \cup {Null}]
  BY <1>1
<1>5. \A c \in Fresh(k) : above[c] < c /\ above[c] \in nodes \cup Fresh(k) \cup {Null}
  BY <1>1 DEF Fresh
<1>6. LinksAgree' /\ Older' /\ (nodes \subseteq 1 .. used)'
  <2> HIDE DEF above, roles
  <2> QED
    BY <1>1, <1>3, <1>4, <1>5, GraftTree
<1>7. current' \in nodes'
  BY <1>2, <1>3 DEF Graft
<1>8. \A m \in Fresh(k) : m <= used' /\ role'[m] = "assistant"
  BY <1>1, <1>2, <1>3 DEF Graft, Fresh
<1> QED
  BY <1>6, <1>7, <1>8 DEF TreeInv, CurrentThere
Grand(m) == nodes \cap UNION {children[c] : c \in children[m] \cap nodes}

\* What is left after a deletion, and where it hangs.
LEMMA CutTree ==
    ASSUME TypeOK, TreeInv, NEW m \in nodes
    PROVE  /\ parent[m] \in Cut(m).nodes \cup {Null}
           /\ \A x \in Cut(m).nodes : \A c \in Cut(m).children[x] :
                 c \in Cut(m).nodes /\ Cut(m).parent[c] = x
           /\ \A x \in Cut(m).nodes :
                 /\ Cut(m).parent[x] < x
                 /\ Cut(m).parent[x] # Null =>
                        /\ Cut(m).parent[x] \in Cut(m).nodes
                        /\ x \in Cut(m).children[Cut(m).parent[x]]
<1> DEFINE p == parent[m]  new == Cut(m)
<1>1. /\ nodes \subseteq Id /\ Null \notin Id /\ Id \subseteq Nat /\ Null \in Nat
      /\ p \in Id \cup {Null}
  BY BoundsAssumption DEF TypeOK, Id, Null
<1>2. /\ \A x \in nodes : parent[x] < x /\ parent[x] \in Nat
      /\ \A x \in nodes : parent[x] # Null => parent[x] \in nodes /\ x \in children[parent[x]]
      /\ \A x \in nodes : \A c \in children[x] : c \in nodes /\ parent[c] = x
  BY <1>1 DEF TreeInv, LinksAgree, Older, TypeOK
<1>3. /\ new.nodes = nodes \ ({m} \cup children[m])
      /\ \A x \in Id : new.parent[x] = IF x \in Grand(m) THEN p ELSE parent[x]
      /\ \A x \in nodes : new.children[x] = IF x = p THEN (children[x] \ {m}) \cup Grand(m)
                                            ELSE children[x]
  BY <1>1 DEF Cut, Grand
<1>4. \A x : x \in Grand(m) <=> x \in nodes /\ parent[x] \in children[m]
  <2>1. ASSUME NEW x \in Grand(m) PROVE x \in nodes /\ parent[x] \in children[m]
    <3>1. PICK c \in children[m] \cap nodes : x \in children[c]
      BY <2>1 DEF Grand
    <3> QED
      BY <3>1, <1>2
  <2>2. ASSUME NEW x \in nodes, parent[x] \in children[m] PROVE x \in Grand(m)
    <3>1. parent[x] \in children[m] \cap nodes /\ parent[x] # Null
      BY <2>2, <1>1, <1>2
    <3>2. x \in children[parent[x]]
      BY <3>1, <1>2
    <3> QED
      BY <3>1, <3>2 DEF Grand
  <2> QED
    BY <2>1, <2>2
<1>5. p \in new.nodes \cup {Null}
  BY <1>1, <1>2, <1>3
<1>6. Grand(m) \subseteq new.nodes
  BY <1>1, <1>2, <1>3, <1>4
<1>7. ASSUME NEW x \in new.nodes, NEW c \in new.children[x]
      PROVE  c \in new.nodes /\ new.parent[c] = x
  <2>1. x \in nodes /\ x \in Id /\ x \in Nat
    BY <1>1, <1>3
  <2>2. CASE c \in Grand(m) /\ x = p
    BY <2>2, <1>6, <1>3, <1>1
  <2>3. CASE c \in children[x] /\ c # m
    <3>1. c \in nodes /\ parent[c] = x /\ c \in Id
      BY <2>1, <2>3, <1>1, <1>2
    <3>2. c \notin children[m]
      BY <3>1, <1>2, <1>3
    <3>3. c \notin Grand(m)
      BY <3>1, <1>4, <1>3
    <3> QED
      BY <2>3, <3>1, <3>2, <3>3, <1>3
  <2>4. m \in children[x] => x = p
    BY <2>1, <1>2
  <2> QED
    BY <2>1, <2>2, <2>3, <2>4, <1>3
<1>8. ASSUME NEW x \in new.nodes
      PROVE  /\ new.parent[x] < x
             /\ new.parent[x] # Null =>
                    new.parent[x] \in new.nodes /\ x \in new.children[new.parent[x]]
  <2>1. x \in nodes /\ x \in Id /\ x \in Nat /\ x # m /\ m \in Nat /\ p \in Nat
    BY <1>1, <1>3
  <2>2. CASE x \in Grand(m)
    <3>1. new.parent[x] = p
      BY <2>1, <2>2, <1>3
    <3>2. parent[x] \in nodes /\ parent[parent[x]] = m /\ parent[x] \in Nat
      BY <2>1, <2>2, <1>2, <1>4, <1>1
    <3>3. p < x
      BY <3>2, <2>1, <1>2
    <3> QED
      BY <3>1, <3>3, <2>2, <1>1, <1>3, <1>5
  <2>3. CASE x \notin Grand(m)
    <3>1. new.parent[x] = parent[x] /\ parent[x] < x
      BY <2>1, <2>3, <1>2, <1>3
    <3>2. ASSUME parent[x] # Null
          PROVE  parent[x] \in new.nodes /\ x \in new.children[parent[x]]
      <4>1. parent[x] \in nodes /\ x \in children[parent[x]]
        BY <3>2, <2>1, <1>2
      <4>2. parent[x] # m /\ parent[x] \notin children[m]
        BY <4>1, <2>1, <2>3, <1>3, <1>4
      <4> QED
        BY <4>1, <4>2, <2>1, <1>3
    <3> QED
      BY <3>1, <3>2
  <2> QED
    BY <2>2, <2>3
<1> QED
  BY <1>5, <1>7, <1>8

\* A deletion shows a branch of what is left to its end.
LEMMA DeleteTree ==
    ASSUME TypeOK, TreeInv, NEW m \in Id, DeleteMessage(m)
    PROVE  /\ m \in nodes
           /\ nodes' = Cut(m).nodes /\ parent' = Cut(m).parent /\ children' = Cut(m).children
           /\ current' \in nodes' /\ children'[current'] = {}
           /\ TreeInv'
<1>1. m \in nodes
  BY DEF DeleteMessage, MayDelete, Shown
<1>2. nodes' = Cut(m).nodes /\ parent' = Cut(m).parent /\ children' = Cut(m).children
  BY DEF DeleteMessage, Remove
<1>3. current' \in nodes' /\ children'[current'] = {}
  BY <1>1, <1>2, CutTree DEF DeleteMessage, Remove, Leaves
<1>4. LinksAgree' /\ Older'
  BY <1>1, <1>2, CutTree DEF LinksAgree, Older
<1>5. (nodes \subseteq 1 .. used)'
  BY <1>2, CutType DEF DeleteMessage, Remove, TreeInv
<1> QED
  BY <1>1, <1>2, <1>3, <1>4, <1>5 DEF TreeInv, CurrentThere

\* Without an upset nothing is put back but what is there.
LEMMA PutBackSame ==
    ASSUME TypeOK, NEW m \in nodes, PutBack(m, Links(m))
    PROVE  nodes' = nodes /\ parent' = parent /\ children' = children
BY DEF TypeOK, PutBack, Links

LEMMA WriteBackSame ==
    ASSUME TypeOK, NEW h \in held, WriteBack(h), Calm'
    PROVE  UNCHANGED <<tree, done>>
<1>1. "staleCopy" \notin upset'
  BY DEF Calm
<1>2. h.msg \in nodes /\ (IF h.live THEN Links(h.msg) ELSE h.copy) = Links(h.msg)
  BY <1>1 DEF WriteBack, UpsetIf, Upset
<1>3. done' = done
  BY <1>1 DEF WriteBack, UpsetIf, Upset
<1>4. PutBack(h.msg, Links(h.msg)) /\ UNCHANGED <<role, current, used>>
  BY <1>2 DEF WriteBack
<1> QED
  BY <1>2, <1>3, <1>4, PutBackSame DEF tree

\* Upsets are not forgotten.
LEMMA UpsetGrows == [Next]_vars => upset \subseteq upset'
<1> SUFFICES ASSUME [Next]_vars PROVE upset \subseteq upset'
  OBVIOUS
<1> QED
  BY DEF Next, Step, vars, SubmitPrompt, SubmitMessage, EditQuestion, Regenerate, CopyAnswer, CreateMessagePair,
         AddMessages, DeleteMessage, Remove, ShowSibling, ChatCreated, ChatSaved, SaveFails,
         ContinueResponse, Answered, PostFails, AnswersEnd, HoldMessage, WriteBack,
         HandlerFails, Renewed,
         Upset, UpsetIf

\* A step that leaves the tree alone and asks for nothing else.
LEMMA SameTree ==
    ASSUME TreeInv, UNCHANGED tree
    PROVE  TreeInv'
BY DEF TreeInv, LinksAgree, Older, CurrentThere, tree

LEMMA SameAsked ==
    ASSUME AskedInv, used' = used, role' = role, sends' \subseteq sends,
           \A r \in asked' : \E x \in asked : r.msg = x.msg
    PROVE  AskedInv'
BY DEF AskedInv

\* Making messages changes no role of those that are asked for.
LEMMA GrownAsked ==
    ASSUME TypeOK, AskedInv, used' \in Nat, used <= used',
           \A m \in Id : m <= used => role'[m] = role[m],
           asked' = asked,
           \A s \in sends' \ sends : \A m \in s.msgs : m <= used' /\ role'[m] = "assistant"
    PROVE  AskedInv'
<1>1. used \in Nat /\ Id \subseteq Nat
  BY BoundsAssumption DEF TypeOK, Id
<1>2. ASSUME NEW r \in asked' PROVE r.msg <= used' /\ role'[r.msg] = "assistant"
  <2>1. r \in asked
    BY <1>2
  <2>2. r.msg \in Id /\ r.msg <= used /\ role[r.msg] = "assistant"
    BY <2>1 DEF TypeOK, AskedInv, HolderSet
  <2>3. role'[r.msg] = role[r.msg]
    BY <2>2
  <2>4. r.msg <= used'
    <3>1. \A a, b, c \in Nat : a <= b /\ b <= c => a <= c
      OBVIOUS
    <3>2. r.msg \in Nat
      BY <2>2, <1>1
    <3> QED
      BY <2>2, <3>1, <3>2, <1>1
  <2> QED
    BY <2>2, <2>3, <2>4
<1>3. ASSUME NEW s \in sends', NEW m \in s.msgs PROVE m <= used' /\ role'[m] = "assistant"
  <2>1. CASE s \in sends
    <3>1. m \in Id /\ m <= used /\ role[m] = "assistant"
      BY <1>3, <2>1 DEF TypeOK, SendOK, AskedInv
    <3> QED
      BY <3>1, <1>1
  <2> QED
    BY <1>3, <2>1
<1> QED
  BY <1>2, <1>3 DEF AskedInv

\* One step without an upset keeps the links, the order and what is asked for.
LEMMA TreeStep ==
    ASSUME TypeOK, TypeOK', TreeInv, AskedInv, [Next]_vars, Calm'
    PROVE  TreeInv' /\ AskedInv'
<1>m. /\ MaxModels \in Nat \ {0} /\ used \in Nat /\ used' \in Nat
      /\ 1 \in 0 .. MaxModels /\ 1 \in 1 .. MaxModels /\ current \in nodes \cup {Null}
      /\ Null \notin Id /\ nodes \subseteq Id /\ nodes' \subseteq Id
  BY BoundsAssumption DEF TypeOK, Id, Null, TreeInv, CurrentThere
<1>p. \A m \in nodes : parent[m] \in nodes \cup {Null}
  BY DEF TreeInv, LinksAgree
<1>q. ASSUME NEW p \in nodes \cup {Null}, NEW k \in 0 .. MaxModels, AddQuestion(p, k),
             asked' = asked,
             \/ sends' = sends
             \/ \E b \in BOOLEAN :
                   sends' = sends \cup {SendOf(Fresh(k + 1) \ {used + 1}, used + 1, b)}
      PROVE  TreeInv' /\ AskedInv'
  <2>1. /\ TreeInv'
        /\ \A m \in Fresh(k + 1) \ {used + 1} : m <= used' /\ role'[m] = "assistant"
    BY <1>q, AddQuestionTree
  <2>2. used <= used' /\ \A m \in Id : m <= used => role'[m] = role[m]
    BY <1>q, <1>m DEF AddQuestion, Graft, Fresh, TypeOK, Id
  <2>3. \A s \in sends' \ sends : \A m \in s.msgs : m <= used' /\ role'[m] = "assistant"
    BY <1>q, <2>1 DEF SendOf
  <2> QED
    BY <1>q, <1>m, <2>1, <2>2, <2>3, GrownAsked
<1>a. ASSUME NEW p \in nodes, NEW k \in 1 .. MaxModels, AddAnswers(p, k),
             asked' = asked,
             sends' = sends \/ sends' = sends \cup {SendOf(Fresh(k), p, FALSE)}
      PROVE  TreeInv' /\ AskedInv'
  <2>1. TreeInv' /\ \A m \in Fresh(k) : m <= used' /\ role'[m] = "assistant"
    BY <1>a, AddAnswersTree
  <2>2. used <= used' /\ \A m \in Id : m <= used => role'[m] = role[m]
    BY <1>a, <1>m DEF AddAnswers, Graft, Fresh, TypeOK, Id
  <2>3. \A s \in sends' \ sends : \A m \in s.msgs : m <= used' /\ role'[m] = "assistant"
    BY <1>a, <2>1 DEF SendOf
  <2> QED
    BY <1>a, <1>m, <2>1, <2>2, <2>3, GrownAsked
<1>s. ASSUME UNCHANGED tree, asked' \subseteq asked, sends' \subseteq sends
      PROVE  TreeInv' /\ AskedInv'
  BY <1>s, SameTree, SameAsked DEF tree
<1>1. ASSUME NEW k \in 1 .. MaxModels, SubmitPrompt(k) PROVE TreeInv' /\ AskedInv'
  <2>1. k \in 0 .. MaxModels /\ (current = Null) \in BOOLEAN
    BY <1>m
  <2> QED
    BY <1>1, <1>q, <1>m, <2>1 DEF SubmitPrompt
<1>2. ASSUME NEW k \in 0 .. MaxModels, NEW m \in Id, EditQuestion(m, k)
      PROVE  TreeInv' /\ AskedInv'
  <2>1. parent[m] \in nodes \cup {Null}
    BY <1>2, <1>p DEF EditQuestion, Shown
  <2> QED
    BY <1>2, <1>q, <2>1 DEF EditQuestion
<1>19. ASSUME NEW k \in 0 .. MaxModels, NEW m \in Id, SubmitMessage(m, k)
       PROVE  TreeInv' /\ AskedInv'
  <2>1. m \in nodes \cup {Null}
    BY <1>19 DEF SubmitMessage, Offered, Shown
  <2> QED
    BY <1>19, <1>q, <2>1 DEF SubmitMessage
<1>3. ASSUME NEW k \in 1 .. MaxModels, NEW m \in Id, Regenerate(m, k)
      PROVE  TreeInv' /\ AskedInv'
  BY <1>3, <1>a DEF Regenerate
<1>4. ASSUME NEW m \in Id, CopyAnswer(m) PROVE TreeInv' /\ AskedInv'
  BY <1>4, <1>a, <1>m DEF CopyAnswer
<1>5. ASSUME CreateMessagePair PROVE TreeInv' /\ AskedInv'
  BY <1>5, <1>q, <1>m DEF CreateMessagePair, AddPair
<1>6. ASSUME NEW m \in Id, AddMessages(m) PROVE TreeInv' /\ AskedInv'
  <2>1. m \in nodes
    BY <1>6 DEF AddMessages, Offered, Shown
  <2> QED
    BY <1>6, <1>q, <1>m, <2>1 DEF AddMessages, AddPair
<1>7. ASSUME NEW m \in Id, DeleteMessage(m) PROVE TreeInv' /\ AskedInv'
  BY <1>7, DeleteTree, SameAsked DEF DeleteMessage, Remove
<1>8. ASSUME NEW m \in Id, NEW s \in Id, ShowSibling(m, s) PROVE TreeInv' /\ AskedInv'
  <2>1. TreeInv'
    BY <1>8 DEF ShowSibling, Leaves, TreeInv, LinksAgree, Older, CurrentThere
  <2> QED
    BY <1>8, <2>1, SameAsked DEF ShowSibling
<1>9. ASSUME NEW s \in sends, ChatCreated(s) PROVE TreeInv' /\ AskedInv'
  <2>1. TreeInv'
    BY <1>9, SameTree DEF ChatCreated
  <2>2. AskedInv'
    BY <1>9 DEF ChatCreated, AskedInv, tree
  <2> QED
    BY <2>1, <2>2
<1>10. ASSUME NEW s \in sends, ChatSaved(s) PROVE TreeInv' /\ AskedInv'
  <2>1. TreeInv'
    BY <1>10, SameTree DEF ChatSaved
  <2>2. ASSUME NEW r \in asked' PROVE r.msg <= used /\ role[r.msg] = "assistant"
    <3>1. CASE r \in asked
      BY <3>1 DEF AskedInv
    <3>2. CASE \E m \in s.msgs : r = RequestOf(m, FALSE, s.copy[m])
      BY <3>2 DEF AskedInv, RequestOf, Holder
    <3> QED
      BY <3>1, <3>2, <1>10 DEF ChatSaved
  <2>3. AskedInv'
    BY <1>10, <2>2 DEF ChatSaved, AskedInv, tree
  <2> QED
    BY <2>1, <2>3
<1>11. ASSUME NEW s \in sends, SaveFails(s) PROVE TreeInv' /\ AskedInv'
  BY <1>11, <1>s DEF SaveFails
<1>12. ASSUME ContinueResponse PROVE TreeInv' /\ AskedInv'
  <2>1. TreeInv'
    BY <1>12, SameTree DEF ContinueResponse
  <2>2. ASSUME NEW r \in asked' PROVE r.msg <= used /\ role[r.msg] = "assistant"
    <3>1. CASE r \in asked
      BY <3>1 DEF AskedInv
    <3>2. CASE r = RequestOf(current, TRUE, NoLinks) /\ role[current] = "assistant"
      <4>1. current <= used
        BY <1>12, <1>m DEF ContinueResponse, TreeInv
      <4> QED
        BY <3>2, <4>1 DEF RequestOf, Holder
    <3> QED
      BY <3>1, <3>2, <1>12 DEF ContinueResponse
  <2>3. AskedInv'
    BY <1>12, <2>2 DEF ContinueResponse, AskedInv, tree
  <2> QED
    BY <2>1, <2>3
<1>13. ASSUME NEW r \in asked, Answered(r) PROVE TreeInv' /\ AskedInv'
  BY <1>13, <1>s DEF Answered
<1>14. ASSUME NEW r \in asked, PostFails(r) PROVE TreeInv' /\ AskedInv'
  <2>1. r.msg \in nodes /\ PutBack(r.msg, Links(r.msg))
    BY <1>14 DEF PostFails, Upset, Calm
  <2>2. nodes' = nodes /\ parent' = parent /\ children' = children
    BY <2>1, PutBackSame
  <2>3. TreeInv'
    BY <1>14, <2>1, <2>2 DEF PostFails, TreeInv, LinksAgree, Older, CurrentThere
  <2>4. \A y \in asked' : \E x \in asked : y.msg = x.msg
    <3>1. r \in HolderSet /\ asked \ {r} \subseteq HolderSet
      BY DEF TypeOK
    <3> QED
      BY <1>14, <3>1, DetachedType DEF PostFails
  <2> QED
    BY <1>14, <2>3, <2>4, SameAsked DEF PostFails
<1>15. ASSUME NEW answers, AnswersEnd(answers) PROVE TreeInv' /\ AskedInv'
  BY <1>15, <1>s DEF AnswersEnd
<1>16. ASSUME NEW m \in Id, HoldMessage(m) PROVE TreeInv' /\ AskedInv'
  BY <1>16, <1>s DEF HoldMessage
<1>17. ASSUME NEW h \in held, WriteBack(h) PROVE TreeInv' /\ AskedInv'
  <2>1. UNCHANGED <<tree, done>>
    BY <1>17, WriteBackSame
  <2>2. TreeInv'
    BY <2>1, SameTree
  <2>3. \A y \in asked' : \E x \in asked : y.msg = x.msg
    <3>1. h \in HolderSet /\ asked \subseteq HolderSet
      BY DEF TypeOK
    <3> QED
      BY <1>17, <3>1, DetachedType DEF WriteBack
  <2> QED
    BY <1>17, <2>1, <2>2, <2>3, SameAsked DEF WriteBack, tree
<1>20. ASSUME NEW h \in held, HandlerFails(h) PROVE TreeInv' /\ AskedInv'
  BY <1>20, <1>s DEF HandlerFails
<1>21. ASSUME NEW m \in Id, Renewed(m) PROVE TreeInv' /\ AskedInv'
  <2>1. Holder(m, FALSE, Links(m), FALSE) \in HolderSet /\ asked \subseteq HolderSet
    BY DEF Holder, HolderSet, TypeOK, Links, LinkSet
  <2>2. \A y \in asked' : \E x \in asked : y.msg = x.msg
    BY <1>21, <2>1, DetachedType DEF Renewed
  <2>3. TreeInv'
    BY <1>21, SameTree DEF Renewed
  <2> QED
    BY <1>21, <2>2, <2>3, SameAsked DEF Renewed, tree
<1>18. CASE UNCHANGED vars
  BY <1>18, <1>s DEF vars
<1> QED
  BY <1>1, <1>2, <1>3, <1>4, <1>5, <1>6, <1>7, <1>8, <1>9, <1>10, <1>11, <1>12, <1>13, <1>14,
     <1>15, <1>16, <1>17, <1>18, <1>19, <1>20, <1>21 DEF Next, Step

\* The inductive invariant of the links, as long as nothing stale was put back.
TreeIInv == TypeOK /\ (Calm => TreeInv /\ AskedInv)

LEMMA TreeInit == Init => TreeInv /\ AskedInv
<1> SUFFICES ASSUME Init PROVE TreeInv /\ AskedInv
  OBVIOUS
<1>1. PICK n \in {0, 2} : n <= MaxMessages /\ Chain(n)
  BY DEF Init
<1>2. MaxMessages \in Nat
  BY BoundsAssumption
<1>3. CASE n = 0
  BY <1>1, <1>2, <1>3 DEF Init, Chain, TreeInv, LinksAgree, Older, CurrentThere, AskedInv, Null
<1>4. CASE n = 2
  <2>1. nodes = {1, 2} /\ 1 \in Id /\ 2 \in Id /\ current = 2 /\ used = 2
    BY <1>1, <1>2, <1>4 DEF Chain, Id
  <2>2. parent[1] = Null /\ parent[2] = 1
    BY <1>1, <1>4, <2>1 DEF Chain, Null
  <2>3. children[1] = {2} /\ children[2] = {}
    BY <1>1, <1>4, <2>1 DEF Chain
  <2> QED
    BY <2>1, <2>2, <2>3
    DEF Init, TreeInv, LinksAgree, Older, CurrentThere, AskedInv, Null
<1> QED
  BY <1>1, <1>3, <1>4

LEMMA TreeInvariant == Spec => []TreeIInv
<1>1. Init => (Calm => TreeInv /\ AskedInv)
  BY TreeInit
<1>2. TypeOK /\ TypeOK' /\ (Calm => TreeInv /\ AskedInv) /\ [Next]_vars
         => (Calm => TreeInv /\ AskedInv)'
  BY TreeStep, UpsetGrows DEF Calm
<1> QED
  BY <1>1, <1>2, TypeCorrect, PTL DEF Spec, TreeIInv

\* No message is lost from the chat without being deleted (Messages.svelte
\* deleteMessage, editMessage, showPreviousMessage; Chat.svelte submitPrompt,
\* createMessagePair, addMessages).
THEOREM TreeAgreesAlways == Spec => []TreeAgrees
<1>1. TreeIInv => TreeAgrees
  BY DEF TreeIInv, TreeAgrees, TreeInv, Calm
<1> QED
  BY <1>1, TreeInvariant, PTL

--------------------------------------------------------------------------------
(* The page shows a whole branch *)

LateOrEarly == upset \cap {"earlyPair", "lateFailure"} # {}

\* A question with its answers below p: nothing hangs below the last answer, nor
\* below an answer that is not done.
LEMMA AddQuestionLeaf ==
    ASSUME TypeOK, TreeInv, LeafInv, NEW p \in nodes \cup {Null}, NEW k \in 0 .. MaxModels,
           AddQuestion(p, k), done \subseteq done',
           p \in done \/ p = Null \/ role[p] = "user" \/ children[p] # {}
    PROVE  LeafInv'
<1>1. k + 1 \in Nat /\ used \in Nat /\ k \in Nat /\ Null \notin Id
  BY BoundsAssumption DEF TypeOK, Null, Id
<1>2. Fresh(k + 1) \subseteq Id /\ used + 1 \in Fresh(k + 1) /\ used + k + 1 \in Fresh(k + 1)
  BY <1>1, AddQuestionType DEF TypeOK
<1>3. Fresh(k + 1) \cap nodes = {} /\ p \notin Fresh(k + 1)
  BY <1>1, <1>2 DEF TreeInv, Fresh
<1>4. ASSUME NEW x \in Id, x # used + 1, x # p
      PROVE  children'[x] = IF x \in Fresh(k + 1) THEN {} ELSE children[x]
  BY <1>2, <1>4 DEF AddQuestion, Graft
<1>5. children'[current'] = {}
  <2>1. CASE k = 0
    <3>1. current' = used + 1 /\ Fresh(k + 1) = {used + 1}
      BY <1>1, <2>1 DEF AddQuestion, Fresh
    <3> QED
      BY <3>1, <1>2, <1>3 DEF AddQuestion, Graft
  <2>2. CASE k # 0
    <3>1. current' = used + k + 1 /\ current' # used + 1 /\ current' # p
      BY <1>1, <1>2, <1>3, <2>2 DEF AddQuestion
    <3> QED
      BY <3>1, <1>2, <1>4
  <2> QED
    BY <2>1, <2>2
<1>6. ASSUME NEW x \in nodes' \ done', role'[x] = "assistant" PROVE children'[x] = {}
  <2>1. x # used + 1 /\ x \in Id
    BY <1>2, <1>6 DEF AddQuestion, Graft, TypeOK
  <2>2. CASE x \in Fresh(k + 1)
    BY <2>1, <2>2, <1>3, <1>4
  <2>3. CASE x \in nodes /\ x \notin Fresh(k + 1)
    <3>1. x \in nodes \ done /\ role[x] = "assistant"
      BY <1>6, <2>1, <2>3 DEF AddQuestion, Graft
    <3>2. children[x] = {} /\ x # p
      BY <3>1, <1>1, <2>1 DEF LeafInv
    <3> QED
      BY <3>2, <2>1, <2>3, <1>4
  <2> QED
    BY <1>6, <2>2, <2>3 DEF AddQuestion, Graft
<1> QED
  BY <1>5, <1>6 DEF LeafInv

LEMMA AddAnswersLeaf ==
    ASSUME TypeOK, TreeInv, LeafInv, NEW p \in nodes, NEW k \in 1 .. MaxModels,
           AddAnswers(p, k), done \subseteq done', children[p] # {}
    PROVE  LeafInv'
<1>1. k \in Nat /\ used \in Nat /\ p \in Id /\ k # 0
  BY BoundsAssumption DEF TypeOK, Id
<1>2. Fresh(k) \subseteq Id /\ used + k \in Fresh(k)
  BY <1>1, AddAnswersType
<1>3. Fresh(k) \cap nodes = {}
  BY <1>1, <1>2 DEF TreeInv, Fresh
<1>4. ASSUME NEW x \in Id, x # p
      PROVE  children'[x] = IF x \in Fresh(k) THEN {} ELSE children[x]
  BY <1>2, <1>4 DEF AddAnswers, Graft
<1>5. children'[current'] = {}
  BY <1>2, <1>3, <1>4 DEF AddAnswers
<1>6. ASSUME NEW x \in nodes' \ done', role'[x] = "assistant" PROVE children'[x] = {}
  <2>1. x \in Id
    BY <1>2, <1>6 DEF AddAnswers, Graft, TypeOK
  <2>2. CASE x \in Fresh(k)
    BY <2>1, <2>2, <1>3, <1>4
  <2>3. CASE x \in nodes /\ x \notin Fresh(k)
    <3>1. x \in nodes \ done /\ role[x] = "assistant"
      BY <1>6, <2>1, <2>3 DEF AddAnswers, Graft
    <3>2. children[x] = {} /\ x # p
      BY <3>1 DEF LeafInv
    <3> QED
      BY <3>2, <2>1, <2>3, <1>4
  <2> QED
    BY <1>6, <2>2, <2>3 DEF AddAnswers, Graft
<1> QED
  BY <1>5, <1>6 DEF LeafInv

LEMMA LeafStep ==
    ASSUME TypeOK, TypeOK', TreeInv, AskedInv, LeafInv, [Next]_vars, Calm', ~LateOrEarly'
    PROVE  LeafInv'
<1>m. /\ MaxModels \in Nat \ {0} /\ 1 \in 0 .. MaxModels /\ 1 \in 1 .. MaxModels
      /\ current \in nodes \cup {Null} /\ Null \notin Id /\ nodes \subseteq Id
  BY BoundsAssumption DEF TypeOK, Id, Null, TreeInv, CurrentThere
<1>p. \A m \in nodes : parent[m] # Null => parent[m] \in nodes /\ children[parent[m]] # {}
  BY DEF TreeInv, LinksAgree
<1>s. ASSUME UNCHANGED tree, done \subseteq done' PROVE LeafInv'
  BY <1>s DEF LeafInv, tree
<1>1. ASSUME NEW k \in 1 .. MaxModels, SubmitPrompt(k) PROVE LeafInv'
  <2>1. k \in 0 .. MaxModels
    BY <1>m
  <2> QED
    BY <1>1, <2>1, <1>m, AddQuestionLeaf DEF SubmitPrompt
<1>2. ASSUME NEW k \in 0 .. MaxModels, NEW m \in Id, EditQuestion(m, k) PROVE LeafInv'
  <2>1. parent[m] \in nodes \cup {Null} /\ (parent[m] = Null \/ children[parent[m]] # {})
    BY <1>2, <1>p DEF EditQuestion, Shown
  <2> QED
    BY <1>2, <2>1, AddQuestionLeaf DEF EditQuestion
<1>17. ASSUME NEW k \in 0 .. MaxModels, NEW m \in Id, SubmitMessage(m, k) PROVE LeafInv'
  <2>1. m \in nodes /\ m \in done
    BY <1>17 DEF SubmitMessage, Offered, Shown
  <2> QED
    BY <1>17, <2>1, AddQuestionLeaf DEF SubmitMessage
<1>3. ASSUME NEW k \in 1 .. MaxModels, NEW m \in Id, Regenerate(m, k) PROVE LeafInv'
  <2>1. parent[m] \in nodes /\ children[parent[m]] # {}
    BY <1>3, <1>m, <1>p DEF Regenerate, Offered, Shown
  <2> QED
    BY <1>3, <2>1, AddAnswersLeaf DEF Regenerate
<1>4. ASSUME NEW m \in Id, CopyAnswer(m) PROVE LeafInv'
  <2>1. parent[m] \in nodes /\ children[parent[m]] # {} /\ done \subseteq done'
    BY <1>4, <1>m, <1>p DEF CopyAnswer, Offered, Shown
  <2> QED
    BY <1>4, <1>m, <2>1, AddAnswersLeaf DEF CopyAnswer
<1>5. ASSUME CreateMessagePair PROVE LeafInv'
  <2>1. current \in done \/ current = Null
    BY <1>5, <1>m DEF CreateMessagePair, UpsetIf, Upset, LateOrEarly
  <2> QED
    BY <1>5, <1>m, <2>1, AddQuestionLeaf DEF CreateMessagePair, AddPair
<1>6. ASSUME NEW m \in Id, AddMessages(m) PROVE LeafInv'
  <2>1. m \in nodes /\ m \in done
    BY <1>6 DEF AddMessages, Offered, Shown
  <2> QED
    BY <1>6, <1>m, <2>1, AddQuestionLeaf DEF AddMessages, AddPair
<1>7. ASSUME NEW m \in Id, DeleteMessage(m) PROVE LeafInv'
  <2>1. /\ m \in nodes /\ nodes' = Cut(m).nodes /\ children' = Cut(m).children
        /\ children'[current'] = {} /\ role' = role /\ done' = done
    BY <1>7, DeleteTree DEF DeleteMessage, Remove
  <2>2. ASSUME NEW x \in nodes' \ done', role'[x] = "assistant" PROVE children'[x] = {}
    <3>1. x \in nodes \ done /\ role[x] = "assistant" /\ x \in Id
      BY <2>1, <2>2, <1>m, CutType
    <3>2. children[x] = {}
      BY <3>1 DEF LeafInv
    <3>3. x # parent[m]
      BY <3>1, <3>2, <2>1, <1>m, <1>p
    <3> QED
      BY <2>1, <3>1, <3>2, <3>3 DEF Cut
  <2> QED
    BY <2>1, <2>2 DEF LeafInv
<1>8. ASSUME NEW m \in Id, NEW s \in Id, ShowSibling(m, s) PROVE LeafInv'
  BY <1>8 DEF ShowSibling, Leaves, LeafInv
<1>9. ASSUME NEW s \in sends, ChatCreated(s) \/ ChatSaved(s) \/ SaveFails(s) PROVE LeafInv'
  BY <1>9, <1>s DEF ChatCreated, ChatSaved, SaveFails
<1>10. ASSUME ContinueResponse PROVE LeafInv'
  BY <1>10 DEF ContinueResponse, LeafInv, tree
<1>11. ASSUME NEW r \in asked, Answered(r) PROVE LeafInv'
  BY <1>11, <1>s DEF Answered
<1>12. ASSUME NEW r \in asked, PostFails(r) PROVE LeafInv'
  <2>1. /\ r.msg \in nodes \ done /\ PutBack(r.msg, Links(r.msg))
        /\ current' \in {r.msg, current} /\ done' = done \cup {r.msg} /\ role' = role
    BY <1>12 DEF PostFails, Upset, Calm, LateOrEarly
  <2>2. nodes' = nodes /\ children' = children
    BY <2>1, PutBackSame
  <2>3. children[r.msg] = {}
    BY <2>1 DEF AskedInv, LeafInv
  <2> QED
    BY <2>1, <2>2, <2>3 DEF LeafInv
<1>13. ASSUME NEW answers, AnswersEnd(answers) PROVE LeafInv'
  BY <1>13, <1>s DEF AnswersEnd
<1>14. ASSUME NEW m \in Id, HoldMessage(m) PROVE LeafInv'
  BY <1>14, <1>s DEF HoldMessage
<1>15. ASSUME NEW h \in held, WriteBack(h) PROVE LeafInv'
  BY <1>15, WriteBackSame, <1>s
<1>18. ASSUME NEW h \in held, HandlerFails(h) PROVE LeafInv'
  BY <1>18, <1>s DEF HandlerFails
<1>19. ASSUME NEW m \in Id, Renewed(m) PROVE LeafInv'
  BY <1>19, <1>s DEF Renewed
<1>16. CASE UNCHANGED vars
  BY <1>16, <1>s DEF vars
<1> QED
  BY <1>1, <1>2, <1>3, <1>4, <1>5, <1>6, <1>7, <1>8, <1>9, <1>10, <1>11, <1>12, <1>13, <1>14,
     <1>15, <1>16, <1>17, <1>18, <1>19 DEF Next, Step

\* What a page shows ends in a message without children, and there is something to
\* show as long as there is a message (Chat.svelte showMessage, submitPrompt;
\* Messages.svelte gotoMessage, deleteMessage).
THEOREM WholeBranchShownAlways == Spec => []WholeBranchShown
<1> DEFINE Leafy == Calm /\ ~LateOrEarly => LeafInv
<1>1. Init => Leafy
  <2> SUFFICES ASSUME Init PROVE LeafInv
    OBVIOUS
  <2>1. PICK n \in {0, 2} : n <= MaxMessages /\ Chain(n)
    BY DEF Init
  <2>3. current \in nodes => current = n /\ children[n] = {}
    BY <2>1, BoundsAssumption DEF Chain, Id
  <2>4. ASSUME NEW m \in nodes \ done PROVE role[m] = "user"
    <3>1. m \in 1 .. n /\ m % 2 # 0 /\ m \in Id
      BY <2>1, <2>4, BoundsAssumption DEF Chain, Id
    <3>2. m = 1
      BY <2>1, <3>1
    <3> QED
      BY <2>1, <3>1, <3>2 DEF Chain
  <2> QED
    BY <2>3, <2>4 DEF LeafInv
<1>2. TreeIInv /\ TreeIInv' /\ Leafy /\ [Next]_vars => Leafy'
  BY LeafStep, UpsetGrows DEF TreeIInv, Calm, LateOrEarly
<1>3. TreeIInv /\ Leafy => WholeBranchShown
  BY DEF TreeIInv, TypeOK, WholeBranchShown, LeafInv, TreeInv, CurrentThere, Calm, LateOrEarly
<1> QED
  BY <1>1, <1>2, <1>3, TreeInvariant, PTL DEF Spec

--------------------------------------------------------------------------------
(* Answers have questions *)

Together == "modelGone" \notin upset

\* A question with answers below an answer, or as a first one.
LEMMA AddQuestionAlt ==
    ASSUME TypeOK, TreeInv, AltInv, NEW p \in nodes \cup {Null}, NEW k \in 1 .. MaxModels,
           AddQuestion(p, k), p = Null \/ role[p] = "assistant"
    PROVE  AltInv'
<1>1. k \in 0 .. MaxModels /\ k + 1 \in Nat /\ used \in Nat /\ k \in Nat /\ k # 0
      /\ Null \notin Id /\ nodes \subseteq Id /\ p \in Id \cup {Null}
  BY BoundsAssumption DEF TypeOK, Null, Id
<1>2. /\ Fresh(k + 1) \subseteq Id /\ used + 1 \in Fresh(k + 1) /\ used + k + 1 \in Fresh(k + 1)
      /\ used + 2 \in Fresh(k + 1) /\ used + 2 # used + 1 /\ used + k + 1 # used + 1
  <2>1. used + 1 \in Fresh(k + 1) /\ used + k + 1 \in Fresh(k + 1) /\ Fresh(k + 1) \subseteq Id
    BY <1>1, AddQuestionType
  <2> QED
    BY <1>1, <2>1 DEF Fresh
<1>3. Fresh(k + 1) \cap nodes = {} /\ p \notin Fresh(k + 1) /\ used + 1 # Null
  BY <1>1, <1>2 DEF TreeInv, Fresh
<1>4. /\ nodes' = nodes \cup Fresh(k + 1)
      /\ \A x \in nodes : /\ parent'[x] = parent[x] /\ role'[x] = role[x]
                          /\ children[x] \subseteq children'[x]
  BY <1>1, <1>3 DEF AddQuestion, Graft
<1> DEFINE q == used + 1
<1>5. /\ \A x \in Fresh(k + 1) : /\ x = q => parent'[x] = p /\ role'[x] = "user"
                                 /\ x # q => parent'[x] = q /\ role'[x] = "assistant"
      /\ children'[q] # {}
      /\ q \in Fresh(k + 1)
      /\ current' \in Fresh(k + 1) /\ current' # q
  BY <1>2 DEF AddQuestion, Graft
<1> HIDE DEF q
<1>6. ASSUME NEW x \in nodes', role'[x] = "assistant"
      PROVE  parent'[x] \in nodes' /\ role'[parent'[x]] = "user"
  <2>1. CASE x \in nodes
    <3>1. parent[x] \in nodes /\ role[parent[x]] = "user"
      BY <1>4, <1>6, <2>1 DEF AltInv, Alternate
    <3> QED
      BY <3>1, <2>1, <1>4
  <2>2. CASE x \in Fresh(k + 1)
    <3>1. x # q
      BY <1>5, <1>6, <2>2
    <3>2. parent'[x] = q /\ role'[q] = "user"
      BY <1>5, <2>2, <3>1
    <3> QED
      BY <3>2, <1>4, <1>5
  <2> QED
    BY <1>4, <2>1, <2>2
<1>7. ASSUME NEW x \in nodes', role'[x] = "user"
      PROVE  /\ parent'[x] # Null => role'[parent'[x]] = "assistant"
             /\ children'[x] # {}
  <2>1. CASE x \in nodes
    <3>1. role[x] = "user" /\ children[x] # {} /\ parent'[x] = parent[x]
      BY <1>4, <1>7, <2>1 DEF AltInv, Alternate
    <3>2. parent[x] # Null => parent[x] \in nodes /\ role[parent[x]] = "assistant"
      BY <2>1, <3>1 DEF AltInv, Alternate, TreeInv, LinksAgree
    <3> QED
      BY <3>1, <3>2, <2>1, <1>4
  <2>2. CASE x \in Fresh(k + 1)
    <3>1. x = q
      BY <1>5, <1>7, <2>2
    <3>2. parent'[x] = p /\ children'[x] # {}
      BY <1>5, <3>1
    <3>3. p # Null => p \in nodes /\ role[p] = "assistant"
      OBVIOUS
    <3> QED
      BY <3>2, <3>3, <1>4
  <2> QED
    BY <1>4, <2>1, <2>2
<1>8. role'[current'] = "assistant"
  BY <1>5
<1> QED
  BY <1>6, <1>7, <1>8 DEF AltInv, Alternate

LEMMA AddAnswersAlt ==
    ASSUME TypeOK, TreeInv, AltInv, NEW p \in nodes, NEW k \in 1 .. MaxModels,
           AddAnswers(p, k), role[p] = "user"
    PROVE  AltInv'
<1>1. k \in Nat /\ used \in Nat /\ nodes \subseteq Id /\ p \in Id
  BY BoundsAssumption DEF TypeOK, Id
<1>2. Fresh(k) \subseteq Id /\ used + k \in Fresh(k)
  BY <1>1, AddAnswersType
<1>3. Fresh(k) \cap nodes = {}
  BY <1>1, <1>2 DEF TreeInv, Fresh
<1>4. /\ nodes' = nodes \cup Fresh(k)
      /\ \A x \in nodes : /\ parent'[x] = parent[x] /\ role'[x] = role[x]
                          /\ children[x] \subseteq children'[x]
      /\ \A x \in Fresh(k) : parent'[x] = p /\ role'[x] = "assistant"
  BY <1>1, <1>2, <1>3 DEF AddAnswers, Graft
<1>5. ASSUME NEW x \in nodes', role'[x] = "assistant"
      PROVE  parent'[x] \in nodes' /\ role'[parent'[x]] = "user"
  <2>1. CASE x \in nodes
    <3>1. parent[x] \in nodes /\ role[parent[x]] = "user"
      BY <1>4, <1>5, <2>1 DEF AltInv, Alternate
    <3> QED
      BY <3>1, <2>1, <1>4
  <2>2. CASE x \in Fresh(k)
    BY <1>4, <2>2
  <2> QED
    BY <1>4, <2>1, <2>2
<1>6. ASSUME NEW x \in nodes', role'[x] = "user"
      PROVE  /\ parent'[x] # Null => role'[parent'[x]] = "assistant"
             /\ children'[x] # {}
  <2>1. x \in nodes
    BY <1>4, <1>6
  <2>2. role[x] = "user" /\ children[x] # {} /\ parent'[x] = parent[x]
    BY <1>4, <1>6, <2>1 DEF AltInv, Alternate
  <2>3. parent[x] # Null => parent[x] \in nodes /\ role[parent[x]] = "assistant"
    BY <2>1, <2>2 DEF AltInv, Alternate, TreeInv, LinksAgree
  <2> QED
    BY <2>1, <2>2, <2>3, <1>4
<1>7. role'[current'] = "assistant"
  BY <1>2, <1>4 DEF AddAnswers
<1> QED
  BY <1>5, <1>6, <1>7 DEF AltInv, Alternate

\* After a deletion every answer left hangs below a question again, and every
\* question left has an answer: the last answer to a question cannot be deleted.
LEMMA DeleteAlt ==
    ASSUME TypeOK, TreeInv, AltInv, NEW m \in Id, DeleteMessage(m)
    PROVE  AltInv'
<1> DEFINE p == parent[m]
<1>1. /\ m \in nodes /\ nodes' = Cut(m).nodes
      /\ parent' = Cut(m).parent /\ children' = Cut(m).children
      /\ current' \in nodes' /\ children'[current'] = {} /\ TreeInv' /\ role' = role
  BY DeleteTree DEF DeleteMessage, Remove
<1>2. nodes \subseteq Id /\ nodes' \subseteq nodes /\ Null \notin Id
  BY <1>1, CutType DEF TypeOK, Id, Null
<1>3. /\ nodes' = nodes \ ({m} \cup children[m])
      /\ \A x \in Id : parent'[x] = IF x \in Grand(m) THEN p ELSE parent[x]
      /\ \A x \in nodes : children'[x] = IF x = p THEN (children[x] \ {m}) \cup Grand(m)
                                         ELSE children[x]
  BY <1>1, <1>2 DEF Cut, Grand
<1>l. /\ \A x \in nodes : \A c \in children[x] : c \in nodes /\ parent[c] = x
      /\ \A x \in nodes : parent[x] # Null => parent[x] \in nodes
      /\ \A x \in nodes' : parent'[x] # Null => parent'[x] \in nodes'
      /\ \A x \in nodes : role[x] \in {"user", "assistant"}
  BY <1>1, <1>2 DEF TreeInv, LinksAgree, TypeOK
<1>r. /\ \A x \in nodes : role[x] = "assistant" => parent[x] \in nodes /\ role[parent[x]] = "user"
      /\ \A x \in nodes : role[x] = "user" => (parent[x] # Null => role[parent[x]] = "assistant")
  BY DEF AltInv, Alternate
<1>4. ASSUME NEW x \in Grand(m)
      PROVE  /\ x \in nodes /\ role[x] = role[m]
  <2>1. PICK c \in children[m] \cap nodes : x \in children[c]
    BY <1>4 DEF Grand
  <2>2. x \in nodes /\ parent[x] = c /\ parent[c] = m /\ c # Null /\ m # Null
    BY <2>1, <1>1, <1>2, <1>l
  <2> QED
    BY <2>1, <2>2, <1>1, <1>2, <1>l, <1>r
<1>5. ASSUME NEW x \in nodes', role'[x] = "assistant"
      PROVE  parent'[x] \in nodes' /\ role'[parent'[x]] = "user"
  <2>1. CASE x \in Grand(m)
    <3>1. parent'[x] = p /\ role[m] = "assistant"
      BY <1>1, <1>2, <1>3, <1>4, <1>5, <2>1
    <3>2. p \in nodes /\ role[p] = "user"
      BY <3>1, <1>1, <1>r
    <3> QED
      BY <3>1, <3>2, <1>1, <1>2, <1>l
  <2>2. CASE x \notin Grand(m)
    <3>1. parent'[x] = parent[x] /\ parent[x] \in nodes /\ role[parent[x]] = "user"
      BY <1>1, <1>2, <1>3, <1>5, <2>2, <1>r
    <3>2. parent'[x] \in nodes'
      BY <3>1, <1>2, <1>l
    <3> QED
      BY <3>1, <3>2, <1>1
  <2> QED
    BY <2>1, <2>2
<1>6. ASSUME NEW x \in nodes', role'[x] = "user"
      PROVE  parent'[x] # Null => role'[parent'[x]] = "assistant"
  <2>1. CASE x \in Grand(m)
    <3>1. parent'[x] = p /\ role[m] = "user"
      BY <1>1, <1>2, <1>3, <1>4, <1>6, <2>1
    <3> QED
      BY <3>1, <1>1 DEF AltInv, Alternate
  <2>2. CASE x \notin Grand(m)
    BY <1>1, <1>2, <1>3, <1>6, <2>2 DEF AltInv, Alternate
  <2> QED
    BY <2>1, <2>2
<1>7. ASSUME NEW x \in nodes', role'[x] = "user"
      PROVE  children'[x] # {}
  <2>1. x \in nodes /\ role[x] = "user" /\ children[x] # {}
    BY <1>1, <1>2, <1>7 DEF AltInv, Alternate
  <2>2. CASE x # p
    BY <2>1, <2>2, <1>3
  <2>3. CASE x = p
    <3>1. role[m] = "assistant" /\ p \in nodes /\ p # Null
      BY <2>1, <2>3, <1>1, <1>2, <1>l, <1>r
    <3>2. Cardinality(children[p]) > 1
      BY <3>1 DEF DeleteMessage, MayDelete, Siblings
    <3>3. Cardinality({m}) = 1
      BY FS_Singleton
    <3>4. children[p] # {m} /\ children[p] # {}
      BY <3>2, <3>3, <2>1, <2>3
    <3>5. children'[p] = (children[p] \ {m}) \cup Grand(m)
      BY <3>1, <1>3
    <3> QED
      BY <2>3, <3>4, <3>5
  <2> QED
    BY <2>2, <2>3
<1>8. role'[current'] = "assistant"
  BY <1>1, <1>2, <1>7 DEF TypeOK
<1> QED
  BY <1>5, <1>6, <1>7, <1>8 DEF AltInv, Alternate

LEMMA AltStep ==
    ASSUME TypeOK, TypeOK', TreeInv, AskedInv, AltInv, [Next]_vars, Calm', Together'
    PROVE  AltInv'
<1>m. /\ MaxModels \in Nat \ {0} /\ 1 \in 1 .. MaxModels
      /\ current \in nodes \cup {Null} /\ Null \notin Id /\ nodes \subseteq Id
  BY BoundsAssumption DEF TypeOK, Id, Null, TreeInv, CurrentThere
<1>s. ASSUME UNCHANGED tree PROVE AltInv'
  BY <1>s DEF AltInv, Alternate, tree
<1>1. ASSUME NEW k \in 1 .. MaxModels, SubmitPrompt(k) PROVE AltInv'
  <2>1. current = Null \/ role[current] = "assistant"
    BY <1>m DEF AltInv
  <2> QED
    BY <1>1, <2>1, <1>m, AddQuestionAlt DEF SubmitPrompt
<1>2. ASSUME NEW k \in 0 .. MaxModels, NEW m \in Id, EditQuestion(m, k) PROVE AltInv'
  <2>1. k \in 1 .. MaxModels
    BY <1>2, <1>m DEF EditQuestion, UpsetIf, Upset, Together
  <2>2. m \in nodes /\ role[m] = "user" /\ parent[m] \in nodes \cup {Null}
    BY <1>2 DEF EditQuestion, Shown, TreeInv, LinksAgree
  <2>3. parent[m] = Null \/ role[parent[m]] = "assistant"
    BY <2>2 DEF AltInv, Alternate
  <2> QED
    BY <1>2, <2>1, <2>2, <2>3, AddQuestionAlt DEF EditQuestion
<1>17. ASSUME NEW k \in 0 .. MaxModels, NEW m \in Id, SubmitMessage(m, k) PROVE AltInv'
  <2>1. k \in 1 .. MaxModels
    BY <1>17, <1>m DEF SubmitMessage, UpsetIf, Upset, Together
  <2>2. m \in nodes /\ role[m] = "assistant"
    BY <1>17 DEF SubmitMessage, Offered, Shown
  <2> QED
    BY <1>17, <2>1, <2>2, AddQuestionAlt DEF SubmitMessage
<1>3. ASSUME NEW k \in 1 .. MaxModels, NEW m \in Id, Regenerate(m, k) PROVE AltInv'
  <2>1. parent[m] \in nodes /\ role[parent[m]] = "user"
    BY <1>3 DEF Regenerate, Offered, Shown, AltInv, Alternate
  <2> QED
    BY <1>3, <2>1, AddAnswersAlt DEF Regenerate
<1>4. ASSUME NEW m \in Id, CopyAnswer(m) PROVE AltInv'
  <2>1. parent[m] \in nodes /\ role[parent[m]] = "user"
    BY <1>4 DEF CopyAnswer, Offered, Shown, AltInv, Alternate
  <2> QED
    BY <1>4, <1>m, <2>1, AddAnswersAlt DEF CopyAnswer
<1>5. ASSUME CreateMessagePair PROVE AltInv'
  <2>1. current = Null \/ role[current] = "assistant"
    BY <1>m DEF AltInv
  <2> QED
    BY <1>5, <2>1, <1>m, AddQuestionAlt DEF CreateMessagePair, AddPair
<1>6. ASSUME NEW m \in Id, AddMessages(m) PROVE AltInv'
  <2>1. m \in nodes /\ role[m] = "assistant"
    BY <1>6 DEF AddMessages, Offered, Shown
  <2> QED
    BY <1>6, <2>1, <1>m, AddQuestionAlt DEF AddMessages, AddPair
<1>7. ASSUME NEW m \in Id, DeleteMessage(m) PROVE AltInv'
  BY <1>7, DeleteAlt
<1>8. ASSUME NEW m \in Id, NEW s \in Id, ShowSibling(m, s) PROVE AltInv'
  <2>1. /\ current' \in nodes /\ children[current'] = {}
        /\ nodes' = nodes /\ parent' = parent /\ children' = children /\ role' = role
    BY <1>8 DEF ShowSibling, Leaves
  <2>2. role[current'] = "assistant"
    BY <2>1, <1>m DEF AltInv, Alternate, TypeOK
  <2> QED
    BY <2>1, <2>2 DEF AltInv, Alternate
<1>9. ASSUME NEW s \in sends, ChatCreated(s) \/ ChatSaved(s) \/ SaveFails(s) PROVE AltInv'
  BY <1>9, <1>s DEF ChatCreated, ChatSaved, SaveFails
<1>10. ASSUME ContinueResponse PROVE AltInv'
  BY <1>10, <1>s DEF ContinueResponse
<1>11. ASSUME NEW r \in asked, Answered(r) PROVE AltInv'
  BY <1>11, <1>s DEF Answered
<1>12. ASSUME NEW r \in asked, PostFails(r) PROVE AltInv'
  <2>1. /\ r.msg \in nodes /\ PutBack(r.msg, Links(r.msg))
        /\ current' \in {r.msg, current} /\ role' = role
    BY <1>12 DEF PostFails, Upset, Calm
  <2>2. nodes' = nodes /\ parent' = parent /\ children' = children
    BY <2>1, PutBackSame
  <2>3. role[r.msg] = "assistant"
    BY DEF AskedInv
  <2> QED
    BY <2>1, <2>2, <2>3 DEF AltInv, Alternate
<1>13. ASSUME NEW answers, AnswersEnd(answers) PROVE AltInv'
  BY <1>13, <1>s DEF AnswersEnd
<1>14. ASSUME NEW m \in Id, HoldMessage(m) PROVE AltInv'
  BY <1>14, <1>s DEF HoldMessage
<1>15. ASSUME NEW h \in held, WriteBack(h) PROVE AltInv'
  BY <1>15, WriteBackSame, <1>s
<1>18. ASSUME NEW h \in held, HandlerFails(h) PROVE AltInv'
  BY <1>18, <1>s DEF HandlerFails
<1>19. ASSUME NEW m \in Id, Renewed(m) PROVE AltInv'
  BY <1>19, <1>s DEF Renewed
<1>16. CASE UNCHANGED vars
  BY <1>16, <1>s DEF vars
<1> QED
  BY <1>1, <1>2, <1>3, <1>4, <1>5, <1>6, <1>7, <1>8, <1>9, <1>10, <1>11, <1>12, <1>13, <1>14,
     <1>15, <1>16, <1>17, <1>18, <1>19 DEF Next, Step

\* Every answer stays below a question (Messages.svelte deleteMessage moves
\* grandchildren up; ResponseMessage.svelte offers to delete an answer only if there
\* is another one).
THEOREM AnswersHaveQuestionsAlways == Spec => []AnswersHaveQuestions
<1> DEFINE Alternating == Calm /\ Together => AltInv
<1>1. Init => Alternating
  <2> SUFFICES ASSUME Init PROVE AltInv
    OBVIOUS
  <2>1. PICK n \in {0, 2} : n <= MaxMessages /\ Chain(n)
    BY DEF Init
  <2>2. CASE n = 0
    BY <2>1, <2>2, BoundsAssumption DEF Chain, AltInv, Alternate
  <2>3. CASE n = 2
    <3>1. nodes = {1, 2} /\ 1 \in Id /\ 2 \in Id /\ current = 2
      BY <2>1, <2>3, BoundsAssumption DEF Chain, Id
    <3>2. /\ parent[1] = Null /\ parent[2] = 1 /\ children[1] = {2}
          /\ role[1] = "user" /\ role[2] = "assistant"
      BY <2>1, <2>3, <3>1 DEF Chain, Null
    <3> QED
      BY <3>1, <3>2 DEF AltInv, Alternate
  <2> QED
    BY <2>1, <2>2, <2>3
<1>2. TreeIInv /\ TreeIInv' /\ Alternating /\ [Next]_vars => Alternating'
  BY AltStep, UpsetGrows DEF TreeIInv, Calm, Together
<1>3. TreeIInv /\ Alternating => AnswersHaveQuestions
  BY DEF AltInv, Alternate, AnswersHaveQuestions, Calm, Together
<1> QED
  BY <1>1, <1>2, <1>3, TreeInvariant, PTL DEF Spec

================================================================================
