------------------------ MODULE ConversationView_proof ------------------------
(***************************************************************************)
(* Proofs about Conversations and ConversationView: the pages of the list; *)
(* that the tab does to the service only what the service offers; and what *)
(* becomes of a text the user sends: it stays on display, belongs to the   *)
(* conversation it was meant for, arrives there once, and is in its view.  *)
(***************************************************************************)
EXTENDS ConversationView, FiniteSetTheorems, TLAPS

-----------------------------------------------------------------------------
\* The pages.

Read_ == reader.page \cup reader.seen

ReadInv ==
    /\ ServerTypeOK
    /\ reader.pc = "begin" => Read_ = {} /\ owed = {}
    /\ \A c \in Read_ : row[c].state \in {"kept", "gone"}
    /\ reader.pc = "more" => \A c \in Read_ : row[c].created_at >= reader.cursor
    /\ PagesDescend
    /\ \A c \in owed : /\ c \in Listed
                       /\ reader.pc = "more"
                       /\ row[c].created_at < reader.cursor

LEMMA TypeStep == ServerTypeOK /\ [ServerNext]_server => ServerTypeOK'
<1> SUFFICES ASSUME ServerTypeOK, [ServerNext]_server PROVE ServerTypeOK'
    OBVIOUS
<1> USE DEF ServerTypeOK, RowRecord
<1>1. CASE UNCHANGED server
    BY <1>1 DEF server
<1>2. CASE Tick
    BY <1>2 DEF Tick
<1>3. ASSUME NEW c \in Conv, Manage(c) PROVE ServerTypeOK'
  <2>1. CASE Begin(c)
      BY <1>3, <2>1 DEF Begin
  <2>2. CASE Commit(c)
      BY <1>3, <2>2 DEF Commit
  <2>3. CASE Delete(c)
    <3>1. messages' \in [Conv -> Seq(Message)]
        BY <1>3, <2>3 DEF Delete
    <3>2. row' \in [Conv -> RowRecord]
        BY <1>3, <2>3 DEF Delete
    <3> QED
        BY <2>3, <3>1, <3>2 DEF Delete
  <2>4. CASE Archive(c)
      BY <1>3, <2>4 DEF Archive
  <2> QED
      BY <1>3, <2>1, <2>2, <2>3, <2>4 DEF Manage
<1>4. ASSUME NEW c \in Conv, NEW m \in Message, AddMessage(c, m) PROVE ServerTypeOK'
  <2>1. messages' \in [Conv -> Seq(Message)]
      BY <1>4 DEF AddMessage
  <2> QED
      BY <1>4, <2>1 DEF AddMessage
<1>5. ASSUME NEW page \in SUBSET Conv, NextPage(page) PROVE ServerTypeOK'
  <2>1. reader' \in Reader
      BY <1>5 DEF NextPage, Reads, Reader
  <2>2. owed' \subseteq Conv
      BY <1>5 DEF NextPage, Pending, Listed
  <2> QED
      BY <1>5, <2>1, <2>2 DEF NextPage
<1>6. ASSUME NEW page \in SUBSET Conv, LastPage(page) PROVE ServerTypeOK'
  <2>1. reader' \in Reader
      BY <1>6 DEF LastPage, Reads, Reader
  <2>2. owed' \subseteq Conv
      BY <1>6 DEF LastPage, Pending, Listed
  <2> QED
      BY <1>6, <2>1, <2>2 DEF LastPage
<1> QED
    BY <1>1, <1>2, <1>3, <1>4, <1>5, <1>6 DEF ServerNext, Read

\* What the reader is owed comes after its cursor.
LEMMA PendingMatches == ReadInv => Pending \subseteq Matching
BY DEF ReadInv, Pending, Matching, Listed, ServerTypeOK, Reader

LEMMA ManageStep ==
    ASSUME ReadInv, NEW c \in Conv, Manage(c), ServerTypeOK'
    PROVE  ReadInv'
<1> USE DEF ReadInv, ServerTypeOK, Reader, RowRecord, Listed, Read_, PagesDescend
<1>1. reader' = reader /\ owed' \subseteq owed
    BY DEF Manage, Begin, Commit, Delete, Archive
<1>2. ASSUME NEW d \in Read_ PROVE /\ row'[d].created_at = row[d].created_at
                                   /\ row'[d].state \in {"kept", "gone"}
  <2>1. d \in Conv /\ row[d].state \in {"kept", "gone"}
      OBVIOUS
  <2>2. CASE Begin(c)
      BY <2>1, <2>2 DEF Begin
  <2>3. CASE Commit(c)
      BY <2>1, <2>3 DEF Commit
  <2>4. CASE Delete(c)
      BY <2>1, <2>4 DEF Delete
  <2>5. CASE Archive(c)
      BY <2>1, <2>5 DEF Archive
  <2> QED
      BY <2>2, <2>3, <2>4, <2>5 DEF Manage
<1>3. ASSUME NEW d \in owed' PROVE d \in owed /\ row'[d] = row[d]
  <2>1. d \in owed /\ row[d].state = "kept"
      BY <1>1
  <2>2. CASE Begin(c)
      BY <2>1, <2>2 DEF Begin
  <2>3. CASE Commit(c)
      BY <2>1, <2>3 DEF Commit
  <2>4. CASE Delete(c) \/ Archive(c)
      BY <2>1, <2>4 DEF Delete, Archive
  <2> QED
      BY <2>1, <2>2, <2>3, <2>4 DEF Manage
<1> QED
    BY <1>1, <1>2, <1>3

LEMMA NextPageStep ==
    ASSUME ReadInv, NEW page \in SUBSET Conv, NextPage(page), ServerTypeOK'
    PROVE  ReadInv'
<1> DEFINE at(d) == row[d].created_at
<1>1. PICK c \in Conv : /\ Cursor(page, c)
                        /\ Reads("more", at(c), page)
                        /\ owed' = {d \in Pending \ page : \A e \in page : at(d) # at(e)}
    BY DEF NextPage
<1>2. row' = row /\ page \subseteq Matching /\ c \in page /\ reader.pc \in {"begin", "more"}
    BY <1>1 DEF NextPage, IsPage, Cursor, ReadInv, ServerTypeOK, Reader
<1>3. \A d \in Conv : at(d) \in Nat
    BY DEF ReadInv, ServerTypeOK, RowRecord
<1>4. reader' = [pc |-> "more", cursor |-> at(c), page |-> page, seen |-> Read_]
    BY <1>1 DEF Reads, Read_
<1>5. \A d \in page : at(d) >= at(c)
    BY <1>1, <1>3 DEF Cursor, Before
<1>6. \A d \in page, e \in Read_ : at(d) < at(e)
  <2>1. CASE reader.pc = "begin"
      BY <2>1 DEF ReadInv
  <2>2. CASE reader.pc = "more"
      BY <1>2, <1>3, <2>2 DEF ReadInv, Matching, ServerTypeOK, Reader, Read_
  <2> QED
      BY <1>2, <2>1, <2>2
<1>7. \A d \in page \cup Read_ : row[d].state \in {"kept", "gone"} /\ at(d) >= at(c)
    BY <1>2, <1>3, <1>5, <1>6 DEF ReadInv, Matching, Listed, ServerTypeOK, Reader, Read_
<1>8. \A d \in owed' : d \in Listed /\ at(d) < at(c)
  <2> SUFFICES ASSUME NEW d \in owed' PROVE d \in Listed /\ at(d) < at(c)
      OBVIOUS
  <2>1. d \in Matching \ page /\ at(d) # at(c)
      BY <1>1, <1>2, PendingMatches
  <2>2. Before(c, d)
      BY <1>2, <2>1 DEF NextPage, IsPage
  <2> QED
      BY <1>3, <2>1, <2>2 DEF Before, Matching, Listed
<1>9. Listed' = Listed
    BY <1>2 DEF Listed
<1> QED
    BY <1>2, <1>4, <1>6, <1>7, <1>8, <1>9 DEF ReadInv, PagesDescend, Read_

LEMMA LastPageStep ==
    ASSUME ReadInv, NEW page \in SUBSET Conv, LastPage(page), ServerTypeOK'
    PROVE  ReadInv'
<1> DEFINE at(d) == row[d].created_at
<1>1. row' = row /\ page = Matching /\ reader.pc \in {"begin", "more"}
    BY DEF LastPage, IsPage, ReadInv, ServerTypeOK, Reader
<1>2. reader' = [pc |-> "done", cursor |-> reader.cursor, page |-> page, seen |-> Read_]
    BY DEF LastPage, Reads, Read_
<1>3. owed' = {}
    BY <1>1, PendingMatches DEF LastPage
<1>4. \A d \in page, e \in Read_ : at(d) < at(e)
  <2>1. CASE reader.pc = "begin"
      BY <2>1 DEF ReadInv
  <2>2. CASE reader.pc = "more"
      BY <1>1, <2>2 DEF ReadInv, Matching, ServerTypeOK, Reader, RowRecord, Read_
  <2> QED
      BY <1>1, <2>1, <2>2
<1>5. \A d \in page \cup Read_ : row[d].state \in {"kept", "gone"}
    BY <1>1 DEF ReadInv, Matching, Listed
<1> QED
    BY <1>1, <1>2, <1>3, <1>4, <1>5 DEF ReadInv, PagesDescend, Read_

LEMMA ReadStep == ReadInv /\ [ServerNext]_server => ReadInv'
<1> SUFFICES ASSUME ReadInv, [ServerNext]_server PROVE ReadInv'
    OBVIOUS
<1>1. ServerTypeOK'
    BY TypeStep DEF ReadInv
<1>2. CASE UNCHANGED <<row, reader, owed>>
    BY <1>1, <1>2 DEF ReadInv, Read_, PagesDescend, Listed
<1>3. ASSUME NEW c \in Conv, Manage(c) PROVE ReadInv'
    BY <1>1, <1>3, ManageStep
<1>4. ASSUME NEW page \in SUBSET Conv, NextPage(page) PROVE ReadInv'
    BY <1>1, <1>4, NextPageStep
<1>5. ASSUME NEW page \in SUBSET Conv, LastPage(page) PROVE ReadInv'
    BY <1>1, <1>5, LastPageStep
<1> QED
    BY <1>2, <1>3, <1>4, <1>5 DEF ServerNext, Read, server, Tick, AddMessage

LEMMA ReadInit == ServerInit => ReadInv
BY DEF ServerInit, ReadInv, ServerTypeOK, RowRecord, Reader, Read_, PagesDescend, Listed

LEMMA ReadInvariant == ServerSpec => []ReadInv
BY ReadInit, ReadStep, PTL DEF ServerSpec

\* However rows are created, archived and deleted while the list is read, no page
\* has a row that is not older than all it gave before (conversation_service.py,
\* list_for_user).
THEOREM PagesOfTheService == ServerSpec => []PagesDescend
<1>1. ReadInv => PagesDescend
    BY DEF ReadInv
<1> QED
    BY <1>1, ReadInvariant, PTL

\* And none that was listed all along is left out, but for those created in the
\* same instant as another.
THEOREM NoneSkipped == ServerSpec => []NothingSkipped
<1>1. ReadInv => NothingSkipped
    BY DEF ReadInv, NothingSkipped
<1> QED
    BY <1>1, ReadInvariant, PTL

-----------------------------------------------------------------------------
\* The tab: types.  A request under way has a conversation and a text.

TurnsMeant == \A t \in Turn : turn[t].pc # "idle" => turn[t].conv \in Conv /\ turn[t].text \in Text

Typed == TypeOK /\ TurnsMeant

TabTyped ==
    /\ entry \in Location
    /\ trail \subseteq Location
    /\ current \in Page
    /\ view \in View
    /\ data \in [Conv -> {NoData} \cup Seq(Message)]
    /\ fetch \in [Conv -> [pc : {"none", "asked", "served"}, rows : Seq(Message)]]
    /\ create \in [Conv -> [on : BOOLEAN, text : Text \cup {NoText}]]
    /\ removal \in [Conv -> [on : BOOLEAN, home : BOOLEAN]]
    /\ turn \in [Turn -> TurnRecord]
    /\ target \in [Text -> Page]
    /\ redone \subseteq Text
    /\ behind \in BOOLEAN
    /\ TurnsMeant

LEMMA TypedSplit == Typed <=> ServerTypeOK /\ TabTyped
BY DEF Typed, TypeOK, TabTyped

LEMMA MessageTypes == \A x \in Text : User(x) \in Message /\ Answer(x) \in Message
BY DEF User, Answer, Message

\* What an action of the tab does to the service.
LEMMA ServerPart == Typed /\ [Next]_vars => [ServerNext]_server
<1> SUFFICES ASSUME Typed, [Next]_vars PROVE [ServerNext]_server
    OBVIOUS
<1>1. CASE UNCHANGED vars
    BY <1>1 DEF vars
<1>2. CASE Service
    BY <1>2 DEF Service, ServerNext
<1>3. ASSUME NEW c \in Conv, Sidebar(c) PROVE UNCHANGED server
    BY <1>3 DEF Sidebar, ClickNew, Created, CreateFails, Select, ClickDelete, Deleted, DeleteFails, SendNew
<1>4. ASSUME NEW c \in Conv, Histories(c) PROVE UNCHANGED server
    BY <1>4 DEF Histories, Refetch, ListMessages, HistoryArrives, HistoryFails, Drop, Mount, MountAndSend
<1>5. ASSUME NEW t \in Turn, Chat(t) PROVE [ServerNext]_server
  <2>1. CASE Accept(t)
    <3>1. turn[t].conv \in Conv /\ User(turn[t].text) \in Message
        BY <2>1, MessageTypes DEF Accept, Typed, TurnsMeant
    <3> QED
        BY <2>1, <3>1 DEF Accept, ServerNext
  <2>2. CASE Store(t)
    <3>1. turn[t].conv \in Conv /\ Answer(turn[t].text) \in Message
        BY <2>2, MessageTypes DEF Store, Typed, TurnsMeant
    <3> QED
        BY <2>2, <3>1 DEF Store, ServerNext
  <2> QED
      BY <1>5, <2>1, <2>2 DEF Chat, Regenerate, Stream, Finish, TurnFails, TurnBreaks, Send
<1>6. CASE MountNew \/ Reload \/ \E e \in trail : Back(e)
    BY <1>6 DEF MountNew, Reload, Back
<1> QED
    BY <1>1, <1>2, <1>3, <1>4, <1>5, <1>6 DEF Next

\* A connection that breaks leaves the turn as it is, with no view to read it.
LEMMA Broken ==
    ASSUME TabTyped, NEW t \in Turn, TurnBreaks(t)
    PROVE  /\ UNCHANGED <<server, entry, trail, current, data, fetch, create, removal, target, redone>>
           /\ behind' = TRUE
           /\ view'.msgs = view.msgs /\ view'.page = view.page /\ view'.on = view.on
           /\ turn[t].pc # "idle"
           /\ \A u \in Turn : /\ turn'[u].pc = turn[u].pc
                              /\ turn'[u].conv = turn[u].conv
                              /\ turn'[u].text = turn[u].text
                              /\ turn'[u].here => turn[u].here
           /\ \A u \in Turn \ {t} : turn'[u] = turn[u]
           /\ view' \in View /\ turn' \in [Turn -> TurnRecord]
<1>0. view \in View /\ turn \in [Turn -> TurnRecord]
    BY DEF TabTyped
<1>1. turn' = [turn EXCEPT ![t].here = FALSE]
    BY DEF TurnBreaks
<1>2. view' = [view EXCEPT !.status = "ready"]
    BY DEF TurnBreaks, Status
<1>3. turn' \in [Turn -> TurnRecord]
    BY <1>0, <1>1 DEF TurnRecord
<1>4. view' \in View /\ view'.msgs = view.msgs /\ view'.page = view.page /\ view'.on = view.on
    BY <1>0, <1>2 DEF View
<1>5. \A u \in Turn : /\ turn'[u].pc = turn[u].pc
                      /\ turn'[u].conv = turn[u].conv
                      /\ turn'[u].text = turn[u].text
                      /\ turn'[u].here => turn[u].here
    BY <1>0, <1>1 DEF TurnRecord
<1>6. \A u \in Turn \ {t} : turn'[u] = turn[u]
    BY <1>0, <1>1
<1> QED
    BY <1>3, <1>4, <1>5, <1>6 DEF TurnBreaks

LEMMA SidebarTypes ==
    ASSUME Typed, NEW c \in Conv, Sidebar(c) PROVE TabTyped'
<1> USE DEF TabTyped, Location, Page, TurnsMeant, history, requests
<1>0. TabTyped
    BY TypedSplit
<1>1. CASE ClickNew(c)
    BY <1>0, <1>1 DEF ClickNew
<1>2. CASE Created(c)
    BY <1>0, <1>2 DEF Created, Navigate
<1>3. CASE CreateFails(c)
    BY <1>0, <1>3 DEF CreateFails
<1>4. CASE Select(c)
    BY <1>0, <1>4 DEF Select, Navigate
<1>5. CASE ClickDelete(c)
    BY <1>0, <1>5 DEF ClickDelete
<1>6. CASE Deleted(c)
    BY <1>0, <1>6 DEF Deleted, Navigate
<1>7. CASE DeleteFails(c)
    BY <1>0, <1>7 DEF DeleteFails
<1>8. ASSUME NEW x \in Text, SendNew(x, c) PROVE TabTyped'
    BY <1>0, <1>8 DEF SendNew
<1> QED
    BY <1>1, <1>2, <1>3, <1>4, <1>5, <1>6, <1>7, <1>8 DEF Sidebar

LEMMA FirstMessagesType ==
    ASSUME Typed, NEW c \in Conv PROVE FirstMessages(data[c]) \in Seq(Message)
BY DEF Typed, TypeOK, FirstMessages, Loaded

LEMMA StartQueryType ==
    ASSUME Typed, NEW c \in Conv, StartQuery(c)
    PROVE  fetch' \in [Conv -> [pc : {"none", "asked", "served"}, rows : Seq(Message)]]
BY ZenonT(60) DEF Typed, TypeOK, StartQuery

\* The turns of a view that is gone.
LEMMA LeftTypes ==
    ASSUME TabTyped, turn' = [t \in Turn |-> [turn[t] EXCEPT !.here = FALSE]]
    PROVE  turn' \in [Turn -> TurnRecord] /\ TurnsMeant'
<1>1. ASSUME NEW t \in Turn
      PROVE  /\ turn'[t] \in TurnRecord
             /\ turn'[t].pc = turn[t].pc /\ turn'[t].conv = turn[t].conv /\ turn'[t].text = turn[t].text
    BY DEF TabTyped, TurnRecord
<1>2. turn' \in [Turn -> TurnRecord]
    BY <1>1
<1> QED
    BY <1>1, <1>2 DEF TabTyped, TurnsMeant

LEMMA HistoriesTypes ==
    ASSUME Typed, NEW c \in Conv, Histories(c) PROVE TabTyped'
<1> USE DEF TabTyped, TurnsMeant, history, requests, NoFetch
<1>0. TabTyped /\ messages \in [Conv -> Seq(Message)]
    BY TypedSplit DEF ServerTypeOK
<1>1. CASE Refetch(c)
    BY <1>0, <1>1 DEF Refetch
<1>2. CASE ListMessages(c)
    BY <1>0, <1>2 DEF ListMessages
<1>3. CASE HistoryArrives(c)
  <2>1. fetch[c].rows \in Seq(Message)
      BY <1>0
  <2>2. data' \in [Conv -> {NoData} \cup Seq(Message)]
      BY <1>0, <1>3, <2>1 DEF HistoryArrives
  <2>3. view' \in View
      BY <1>0, <1>3, <2>2 DEF HistoryArrives, View, Loaded
  <2> QED
      BY <1>0, <1>3, <2>2, <2>3 DEF HistoryArrives
<1>4. CASE HistoryFails(c)
    BY <1>0, <1>4 DEF HistoryFails
<1>5. CASE Drop(c)
    BY <1>0, <1>5 DEF Drop
<1>6. CASE Mount(c)
  <2>1. turn' \in [Turn -> TurnRecord] /\ TurnsMeant'
      BY <1>0, <1>6, LeftTypes DEF Mount
  <2>2. view' \in View
      BY <1>6, FirstMessagesType DEF Mount, View, Page
  <2> QED
      BY <1>0, <1>6, <2>1, <2>2, StartQueryType DEF Mount, SyncStore, Page, MayMiss
<1>7. ASSUME NEW t \in Turn, MountAndSend(c, t) PROVE TabTyped'
  <2>1. entry.text \in Text
      BY <1>0, <1>7 DEF MountAndSend, Location
  <2>2. view' \in View
      BY <1>7, <2>1, FirstMessagesType, MessageTypes DEF MountAndSend, Shows, View, Page
  <2>3. ASSUME NEW u \in Turn
        PROVE  /\ turn'[u] \in TurnRecord
               /\ turn'[u].pc # "idle" => turn'[u].conv \in Conv /\ turn'[u].text \in Text
    <3>1. CASE u = t
        BY <1>7, <2>1, <3>1 DEF MountAndSend, Posted, TurnRecord, Page
    <3>2. CASE u # t
        BY <1>0, <1>7, <3>2, ZenonT(60) DEF MountAndSend, TurnRecord
    <3> QED
        BY <3>1, <3>2
  <2>4. turn' \in [Turn -> TurnRecord] /\ TurnsMeant'
      BY <1>7, <2>3 DEF MountAndSend
  <2> QED
      BY <1>0, <1>7, <2>2, <2>4, StartQueryType
         DEF MountAndSend, SyncStore, Taken, At, Location, Page, MayMiss
<1> QED
    BY <1>1, <1>2, <1>3, <1>4, <1>5, <1>6, <1>7 DEF Histories

LEMMA ChatTypes ==
    ASSUME Typed, NEW t \in Turn, Chat(t) PROVE TabTyped'
<1> USE DEF TabTyped, TurnsMeant, history, requests
<1>0. TabTyped
    BY TypedSplit
<1>1. CASE Regenerate(t)
  <2> DEFINE msgs == view.msgs
             last == msgs[Len(msgs)]
             rest == IF last.role = "assistant" THEN SubSeq(msgs, 1, Len(msgs) - 1) ELSE msgs
  <2>1. msgs \in Seq(Message) /\ view.page \in Conv
      BY <1>0, <1>1 DEF Regenerate, Ready, View, Page
  <2>2. rest \in Seq(Message)
      BY <2>1
  <2> HIDE DEF rest
  <2>3. PICK i \in DOMAIN rest : /\ turn' = [turn EXCEPT ![t] = Posted(view.page, rest[i].text)]
                                 /\ redone' = redone \cup {rest[i].text}
      BY <1>1 DEF Regenerate, rest
  <2>4. rest[i].text \in Text
    <3>1. rest[i] \in Message
        BY <2>2
    <3> QED
        BY <3>1 DEF Message
  <2>5. view' \in View
      BY <1>1, <2>1, <2>2 DEF Regenerate, Shows, View, Page, rest
  <2>6. turn' \in [Turn -> TurnRecord] /\ TurnsMeant'
      BY <1>0, <2>1, <2>3, <2>4 DEF Posted, TurnRecord, Page
  <2> QED
      BY <1>0, <1>1, <2>3, <2>4, <2>5, <2>6 DEF Regenerate
<1>2. CASE Accept(t)
    BY <1>0, <1>2, ZenonT(60) DEF Accept, TurnRecord
<1>3. CASE Stream(t)
  <2>0. Answer(turn[t].text) \in Message
      BY <1>0, <1>3, MessageTypes DEF Stream
  <2>1. view' \in View
    <3>1. view \in View /\ Append(view.msgs, Answer(turn[t].text)) \in Seq(Message)
        BY <1>0, <2>0 DEF View
    <3> QED
        BY <1>3, <3>1 DEF Stream, View
  <2> QED
      BY <1>0, <1>3, <2>1 DEF Stream, TurnRecord
<1>4. CASE Finish(t)
    BY <1>0, <1>4, ZenonT(60) DEF Finish, Status, View, TurnRecord
<1>5. CASE Store(t)
    BY <1>0, <1>5 DEF Store, Idle, TurnRecord, Page
<1>6. CASE TurnFails(t)
    BY <1>0, <1>6 DEF TurnFails, Status, View, Idle, TurnRecord, Page
<1>8. CASE TurnBreaks(t)
    BY <1>0, <1>8, Broken
<1>7. ASSUME NEW x \in Text, Send(t, x) PROVE TabTyped'
  <2>1. view.page \in Conv /\ view.msgs \in Seq(Message)
      BY <1>0, <1>7 DEF Send, Ready, View, Page
  <2>2. view' \in View
      BY <1>7, <2>1, MessageTypes DEF Send, Shows, View, Page
  <2>3. turn' \in [Turn -> TurnRecord] /\ TurnsMeant'
      BY <1>0, <1>7, <2>1 DEF Send, Posted, TurnRecord, Page
  <2> QED
      BY <1>0, <1>7, <2>1, <2>2, <2>3 DEF Send, Page
<1> QED
    BY <1>1, <1>2, <1>3, <1>4, <1>5, <1>6, <1>7, <1>8 DEF Chat

LEMMA TypedStep == Typed /\ [Next]_vars => Typed'
<1> SUFFICES ASSUME Typed, [Next]_vars PROVE TabTyped'
    BY ServerPart, TypeStep, TypedSplit DEF TypedSplit, Typed, TypeOK, TabTyped
<1>0. TabTyped
    BY TypedSplit
<1>1. CASE UNCHANGED vars \/ Service
    BY <1>0, <1>1 DEF vars, Service, tab, history, requests, TabTyped, TurnsMeant
<1>2. CASE MountNew
  <2>1. turn' \in [Turn -> TurnRecord] /\ TurnsMeant'
      BY <1>0, <1>2, LeftTypes DEF MountNew
  <2> QED
      BY <1>0, <1>2, <2>1 DEF MountNew, TabTyped, View, Page, history
<1>3. CASE Reload
  <2>1. turn' \in [Turn -> TurnRecord] /\ TurnsMeant'
      BY <1>0, <1>3, LeftTypes DEF Reload
  <2> QED
      BY <1>0, <1>3, <2>1 DEF Reload, TabTyped, View, Page, NoFetch, history
<1>4. ASSUME NEW e \in trail, Back(e) PROVE TabTyped'
    BY <1>0, <1>4 DEF Back, TabTyped, TurnsMeant, history, requests
<1> QED
    BY <1>1, <1>2, <1>3, <1>4, SidebarTypes, HistoriesTypes, ChatTypes DEF Next

LEMMA TypedInit == Init => Typed
<1> SUFFICES ASSUME Init PROVE ServerTypeOK /\ TabTyped
    BY TypedSplit
<1>1. ServerTypeOK
    BY ReadInit DEF Init, ReadInv
<1>2. turn \in [Turn -> TurnRecord] /\ TurnsMeant
    BY DEF Init, Idle, TurnRecord, TurnsMeant, Page
<1>3. view \in View /\ entry \in Location /\ trail \subseteq Location
    BY DEF Init, View, At, Location, Page
<1>4. fetch \in [Conv -> [pc : {"none", "asked", "served"}, rows : Seq(Message)]]
    BY DEF Init, NoFetch
<1>5. /\ create \in [Conv -> [on : BOOLEAN, text : Text \cup {NoText}]]
      /\ removal \in [Conv -> [on : BOOLEAN, home : BOOLEAN]]
    BY DEF Init
<1> QED
    BY <1>1, <1>2, <1>3, <1>4, <1>5 DEF Init, TabTyped, Page

LEMMA TypedInvariant == Spec => []Typed
BY TypedInit, TypedStep, PTL DEF Spec

\* The tab keeps to its types, and the service to its own beside it.
THEOREM TabTypes == Spec => []TypeOK
<1>1. Typed => TypeOK
    BY DEF Typed
<1> QED
    BY <1>1, TypedInvariant, PTL

\* Whatever the tab does, its requests do to the service what ServerNext allows: the
\* refinement, by which what is proved of the service holds beside the tab.
THEOREM TabUsesService == Spec => ServerSpec
<1>1. Init => ServerInit
    BY DEF Init
<1> QED
    BY <1>1, ServerPart, TypedInvariant, PTL DEF Spec, ServerSpec

\* So it is with the pages, whatever the tab creates and deletes meanwhile.
THEOREM PagesBesideTab == Spec => [](PagesDescend /\ NothingSkipped)
BY TabUsesService, PagesOfTheService, NoneSkipped, PTL

-----------------------------------------------------------------------------
\* The store.

LEMMA StoreStep == Typed /\ StoreFollowsView /\ [Next]_vars => StoreFollowsView'
<1> SUFFICES ASSUME Typed, StoreFollowsView, [Next]_vars PROVE StoreFollowsView'
    OBVIOUS
<1> USE DEF StoreFollowsView, Rendered, Mounted
<1>1. CASE UNCHANGED vars \/ Service
    BY <1>1 DEF vars, Service, tab
<1>2. ASSUME NEW c \in Conv, Sidebar(c) PROVE StoreFollowsView'
    BY <1>2 DEF Sidebar, ClickNew, Created, CreateFails, Select, ClickDelete, Deleted, DeleteFails,
                SendNew, Navigate
<1>3. ASSUME NEW c \in Conv, Histories(c) PROVE StoreFollowsView'
  <2>1. CASE HistoryArrives(c)
      BY <2>1 DEF HistoryArrives, Typed, TypeOK, View
  <2> QED
      BY <1>3, <2>1 DEF Histories, Refetch, ListMessages, HistoryFails, Drop, Mount, MountAndSend,
                   SyncStore, Taken, At, Shows, requests
<1>4. ASSUME NEW t \in Turn, Chat(t) PROVE StoreFollowsView'
  <2>1. view \in View
      BY DEF Typed, TypeOK
  <2>2. CASE Regenerate(t)
      BY <2>1, <2>2 DEF Regenerate, Ready, Shows, View
  <2>3. CASE Accept(t) \/ Store(t)
      BY <2>3 DEF Accept, Store
  <2>4. CASE Stream(t)
      BY <2>1, <2>4 DEF Stream, View
  <2>5. CASE Finish(t) \/ TurnFails(t)
      BY <2>1, <2>5 DEF Finish, TurnFails, Status, View
  <2>6. ASSUME NEW x \in Text, Send(t, x) PROVE StoreFollowsView'
      BY <2>1, <2>6 DEF Send, Ready, Shows, View
  <2>7. CASE TurnBreaks(t)
      BY <2>7, Broken, TypedSplit DEF Rendered, Mounted
  <2> QED
      BY <1>4, <2>2, <2>3, <2>4, <2>5, <2>6, <2>7 DEF Chat
<1>5. CASE MountNew \/ Reload \/ \E e \in trail : Back(e)
    BY <1>5 DEF MountNew, Reload, Back
<1> QED
    BY <1>1, <1>2, <1>3, <1>4, <1>5 DEF Next

\* Whichever way a conversation comes on display, a click, the back button, a
\* reload or the answer to a request, the sidebar marks that one.
THEOREM StoreFollows == Spec => []StoreFollowsView
<1>1. Init => StoreFollowsView
    BY DEF Init, StoreFollowsView
<1> QED
    BY <1>1, StoreStep, TypedInvariant, PTL DEF Spec

-----------------------------------------------------------------------------
\* What was sent stays on display.

\* A list that is appended to.
LEMMA ShownWhenAppended ==
    ASSUME NEW s \in Seq(Message), NEW m \in Message
    PROVE  /\ In(m, Append(s, m))
           /\ \A n \in Message : In(n, s) => In(n, Append(s, m))
<1>1. /\ Len(s) + 1 \in DOMAIN Append(s, m)
      /\ Append(s, m)[Len(s) + 1] = m
      /\ \A i \in DOMAIN s : i \in DOMAIN Append(s, m) /\ Append(s, m)[i] = s[i]
    OBVIOUS
<1> QED
    BY <1>1 DEF In

LEMMA SentHistories ==
    ASSUME Typed, SentShown, NEW c \in Conv, Histories(c) PROVE SentShown'
<1> USE DEF SentShown, In
<1>1. CASE HistoryArrives(c)
  <2>1. CASE view' = view
      BY <1>1, <2>1 DEF HistoryArrives
  <2>2. CASE view' # view
    <3>1. view.msgs = <<>>
        BY <1>1, <2>2 DEF HistoryArrives, Loaded, Typed, TypeOK, View
    <3>2. \A t \in Turn : ~(turn[t].pc # "idle" /\ turn[t].here)
        BY <3>1
    <3> QED
        BY <1>1, <3>2 DEF HistoryArrives
  <2> QED
      BY <2>1, <2>2
<1>2. CASE Mount(c)
  <2>1. \A t \in Turn : turn'[t].here = FALSE
      BY <1>2 DEF Mount, Typed, TypeOK, TurnRecord
  <2> QED
      BY <2>1
<1>3. ASSUME NEW t \in Turn, MountAndSend(c, t) PROVE SentShown'
  <2> DEFINE first == FirstMessages(data[c])
  <2>1. first \in Seq(Message)
      BY FirstMessagesType
  <2>2. entry.text \in Text
      BY <1>3 DEF MountAndSend, Typed, TypeOK, Location
  <2>3. User(entry.text) \in Message
      BY <2>2, MessageTypes
  <2> HIDE DEF first
  <2>4. view'.msgs = Append(first, User(entry.text))
      BY <1>3 DEF MountAndSend, Shows, first
  <2>5. In(User(entry.text), view'.msgs)
      BY <2>1, <2>3, <2>4, ShownWhenAppended
  <2>6. ASSUME NEW u \in Turn, turn'[u].here PROVE u = t
      BY <1>3, <2>6 DEF MountAndSend, Typed, TypeOK, TurnRecord
  <2>7. turn'[t].text = entry.text
      BY <1>3 DEF MountAndSend, Posted
  <2> QED
      BY <2>5, <2>6, <2>7 DEF User
<1> QED
    BY <1>1, <1>2, <1>3 DEF Histories, Refetch, ListMessages, HistoryFails, Drop, requests

LEMMA SentChat ==
    ASSUME Typed, SentShown, NEW t \in Turn, Chat(t) PROVE SentShown'
<1> USE DEF SentShown
<1>0. /\ view \in View /\ turn \in [Turn -> TurnRecord] /\ view.msgs \in Seq(Message)
      /\ \A u \in Turn : turn[u].pc # "idle" => User(turn[u].text) \in Message
                                              /\ Answer(turn[u].text) \in Message
    BY MessageTypes DEF Typed, TypeOK, TurnsMeant, View
<1>1. CASE Regenerate(t)
  <2> DEFINE msgs == view.msgs
             last == msgs[Len(msgs)]
             rest == IF last.role = "assistant" THEN SubSeq(msgs, 1, Len(msgs) - 1) ELSE msgs
  <2>1. msgs \in Seq(Message) /\ msgs # <<>>
      BY <1>0, <1>1 DEF Regenerate
  <2>2. \A m \in Message : m.role = "user" /\ In(m, msgs) => In(m, rest)
    <3> SUFFICES ASSUME NEW i \in DOMAIN msgs, msgs[i].role = "user" PROVE In(msgs[i], rest)
        BY DEF In
    <3>1. CASE last.role = "assistant"
      <4>1. i \in 1..(Len(msgs) - 1)
          BY <2>1, <3>1
      <4>2. i \in DOMAIN SubSeq(msgs, 1, Len(msgs) - 1) /\ SubSeq(msgs, 1, Len(msgs) - 1)[i] = msgs[i]
          BY <2>1, <4>1
      <4> QED
          BY <3>1, <4>2 DEF In
    <3> QED
        BY <3>1 DEF In
  <2>3. rest \in Seq(Message)
      BY <2>1
  <2> HIDE DEF rest
  <2>4. PICK i \in DOMAIN rest : /\ rest[i].role = "user"
                                 /\ turn' = [turn EXCEPT ![t] = Posted(view.page, rest[i].text)]
      BY <1>1 DEF Regenerate, rest
  <2>5. view'.msgs = rest
      BY <1>1 DEF Regenerate, Shows, rest
  <2>6. In(User(rest[i].text), rest)
    <3>1. rest[i] \in Message
        BY <2>3
    <3>2. User(rest[i].text) = rest[i]
        BY <2>4, <3>1 DEF Message, User
    <3> QED
        BY <3>2 DEF In
  <2>7. turn'[t].text = rest[i].text /\ \A u \in Turn \ {t} : turn'[u] = turn[u]
      BY <1>0, <2>4 DEF Posted
  <2>8. ASSUME NEW u \in Turn \ {t}, turn[u].pc # "idle", turn[u].here
        PROVE  In(User(turn[u].text), rest)
      BY <1>0, <2>2, <2>8 DEF User
  <2> QED
      BY <2>5, <2>6, <2>7, <2>8
<1>2. ASSUME view'.msgs = view.msgs,
             \A u \in Turn : \/ turn'[u].pc = "idle"
                             \/ /\ turn[u].pc # "idle"
                                /\ turn'[u].text = turn[u].text /\ turn'[u].here = turn[u].here
      PROVE  SentShown'
    BY <1>2
<1>3. CASE Accept(t) \/ Finish(t) \/ Store(t) \/ TurnFails(t)
  <2>1. view'.msgs = view.msgs
      BY <1>0, <1>3 DEF Accept, Finish, Store, TurnFails, Status, View
  <2>2. ASSUME NEW u \in Turn
        PROVE  \/ turn'[u].pc = "idle"
               \/ /\ turn[u].pc # "idle"
                  /\ turn'[u].text = turn[u].text /\ turn'[u].here = turn[u].here
    <3>1. turn[t].pc # "idle" /\ \A v \in Turn \ {t} : turn'[v] = turn[v]
        BY <1>0, <1>3 DEF Accept, Finish, Store, TurnFails
    <3>2. CASE Accept(t) \/ Finish(t)
        BY <1>0, <3>1, <3>2 DEF Accept, Finish, TurnRecord
    <3>3. CASE Store(t) \/ TurnFails(t)
        BY <1>0, <3>1, <3>3 DEF Store, TurnFails, Idle
    <3> QED
        BY <1>3, <3>2, <3>3
  <2> QED
      BY <1>2, <2>1, <2>2
<1>4. CASE Stream(t)
  <2>1. ASSUME NEW u \in Turn
        PROVE  (turn'[u].pc # "idle" => turn[u].pc # "idle")
               /\ turn'[u].text = turn[u].text /\ turn'[u].here = turn[u].here
      BY <1>0, <1>4 DEF Stream, TurnRecord
  <2>2. \A m \in Message : In(m, view.msgs) => In(m, view'.msgs)
    <3>1. CASE turn[t].here
      <4>1. view'.msgs = Append(view.msgs, Answer(turn[t].text))
          BY <1>0, <1>4, <3>1 DEF Stream, View
      <4>2. Answer(turn[t].text) \in Message
          BY <1>0, <1>4 DEF Stream
      <4> QED
          BY <1>0, <4>1, <4>2, ShownWhenAppended
    <3> QED
        BY <1>4, <3>1 DEF Stream
  <2> QED
      BY <1>0, <2>1, <2>2
<1>5. ASSUME NEW x \in Text, Send(t, x) PROVE SentShown'
  <2>1. view'.msgs = Append(view.msgs, User(x)) /\ User(x) \in Message
      BY <1>5, MessageTypes DEF Send, Shows
  <2>2. turn'[t].text = x /\ \A u \in Turn \ {t} : turn'[u] = turn[u]
      BY <1>0, <1>5 DEF Send, Posted
  <2> QED
      BY <1>0, <2>1, <2>2, ShownWhenAppended
<1>6. CASE TurnBreaks(t)
  <2>1. view'.msgs = view.msgs
      BY <1>6, Broken, TypedSplit
  <2>2. \A u \in Turn : /\ turn'[u].pc = turn[u].pc /\ turn'[u].text = turn[u].text
                        /\ turn'[u].here => turn[u].here
      BY <1>6, Broken, TypedSplit
  <2> QED
    <3> SUFFICES ASSUME NEW u \in Turn, turn'[u].pc # "idle", turn'[u].here
                 PROVE  In(User(turn'[u].text), view'.msgs)
        OBVIOUS
    <3>1. turn[u].pc # "idle" /\ turn'[u].text = turn[u].text
        BY <2>2
    <3>2. turn[u].here
        BY <2>2
    <3> QED
        BY <2>1, <3>1, <3>2
<1> QED
    BY <1>1, <1>3, <1>4, <1>5, <1>6 DEF Chat

LEMMA SentStep == Typed /\ SentShown /\ [Next]_vars => SentShown'
<1> SUFFICES ASSUME Typed, SentShown, [Next]_vars PROVE SentShown'
    OBVIOUS
<1>1. CASE UNCHANGED <<view, turn>>
    BY <1>1 DEF SentShown
<1>2. ASSUME NEW c \in Conv, Sidebar(c) PROVE UNCHANGED <<view, turn>>
    BY <1>2 DEF Sidebar, ClickNew, Created, CreateFails, Select, ClickDelete, Deleted, DeleteFails, SendNew,
                requests
<1>3. CASE MountNew \/ Reload
  <2>1. \A t \in Turn : turn'[t].here = FALSE
      BY <1>3 DEF MountNew, Reload, Typed, TypeOK, TurnRecord
  <2> QED
      BY <2>1 DEF SentShown
<1> QED
    BY <1>1, <1>2, <1>3, SentHistories, SentChat DEF Next, vars, tab, requests, Service, Back

\* Nothing that arrives takes a text that the user has sent off the view that sent
\* it while its turn is under way: no history, no other answer, no regeneration.
THEOREM SentStays == Spec => []SentShown
<1>1. Init => SentShown
    BY DEF Init, SentShown, Idle
<1> QED
    BY <1>1, SentStep, TypedInvariant, PTL DEF Spec

-----------------------------------------------------------------------------
\* Messages stay in the conversation they were meant for.

MeantFor(s, p, to) == \A i \in DOMAIN s : to[s[i].text] = p

StoredMeant ==
    \A c \in Conv : /\ MeantFor(messages[c], c, target)
                    /\ MeantFor(fetch[c].rows, c, target)
                    /\ data[c] # NoData => MeantFor(data[c], c, target)

RequestsMeant ==
    /\ \A c \in Conv : create[c].on /\ create[c].text # NoText => target[create[c].text] = c
    /\ \A t \in Turn : turn[t].pc # "idle" => /\ target[turn[t].text] = turn[t].conv
                                              /\ turn[t].here => turn[t].conv = view.page

PlacesMeant ==
    \A e \in trail \cup {entry} : e.text # NoText => e.page \in Conv /\ target[e.text] = e.page

ViewMeant ==
    /\ MeantFor(view.msgs, view.page, target)
    /\ view.page = Home => view.msgs = <<>>

AllMeant == Typed /\ StoredMeant /\ RequestsMeant /\ PlacesMeant /\ ViewMeant

\* A text gets its conversation once.
LEMMA MeantStays ==
    ASSUME Typed, NEW x \in Text, target[x] = Home, NEW d \in Conv,
           target' = [target EXCEPT ![x] = d]
    PROVE  /\ target'[x] = d
           /\ \A y \in Text : target[y] \in Conv => target'[y] = target[y]
           /\ \A s \in Seq(Message), c \in Conv : MeantFor(s, c, target) => MeantFor(s, c, target')
<1>1. target \in [Text -> Page]
    BY DEF Typed, TypeOK
<1>2. \A y \in Text : target[y] \in Conv => target'[y] = target[y]
    BY <1>1, HomeAssumption
<1>3. ASSUME NEW s \in Seq(Message), NEW c \in Conv, MeantFor(s, c, target), NEW i \in DOMAIN s
      PROVE  target'[s[i].text] = c
  <2>1. s[i].text \in Text
    <3>1. s[i] \in Message
        BY <1>3
    <3> QED
        BY <3>1 DEF Message
  <2> QED
      BY <1>2, <1>3, <2>1 DEF MeantFor
<1> QED
    BY <1>1, <1>2, <1>3 DEF MeantFor

LEMMA MeantAppended ==
    ASSUME NEW s \in Seq(Message), NEW m \in Message, NEW p, NEW to,
           MeantFor(s, p, to), to[m.text] = p
    PROVE  MeantFor(Append(s, m), p, to)
<1> SUFFICES ASSUME NEW i \in DOMAIN Append(s, m) PROVE to[Append(s, m)[i].text] = p
    BY DEF MeantFor
<1>1. CASE i = Len(s) + 1
    BY <1>1
<1>2. CASE i \in DOMAIN s
    BY <1>2 DEF MeantFor
<1> QED
    BY <1>1, <1>2

\* What leaves the texts and their conversations alone.
LEMMA SameMeant ==
    ASSUME AllMeant, UNCHANGED <<messages, fetch, data, create, turn, view, target>>, Typed',
           \A e \in trail' \cup {entry'} : \/ e \in trail \cup {entry}
                                           \/ e.text = NoText
                                           \/ e.page \in Conv /\ target[e.text] = e.page
    PROVE  AllMeant'
BY DEF AllMeant, StoredMeant, RequestsMeant, PlacesMeant, ViewMeant, MeantFor

LEMMA ServiceMeant == AllMeant /\ Service /\ Typed' => AllMeant'
<1> SUFFICES ASSUME AllMeant, Service, Typed' PROVE AllMeant'
    OBVIOUS
<1>1. \A c \in Conv : messages'[c] = messages[c] \/ messages'[c] = <<>>
  <2>1. messages \in [Conv -> Seq(Message)]
      BY DEF AllMeant, Typed, TypeOK, ServerTypeOK
  <2> QED
      BY <2>1 DEF Service, Tick, Read, NextPage, LastPage, Manage, Begin, Commit, Delete, Archive
<1>2. StoredMeant'
    BY <1>1 DEF Service, tab, requests, history, AllMeant, StoredMeant, MeantFor
<1> QED
    BY <1>2 DEF Service, tab, requests, history, AllMeant, RequestsMeant, PlacesMeant, ViewMeant, MeantFor

LEMMA SidebarMeant ==
    ASSUME AllMeant, Typed', NEW c \in Conv, Sidebar(c) PROVE AllMeant'
<1> USE DEF requests, history
<1>0. /\ create \in [Conv -> [on : BOOLEAN, text : Text \cup {NoText}]]
      /\ trail \subseteq Location /\ entry \in Location
    BY DEF AllMeant, Typed, TypeOK
<1>1. CASE Select(c) \/ ClickDelete(c) \/ Deleted(c) \/ DeleteFails(c)
  <2>1. UNCHANGED <<messages, fetch, data, create, turn, view, target>>
      BY <1>1 DEF Select, ClickDelete, Deleted, DeleteFails, server
  <2>2. \A e \in trail' \cup {entry'} : e \in trail \cup {entry} \/ e.text = NoText
      BY <1>1 DEF Select, ClickDelete, Deleted, DeleteFails, Navigate
  <2> QED
      BY <2>1, <2>2, SameMeant
<1>2. CASE ClickNew(c) \/ CreateFails(c)
  <2>1. \A d \in Conv : create'[d].on /\ create'[d].text # NoText => create'[d] = create[d]
      BY <1>0, <1>2 DEF ClickNew, CreateFails
  <2>2. UNCHANGED <<messages, fetch, data, turn, view, target, trail, entry>>
      BY <1>2 DEF ClickNew, CreateFails, server
  <2> QED
      BY <2>1, <2>2 DEF AllMeant, StoredMeant, RequestsMeant, PlacesMeant, ViewMeant, MeantFor
<1>3. CASE Created(c)
  <2>1. \A d \in Conv : create'[d].on /\ create'[d].text # NoText => create'[d] = create[d]
      BY <1>0, <1>3 DEF Created
  <2>2. UNCHANGED <<messages, fetch, data, turn, view, target>>
      BY <1>3 DEF Created, server
  <2>3. create[c].text # NoText => target[create[c].text] = c
      BY <1>3 DEF Created, AllMeant, RequestsMeant
  <2>4. PlacesMeant'
      BY <1>3, <2>2, <2>3 DEF Created, Navigate, AllMeant, PlacesMeant
  <2> QED
      BY <2>1, <2>2, <2>4 DEF AllMeant, StoredMeant, RequestsMeant, ViewMeant, MeantFor
<1>4. ASSUME NEW x \in Text, SendNew(x, c) PROVE AllMeant'
  <2>1. target[x] = Home /\ target' = [target EXCEPT ![x] = c]
      BY <1>4 DEF SendNew
  <2>2. UNCHANGED <<messages, fetch, data, turn, view, trail, entry>>
      BY <1>4 DEF SendNew, server
  <2>3. StoredMeant'
      BY <2>1, <2>2, MeantStays DEF AllMeant, StoredMeant, Typed, TypeOK, ServerTypeOK
  <2>4. RequestsMeant'
    <3>1. ASSUME NEW d \in Conv, create'[d].on, create'[d].text # NoText
          PROVE  target'[create'[d].text] = d
      <4>1. CASE d = c
          BY <1>0, <1>4, <2>1, <4>1, MeantStays DEF SendNew, AllMeant
      <4>2. CASE d # c
          BY <1>0, <1>4, <2>1, <3>1, <4>2, MeantStays DEF SendNew, AllMeant, RequestsMeant
      <4> QED
          BY <4>1, <4>2
    <3>2. \A t \in Turn : turn[t].pc # "idle" => target'[turn[t].text] = turn[t].conv
        BY <2>1, MeantStays DEF AllMeant, RequestsMeant, Typed, TurnsMeant
    <3> QED
        BY <2>2, <3>1, <3>2 DEF AllMeant, RequestsMeant
  <2>5. PlacesMeant'
      BY <1>0, <2>1, <2>2, MeantStays DEF AllMeant, PlacesMeant, Location
  <2>6. ViewMeant'
    <3>1. view.page = Home /\ view.msgs = <<>>
        BY <1>4 DEF SendNew, AllMeant, ViewMeant
    <3> QED
        BY <2>2, <3>1 DEF ViewMeant, MeantFor
  <2> QED
      BY <2>3, <2>4, <2>5, <2>6 DEF AllMeant
<1> QED
    BY <1>1, <1>2, <1>3, <1>4 DEF Sidebar

LEMMA HistoriesMeant ==
    ASSUME AllMeant, Typed', NEW c \in Conv, Histories(c) PROVE AllMeant'
<1> USE DEF requests, history
<1>0. /\ fetch \in [Conv -> [pc : {"none", "asked", "served"}, rows : Seq(Message)]]
      /\ view \in View /\ turn \in [Turn -> TurnRecord] /\ entry \in Location
      /\ data \in [Conv -> {NoData} \cup Seq(Message)]
    BY DEF AllMeant, Typed, TypeOK
<1>1. \A d \in Conv : fetch'[d].rows \in {fetch[d].rows, <<>>, messages[d]}
  <2>1. CASE StartQuery(c)
    <3>1. fetch \in [Conv -> [pc : {"none", "asked", "served"}, rows : Seq(Message)]]
        BY <1>0
    <3>2. fetch' = fetch \/ fetch' = [fetch EXCEPT ![c].pc = "asked"]
        BY <2>1 DEF StartQuery
    <3> QED
        BY <3>1, <3>2
  <2>2. CASE Refetch(c)
      BY <1>0, <2>2 DEF Refetch
  <2>3. CASE ListMessages(c)
      BY <1>0, <2>3 DEF ListMessages
  <2>4. CASE HistoryArrives(c) \/ HistoryFails(c)
      BY <1>0, <2>4 DEF HistoryArrives, HistoryFails, NoFetch
  <2> QED
      BY <2>1, <2>2, <2>3, <2>4 DEF Histories, Drop, Mount, MountAndSend
<1>2. \A d \in Conv : data'[d] \in {data[d], NoData, fetch[d].rows}
  <2>1. CASE HistoryArrives(c) \/ Drop(c)
      BY <1>0, <2>1 DEF HistoryArrives, Drop
  <2> QED
      BY <2>1 DEF Histories, Refetch, ListMessages, HistoryFails, Mount, MountAndSend
<1>3. UNCHANGED <<messages, target, create>>
    BY DEF Histories, Refetch, ListMessages, HistoryArrives, HistoryFails, Drop, Mount, MountAndSend, server
<1>4. StoredMeant'
    BY <1>1, <1>2, <1>3 DEF AllMeant, StoredMeant, MeantFor
<1>5. PlacesMeant'
    BY <1>0, <1>3 DEF Histories, Refetch, ListMessages, HistoryArrives, HistoryFails, Drop, Mount,
                      MountAndSend, Taken, At, AllMeant, PlacesMeant
<1>6. MeantFor(FirstMessages(data[c]), c, target)
    BY DEF AllMeant, StoredMeant, FirstMessages, Loaded, MeantFor
<1>7. CASE UNCHANGED <<view, turn>>
    BY <1>3, <1>4, <1>5, <1>7 DEF AllMeant, RequestsMeant, ViewMeant, MeantFor
<1>8. CASE HistoryArrives(c) /\ view' # view
  <2>1. view'.page = view.page /\ view.page = c /\ view'.msgs \in {view.msgs, data'[c]}
      BY <1>0, <1>8 DEF HistoryArrives, Mounted, Loaded, View
  <2>2. data'[c] # NoData => MeantFor(data'[c], c, target)
      BY <1>3, <1>4 DEF StoredMeant
  <2>3. view'.msgs = view.msgs \/ (data'[c] # NoData /\ view'.msgs = data'[c])
      BY <1>0, <1>8 DEF HistoryArrives, Mounted, Loaded, View
  <2>4. ViewMeant'
      BY <1>3, <2>1, <2>2, <2>3, HomeAssumption DEF AllMeant, ViewMeant
  <2> QED
      BY <1>3, <1>4, <1>5, <1>8, <2>1, <2>4 DEF HistoryArrives, AllMeant, RequestsMeant
<1>9. CASE Mount(c)
  <2>1. view'.page = c /\ view'.msgs = FirstMessages(data[c])
      BY <1>9 DEF Mount
  <2>2. \A t \in Turn : /\ turn'[t].here = FALSE /\ turn'[t].pc = turn[t].pc
                        /\ turn'[t].conv = turn[t].conv /\ turn'[t].text = turn[t].text
      BY <1>0, <1>9 DEF Mount, TurnRecord
  <2>3. RequestsMeant'
      BY <1>3, <2>2 DEF AllMeant, RequestsMeant
  <2> QED
      BY <1>3, <1>4, <1>5, <1>6, <2>1, <2>3, HomeAssumption DEF AllMeant, ViewMeant
<1>10. ASSUME NEW t \in Turn, MountAndSend(c, t) PROVE AllMeant'
  <2>1. entry.text \in Text /\ target[entry.text] = c
      BY <1>0, <1>10 DEF MountAndSend, Location, AllMeant, PlacesMeant
  <2>2. view'.page = c /\ view'.msgs = Append(FirstMessages(data[c]), User(entry.text))
      BY <1>10 DEF MountAndSend, Shows
  <2>3. User(entry.text) \in Message /\ User(entry.text).text = entry.text
      BY <2>1, MessageTypes DEF User
  <2>4. MeantFor(view'.msgs, c, target)
      BY <1>6, <2>1, <2>2, <2>3, MeantAppended, FirstMessagesType DEF AllMeant
  <2>5. turn'[t].conv = c /\ turn'[t].text = entry.text
      BY <1>10 DEF MountAndSend, Posted
  <2>6. \A u \in Turn \ {t} : /\ turn'[u].here = FALSE /\ turn'[u].pc = turn[u].pc
                              /\ turn'[u].conv = turn[u].conv /\ turn'[u].text = turn[u].text
      BY <1>0, <1>10 DEF MountAndSend, TurnRecord
  <2>7. RequestsMeant'
      BY <1>3, <2>1, <2>2, <2>5, <2>6 DEF AllMeant, RequestsMeant
  <2> QED
      BY <1>3, <1>4, <1>5, <2>2, <2>4, <2>7, HomeAssumption DEF AllMeant, ViewMeant
<1> QED
    BY <1>7, <1>8, <1>9, <1>10 DEF Histories, Refetch, ListMessages, HistoryArrives, HistoryFails, Drop

LEMMA ChatMeant ==
    ASSUME AllMeant, Typed', NEW t \in Turn, Chat(t) PROVE AllMeant'
<1> USE DEF requests, history
<1>0. /\ view \in View /\ view.msgs \in Seq(Message)
      /\ turn \in [Turn -> TurnRecord]
      /\ messages \in [Conv -> Seq(Message)]
      /\ entry \in Location /\ trail \subseteq Location
      /\ create \in [Conv -> [on : BOOLEAN, text : Text \cup {NoText}]]
    BY DEF AllMeant, Typed, TypeOK, ServerTypeOK, View
<1>1. turn[t].pc # "idle" => /\ turn[t].conv \in Conv /\ turn[t].text \in Text
                             /\ target[turn[t].text] = turn[t].conv
                             /\ turn[t].here => turn[t].conv = view.page
    BY DEF AllMeant, Typed, TurnsMeant, RequestsMeant
<1>2. CASE Accept(t) \/ Store(t) \/ Finish(t) \/ TurnFails(t)
  <2>1. UNCHANGED <<fetch, data, create, target, entry, trail>> /\ turn[t].pc # "idle"
      BY <1>2 DEF Accept, Store, Finish, TurnFails
  <2>2. view'.page = view.page /\ view'.msgs = view.msgs
      BY <1>0, <1>2 DEF Accept, Store, Finish, TurnFails, Status, View
  <2>3. ASSUME NEW c \in Conv PROVE MeantFor(messages'[c], c, target)
    <3>1. MeantFor(messages[c], c, target) /\ messages[c] \in Seq(Message)
        BY <1>0 DEF AllMeant, StoredMeant
    <3>2. CASE Accept(t) /\ turn[t].conv = c
      <4>1. messages'[c] = Append(messages[c], User(turn[t].text))
          BY <1>0, <3>2 DEF Accept, AddMessage
      <4>2. User(turn[t].text) \in Message /\ User(turn[t].text).text = turn[t].text
          BY <1>1, <2>1, MessageTypes DEF User
      <4> QED
          BY <1>1, <2>1, <3>1, <3>2, <4>1, <4>2, MeantAppended
    <3>3. CASE Store(t) /\ turn[t].conv = c
      <4>1. messages'[c] = Append(messages[c], Answer(turn[t].text))
          BY <1>0, <3>3 DEF Store, AddMessage
      <4>2. Answer(turn[t].text) \in Message /\ Answer(turn[t].text).text = turn[t].text
          BY <1>1, <2>1, MessageTypes DEF Answer
      <4> QED
          BY <1>1, <2>1, <3>1, <3>3, <4>1, <4>2, MeantAppended
    <3>4. CASE Finish(t) \/ TurnFails(t) \/ turn[t].conv # c
        BY <1>0, <1>2, <3>1, <3>4 DEF Accept, Store, Finish, TurnFails, AddMessage, server
    <3> QED
        BY <1>2, <3>2, <3>3, <3>4
  <2>4. StoredMeant'
      BY <2>1, <2>3 DEF AllMeant, StoredMeant
  <2>5. ASSUME NEW u \in Turn, turn'[u].pc # "idle"
        PROVE  /\ turn[u].pc # "idle" /\ turn'[u].conv = turn[u].conv
               /\ turn'[u].text = turn[u].text /\ turn'[u].here = turn[u].here
    <3>1. \A v \in Turn \ {t} : turn'[v] = turn[v]
        BY <1>0, <1>2 DEF Accept, Store, Finish, TurnFails
    <3>2. CASE Accept(t) \/ Finish(t)
        BY <1>0, <2>1, <2>5, <3>1, <3>2 DEF Accept, Finish, TurnRecord
    <3>3. CASE Store(t) \/ TurnFails(t)
        BY <1>0, <2>1, <2>5, <3>1, <3>3 DEF Store, TurnFails, Idle
    <3> QED
        BY <1>2, <3>2, <3>3
  <2>6. RequestsMeant'
      BY <2>1, <2>2, <2>5 DEF AllMeant, RequestsMeant
  <2> QED
      BY <2>1, <2>2, <2>4, <2>6 DEF AllMeant, PlacesMeant, ViewMeant
<1>3. CASE Stream(t)
  <2>1. UNCHANGED <<messages, fetch, data, create, target, entry, trail>> /\ turn[t].pc # "idle"
      BY <1>3 DEF Stream, server
  <2>2. \A u \in Turn : /\ turn'[u].pc # "idle" => turn[u].pc # "idle"
                        /\ turn'[u].conv = turn[u].conv
                        /\ turn'[u].text = turn[u].text /\ turn'[u].here = turn[u].here
      BY <1>0, <1>3 DEF Stream, TurnRecord
  <2>3. view'.page = view.page /\ MeantFor(view'.msgs, view.page, target)
    <3>1. CASE turn[t].here
      <4>1. view'.page = view.page /\ view'.msgs = Append(view.msgs, Answer(turn[t].text))
          BY <1>0, <1>3, <3>1 DEF Stream, View
      <4>2. Answer(turn[t].text) \in Message /\ Answer(turn[t].text).text = turn[t].text
          BY <1>1, <2>1, MessageTypes DEF Answer
      <4> QED
          BY <1>0, <1>1, <2>1, <3>1, <4>1, <4>2, MeantAppended DEF AllMeant, ViewMeant
    <3>2. CASE ~turn[t].here
        BY <1>3, <3>2 DEF Stream, AllMeant, ViewMeant
    <3> QED
        BY <3>1, <3>2
  <2>4. view.page = Home => view'.msgs = <<>>
      BY <1>1, <1>3, <2>1, HomeAssumption DEF Stream, AllMeant, ViewMeant
  <2> QED
      BY <2>1, <2>2, <2>3, <2>4 DEF AllMeant, StoredMeant, RequestsMeant, PlacesMeant, ViewMeant
<1>4. CASE Regenerate(t)
  <2> DEFINE msgs == view.msgs
             last == msgs[Len(msgs)]
             rest == IF last.role = "assistant" THEN SubSeq(msgs, 1, Len(msgs) - 1) ELSE msgs
  <2>1. UNCHANGED <<messages, fetch, data, create, target, entry, trail>>
      BY <1>4 DEF Regenerate, server
  <2>2. MeantFor(rest, view.page, target)
    <3>1. MeantFor(msgs, view.page, target)
        BY DEF AllMeant, ViewMeant
    <3>2. \A i \in DOMAIN rest : i \in DOMAIN msgs /\ rest[i] = msgs[i]
        BY <1>0
    <3> QED
        BY <3>1, <3>2 DEF MeantFor
  <2> HIDE DEF rest
  <2>3. PICK i \in DOMAIN rest : turn' = [turn EXCEPT ![t] = Posted(view.page, rest[i].text)]
      BY <1>4 DEF Regenerate, rest
  <2>4. view'.page = view.page /\ view'.msgs = rest /\ view.page # Home
      BY <1>4 DEF Regenerate, Ready, Shows, rest
  <2>5. \A u \in Turn \ {t} : turn'[u] = turn[u]
      BY <1>0, <2>3
  <2>6. turn'[t].conv = view.page /\ target[turn'[t].text] = view.page
      BY <1>0, <2>2, <2>3 DEF Posted, MeantFor
  <2>7. RequestsMeant'
      BY <2>1, <2>4, <2>5, <2>6 DEF AllMeant, RequestsMeant
  <2> QED
      BY <2>1, <2>2, <2>4, <2>7 DEF AllMeant, StoredMeant, PlacesMeant, ViewMeant
<1>5. ASSUME NEW x \in Text, Send(t, x) PROVE AllMeant'
  <2> DEFINE p == view.page
  <2>1. /\ p \in Conv /\ target[x] = Home /\ target' = [target EXCEPT ![x] = p]
        /\ UNCHANGED <<messages, fetch, data, create, entry, trail>>
      BY <1>0, <1>5 DEF Send, Ready, View, Page, server
  <2>2. view'.page = p /\ view'.msgs = Append(view.msgs, User(x))
      BY <1>5 DEF Send, Shows
  <2>3. turn' = [turn EXCEPT ![t] = Posted(p, x)]
      BY <1>5 DEF Send
  <2>4. /\ target'[x] = p
        /\ \A y \in Text : target[y] \in Conv => target'[y] = target[y]
        /\ \A s \in Seq(Message), c \in Conv : MeantFor(s, c, target) => MeantFor(s, c, target')
      BY <2>1, MeantStays DEF AllMeant
  <2>5. StoredMeant'
      BY <2>1, <2>4 DEF AllMeant, StoredMeant, Typed, TypeOK, ServerTypeOK
  <2>6. RequestsMeant'
    <3>1. \A d \in Conv : create[d].on /\ create[d].text # NoText => target'[create[d].text] = d
        BY <1>0, <2>4 DEF AllMeant, RequestsMeant
    <3>2. ASSUME NEW u \in Turn \ {t}, turn[u].pc # "idle" PROVE target'[turn[u].text] = turn[u].conv
        BY <2>4, <3>2 DEF AllMeant, RequestsMeant, Typed, TurnsMeant
    <3>3. turn'[t].conv = p /\ turn'[t].text = x /\ \A u \in Turn \ {t} : turn'[u] = turn[u]
        BY <1>0, <2>3 DEF Posted
    <3> QED
        BY <2>1, <2>2, <2>4, <3>1, <3>2, <3>3 DEF AllMeant, RequestsMeant
  <2>7. PlacesMeant'
      BY <1>0, <2>1, <2>4 DEF AllMeant, PlacesMeant, Location
  <2>8. MeantFor(view'.msgs, p, target')
    <3>1. MeantFor(view.msgs, p, target')
        BY <1>0, <2>1, <2>4 DEF AllMeant, ViewMeant
    <3>2. User(x) \in Message /\ User(x).text = x
        BY MessageTypes DEF User
    <3> QED
        BY <1>0, <2>2, <2>4, <3>1, <3>2, MeantAppended
  <2> QED
      BY <2>1, <2>2, <2>5, <2>6, <2>7, <2>8, HomeAssumption DEF AllMeant, ViewMeant
<1>6. CASE TurnBreaks(t)
  <2>1. TabTyped
      BY TypedSplit DEF AllMeant
  <2>2. /\ UNCHANGED <<messages, fetch, data, create, target, entry, trail>>
        /\ view'.msgs = view.msgs /\ view'.page = view.page
        /\ \A u \in Turn : /\ turn'[u].pc = turn[u].pc /\ turn'[u].conv = turn[u].conv
                           /\ turn'[u].text = turn[u].text
                           /\ turn'[u].here => turn[u].here
      BY <1>6, <2>1, Broken DEF server
  <2>3. StoredMeant'
      BY <2>2 DEF AllMeant, StoredMeant
  <2>4. ASSUME NEW u \in Turn, turn'[u].pc # "idle"
        PROVE  /\ target[turn'[u].text] = turn'[u].conv
               /\ turn'[u].here => turn'[u].conv = view.page
    <3>1. /\ turn'[u].pc = turn[u].pc /\ turn'[u].conv = turn[u].conv
          /\ turn'[u].text = turn[u].text
        BY <2>2
    <3>2. /\ target[turn[u].text] = turn[u].conv
          /\ turn[u].here => turn[u].conv = view.page
        BY <2>4, <3>1 DEF AllMeant, RequestsMeant
    <3>3. turn'[u].here => turn[u].here
        BY <2>2
    <3>4. turn'[u].here => turn'[u].conv = view.page
        BY <3>1, <3>2, <3>3, Zenon
    <3> QED
        BY <3>1, <3>2, <3>4
  <2>5. RequestsMeant'
      BY <2>2, <2>4 DEF AllMeant, RequestsMeant
  <2> QED
      BY <2>2, <2>3, <2>5 DEF AllMeant, PlacesMeant, ViewMeant
<1> QED
    BY <1>2, <1>3, <1>4, <1>5, <1>6 DEF Chat

LEMMA MeantStep == AllMeant /\ [Next]_vars => AllMeant'
<1> SUFFICES ASSUME AllMeant, [Next]_vars PROVE AllMeant'
    OBVIOUS
<1>0. Typed'
    BY TypedStep DEF AllMeant
<1>1. CASE UNCHANGED vars
    BY <1>0, <1>1, SameMeant DEF vars, server, tab, requests, history
<1>2. CASE MountNew \/ Reload
  <2>1. /\ UNCHANGED <<messages, target, entry, trail>>
        /\ view'.page = Home /\ view'.msgs = <<>>
      BY <1>2 DEF MountNew, Reload, server, history
  <2>2. \A t \in Turn : /\ turn'[t].here = FALSE /\ turn'[t].pc = turn[t].pc
                        /\ turn'[t].conv = turn[t].conv /\ turn'[t].text = turn[t].text
      BY <1>2 DEF MountNew, Reload, AllMeant, Typed, TypeOK, TurnRecord
  <2>3. ASSUME NEW c \in Conv
        PROVE  /\ create'[c] = create[c] \/ ~create'[c].on
               /\ fetch'[c].rows \in {fetch[c].rows, <<>>}
               /\ data'[c] \in {data[c], NoData}
      BY <1>2 DEF MountNew, Reload, NoFetch
  <2>4. RequestsMeant'
      BY <2>1, <2>2, <2>3 DEF AllMeant, RequestsMeant
  <2>5. StoredMeant'
      BY <2>1, <2>3 DEF AllMeant, StoredMeant, MeantFor
  <2> QED
      BY <1>0, <2>1, <2>4, <2>5 DEF AllMeant, PlacesMeant, ViewMeant, MeantFor
<1>3. ASSUME NEW e \in trail, Back(e) PROVE AllMeant'
    BY <1>0, <1>3, SameMeant DEF Back, server, requests, history
<1> QED
    BY <1>0, <1>1, <1>2, <1>3, ServiceMeant, SidebarMeant, HistoriesMeant, ChatMeant DEF Next

LEMMA MeantInvariant == Spec => []AllMeant
<1>1. Init => AllMeant
  <2> SUFFICES ASSUME Init PROVE AllMeant
      OBVIOUS
  <2>1. Typed
      BY TypedInit
  <2>2. StoredMeant /\ ViewMeant
      BY DEF Init, ServerInit, NoFetch, StoredMeant, ViewMeant, MeantFor
  <2>3. RequestsMeant /\ PlacesMeant
      BY DEF Init, Idle, At, RequestsMeant, PlacesMeant
  <2> QED
      BY <2>1, <2>2, <2>3 DEF AllMeant
<1> QED
    BY <1>1, MeantStep, PTL DEF Spec

\* The messages on display, the cached histories and the stored messages are those
\* of their own conversation: not of the one shown before, of a turn that was under
\* way there, or of a history asked for there.
THEOREM MessagesOfTheView == Spec => []NoForeignMessages
<1>1. AllMeant => NoForeignMessages
    BY DEF AllMeant, ViewMeant, StoredMeant, MeantFor, Belong, NoForeignMessages
<1> QED
    BY <1>1, MeantInvariant, PTL

-----------------------------------------------------------------------------
\* A text is on its way to one place at a time.

Creates(c, x) == create[c].on /\ create[c].text = x
Waits(e, x) == e \in trail /\ e.text = x
Posts(t, x) == turn[t].pc = "posted" /\ turn[t].text = x
Says(c, i, x) == i \in DOMAIN messages[c] /\ messages[c][i] = User(x)

Creating(x) == \E c \in Conv : Creates(c, x)
Waiting(x) == \E e : Waits(e, x)
Posting(x) == \E t \in Turn : Posts(t, x)
Said(x) == \E c \in Conv : \E i : Says(c, i, x)

Once(x) ==
    /\ Creating(x) => ~Waiting(x) /\ ~Posting(x) /\ ~Said(x)
    /\ Waiting(x) => ~Posting(x) /\ ~Said(x)
    /\ Posting(x) => ~Said(x)
    /\ \A t, u \in Turn : Posts(t, x) /\ Posts(u, x) => t = u
    /\ \A c \in Conv : \A i, j : Says(c, i, x) /\ Says(c, j, x) => i = j

OnceInv == entry \in trail /\ \A x \in Text \ redone : Once(x)

\* The text gets nowhere it has not been.
Rests(x) ==
    /\ \A c \in Conv : Creates(c, x)' => Creates(c, x)
    /\ \A e : Waits(e, x)' => Waits(e, x)
    /\ \A t \in Turn : Posts(t, x)' => Posts(t, x)
    /\ \A c \in Conv : \A i : Says(c, i, x)' => Says(c, i, x)

LEMMA OnceRests ==
    ASSUME NEW x, Once(x), Rests(x)
    PROVE  Once(x)'
<1>1. /\ Creating(x)' => Creating(x)
      /\ Waiting(x)' => Waiting(x)
      /\ Posting(x)' => Posting(x)
      /\ Said(x)' => Said(x)
    BY DEF Rests, Creating, Waiting, Posting, Said
<1> QED
    BY <1>1 DEF Rests, Once

\* One text moves on, and the others rest.
LEMMA OthersRest ==
    ASSUME OnceInv, redone \subseteq redone', entry' \in trail',
           NEW x, x \in Text \ redone' => Once(x)',
           \A y \in Text \ {x} : Rests(y)
    PROVE  OnceInv'
<1>1. ASSUME NEW y \in Text \ redone' PROVE Once(y)'
  <2>1. CASE y = x
      BY <1>1, <2>1
  <2>2. CASE y # x
    <3>1. y \in Text /\ Once(y) /\ Rests(y)
        BY <1>1, <2>2 DEF OnceInv
    <3> QED
        BY <3>1, OnceRests
  <2> QED
      BY <2>1, <2>2
<1> QED
    BY <1>1 DEF OnceInv

LEMMA AllRest ==
    ASSUME OnceInv, redone \subseteq redone', entry' \in trail',
           \A y \in Text : Rests(y)
    PROVE  OnceInv'
<1>1. ASSUME NEW y \in Text \ redone' PROVE Once(y)'
  <2>1. y \in Text /\ Once(y) /\ Rests(y)
      BY <1>1 DEF OnceInv
  <2> QED
      BY <2>1, OnceRests
<1> QED
    BY <1>1 DEF OnceInv

\* A text without a conversation is nowhere.
LEMMA Nowhere ==
    ASSUME AllMeant, NEW x \in Text, target[x] = Home
    PROVE  ~Creating(x) /\ ~Waiting(x) /\ ~Posting(x) /\ ~Said(x)
<1>0. Home \notin Conv /\ x # NoText
    BY HomeAssumption, NoTextAssumption
<1>1. ~Creating(x)
    BY <1>0 DEF AllMeant, RequestsMeant, Creating, Creates
<1>2. ~Waiting(x)
    BY <1>0 DEF AllMeant, PlacesMeant, Waiting, Waits
<1>3. ~Posting(x)
    BY <1>0 DEF AllMeant, RequestsMeant, Typed, TurnsMeant, Posting, Posts
<1>4. ~Said(x)
    BY <1>0 DEF AllMeant, StoredMeant, MeantFor, Said, Says, User
<1> QED
    BY <1>1, <1>2, <1>3, <1>4

LEMMA ServiceOnce == AllMeant /\ OnceInv /\ Service => OnceInv'
<1> SUFFICES ASSUME AllMeant, OnceInv, Service PROVE OnceInv'
    OBVIOUS
<1>1. \A c \in Conv : messages'[c] = messages[c] \/ messages'[c] = <<>>
  <2>1. messages \in [Conv -> Seq(Message)]
      BY DEF AllMeant, Typed, TypeOK, ServerTypeOK
  <2> QED
      BY <2>1 DEF Service, Tick, Read, NextPage, LastPage, Manage, Begin, Commit, Delete, Archive
<1>2. UNCHANGED <<create, trail, turn, redone, entry>>
    BY DEF Service, tab, requests, history
<1>3. \A c \in Conv : \A i, x : Says(c, i, x)' => Says(c, i, x)
    BY <1>1 DEF Says
<1>4. ASSUME NEW y \in Text PROVE Rests(y)
    BY <1>2, <1>3 DEF Rests, Creates, Waits, Posts
<1> QED
    BY <1>2, <1>4, AllRest DEF OnceInv

LEMMA SidebarOnce ==
    ASSUME AllMeant, OnceInv, NEW c \in Conv, Sidebar(c)
    PROVE  OnceInv'
<1> USE DEF requests, history, server
<1>0. /\ create \in [Conv -> [on : BOOLEAN, text : Text \cup {NoText}]]
      /\ NoText \notin Text
      /\ entry \in trail
    BY NoTextAssumption DEF AllMeant, Typed, TypeOK, OnceInv
<1>1. UNCHANGED <<messages, turn, redone>>
    BY DEF Sidebar, ClickNew, Created, CreateFails, Select, ClickDelete, Deleted, DeleteFails, SendNew
<1>2. \A x : /\ \A t \in Turn : Posts(t, x)' => Posts(t, x)
             /\ \A d \in Conv : \A i : Says(d, i, x)' => Says(d, i, x)
    BY <1>1 DEF Posts, Says
<1>3. CASE Select(c) \/ ClickDelete(c) \/ Deleted(c) \/ DeleteFails(c) \/ ClickNew(c) \/ CreateFails(c)
  <2>1. entry' \in trail' /\ \A e \in trail' : e \in trail \/ e.text = NoText
      BY <1>0, <1>3 DEF Select, ClickDelete, Deleted, DeleteFails, ClickNew, CreateFails, Navigate
  <2>2. \A d \in Conv : create'[d].on /\ create'[d].text # NoText => create'[d] = create[d]
      BY <1>0, <1>3 DEF Select, ClickDelete, Deleted, DeleteFails, ClickNew, CreateFails
  <2>3. ASSUME NEW y \in Text PROVE Rests(y)
      BY <1>0, <1>2, <2>1, <2>2 DEF Rests, Creates, Waits
  <2> QED
      BY <1>1, <2>1, <2>3, AllRest
<1>4. CASE Created(c)
  <2>0. PICK x : x = create[c].text
      OBVIOUS
  <2>1. /\ entry' \in trail'
        /\ \A e \in trail' : e \in trail \/ e.text = x
        /\ create[c].on
        /\ \A d \in Conv \ {c} : create'[d] = create[d]
        /\ ~create'[c].on
      BY <1>0, <1>4, <2>0 DEF Created, Navigate
  <2>2. ASSUME x \in Text \ redone' PROVE Once(x)'
    <3>1. Once(x) /\ Creating(x) /\ target[x] = c
        BY <1>0, <1>1, <2>0, <2>1, <2>2 DEF OnceInv, Creating, Creates, AllMeant, RequestsMeant
    <3>2. ~Creating(x)'
      <4>1. ASSUME NEW d \in Conv, Creates(d, x)' PROVE FALSE
        <5>1. d # c /\ Creates(d, x)
            BY <2>1, <4>1 DEF Creates
        <5>2. target[x] = d
            BY <1>0, <2>2, <5>1 DEF Creates, AllMeant, RequestsMeant
        <5> QED
            BY <3>1, <5>1, <5>2
      <4> QED
          BY <4>1 DEF Creating
    <3>3. ~Posting(x)' /\ ~Said(x)'
        BY <1>2, <3>1 DEF Once, Posting, Said
    <3>4. \A t, u \in Turn : Posts(t, x)' /\ Posts(u, x)' => t = u
        BY <1>2, <3>1 DEF Once
    <3>5. \A d \in Conv : \A i, j : Says(d, i, x)' /\ Says(d, j, x)' => i = j
        BY <1>2, <3>1 DEF Once
    <3> QED
        BY <3>2, <3>3, <3>4, <3>5 DEF Once
  <2>3. ASSUME NEW y \in Text \ {x} PROVE Rests(y)
      BY <1>2, <2>1, <2>3 DEF Rests, Creates, Waits
  <2> QED
      BY <1>1, <2>1, <2>2, <2>3, OthersRest
<1>5. ASSUME NEW x \in Text, SendNew(x, c) PROVE OnceInv'
  <2>1. /\ target[x] = Home
        /\ create' = [create EXCEPT ![c] = [on |-> TRUE, text |-> x]]
        /\ UNCHANGED <<entry, trail>>
      BY <1>5 DEF SendNew
  <2>2. \A e, y : Waits(e, y)' => Waits(e, y)
      BY <2>1 DEF Waits
  <2>3. Once(x)'
    <3>1. ~Waiting(x)' /\ ~Posting(x)' /\ ~Said(x)'
        BY <1>2, <2>1, <2>2, Nowhere DEF Waiting, Posting, Said
    <3> QED
        BY <3>1 DEF Once, Posting, Said
  <2>4. ASSUME NEW y \in Text \ {x} PROVE Rests(y)
      BY <1>0, <1>2, <2>1, <2>2, <2>4 DEF Rests, Creates
  <2> QED
      BY <1>0, <1>1, <2>1, <2>3, <2>4, OthersRest
<1> QED
    BY <1>3, <1>4, <1>5 DEF Sidebar

LEMMA HistoriesOnce ==
    ASSUME AllMeant, OnceInv, NEW c \in Conv, Histories(c)
    PROVE  OnceInv'
<1> USE DEF requests, history, server
<1>0. /\ turn \in [Turn -> TurnRecord] /\ entry \in Location
      /\ NoText \notin Text
      /\ entry \in trail
    BY NoTextAssumption DEF AllMeant, Typed, TypeOK, OnceInv
<1>1. UNCHANGED <<messages, create, redone>>
    BY DEF Histories, Refetch, ListMessages, HistoryArrives, HistoryFails, Drop, Mount, MountAndSend
<1>2. \A x : /\ \A d \in Conv : Creates(d, x)' => Creates(d, x)
             /\ \A d \in Conv : \A i : Says(d, i, x)' => Says(d, i, x)
    BY <1>1 DEF Creates, Says
<1>3. CASE \A t \in Turn : ~MountAndSend(c, t)
  <2>1. UNCHANGED <<entry, trail>>
      BY <1>3 DEF Histories, Refetch, ListMessages, HistoryArrives, HistoryFails, Drop, Mount
  <2>2. \A t \in Turn : turn'[t].pc = turn[t].pc /\ turn'[t].text = turn[t].text
    <3>1. CASE Mount(c)
        BY <1>0, <3>1 DEF Mount, TurnRecord
    <3>2. CASE turn' = turn
        BY <3>2
    <3> QED
        BY <1>3, <3>1, <3>2 DEF Histories, Refetch, ListMessages, HistoryArrives, HistoryFails, Drop
  <2>3. ASSUME NEW y \in Text PROVE Rests(y)
      BY <1>2, <2>1, <2>2 DEF Rests, Waits, Posts
  <2> QED
      BY <1>0, <1>1, <2>1, <2>3, AllRest
<1>4. ASSUME NEW t \in Turn, MountAndSend(c, t) PROVE OnceInv'
  <2>1. PICK x \in Text : x = entry.text
      BY <1>0, <1>4 DEF MountAndSend, Location
  <2>2. /\ entry.page = c /\ entry' = At(c) /\ trail' = (trail \ {entry}) \cup {At(c)}
        /\ turn[t].pc = "idle"
      BY <1>4 DEF MountAndSend, Taken
  <2>3. /\ turn'[t].pc = "posted" /\ turn'[t].text = x
        /\ \A u \in Turn \ {t} : turn'[u].pc = turn[u].pc /\ turn'[u].text = turn[u].text
      BY <1>0, <1>4, <2>1 DEF MountAndSend, Posted, TurnRecord
  <2>4. \A e : \A y \in Text : Waits(e, y)' => Waits(e, y)
      BY <1>0, <2>2 DEF Waits, At
  <2>5. ASSUME x \in Text \ redone' PROVE Once(x)'
    <3>1. Once(x) /\ Waiting(x)
        BY <1>0, <1>1, <2>1, <2>5 DEF OnceInv, Waiting, Waits
    <3>2. ~Creating(x)' /\ ~Said(x)'
        BY <1>2, <3>1 DEF Once, Creating, Said
    <3>3. ASSUME NEW e, Waits(e, x)' PROVE FALSE
      <4>1. e \in trail /\ e.text = x /\ e # entry
          BY <1>0, <2>1, <2>2, <3>3 DEF Waits, At
      <4>2. e \in Location /\ e.page = entry.page
          BY <1>0, <2>1, <4>1 DEF AllMeant, PlacesMeant, Typed, TypeOK
      <4> QED
          BY <1>0, <2>1, <4>1, <4>2 DEF Location
    <3>4. \A u \in Turn \ {t} : ~Posts(u, x)'
        BY <2>3, <3>1 DEF Once, Posting, Posts
    <3>5. \A d \in Conv : \A i, j : Says(d, i, x)' /\ Says(d, j, x)' => i = j
        BY <1>2, <3>1 DEF Once
    <3> QED
        BY <3>2, <3>3, <3>4, <3>5 DEF Once, Waiting
  <2>6. ASSUME NEW y \in Text \ {x} PROVE Rests(y)
    <3>1. \A u \in Turn : Posts(u, y)' => Posts(u, y)
        BY <2>3, <2>6 DEF Posts
    <3> QED
        BY <1>2, <2>4, <2>6, <3>1 DEF Rests
  <2>7. entry' \in trail'
      BY <2>2
  <2> QED
      BY <1>1, <2>5, <2>6, <2>7, OthersRest
<1> QED
    BY <1>3, <1>4

LEMMA ChatOnce ==
    ASSUME AllMeant, OnceInv, NEW t \in Turn, Chat(t)
    PROVE  OnceInv'
<1> USE DEF requests, history
<1>0. /\ turn \in [Turn -> TurnRecord]
      /\ messages \in [Conv -> Seq(Message)]
      /\ entry \in trail
      /\ turn[t].pc # "idle" => turn[t].conv \in Conv /\ turn[t].text \in Text
    BY DEF AllMeant, Typed, TypeOK, TurnsMeant, ServerTypeOK, OnceInv
<1>1. UNCHANGED <<create, trail, entry>> /\ redone \subseteq redone'
    BY DEF Chat, Regenerate, Accept, Stream, Finish, Store, TurnFails, TurnBreaks, Send
<1>2. \A x : /\ \A d \in Conv : Creates(d, x)' => Creates(d, x)
             /\ \A e : Waits(e, x)' => Waits(e, x)
    BY <1>1 DEF Creates, Waits
<1>3. \A u \in Turn \ {t} : turn'[u] = turn[u]
    BY <1>0 DEF Chat, Regenerate, Accept, Stream, Finish, Store, TurnFails, TurnBreaks, Send
<1>4. CASE Stream(t) \/ Finish(t) \/ TurnFails(t) \/ Store(t)
  <2>1. turn'[t].pc # "posted"
      BY <1>0, <1>4 DEF Stream, Finish, TurnFails, Store, Idle, TurnRecord
  <2>2. ASSUME NEW d \in Conv, NEW i, NEW y, Says(d, i, y)' PROVE Says(d, i, y)
    <3>1. CASE messages'[d] = messages[d]
        BY <2>2, <3>1 DEF Says
    <3>2. CASE messages'[d] # messages[d]
      <4>1. messages'[d] = Append(messages[d], Answer(turn[t].text))
          BY <1>0, <1>4, <3>2 DEF Stream, Finish, TurnFails, Store, AddMessage, server
      <4> QED
          BY <1>0, <2>2, <4>1 DEF Says, User, Answer
    <3> QED
        BY <3>1, <3>2
  <2>3. ASSUME NEW y \in Text PROVE Rests(y)
      BY <1>2, <1>3, <2>1, <2>2 DEF Rests, Posts
  <2> QED
      BY <1>0, <1>1, <2>3, AllRest
<1>5. CASE Accept(t)
  <2>1. PICK x \in Text : x = turn[t].text
      BY <1>0, <1>5 DEF Accept
  <2>2. /\ turn[t].pc = "posted" /\ turn'[t].pc = "running" /\ redone' = redone
        /\ turn[t].conv \in Conv
        /\ messages' = [messages EXCEPT ![turn[t].conv] = Append(@, User(x))]
      BY <1>0, <1>5, <2>1 DEF Accept, AddMessage, TurnRecord
  <2>3. ASSUME NEW d \in Conv, NEW i, NEW y, Says(d, i, y)'
        PROVE  Says(d, i, y) \/ (y = x /\ d = turn[t].conv /\ i = Len(messages[d]) + 1)
    <3>1. CASE d # turn[t].conv
        BY <1>0, <2>2, <2>3, <3>1 DEF Says
    <3>2. CASE d = turn[t].conv
      <4>1. messages'[d] = Append(messages[d], User(x)) /\ messages[d] \in Seq(Message)
          BY <1>0, <2>2, <3>2
      <4> QED
          BY <2>3, <3>2, <4>1 DEF Says, User
    <3> QED
        BY <3>1, <3>2
  <2>4. ASSUME x \in Text \ redone' PROVE Once(x)'
    <3>1. Once(x) /\ Posting(x) /\ Posts(t, x)
        BY <2>1, <2>2, <2>4 DEF OnceInv, Posting, Posts
    <3>2. ~Said(x) /\ ~Creating(x) /\ ~Waiting(x)
        BY <3>1 DEF Once
    <3>3. ~Creating(x)' /\ ~Waiting(x)'
        BY <1>2, <3>2 DEF Creating, Waiting
    <3>4. \A u \in Turn : ~Posts(u, x)'
        BY <1>3, <2>2, <3>1 DEF Once, Posts
    <3>5. \A d \in Conv : \A i, j : Says(d, i, x)' /\ Says(d, j, x)' => i = j
        BY <2>3, <3>2 DEF Said
    <3> QED
        BY <3>3, <3>4, <3>5 DEF Once, Posting
  <2>5. ASSUME NEW y \in Text \ {x} PROVE Rests(y)
      BY <1>2, <1>3, <2>2, <2>3, <2>5 DEF Rests, Posts
  <2> QED
      BY <1>0, <1>1, <2>4, <2>5, OthersRest
<1>6. CASE Regenerate(t)
  <2>1. PICK x : /\ turn' = [turn EXCEPT ![t] = Posted(view.page, x)]
                 /\ redone' = redone \cup {x}
      BY <1>6 DEF Regenerate
  <2>2. messages' = messages
      BY <1>6 DEF Regenerate, server
  <2>3. turn'[t].text = x
      BY <1>0, <2>1 DEF Posted
  <2>4. ASSUME NEW y \in Text \ {x} PROVE Rests(y)
      BY <1>2, <1>3, <2>2, <2>3, <2>4 DEF Rests, Posts, Says
  <2> QED
      BY <1>0, <1>1, <2>1, <2>4, OthersRest
<1>7. ASSUME NEW x \in Text, Send(t, x) PROVE OnceInv'
  <2>1. target[x] = Home /\ messages' = messages /\ turn' = [turn EXCEPT ![t] = Posted(view.page, x)]
      BY <1>7 DEF Send, server
  <2>2. turn'[t].text = x
      BY <1>0, <2>1 DEF Posted
  <2>3. \A d \in Conv : \A i, y : Says(d, i, y)' => Says(d, i, y)
      BY <2>1 DEF Says
  <2>4. Once(x)'
    <3>1. ~Creating(x) /\ ~Waiting(x) /\ ~Posting(x) /\ ~Said(x)
        BY <2>1, Nowhere
    <3>2. ~Creating(x)' /\ ~Waiting(x)' /\ ~Said(x)'
        BY <1>2, <2>3, <3>1 DEF Creating, Waiting, Said
    <3>3. \A u \in Turn : Posts(u, x)' => u = t
        BY <1>3, <3>1 DEF Posting, Posts
    <3> QED
        BY <3>2, <3>3 DEF Once, Said
  <2>5. ASSUME NEW y \in Text \ {x} PROVE Rests(y)
      BY <1>2, <1>3, <2>2, <2>3, <2>5 DEF Rests, Posts
  <2> QED
      BY <1>0, <1>1, <2>4, <2>5, OthersRest
<1>8. CASE TurnBreaks(t)
  <2>1. \A u \in Turn : turn'[u].pc = turn[u].pc /\ turn'[u].text = turn[u].text
      BY <1>8, Broken, TypedSplit DEF AllMeant
  <2>2. messages' = messages
      BY <1>8 DEF TurnBreaks, server
  <2>3. ASSUME NEW y \in Text PROVE Rests(y)
      BY <1>2, <2>1, <2>2 DEF Rests, Posts, Says
  <2> QED
      BY <1>0, <1>1, <2>3, AllRest
<1> QED
    BY <1>4, <1>5, <1>6, <1>7, <1>8 DEF Chat

LEMMA OnceStep == AllMeant /\ OnceInv /\ [Next]_vars => OnceInv'
<1> SUFFICES ASSUME AllMeant, OnceInv, [Next]_vars PROVE OnceInv'
    OBVIOUS
<1>1. CASE MountNew \/ Reload \/ UNCHANGED vars \/ \E e \in trail : Back(e)
  <2>1. UNCHANGED <<messages, trail, redone>> /\ entry' \in trail'
      BY <1>1 DEF MountNew, Reload, Back, vars, server, tab, history, OnceInv
  <2>2. \A t \in Turn : turn'[t].pc = turn[t].pc /\ turn'[t].text = turn[t].text
    <3>1. CASE MountNew \/ Reload
        BY <3>1 DEF MountNew, Reload, AllMeant, Typed, TypeOK, TurnRecord
    <3>2. CASE turn' = turn
        BY <3>2
    <3> QED
        BY <1>1, <3>1, <3>2 DEF Back, vars, tab, requests
  <2>3. \A c \in Conv : create'[c] = create[c] \/ ~create'[c].on
      BY <1>1 DEF MountNew, Reload, Back, vars, tab, requests
  <2>4. ASSUME NEW y \in Text PROVE Rests(y)
      BY <2>1, <2>2, <2>3 DEF Rests, Creates, Waits, Posts, Says
  <2> QED
      BY <2>1, <2>4, AllRest
<1> QED
    BY <1>1, ServiceOnce, SidebarOnce, HistoriesOnce, ChatOnce DEF Next

\* A text arrives in the conversation it was meant for, and once: neither a reload,
\* nor the back button, nor a second text under way sends it again.
THEOREM ArrivesOnce == Spec => []SentOnce
<1>1. Init => OnceInv
  <2> SUFFICES ASSUME Init PROVE OnceInv
      OBVIOUS
  <2>1. entry \in trail
      BY DEF Init
  <2>2. ASSUME NEW x \in Text PROVE Once(x)
    <3>1. /\ \A c \in Conv : ~Creates(c, x)
          /\ \A e : ~Waits(e, x)
          /\ \A t \in Turn : ~Posts(t, x)
          /\ \A c \in Conv : \A i : ~Says(c, i, x)
        BY NoTextAssumption DEF Init, ServerInit, At, Idle, Creates, Waits, Posts, Says
    <3> QED
        BY <3>1 DEF Once, Creating, Waiting, Posting, Said
  <2> QED
      BY <2>1, <2>2 DEF OnceInv
<1>2. AllMeant /\ OnceInv => SentOnce
  <2> SUFFICES ASSUME AllMeant, OnceInv, NEW x \in Text, NEW c \in Conv
               PROVE  LET sent == {i \in DOMAIN messages[c] : messages[c][i] = User(x)} IN
                      /\ sent # {} => c = target[x]
                      /\ x \notin redone => Cardinality(sent) <= 1
      BY DEF SentOnce
  <2> DEFINE sent == {i \in DOMAIN messages[c] : messages[c][i] = User(x)}
  <2>1. sent # {} => c = target[x]
      BY DEF AllMeant, StoredMeant, MeantFor, User
  <2>2. ASSUME x \notin redone PROVE Cardinality(sent) <= 1
    <3>1. \A i, j \in sent : i = j
        BY <2>2 DEF OnceInv, Once, Says
    <3>2. CASE sent = {}
        BY <3>2, FS_EmptySet
    <3>3. CASE sent # {}
      <4>1. PICK i \in sent : sent = {i}
          BY <3>1, <3>3
      <4>2. Cardinality({i}) = 1
          BY FS_Singleton
      <4> QED
          BY <4>1, <4>2
    <3> QED
        BY <3>2, <3>3
  <2> QED
      BY <2>1, <2>2
<1> QED
    BY <1>1, <1>2, OnceStep, MeantInvariant, PTL DEF Spec

-----------------------------------------------------------------------------
\* The view shows all that is stored.

Covers(s, c) == \A i \in DOMAIN messages[c] : In(messages[c][i], s)

Answering(t, c) == turn[t].pc \in {"streaming", "shown"} /\ turn[t].conv = c

\* Whoever adds to the messages of the view is the view, which shows it already;
\* and it shows what was stored before, or is about to get it.
Complete(c) ==
    /\ \A t \in Turn : turn[t].pc # "idle" /\ turn[t].conv = c => turn[t].here
    /\ \A t \in Turn : Answering(t, c) => In(Answer(turn[t].text), view.msgs)
    /\ IF view.msgs = <<>> /\ data[c] = NoData
       THEN fetch[c].pc = "served" => Covers(fetch[c].rows, c)
       ELSE Covers(view.msgs, c)

WholeInv == \A c \in Conv : Mounted(c) /\ ~behind => Complete(c)

Whole == AllMeant /\ SentShown /\ WholeInv

LEMMA CompleteStays ==
    ASSUME NEW c \in Conv, Complete(c),
           view'.msgs = view.msgs, data'[c] = data[c],
           messages'[c] = messages[c] \/ messages'[c] = <<>>,
           fetch'[c] = fetch[c] \/ fetch'[c].pc # "served",
           \A t \in Turn : turn'[t].pc # "idle" =>
               /\ turn[t].pc # "idle" /\ turn'[t].conv = turn[t].conv
               /\ turn'[t].text = turn[t].text /\ turn'[t].here = turn[t].here
               /\ Answering(t, c)' => Answering(t, c)
    PROVE  Complete(c)'
<1>1. \A s : Covers(s, c) => \A i \in DOMAIN messages'[c] : In(messages'[c][i], s)
    BY DEF Covers
<1>2. \A t \in Turn : turn'[t].pc # "idle" /\ turn'[t].conv = c => turn'[t].here
    BY DEF Complete
<1>3. \A t \in Turn : Answering(t, c)' => In(Answer(turn'[t].text), view'.msgs)
  <2> SUFFICES ASSUME NEW t \in Turn, Answering(t, c)'
               PROVE  In(Answer(turn'[t].text), view'.msgs)
      OBVIOUS
  <2>1. Answering(t, c) /\ turn'[t].text = turn[t].text
      BY DEF Answering
  <2> QED
      BY <2>1 DEF Complete
<1>4. CASE view.msgs = <<>> /\ data[c] = NoData
  <2>1. fetch'[c].pc = "served" => Covers(fetch[c].rows, c)'
    <3>1. ASSUME fetch'[c].pc = "served"
          PROVE  Covers(fetch[c].rows, c) /\ fetch'[c].rows = fetch[c].rows
        BY <1>4, <3>1 DEF Complete
    <3> QED
        BY <1>1, <3>1 DEF Covers
  <2> QED
      BY <1>2, <1>3, <1>4, <2>1 DEF Complete
<1>5. CASE ~(view.msgs = <<>> /\ data[c] = NoData)
  <2>1. Covers(view.msgs, c)'
    <3>1. Covers(view.msgs, c)
        BY <1>5 DEF Complete
    <3> QED
        BY <1>1, <3>1 DEF Covers
  <2> QED
      BY <1>2, <1>3, <1>5, <2>1 DEF Complete
<1> QED
    BY <1>4, <1>5

LEMMA InAppended ==
    ASSUME NEW s \in Seq(Message), NEW m \in Message
    PROVE  /\ In(m, Append(s, m)) /\ Append(s, m) # <<>>
           /\ \A x : In(x, s) => In(x, Append(s, m))
<1>0. /\ Append(s, m) \in Seq(Message) /\ Len(Append(s, m)) = Len(s) + 1
      /\ DOMAIN s = 1 .. Len(s) /\ Len(s) \in Nat
      /\ DOMAIN Append(s, m) = 1 .. Len(s) + 1
    OBVIOUS
<1>1. Append(s, m)[Len(s) + 1] = m /\ Len(s) + 1 \in DOMAIN Append(s, m)
  <2>1. Append(s, m)[Len(s) + 1] = m
      OBVIOUS
  <2> QED
      BY <1>0, <2>1
<1>2. \A i \in DOMAIN s : i \in DOMAIN Append(s, m) /\ Append(s, m)[i] = s[i]
  <2>1. \A i \in DOMAIN s : Append(s, m)[i] = s[i]
      OBVIOUS
  <2> QED
      BY <1>0, <2>1
<1>3. Append(s, m) # <<>>
    BY <1>0
<1> QED
    BY <1>1, <1>2, <1>3 DEF In

LEMMA ServiceWhole == Whole /\ Service => WholeInv'
<1> SUFFICES ASSUME Whole, Service PROVE WholeInv'
    OBVIOUS
<1>1. \A c \in Conv : messages'[c] = messages[c] \/ messages'[c] = <<>>
  <2>1. messages \in [Conv -> Seq(Message)]
      BY DEF Whole, AllMeant, Typed, TypeOK, ServerTypeOK
  <2> QED
      BY <2>1 DEF Service, Tick, Read, NextPage, LastPage, Manage, Begin, Commit, Delete, Archive
<1>2. UNCHANGED <<view, data, fetch, turn, behind>>
    BY DEF Service, tab, requests, history
<1>3. ASSUME NEW c \in Conv, Mounted(c)', ~behind' PROVE Complete(c)'
  <2>1. Complete(c)
      BY <1>2, <1>3 DEF Whole, WholeInv, Mounted
  <2> QED
      BY <1>1, <1>2, <2>1, CompleteStays DEF Answering
<1> QED
    BY <1>3 DEF WholeInv

LEMMA SidebarWhole ==
    ASSUME Whole, NEW d \in Conv, Sidebar(d)
    PROVE  WholeInv'
<1>1. UNCHANGED <<messages, view, data, fetch, turn, behind>>
    BY DEF Sidebar, ClickNew, Created, CreateFails, Select, ClickDelete, Deleted, DeleteFails,
           SendNew, requests, history, server
<1>2. ASSUME NEW c \in Conv, Mounted(c)', ~behind' PROVE Complete(c)'
  <2>1. Complete(c)
      BY <1>1, <1>2 DEF Whole, WholeInv, Mounted
  <2> QED
      BY <1>1, <2>1, CompleteStays DEF Answering
<1> QED
    BY <1>2 DEF WholeInv

LEMMA HistoriesWhole ==
    ASSUME Whole, NEW d \in Conv, Histories(d)
    PROVE  WholeInv'
<1> USE DEF requests, history, server
<1>0. /\ fetch \in [Conv -> [pc : {"none", "asked", "served"}, rows : Seq(Message)]]
      /\ view \in View /\ turn \in [Turn -> TurnRecord] /\ entry \in Location
      /\ data \in [Conv -> {NoData} \cup Seq(Message)]
      /\ messages \in [Conv -> Seq(Message)]
    BY DEF Whole, AllMeant, Typed, TypeOK, ServerTypeOK
<1>1. ASSUME NEW c \in Conv, Mounted(c)', ~behind' PROVE Complete(c)'
  <2>1. CASE Refetch(d) \/ HistoryFails(d) \/ Drop(d) \/ (d # c /\ (ListMessages(d) \/ HistoryArrives(d)))
    <3>1. UNCHANGED <<messages, turn, behind>> /\ view'.page = view.page /\ view'.on = view.on
        BY <1>0, <2>1 DEF Refetch, HistoryFails, Drop, ListMessages, HistoryArrives, View
    <3>2. Mounted(c) /\ Complete(c)
        BY <1>1, <3>1 DEF Whole, WholeInv, Mounted
    <3>3. view' = view /\ data'[c] = data[c]
        BY <1>0, <2>1, <3>2 DEF Refetch, HistoryFails, Drop, ListMessages, HistoryArrives, Mounted
    <3>4. fetch'[c] = fetch[c] \/ fetch'[c].pc # "served"
        BY <1>0, <2>1 DEF Refetch, HistoryFails, Drop, ListMessages, HistoryArrives, NoFetch
    <3> QED
        BY <3>1, <3>2, <3>3, <3>4, CompleteStays DEF Answering
  <2>2. CASE d = c /\ ListMessages(d)
    <3>1. UNCHANGED <<messages, turn, behind, view, data>> /\ fetch'[c].rows = messages[c]
        BY <1>0, <2>2 DEF ListMessages
    <3>2. Complete(c)
        BY <1>1, <3>1 DEF Whole, WholeInv, Mounted
    <3>3. Covers(messages[c], c)
        BY DEF Covers, In
    <3> QED
        BY <3>1, <3>2, <3>3 DEF Complete, Covers, Answering
  <2>3. CASE d = c /\ HistoryArrives(d)
    <3>1. /\ UNCHANGED <<messages, turn, behind>>
          /\ fetch[c].pc = "served" /\ fetch'[c].pc = "none" /\ data'[c] = fetch[c].rows
          /\ view'.page = view.page /\ view'.on = view.on
        BY <1>0, <2>3 DEF HistoryArrives, NoFetch, View
    <3>2. Mounted(c) /\ Complete(c)
        BY <1>1, <3>1 DEF Whole, WholeInv, Mounted
    <3>3. view'.msgs = Loaded(view.msgs, data'[c])
        BY <1>0, <2>3, <3>2 DEF HistoryArrives, View
    <3>4. CASE view.msgs # <<>>
      <4>1. view'.msgs = view.msgs
          BY <3>3, <3>4 DEF Loaded
      <4> QED
          BY <3>1, <3>2, <3>4, <4>1 DEF Complete, Covers, Answering
    <3>5. CASE view.msgs = <<>>
      <4>1. \A t \in Turn : ~Answering(t, c)
          BY <3>2, <3>5 DEF Complete, In
      <4>2. data'[c] # NoData => Covers(view'.msgs, c)
        <5>1. CASE data[c] = NoData
            BY <3>1, <3>2, <3>3, <3>5, <5>1 DEF Complete, Loaded
        <5>2. CASE data[c] # NoData
            BY <3>2, <3>5, <5>2 DEF Complete, Covers, In
        <5> QED
            BY <5>1, <5>2
      <4>3. data'[c] = NoData => view'.msgs = <<>>
          BY <3>3, <3>5 DEF Loaded
      <4> QED
          BY <3>1, <3>2, <4>1, <4>2, <4>3 DEF Complete, Covers, Answering
    <3> QED
        BY <3>4, <3>5
  <2>4. CASE Mount(d)
    <3>1. d = c /\ ~MayMiss(c) /\ messages' = messages
        BY <1>1, <2>4 DEF Mount, Mounted
    <3>2. /\ fetch[c].pc = "none" /\ data[c] = NoData /\ data' = data
          /\ \A t \in Turn : turn[t].pc # "idle" => turn[t].conv # c
        BY <2>4, <3>1 DEF MayMiss, UnderWay, Mount
    <3>3. view'.msgs = <<>>
        BY <2>4, <3>1, <3>2 DEF Mount, FirstMessages, Loaded
    <3>4. fetch'[c].pc # "served"
        BY <1>0, <2>4, <3>1, <3>2 DEF Mount, StartQuery
    <3>5. \A t \in Turn : turn'[t].pc = turn[t].pc /\ turn'[t].conv = turn[t].conv
        BY <1>0, <2>4 DEF Mount, TurnRecord
    <3> QED
        BY <3>2, <3>3, <3>4, <3>5 DEF Complete, Answering
  <2>5. ASSUME NEW t \in Turn, MountAndSend(d, t) PROVE Complete(c)'
    <3>1. d = c /\ ~MayMiss(c) /\ messages' = messages /\ messages[c] = <<>>
        BY <1>1, <2>5 DEF MountAndSend, Mounted, Shows
    <3>2. /\ \A u \in Turn : turn[u].pc # "idle" => turn[u].conv # c
          /\ data[c] = NoData
        BY <3>1 DEF MayMiss, UnderWay
    <3>3. entry.text \in Text /\ User(entry.text) \in Message
        BY <1>0, <2>5, MessageTypes DEF MountAndSend, Location
    <3>4. view'.msgs = Append(<<>>, User(entry.text))
        BY <2>5, <3>1, <3>2 DEF MountAndSend, Shows, FirstMessages, Loaded
    <3>5. view'.msgs # <<>>
        BY <3>3, <3>4, InAppended
    <3>6. turn'[t].pc = "posted" /\ turn'[t].here
        BY <1>0, <2>5 DEF MountAndSend, Posted
    <3>7. \A u \in Turn \ {t} : turn'[u].pc = turn[u].pc /\ turn'[u].conv = turn[u].conv
        BY <1>0, <2>5 DEF MountAndSend, TurnRecord
    <3>8. Covers(view.msgs, c)'
        BY <3>1 DEF Covers
    <3> QED
        BY <3>2, <3>5, <3>6, <3>7, <3>8 DEF Complete, Answering
  <2> QED
      BY <2>1, <2>2, <2>3, <2>4, <2>5 DEF Histories
<1> QED
    BY <1>1 DEF WholeInv

LEMMA ChatWhole ==
    ASSUME Whole, NEW t \in Turn, Chat(t)
    PROVE  WholeInv'
<1> USE DEF requests, history
<1>0. /\ view \in View /\ view.msgs \in Seq(Message)
      /\ turn \in [Turn -> TurnRecord]
      /\ messages \in [Conv -> Seq(Message)]
      /\ turn[t].pc # "idle" => turn[t].conv \in Conv /\ turn[t].text \in Text
    BY DEF Whole, AllMeant, Typed, TypeOK, TurnsMeant, ServerTypeOK, View
<1>1. UNCHANGED <<data, fetch>> /\ \A u \in Turn \ {t} : turn'[u] = turn[u]
    BY <1>0 DEF Chat, Regenerate, Accept, Stream, Finish, Store, TurnFails, TurnBreaks, Send
<1>2. view'.page = view.page /\ view'.on = view.on
  <2>1. ASSUME Regenerate(t) \/ \E x \in Text : Send(t, x)
        PROVE  view'.page = view.page /\ view'.on = view.on
    <3>1. Ready
        BY <2>1 DEF Regenerate, Send
    <3>2. view.on
        BY <3>1 DEF Ready, Rendered, Mounted
    <3>3. \E msgs : view' = Shows(view.page, msgs)
        BY <2>1 DEF Regenerate, Send
    <3> QED
        BY <1>0, <3>2, <3>3 DEF Shows, View
  <2>2. CASE Accept(t) \/ Store(t)
      BY <2>2 DEF Accept, Store
  <2>3. CASE Stream(t) \/ Finish(t) \/ TurnFails(t) \/ TurnBreaks(t)
      BY <1>0, <2>3 DEF Stream, Finish, TurnFails, TurnBreaks, Status, View
  <2> QED
      BY <2>1, <2>2, <2>3 DEF Chat
<1>3. ASSUME NEW c \in Conv, Mounted(c)', ~behind' PROVE Complete(c)'
  <2>1. Mounted(c) /\ ~behind /\ Complete(c)
    <3>1. ~behind
        BY <1>3 DEF Chat, Regenerate, Accept, Stream, Finish, Store, TurnFails, TurnBreaks, Send
    <3> QED
        BY <1>2, <1>3, <3>1 DEF Whole, WholeInv, Mounted
  <2>2. CASE Finish(t) \/ TurnFails(t)
    <3>1. UNCHANGED messages /\ view'.msgs = view.msgs /\ turn[t].pc # "idle"
        BY <1>0, <2>2 DEF Finish, TurnFails, Status, View, server
    <3>2. turn'[t].pc # "idle" =>
              /\ turn'[t].conv = turn[t].conv /\ turn'[t].text = turn[t].text
              /\ turn'[t].here = turn[t].here /\ turn[t].pc = "streaming"
      <4>1. CASE Finish(t)
          BY <1>0, <4>1 DEF Finish, TurnRecord
      <4>2. CASE TurnFails(t)
          BY <1>0, <4>2 DEF TurnFails, Idle
      <4> QED
          BY <2>2, <4>1, <4>2
    <3> QED
        BY <1>1, <2>1, <3>1, <3>2, CompleteStays DEF Answering
  <2>3. CASE Accept(t) \/ Store(t)
    <3>1. turn[t].pc \in {"posted", "shown"} /\ view' = view
        BY <2>3 DEF Accept, Store
    <3>2. PICK m : /\ m \in {User(turn[t].text), Answer(turn[t].text)}
                   /\ turn[t].pc = "posted" => m = User(turn[t].text)
                   /\ messages' = [messages EXCEPT ![turn[t].conv] = Append(@, m)]
        BY <2>3 DEF Accept, Store, AddMessage
    <3>3. turn'[t].pc \in {"running", "idle"}
        BY <1>0, <2>3 DEF Accept, Store, Idle, TurnRecord
    <3>4. turn'[t].pc # "idle" => turn'[t].here = turn[t].here /\ turn'[t].conv = turn[t].conv
        BY <1>0, <2>3 DEF Accept, Store, Idle, TurnRecord
    <3>5. CASE turn[t].conv # c
      <4>1. messages'[c] = messages[c]
          BY <1>0, <3>2, <3>5
      <4> QED
          BY <1>1, <2>1, <3>1, <3>3, <3>4, <3>5, <4>1 DEF Complete, Covers, Answering
    <3>6. CASE turn[t].conv = c
      <4>1. turn[t].here /\ In(User(turn[t].text), view.msgs)
          BY <2>1, <3>1, <3>6 DEF Complete, Whole, SentShown
      <4>2. In(m, view.msgs)
          BY <2>1, <3>1, <3>2, <3>6, <4>1 DEF Complete, Answering
      <4>3. view.msgs # <<>> /\ Covers(view.msgs, c)
          BY <2>1, <4>1 DEF Complete, In
      <4>4. messages'[c] = Append(messages[c], m) /\ messages[c] \in Seq(Message)
          BY <1>0, <3>2, <3>6
      <4>5. \A i \in DOMAIN messages'[c] : messages'[c][i] = m \/ (i \in DOMAIN messages[c] /\ messages'[c][i] = messages[c][i])
          BY <4>4
      <4>6. Covers(view.msgs, c)'
          BY <3>1, <4>2, <4>3, <4>5 DEF Covers, In
      <4> QED
          BY <1>1, <2>1, <3>1, <3>3, <3>4, <4>3, <4>6 DEF Complete, Answering
    <3> QED
        BY <3>5, <3>6
  <2>4. CASE Stream(t)
    <3>1. UNCHANGED messages /\ turn[t].pc = "running"
        BY <2>4 DEF Stream, server
    <3>2. /\ turn'[t].pc = "streaming" /\ turn'[t].conv = turn[t].conv
          /\ turn'[t].text = turn[t].text /\ turn'[t].here = turn[t].here
        BY <1>0, <2>4 DEF Stream, TurnRecord
    <3>3. CASE ~turn[t].here
      <4>1. view' = view /\ turn[t].conv # c
          BY <2>1, <2>4, <3>1, <3>3 DEF Stream, Complete
      <4> QED
          BY <1>1, <2>1, <3>1, <3>2, <4>1 DEF Complete, Covers, Answering
    <3>4. CASE turn[t].here
      <4>1. Answer(turn[t].text) \in Message
          BY <1>0, <3>1, MessageTypes
      <4>2. view'.msgs = Append(view.msgs, Answer(turn[t].text))
          BY <1>0, <2>4, <3>4 DEF Stream, View
      <4>3. /\ view'.msgs # <<>> /\ In(Answer(turn[t].text), view'.msgs)
            /\ \A m : In(m, view.msgs) => In(m, view'.msgs)
          BY <1>0, <4>1, <4>2, InAppended
      <4>4. view.msgs # <<>>
          BY <3>1, <3>4 DEF Whole, SentShown, In
      <4>5. Covers(view.msgs, c)'
          BY <2>1, <3>1, <4>3, <4>4 DEF Complete, Covers
      <4>6. \A u \in Turn : turn'[u].pc # "idle" /\ turn'[u].conv = c => turn'[u].here
          BY <1>1, <2>1, <3>1, <3>2, <3>4 DEF Complete
      <4>7. \A u \in Turn : Answering(u, c)' => In(Answer(turn'[u].text), view'.msgs)
          BY <1>1, <2>1, <3>2, <4>3 DEF Complete, Answering
      <4> QED
          BY <4>3, <4>5, <4>6, <4>7 DEF Complete
    <3> QED
        BY <3>3, <3>4
  <2>5. ASSUME NEW x \in Text, Send(t, x) PROVE Complete(c)'
    <3>1. /\ messages' = messages /\ view.page = c
          /\ view'.msgs = Append(view.msgs, User(x))
          /\ view.msgs = <<>> => messages[c] = <<>>
        BY <1>3, <2>1, <2>5 DEF Send, Shows, server, Mounted
    <3>2. turn'[t].pc = "posted" /\ turn'[t].here
        BY <1>0, <2>5 DEF Send, Posted
    <3>3. /\ view'.msgs # <<>>
          /\ \A m : In(m, view.msgs) => In(m, view'.msgs)
        BY <1>0, <3>1, MessageTypes, InAppended
    <3>4. Covers(view.msgs, c)'
      <4>1. CASE view.msgs = <<>>
          BY <3>1, <4>1 DEF Covers
      <4>2. CASE view.msgs # <<>>
          BY <2>1, <3>1, <3>3, <4>2 DEF Complete, Covers
      <4> QED
          BY <4>1, <4>2
    <3>5. \A u \in Turn : turn'[u].pc # "idle" /\ turn'[u].conv = c => turn'[u].here
        BY <1>1, <2>1, <3>2 DEF Complete
    <3>6. \A u \in Turn : Answering(u, c)' => In(Answer(turn'[u].text), view'.msgs)
        BY <1>1, <2>1, <3>2, <3>3 DEF Complete, Answering
    <3> QED
        BY <3>3, <3>4, <3>5, <3>6 DEF Complete
  <2> QED
      BY <1>3, <2>2, <2>3, <2>4, <2>5 DEF Chat, Regenerate, TurnBreaks
<1> QED
    BY <1>3 DEF WholeInv

LEMMA WholeStep == Whole /\ [Next]_vars => WholeInv'
<1> SUFFICES ASSUME Whole, [Next]_vars PROVE WholeInv'
    OBVIOUS
<1>1. CASE UNCHANGED vars \/ \E e \in trail : Back(e)
  <2>1. UNCHANGED <<messages, view, data, fetch, turn, behind>>
      BY <1>1 DEF Back, vars, server, tab, requests, history
  <2>2. ASSUME NEW c \in Conv, Mounted(c)', ~behind' PROVE Complete(c)'
    <3>1. Complete(c)
        BY <2>1, <2>2 DEF Whole, WholeInv, Mounted
    <3> QED
        BY <2>1, <3>1, CompleteStays DEF Answering
  <2> QED
      BY <2>2 DEF WholeInv
<1>2. CASE MountNew \/ Reload
    BY <1>2, HomeAssumption DEF MountNew, Reload, WholeInv, Mounted
<1> QED
    BY <1>1, <1>2, ServiceWhole, SidebarWhole, HistoriesWhole, ChatWhole DEF Next

\* A view that fetched its history itself shows all that is stored, whatever it has
\* sent since: nothing is stored behind its back, and no history that arrives
\* later takes a message from the display.
THEOREM NothingMissing == Spec => []ViewComplete
<1>1. Init => WholeInv
    BY HomeAssumption DEF Init, WholeInv, Mounted
<1>2. AllMeant /\ SentShown /\ WholeInv /\ [Next]_vars => WholeInv'
    BY WholeStep DEF Whole
<1>3. WholeInv => ViewComplete
    BY DEF WholeInv, ViewComplete, Complete, Covers
<1> QED
    BY <1>1, <1>2, <1>3, MeantInvariant, SentStays, PTL DEF Spec
=============================================================================
