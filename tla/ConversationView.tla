--------------------------- MODULE ConversationView ---------------------------
(***************************************************************************)
(* One tab on the conversations of Conversations: the route and its        *)
(* history entries, ChatView with its useChat, the cached histories of     *)
(* react-query, the sidebar's list and the requests under way.             *)
(*                                                                         *)
(* A conversation that the tab creates has its id from the start, here     *)
(* and nowhere else.  The text of a message stands for the message.        *)
(***************************************************************************)
EXTENDS Conversations

CONSTANTS
    Turn,       \* slots for concurrent chat requests
    Home,       \* no conversation: the route "/", the key "new"
    NoText,
    NoData      \* nothing cached

ASSUME HomeAssumption == Home \notin Conv
ASSUME NoTextAssumption == NoText \notin Text

VARIABLES
    entry,      \* the location: its conversation and state.pendingText
    trail,      \* the locations the back and forward buttons lead to
    current,    \* chat-store: currentConversationId
    view,       \* the ChatView that is mounted
    data,       \* per conversation, the history in the query cache
    fetch,      \* per conversation, the query under way
    create,     \* per conversation, the tab's request that creates it
    removal,    \* per conversation, the tab's request that deletes it
    turn,       \* chat requests
    target,     \* history: the conversation a text was meant for
    redone,     \* history: texts that were sent again on demand
    behind      \* history: why the view may not show all that is stored

requests == <<fetch, create, removal, turn>>
tab == <<entry, trail, current, view, data, requests>>
history == <<target, redone, behind>>
vars == <<server, tab, history>>

Page == Conv \cup {Home}
Location == [page : Page, text : Text \cup {NoText}]

View == [on     : BOOLEAN,              \* the page is rendered
         page   : Page,
         msgs   : Seq(Message),
         status : {"ready", "submitted", "streaming"}]

TurnRecord == [pc   : {"idle", "posted", "running", "streaming", "shown"},
               conv : Page,
               text : Text \cup {NoText},
               here : BOOLEAN]          \* the view that sent it still reads the answer

Idle == [pc |-> "idle", conv |-> Home, text |-> NoText, here |-> FALSE]

NoFetch == [pc |-> "none", rows |-> <<>>]

At(page) == [page |-> page, text |-> NoText]

TypeOK ==
    /\ ServerTypeOK
    /\ entry \in Location
    /\ trail \subseteq Location
    /\ current \in Page
    /\ view \in View
    /\ data \in [Conv -> {NoData} \cup Seq(Message)]
    /\ fetch \in [Conv -> [pc : {"none", "asked", "served"}, rows : Seq(Message)]]
    /\ create \in [Conv -> [on : BOOLEAN, text : Text \cup {NoText}]]
    /\ removal \in [Conv -> [on : BOOLEAN, home : BOOLEAN]]
    /\ turn \in [Turn -> TurnRecord]
    /\ target \in [Text -> Page]
    /\ redone \subseteq Text
    /\ behind \in BOOLEAN

Init ==
    /\ ServerInit
    /\ entry = At(Home)
    /\ trail = {At(Home)}
    /\ current = Home
    /\ view = [on |-> TRUE, page |-> Home, msgs |-> <<>>, status |-> "ready"]
    /\ data = [c \in Conv |-> NoData]
    /\ fetch = [c \in Conv |-> NoFetch]
    /\ create = [c \in Conv |-> [on |-> FALSE, text |-> NoText]]
    /\ removal = [c \in Conv |-> [on |-> FALSE, home |-> FALSE]]
    /\ turn = [t \in Turn |-> Idle]
    /\ target = [x \in Text |-> Home]
    /\ redone = {}
    /\ behind = FALSE

-----------------------------------------------------------------------------
\* Helpers.

User(x) == [role |-> "user", text |-> x]
Answer(x) == [role |-> "assistant", text |-> x]

In(m, s) == \E i \in DOMAIN s : s[i] = m

\* Rows that a list shows, or showed before they were deleted.
Known(c) == row[c].state \in {"kept", "gone"}

\* Ids that no request of the tab will get.
Unused(c) == row[c].state = "none" /\ ~create[c].on /\ \A x \in Text : target[x] # c

UnderWay(c) == \E t \in Turn : turn[t].pc # "idle" /\ turn[t].conv = c

Mounted(c) == view.on /\ view.page = c

\* What the user sees is what the location says: a render is too short for the
\* user to act in, though not for answers to arrive.
Rendered == Mounted(entry.page)

\* navigate(): a new entry is pushed.
Navigate(page, text) ==
    /\ entry' = [page |-> page, text |-> text]
    /\ trail' = trail \cup {entry'}

-----------------------------------------------------------------------------
\* Creating, selecting and deleting conversations.

\* handleSend without a conversation: it is created first.
SendNew(x, c) ==
    /\ Rendered /\ view.page = Home
    /\ target[x] = Home /\ Unused(c)
    /\ create' = [create EXCEPT ![c] = [on |-> TRUE, text |-> x]]
    /\ target' = [target EXCEPT ![x] = c]
    /\ UNCHANGED <<server, entry, trail, current, view, data, fetch, removal, turn,
                   redone, behind>>

\* handleCreate of the sidebar, whose button is disabled meanwhile.
ClickNew(c) ==
    /\ Rendered /\ Unused(c)
    /\ \A d \in Conv : create[d].on => create[d].text # NoText
    /\ create' = [create EXCEPT ![c] = [on |-> TRUE, text |-> NoText]]
    /\ UNCHANGED <<server, entry, trail, current, view, data, fetch, removal, turn, history>>

\* Either goes to the new conversation, wherever the user is by then.
Created(c) ==
    /\ create[c].on /\ Known(c)
    /\ create' = [create EXCEPT ![c] = [on |-> FALSE, text |-> NoText]]
    /\ current' = c
    /\ Navigate(c, create[c].text)
    /\ UNCHANGED <<server, view, data, fetch, removal, turn, history>>

CreateFails(c) ==
    /\ create[c].on
    /\ create' = [create EXCEPT ![c] = [on |-> FALSE, text |-> NoText]]
    /\ UNCHANGED <<server, entry, trail, current, view, data, fetch, removal, turn, history>>

\* handleSelect.
Select(c) ==
    /\ Rendered /\ Known(c)
    /\ current' = c
    /\ Navigate(c, NoText)
    /\ UNCHANGED <<server, view, data, requests, history>>

\* The user confirms a deletion: handleDelete of the list as it was rendered
\* last compares with the conversation that was current then.
ClickDelete(c) ==
    /\ Rendered /\ Known(c) /\ ~removal[c].on
    /\ removal' = [removal EXCEPT ![c] = [on |-> TRUE, home |-> current = c]]
    /\ UNCHANGED <<server, entry, trail, current, view, data, fetch, create, turn, history>>

Deleted(c) ==
    /\ removal[c].on /\ row[c].state = "gone"
    /\ removal' = [removal EXCEPT ![c] = [on |-> FALSE, home |-> FALSE]]
    /\ IF removal[c].home
       THEN current' = Home /\ Navigate(Home, NoText)
       ELSE UNCHANGED <<current, entry, trail>>
    /\ UNCHANGED <<server, view, data, fetch, create, turn, history>>

DeleteFails(c) ==
    /\ removal[c].on
    /\ removal' = [removal EXCEPT ![c] = [on |-> FALSE, home |-> FALSE]]
    /\ UNCHANGED <<server, entry, trail, current, view, data, fetch, create, turn, history>>

\* The back and forward buttons.
Back(e) ==
    /\ Rendered
    /\ e \in trail \ {entry}
    /\ entry' = e
    /\ UNCHANGED <<server, trail, current, view, data, requests, history>>

\* The page is reloaded: only the entries are left, and what the server got.
Reload ==
    /\ current' = Home
    /\ view' = [on |-> FALSE, page |-> Home, msgs |-> <<>>, status |-> "ready"]
    /\ data' = [c \in Conv |-> NoData]
    /\ fetch' = [c \in Conv |-> NoFetch]
    /\ create' = [c \in Conv |-> [on |-> FALSE, text |-> NoText]]
    /\ removal' = [c \in Conv |-> [on |-> FALSE, home |-> FALSE]]
    /\ turn' = [t \in Turn |-> [turn[t] EXCEPT !.here = FALSE]]
    /\ UNCHANGED <<server, entry, trail, history>>

-----------------------------------------------------------------------------
\* Histories.

\* Mutant of Loaded: a history replaces whatever the view shows.
LoadedAnyway(msgs, d) == IF d # NoData THEN d ELSE msgs

\* Mutant of Loaded: it does not look whether there is a history.
LoadedUnasked(msgs, d) == IF msgs = <<>> THEN d ELSE msgs

\* The effect that loads a history: only into an empty view.
Loaded(msgs, d) == IF d # NoData /\ msgs = <<>> THEN d ELSE msgs

\* useMessages: without a history the query is started, with one it may be, if
\* that is not fresh.
StartQuery(c) ==
    \/ fetch[c].pc = "none" /\ fetch' = [fetch EXCEPT ![c].pc = "asked"]
    \/ (fetch[c].pc # "none" \/ data[c] # NoData) /\ UNCHANGED fetch

\* The window gets the focus again.
Refetch(c) ==
    /\ Mounted(c) /\ fetch[c].pc = "none"
    /\ fetch' = [fetch EXCEPT ![c].pc = "asked"]
    /\ UNCHANGED <<server, entry, trail, current, view, data, create, removal, turn, history>>

\* list_messages.
ListMessages(c) ==
    /\ fetch[c].pc = "asked" /\ row[c].state = "kept"
    /\ fetch' = [fetch EXCEPT ![c] = [pc |-> "served", rows |-> messages[c]]]
    /\ UNCHANGED <<server, entry, trail, current, view, data, create, removal, turn, history>>

\* Mutant of HistoryArrives: a view takes what is there when it is mounted.
HistoryArrivesUnseen(c) ==
    /\ fetch[c].pc = "served"
    /\ fetch' = [fetch EXCEPT ![c] = NoFetch]
    /\ data' = [data EXCEPT ![c] = fetch[c].rows]
    /\ UNCHANGED <<server, entry, trail, current, view, create, removal, turn, history>>

HistoryArrives(c) ==
    /\ fetch[c].pc = "served"
    /\ fetch' = [fetch EXCEPT ![c] = NoFetch]
    /\ data' = [data EXCEPT ![c] = fetch[c].rows]
    /\ view' = IF Mounted(c) THEN [view EXCEPT !.msgs = Loaded(@, data'[c])] ELSE view
    /\ UNCHANGED <<server, entry, trail, current, create, removal, turn, history>>

\* It does not arrive, also because the conversation is gone.
HistoryFails(c) ==
    /\ fetch[c].pc = "asked"
    /\ fetch' = [fetch EXCEPT ![c] = NoFetch]
    /\ UNCHANGED <<server, entry, trail, current, view, data, create, removal, turn, history>>

\* The cache drops a history that no view has used for a while.
Drop(c) ==
    /\ ~Mounted(c) /\ data[c] # NoData
    /\ data' = [data EXCEPT ![c] = NoData]
    /\ UNCHANGED <<server, entry, trail, current, view, requests, history>>

-----------------------------------------------------------------------------
\* A view is mounted: the key of ChatView is the conversation, so that another
\* one gets a view of its own, and what the old one sent goes on without it.

FirstMessages(d) == Loaded(<<>>, d)

\* Mutant of SyncStore: the store is left to the handlers.
LeaveStore(p) == UNCHANGED current

\* The effect that tells the store of the conversation in the URL.
SyncStore(p) == current' = p

\* History: the view starts from what was read before, or beside a turn of a
\* view that is gone.
MayMiss(p) == data[p] # NoData \/ fetch[p].pc # "none" \/ UnderWay(p)

MountNew ==
    /\ entry.page = Home /\ ~Rendered
    /\ view' = [on |-> TRUE, page |-> Home, msgs |-> <<>>, status |-> "ready"]
    /\ turn' = [t \in Turn |-> [turn[t] EXCEPT !.here = FALSE]]
    /\ UNCHANGED <<server, entry, trail, current, data, fetch, create, removal, history>>

Mount(p) ==
    /\ entry = [page |-> p, text |-> NoText] /\ ~Rendered
    /\ StartQuery(p)
    /\ SyncStore(p)
    /\ view' = [on |-> TRUE, page |-> p, msgs |-> FirstMessages(data[p]), status |-> "ready"]
    /\ turn' = [t \in Turn |-> [turn[t] EXCEPT !.here = FALSE]]
    /\ behind' = MayMiss(p)
    /\ UNCHANGED <<server, entry, trail, data, create, removal, target, redone>>

\* sendMessage(): the text is shown and posted.
Posted(p, x) == [pc |-> "posted", conv |-> p, text |-> x, here |-> TRUE]

Shows(p, msgs) == [on |-> TRUE, page |-> p, msgs |-> msgs, status |-> "submitted"]

\* Mutant of Taken: the entry keeps its text.
Kept(p) == UNCHANGED <<entry, trail>>

\* navigate(..., { replace: true }) without the text.
Taken(p) ==
    /\ entry' = At(p)
    /\ trail' = (trail \ {entry}) \cup {At(p)}

\* A pending text of the location is taken from it and sent.
MountAndSend(p, t) ==
    /\ entry.page = p /\ entry.text # NoText /\ ~Rendered
    /\ turn[t].pc = "idle"
    /\ StartQuery(p)
    /\ SyncStore(p)
    /\ Taken(p)
    /\ view' = Shows(p, Append(FirstMessages(data[p]), User(entry.text)))
    /\ turn' = [u \in Turn |-> IF u = t THEN Posted(p, entry.text)
                                        ELSE [turn[u] EXCEPT !.here = FALSE]]
    /\ behind' = (MayMiss(p) \/ messages[p] # <<>>)
    /\ UNCHANGED <<server, data, create, removal, target, redone>>

-----------------------------------------------------------------------------
\* Turns.

Ready == Rendered /\ view.page # Home /\ view.status = "ready"

\* handleSend in a conversation.
Send(t, x) ==
    LET p == view.page IN
    /\ Ready
    /\ turn[t].pc = "idle" /\ target[x] = Home
    /\ turn' = [turn EXCEPT ![t] = Posted(p, x)]
    /\ view' = Shows(p, Append(view.msgs, User(x)))
    /\ target' = [target EXCEPT ![x] = p]
    /\ behind' = (behind \/ (view.msgs = <<>> /\ messages[p] # <<>>))
    /\ UNCHANGED <<server, entry, trail, current, data, fetch, create, removal, redone>>

\* The last answer is dropped and the last text sent again.
Regenerate(t) ==
    LET msgs == view.msgs
        last == msgs[Len(msgs)]
        rest == IF last.role = "assistant" THEN SubSeq(msgs, 1, Len(msgs) - 1) ELSE msgs
    IN
    /\ Ready /\ msgs # <<>>
    /\ turn[t].pc = "idle"
    /\ \E i \in DOMAIN rest :
          /\ rest[i].role = "user"
          /\ \A j \in DOMAIN rest : rest[j].role = "user" => j <= i
          /\ turn' = [turn EXCEPT ![t] = Posted(view.page, rest[i].text)]
          /\ redone' = redone \cup {rest[i].text}
    /\ view' = Shows(view.page, rest)
    /\ behind' = TRUE
    /\ UNCHANGED <<server, entry, trail, current, data, fetch, create, removal, target>>

\* The server stores the text, ...
Accept(t) ==
    /\ turn[t].pc = "posted"
    /\ AddMessage(turn[t].conv, User(turn[t].text))
    /\ turn' = [turn EXCEPT ![t].pc = "running"]
    /\ UNCHANGED <<entry, trail, current, view, data, fetch, create, removal, history>>

Status(t, status) ==
    view' = IF turn[t].here THEN [view EXCEPT !.status = status] ELSE view

\* Mutant of Stream: the answer is shown in whatever view is there.
StreamAnywhere(t) ==
    /\ turn[t].pc = "running"
    /\ turn' = [turn EXCEPT ![t].pc = "streaming"]
    /\ view' = [view EXCEPT !.msgs = Append(@, Answer(turn[t].text)), !.status = "streaming"]
    /\ UNCHANGED <<server, entry, trail, current, data, fetch, create, removal, history>>

\* ... answers, which the view shows if it is still there, ...
Stream(t) ==
    /\ turn[t].pc = "running"
    /\ turn' = [turn EXCEPT ![t].pc = "streaming"]
    /\ view' = IF turn[t].here
               THEN [view EXCEPT !.msgs = Append(@, Answer(turn[t].text)), !.status = "streaming"]
               ELSE view
    /\ UNCHANGED <<server, entry, trail, current, data, fetch, create, removal, history>>

Finish(t) ==
    /\ turn[t].pc = "streaming"
    /\ turn' = [turn EXCEPT ![t].pc = "shown"]
    /\ Status(t, "ready")
    /\ UNCHANGED <<server, entry, trail, current, data, fetch, create, removal, history>>

\* ... and stores the answer.
Store(t) ==
    /\ turn[t].pc = "shown"
    /\ AddMessage(turn[t].conv, Answer(turn[t].text))
    /\ turn' = [turn EXCEPT ![t] = Idle]
    /\ UNCHANGED <<entry, trail, current, view, data, fetch, create, removal, history>>

\* The request is refused, the conversation being gone or the token old; the
\* server's turn ends with an error; or the answer is not stored.
TurnFails(t) ==
    /\ turn[t].pc # "idle"
    /\ turn' = [turn EXCEPT ![t] = Idle]
    /\ IF turn[t].pc = "shown" THEN UNCHANGED view ELSE Status(t, "ready")
    /\ UNCHANGED <<server, entry, trail, current, data, fetch, create, removal, history>>

\* The connection breaks, or the user stops the answer: the view is ready again, and
\* the server may go on with what it got, and store an answer nobody read.
TurnBreaks(t) ==
    /\ turn[t].here /\ turn[t].pc \in {"posted", "running", "streaming"}
    /\ turn' = [turn EXCEPT ![t].here = FALSE]
    /\ Status(t, "ready")
    /\ behind' = TRUE
    /\ UNCHANGED <<server, entry, trail, current, data, fetch, create, removal, target, redone>>

-----------------------------------------------------------------------------
\* What the service does of a request that is on its way, or for others.
Service ==
    /\ Tick \/ Read \/ \E c \in Conv : Manage(c)
    /\ UNCHANGED <<tab, history>>

Sidebar(c) ==
    \/ ClickNew(c) \/ Created(c) \/ CreateFails(c) \/ Select(c)
    \/ ClickDelete(c) \/ Deleted(c) \/ DeleteFails(c)
    \/ \E x \in Text : SendNew(x, c)

Histories(c) ==
    \/ Refetch(c) \/ ListMessages(c) \/ HistoryArrives(c) \/ HistoryFails(c) \/ Drop(c)
    \/ Mount(c) \/ \E t \in Turn : MountAndSend(c, t)

Chat(t) ==
    \/ Regenerate(t) \/ Accept(t) \/ Stream(t) \/ Finish(t) \/ Store(t)
    \/ TurnFails(t) \/ TurnBreaks(t)
    \/ \E x \in Text : Send(t, x)

Next ==
    \/ Service
    \/ \E c \in Conv : Sidebar(c) \/ Histories(c)
    \/ \E t \in Turn : Chat(t)
    \/ MountNew \/ Reload
    \/ \E e \in trail : Back(e)

Spec == Init /\ [][Next]_vars

-----------------------------------------------------------------------------
\* Properties.

\* A text that the mounted view has sent is on display whatever arrives later:
\* a history that was asked for before, or the answer to another request
\* (ChatView.tsx:85, the guard on messages.length).
SentShown ==
    \A t \in Turn : turn[t].pc # "idle" /\ turn[t].here => In(User(turn[t].text), view.msgs)

\* A text reaches the conversation it was meant for, the one created for it
\* when there was none, and once, unless it is sent again on demand: not with
\* a reload, not with the back button, not when conversations are created for
\* two texts at a time (ChatView.tsx:109, the pending text).
SentOnce ==
    \A x \in Text, c \in Conv :
        LET sent == {i \in DOMAIN messages[c] : messages[c][i] = User(x)} IN
        /\ sent # {} => c = target[x]
        /\ x \notin redone => Cardinality(sent) <= 1

\* Messages belong to the conversation they are shown, cached or stored in,
\* whatever was streaming or being fetched when the view changed (ChatPage.tsx:6,
\* the key, and useChat's id).
Belong(s, p) == \A i \in DOMAIN s : target[s[i].text] = p

NoForeignMessages ==
    /\ Belong(view.msgs, view.page)
    /\ \A c \in Conv : Belong(messages[c], c) /\ (data[c] # NoData => Belong(data[c], c))

\* The sidebar marks the conversation on display, also after the back button and
\* a reload, which tell it nothing (ChatView.tsx:98).
StoreFollowsView == Rendered /\ view.page # Home => current = view.page

\* A view that fetched its history itself, with no turn under way, had it before
\* the first text was sent, and read its answers to the end, shows all that is
\* stored (ChatView.tsx:83).
ViewComplete ==
    \A c \in Conv :
        Mounted(c) /\ ~behind /\ fetch[c].pc = "none" /\ data[c] # NoData =>
            \A i \in DOMAIN messages[c] : In(messages[c][i], view.msgs)
=============================================================================
