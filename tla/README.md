# A TLA+ verification of next-flow

next-flow is a chat platform whose agent uses tools: a FastAPI backend (`src/backend/app`)
with a LangGraph agent, MCP servers and skill containers as sources of tools, and a React
frontend (`src/frontend/src`). This directory holds TLA+ models of the parts of it that are
concurrent, the TLC runs that check them on small instances, and TLAPS proofs of what holds
for instances of any size. Paths below are relative to `src/backend/app` unless they start
with `frontend/` or `.planning/`.

To check: `tlc -config <run>.cfg <module>` for each run of `PROJECT.json`, `tlapm <M>_proof.tla`
for each proof module.

## 1. Inventory

The backend runs in gunicorn workers, each a process with one asyncio event loop. Code between
two awaits is atomic; everything interleaves at the awaits. State is in process memory (managers,
registry), in PostgreSQL, Redis, MinIO and Docker, and in the browser.

| Component | State | Operations | Hard behaviour | Modelled |
|---|---|---|---|---|
| Tool registry `services/tool_registry` | one map from namespaced tool name to handler | register, unregister by prefix, list, invoke | names whose prefix covers another's | `ToolRegistry`, `ToolDirectory` |
| MCP manager `services/mcp`, `api/v1/mcp_servers.py` | `clients` by server name, sessions, status column, health task | register, update, delete, connect, disconnect, health check with backoff, startup, shutdown | requests, health task and remote failures interleave at every await; a server that never answers; a repair that never ends; other workers write the same table; crash | `MCPManager` |
| Skill manager `services/skill`, `api/v1/skills.py` | per process containers, content, tools; shared table, packages, containers | upload and hot update, enable, disable, delete, restart by health task, restart recovery, shutdown | several shared stores changed in sequence, each step may fail; crash anywhere; several workers | `SkillManager` |
| Auth service `services/auth_service.py` | refresh keys in Redis | login, refresh (rotation), logout, validation | check, delete and set in three awaits | `AuthService` |
| Auth client `frontend/.../auth-store.ts`, `api-client.ts` | tokens, flags, timer, shared refresh promise | calls with retry after 401, queued refresh, proactive timer, logout, reload | replies out of order, two ways to refresh | `AuthClient` |
| Chat stream `api/v1/chat.py`, `services/event_mapper.py` | think-tag filter, parts of the message, stored rows | one turn as a Server-Sent-Events generator | tags split between chunks, errors and disconnects at any yield, what is stored | `ThinkTag`, `ChatStream` |
| Agent graph `services/agent_engine` | checkpointed thread of messages | analyze, plan, execute, respond | checkpoint per node, cancelled between nodes, two runs on one thread | `ChatStream` (partly) |
| Short-term memory `services/memory/short_term.py` | sorted set and summary in Redis | append and trim, count, compress in background | ranks read before an await, used after; compressions that overlap; three bounds on one set | `ShortTermMemory` |
| Conversation service `services/conversation_service.py`, `api/v1/conversations.py`, `messages.py` | rows of two tables | create, archive, delete, add and list messages, list by cursor | rows come and go between two pages; equal timestamps | `Conversations` (other lists and CRUD: no) |
| Conversation view `frontend/.../ChatView.tsx`, `ConversationList.tsx`, `use-conversations.ts`, `chat-store.ts` | location and history entries, mounted view, cached histories, store, requests under way | create, select, delete, send, regenerate, stop, back, reload | answers after the user moved on, history that arrives late or from a stale cache, a text handed over through navigation | `ConversationView` |
| Long-term memory `services/memory/long_term.py` | vectors with metadata | extract, search, store | does not run today | no: section 6 |
| WebSocket `api/ws` | list of sockets per user | connect, disconnect, broadcast | no router includes it | no: section 6 |
| Lifespan `main.py` | what it starts | startup, shutdown | order of the parts, crash | in `MCPManager`, `SkillManager` |
| MCP tool handler, package validation, sidecar, views, schemas, migrations, deployment | none, or declarations | | | no: see section 6 |

How they interact. The endpoints call the managers inside requests or in background tasks. The
managers register and unregister tools in the registry that the agent's `plan` and `execute`
nodes read. The chat endpoint runs the graph and translates its events into lines; the client
assembles them into a message. The conversation's rows and the thread's checkpoints are two
records of the same turns that nothing keeps together but the order of the calls. The frontend
holds tokens that the auth service may rotate away at any refresh. It reads a conversation's messages
once, into a query cache, and after that builds them itself from the streams it starts; the URL, the
chat store and the key of the mounted view each name the present conversation.

What makes each correct:

- *MCP*: tools, sessions and connections belong to a server of the table, under its present name
  and URL; a broken server is reconnected; one server's trouble is not another's.
- *Skills*: table, packages, containers, container records and tools agree whenever nobody works
  on a skill, through partial failure and crash; what the user disabled stays so.
- *Auth*: a refresh token is good once; a session is not lost while every exchange succeeds; every
  call ends; a logout ends the session.
- *Chat*: the client can read every line; what it shows is what the model said outside its thoughts,
  and is what is stored; the thread a model is given is one a provider accepts.
- *Conversations*: a list read page by page misses nothing and repeats nothing, whatever happens between
  two pages.
- *View*: a text the user sent reaches the conversation it was meant for, once, and stays on display; a view
  shows its own conversation and nothing else; what names the conversation agrees.
- *Memory*: a message is in the window or was summarised before it left it.

`PROJECT.json` lists the hazards, each at its line, with the properties that would catch it.

## 2. The modules

```
ToolRegistry  <--EXTENDS--  MCPManager  --implements-->  ToolDirectory
SkillManager
AuthService   <--EXTENDS--  AuthClient  (implements AuthService)
ThinkTag      <--EXTENDS--  ChatStream
Conversations <--EXTENDS--  ConversationView  (implements Conversations)
ShortTermMemory
MC<M> gives TLC the constants and symmetries of <M>; <M>_proof holds the theorems about <M>.
MCPManager_proof proves those of ToolRegistry too, SkillManager_table_proof continues
SkillManager_proof, and ChatStream_proof EXTENDS ThinkTag_proof.
```

One convention throughout: **a step is the code between two awaits**, and a `pc` names the await a
coroutine is suspended at. A database transaction and one call to Redis, Docker or MinIO is one
step. Definitions named "mutant of X" or "what if" are not part of any behaviour: they are the
plausible bugs with which each property is shown to be able to fail.

**ToolRegistry, ToolDirectory.** `Register`, `Unregister` are the two changes of
`ToolRegistry._tools`. A name is a sequence of segments, for `mcp__<name>__<tool>` is split at the
`__`; `Unregister` removes the keys that start with a name's segments, as `startswith` does. Nothing
validates names, so one may be a prefix of another (`a` and `a__b`) and the models allow it; left out are names that
end and tools that begin with `_`, for which the split is not unique. `ToolDirectory` is what the manager promises
with it: a directory per server, each published or cleared as a whole and without regard to the others. It
is promised to the servers whose name is a prefix of no other and has none (`Separate`).

**MCPManager.** `rows` is the `mcp_servers` table, `clients` is `MCPManager.clients`, `client` are the
`MCPClient` objects with their sessions, `tools` the registry. Each request and background connect
is a worker of `task`; at startup there is one for each row (`connect_all`'s gather). `health` is the
health task, with the snapshot it scans and the exponential backoff that ends in a reconnect.
`up` is the environment: remote servers come and go and forget their sessions. A call may fail while its server
is up, leaving a session that is not `None` behind, and it may never be answered at all: neither `initialize` nor
`list_tools` has a timeout (`client.py:82`, `:90`, `manager.py:136`), and a worker on such a session stays where it
is ("mute", `Swallowed`). `Elsewhere` is the other gunicorn workers, which serve requests on the rows in
`Shared`: they change the table and nobody tells this manager; `foreign` keeps the names they wrote. A crash
empties everything but the table.

**SkillManager.** Per process `tools`, `containers` (records) and `content` (cached bodies); shared
`rows`, `packages`, `docker`. Docker and MinIO calls block the loop, so the code between two
database awaits, those calls included, is a step (`EnablePart`, `DisablePart` and the ways they
fail). An upload goes through disabling the old version, storing, creating, enabling and
committing, each of which may fail. A commit that fails leaves the containers and the packages as they are and
the rows as they were (`NotErased`, `CommitFails`). `Boot` is `cleanup_stale`, which removes every skill
container of the daemon, those of the other workers too (`sandbox.py:184`); `crowded` notes it. `Shutdown` may find
the health task at a database await whose write is committed or not.

**AuthService, AuthClient.** A pair of tokens is one value; `stored` holds those whose refresh key is in
Redis, `fresh` those whose access token is valid. A refresh is taken apart at its awaits (`get`,
`delete`, `setex`), and a logout in the server's delete (`LogoutServed`) and the tab's clear when the reply is there
(`LogoutAccepted`), with a reload possible between; the other endpoints are one step. The client's `call`s carry the token they were
sent with; `sender` says who waits for a refresh: the queue of calls that met 401 (`refreshPromise`) or
the timer.

**Conversations, ConversationView.** `row` is the conversations table, `messages` that of the messages, in the
order of their `created_at`. A row's `created_at` is the start of the transaction that creates it (`Begin`:
the look-up of the user, `deps.py:40`), which commits later (`Commit`), so rows do not appear in the order of their
times. `reader` is a client that reads the list by the cursor of each page; `Matching` is the predicate as it is
written, a comparison of Python tuples whose first elements are SQL columns, so that the ids never count.
`ConversationView` adds one tab: `entry` is the location with its `pendingText`, `trail` the entries that back and
forward lead to, `current` the chat store, `view` the mounted `ChatView` with its `useChat`, `data` and `fetch` the
cached histories and the queries under way, `create` and `removal` the mutations, `turn` the chat requests (with the
endpoint's two writes, `Accept` and `Store`; what lies between is `ChatStream`; `TurnBreaks` is a connection that fails
at the client while the generator goes on and may store the reply). `Mount` and `MountAndSend` are the
effects of a view with a new key; what the old view sent goes on without it (`here` is false). The AI SDK,
react-query's cache and the browser are not in the repository: `Stream`, `Finish`, `Drop`, `Refetch`, `Back`, `Reload`
say what they do.

**ShortTermMemory.** A message is its timestamp, `window` the sorted set. `add_message` takes the time (`Stamp`), writes and
trims in one transaction (`Write`), and counts (`CountFew`, `CountMany`); `_compress` reads the set and asks the model
(`Ask`), stores the summary (`Summarise`) and removes by rank (`Remove`), or returns early (`Leave`), or fails at any await. `IsOldest` is what a range
of ranks from 0 stands for at the time of the command. Both keys may expire and the process may restart at any time.

**ThinkTag, ChatStream.** `Process` is `ThinkTagFilter.process`, its loop as a recursive function over
symbols; an opening and a closing tag are two symbols each, so that a chunk may end within one. `Visible` is
what it is compared with: a reader (`Read`, `Seen`) that takes the whole of what was said symbol by symbol.
A turn has a generator `gen` (the endpoint and its async generator), the filter, the graph's `run`
with the events the generator has not read, and the `view` the client has built from the lines. The
AI SDK is not in the repository: `Opened`, `Delta` and `Closed` say what it does with a line for a
part that is not open. A turn ends in `Save` or in `SaveFails`, the error that `chat.py:248` swallows. `Interrupt` is a
cancellation the generator catches and still sends its last lines for; `Cut` is a disconnect or Stop, which cancels
the turn at an await, and nothing after the next `yield` runs. `CallTools` may carry words, which the `elif` of
`chat.py:84-91` loses: `garbled` notes that, and closing tags that were split.

## 3. The runs

| Run | Bounds | What it shows |
|---|---|---|
| `MCPManager_serial` | 2 rows, one of them shared with other workers, 3 names of which one begins with another, 2 URLs, 1 request slot, health, 2 clients; `NoClash`, `FewForeign`, `FewDown`, `TwoNames` | no tool, session or connection outlives the server, name or URL it was for (`ToolsOwned`, `SessionsOwned`, `ClientsHaveRows`); the registry implements `ToolDirectory` (`DirectorySpec`) |
| `MCPManager_recovery` | 1 row and name, 1 request slot, 3 clients, fairness | `TypeOK`, `WorkersFinish`, `BrokenServersReconnect`, with operations overlapping in any way |
| `SkillManager_lifecycle` | 2 processes, 1 name, 2 rows, 2 versions, 2 overlapping requests; `NotCrowded` | what holds at every interleaving (`ToolsHaveContainers`, `ContainersExist`), and of the table when operations came one at a time (the others); a disabled skill stays stopped unless a health check had it on its list (`DisabledStaysDisabled`) |
| `AuthClient_settle` | 2 pairs, 1 refresh, 2 calls, fairness | `SessionAlive`; a logout lasts unless an earlier reply was still to come (`LoggedOutStaysOut`); `CallsSettle` |
| `ChatStream_turns` | 2 slots, 2 turns, 6 symbols, 1 event ahead, chunks of 1 or 2 symbols; `Quiet` | order of parts (`PartsInOrder`), shown = said outside tags unless garbled (`ShowsVisible`), shown = stored unless cut or the write failed (`SavedAsShown`), calm threads have their tool calls answered and keep up with the table (`ToolCallsAnswered`, `TurnsRemembered`) |
| `ConversationView_tab` | 3 conversations, 2 texts, 2 turns, pages of 1, 3 instants; `Apart` | pages do not repeat a row (`PagesDescend`) nor skip one, unless it is as old as one that was read (`NothingSkipped`); a text is shown (`SentShown`), reaches its conversation once (`SentOnce`), and no other view, cache or table (`NoForeignMessages`); a view that read its history itself, and its answers to the end, shows all that is stored (`ViewComplete`); store and view agree (`StoreFollowsView`) |
| `ShortTermMemory_window` | 6 messages, 2 compressions, threshold 1 and 1 to spare, windows of 2 to 5 | unless excused, a written message is in the window or a summary was made of it, the present one or one since replaced (`NothingForgotten`), and the last ones are there word by word (`RecentKept`) |
| `MCPManager_health` | as recovery | **violated** `HealthChecksGoOn` |
| `SkillManager_shutdown` | 1 process, 1 name, 1 request slot | **violated** `ShutdownKeepsEnabled` |
| `AuthService_twice` | 3 pairs, 2 refreshes | **violated** `RotatedOnce` |
| `ChatStream_stop` | 1 turn, 2 symbols | **violated** `ReplySaved` |
| `ShortTermMemory_defaults` | window 4, threshold 3, 1 to spare: the proportions of 20, 15 and 5 | **violated** `ThresholdCompresses` |

Why the bounds are enough for the interesting cases:

- *MCP*: two rows and three names give renames onto a free name, deletions next to a live server, servers of which one
  owns the other's namespace, and one that is apart; two URLs give a move. With two clients one can be registered
  while the other is being connected or closed. Recovery needs a third, for operations overlap in it.
- *Skills*: one name, as skills of different names share nothing but the daemon; two rows so that a hot update has its
  old and new version; two slots so that any two operations overlap at any await; two processes so that
  one starts after the other, or beside it, which is the state `NotCrowded` stops at.
- *Auth*: two pairs are the one in use and the one it is exchanged for. One refresh at a time, by the queue or by the
  timer: a second one sends the same token, which `lost` excuses; the theorems hold for any number.
  What two at a time do to the service is `AuthService_twice`.
- *Chat*: six symbols say a whole think block with text on both sides, split anywhere. `Quiet`
  keeps contents to one symbol where content is beside the point: with two turns at a time, and in
  turns that were cut or whose conversation is gone; a garbled one has four. `Ahead` lets the graph run ahead of the client.

- *Conversations and view*: with pages of one, three rows give a reader two cursors, and three instants rows of equal and
  of different times. For the tab two texts and two turns are one of a view that is gone and one of the view that
  took its place, or one for each of two conversations.
- *Memory*: with a threshold of one and one to spare (15 and 5 in the code) two messages are kept; the windows leave
  room for none, one, two or three more, so that a compression has several messages or none to summarise, and the
  window trims while one is at work or never. Six messages are enough for two compressions one after the other and for
  two at once.

`CHECK_DEADLOCK FALSE` is in the chat and the tab runs alone: a conversation ends when its turns are used up, and
the tab when its texts are.
Constraints: `NoClash` and `NotCrowded` stop at states of which the properties that carry the premise claim nothing
(the type invariant and `ToolsHaveContainers`, which claim something, are theorems without it); `Quiet` as above.
`FewForeign`: other workers write rows of the name `a`; `FewDown`: one server is away at a time; `TwoNames`: `a` meets `a__b` or
`z`, which have no more to do with each other than `a` and `z`. The theorems have none of these bounds. `Apart`
separates the two halves of the conversations run. While the list is read the tab has done nothing: the reader is some other
client, and `TabUsesService` (section 4) proves that the tab changes nothing for it. While the tab works the
clock stands and nothing is archived; it works on one conversation with up to two stored messages, or on two with one,
one turn and one query at a time.

History variables say what a property does not claim. `out` ends when another reply is still to come;
`wanted` keeps the skills a health check has on its list; `behind`: the view did not start from a history it had
asked for itself, or was typed into before that came, or lost the connection of a turn that the server went on with; `redone`: the text was regenerated; `excused`: the memory trimmed by the window,
or two compressions overlapped, or a message was written late while one was at work.
Without any one of the last three TLC refutes `NothingForgotten`. `clash` and `upset`: two operations overlapped
on one name (or Docker refused, or a startup could not enable a skill, or a hot update was not committed); for `clash`
also when another worker wrote the name while one here was at work on it. `crowded`: a process started beside
another. `foreign`: names that other workers wrote. `lost`: two refreshes sent one token, or one came to nothing.
`calm`: no turn was cut, failed, or met another. `garbled`: a closing tag was split between two chunks, or a chunk of
tool calls carried words. What happens then is in section 5. The properties that hold
*without* such a premise are the stronger ones: `DirectorySpec`, `ToolsHaveContainers`, `OldInvalidated`, `PartsInOrder`,
`SentShown`, `NoForeignMessages`, `StoreFollowsView`, `PagesDescend`, `WorkersFinish`, `CallsSettle`.

**Fairness.** `MCPManager`: the event loop resumes a coroutine whose await is done, so weak fairness of the health task and
of startup, and of each worker's steps. Those of a worker are strongly fair, since the client it awaits may be
reconnected by another and fail again: what a call came to is not undone by that, though the model's guard, which reads
the client, goes off and on. A call on a silent server is not resumed, no fairness says that it is, and `WorkersFinish`
says what follows: a worker comes to its end, or waits for ever on a server that never answers. That a server takes a connection in the
end when it is tried again and again while up (`SF(Reconnected)`) is an assumption about the server. No fairness of
requests, of remote servers, of other workers, of shutdown or crash; recovery is claimed only for
behaviours in which the remotes in the end stay up and answer (`Calm`). `AuthClient`: weak fairness of the steps that end a
call and of the exchanges, for `fetch` settles one way or another. The other specifications claim safety alone.

## 4. What is proved

TLAPS checks these for all values of the constants. The assumptions: null values are outside
their sets, workers of requests and of startup differ, chunks are not empty,
conversations are numbers (their time), a page has at least one row, settings are numbers. The theorems about tools
take names for sequences of segments (`Namespaces`), which may begin with one another; how many processes there are is not
assumed. Where two processes at a time break something, the property itself says so (`crowded`, `foreign`).

| Module | Theorem | Argument |
|---|---|---|
| `MCPManager_proof` | `PrefixesSeparate`, `KeysSeparate` | when `Key(m, t)` starts with `n`, one of `m` and `n` is a prefix of the other; prefix-free names exclude that |
| `MCPManager_proof` | `TypeCorrect` | `IInv` adds `Named`: the client a worker or the health task holds carries the name it works on, and so does each handler's |
| `MCPManager_proof` | `RegistryImplementsDirectory` | `Named` makes each registration a `Publish` of one server; an unregistration is a `Clear` of one separate server or touches none of them, since keys under a separate name are under no other (`KeysSeparate`); every other step stutters |
| `MCPManager_proof` | `SerialInvariant`, `SessionsKept`, `ClientsBacked` | `SInv`: while there is no clash, one operation at most is on a name (`Exclusive`), its row has the name and URL it works for (`RowKept`), its client is published from the connect on and nothing is before (`Progress`), a repair is of the client under the name (`Repairs`). So a client has its row unless it is being swapped out or its name was written elsewhere (`Backed`), and an open session is published or in somebody's hands (`Owned`). What others write is on names nobody here works on, or a clash (`SerialElsewhere`) |
| `MCPManager_proof` | `ToolsKept` | from `SInv`: each handler's client has a name, and it is the client now under that name unless somebody is at work there (`Owns`). Whatever pops or replaces a client unregisters every tool under its name in the same step; that it takes the tools of longer names along leaves fewer to account for |
| `SkillManager_proof` | `TypeCorrect` | the type of a coroutine's data depends on where it is: `IInv` says that whoever is at work has a skill loaded |
| `SkillManager_proof` | `ToolsBacked`, `ContainersBacked` | `MInv`: a process that is down has no memory and nobody works in it, so `Boot` cleans up nothing a record of that process names, and nothing of another's unless that makes it crowded |
| `SkillManager_table_proof` | `DisabledStopped`, `EnabledRuns`, `ContainersOwned`, `EnabledPackaged`, `DisabledIsFinal` | one invariant, while serial, `Orderly(n)`, name by name, of the one process that is up (`Alone`): what the operation on `n` has done so far at each of its awaits (`TaskClaim`, `HealthClaim`), that row, package, containers and tools agree when nobody has begun to change `n` (`Agrees`), and what a startup still has before it (`Starting`). A step on one name leaves `Orderly` of every other as it is |
| `AuthClient_proof` | `RotationInvalidates` | invariant over any number of requests: past its delete a token is stored for nobody, since new tokens are not ones in use |
| `AuthClient_proof` | `TypeCorrect`, `TabImplementsClient` | each step of the tab is a step or a stutter of the service |
| `AuthClient_proof` | `SessionKept` | `SInv`: unless an exchange went wrong, only a request the tab waits for touches the session (`Attended`), and a granted pair stays stored until the tab takes it (`Granted`) |
| `AuthClient_proof` | `LogoutFinal` | `OutInv`: once out, no answer is outstanding that could sign in, and without a pair none can be asked for |
| `ThinkTag_proof` | `ProcessType`, `FilterResumes`, `FlushShows` | after each chunk the filter's events are what the reader adds, and flag and buffer are where it stands: by induction on the length of the buffer, one hit of a tag at a time |
| `ChatStream_proof` | `Types` | the client and the generator's place first (`CInv`), then rows, filter and events, whose types are `ProcessType` |
| `ChatStream_proof` | `OrderedParts` | `OInv`: the generator's two flags mirror the parts open at the client |
| `ChatStream_proof` | `RepliesSaved` | `SInv`: what is collected is what is shown, and once over it is a row unless the write failed |
| `ChatStream_proof` | `VisibleShown` | `Streams`: a reader of that part of the speech which the generator has taken from the graph has the text shown and the text about to be, and the filter stands where it stands (`FilterResumes`). What is in the feed is the rest of the speech, and a turn ends after its last event is read |
| `ChatStream_proof` | `CallsAnswered` | `Alone`: while no turn met another, the one run works on the thread itself, in which only its last message may be without answers, and only before `execute` |
| `ChatStream_proof` | `AllRemembered` | `Counted`: the user's rows are as many as the thread's human messages and the turns that are admitted and not yet run |
| `ConversationView_proof` | `PagesOfTheService`, `NoneSkipped` | `ReadInv`: what was read is at or above the cursor, and what is owed is listed and below it. A row that commits late may have any time, so the argument is about the cursor and not about the order in which rows appear |
| `ConversationView_proof` | `TabTypes`, `TabUsesService`, `PagesBesideTab` | each step of the tab is a step or a stutter of the service, which carries the two theorems above over |
| `ConversationView_proof` | `StoreFollows`, `SentStays` | inductive together with the types: a history that arrives changes empty views only |
| `ConversationView_proof` | `MessagesOfTheView` | `AllMeant`: stored rows, cached histories, fetches, entries, creations, turns and the view all hold texts meant for the conversation they are filed under |
| `ConversationView_proof` | `ArrivesOnce` | `OnceInv`: a text is being created, waits in history entries, is posted, or is stored: one of these at a time, and posted by one turn. Each step moves one text on and lets the others rest |
| `ConversationView_proof` | `NothingMissing` | `WholeInv`: in a view that is not behind, whoever is about to store in its conversation is a turn of that view, which shows the message already, and a turn that broke has left the view behind; so what is shown, or what the history query was served, covers the rows |
| `ShortTermMemory_proof` | `MemoryTypes`, `NeverSummarised` | `WithinWindow`: between two transactions the set is not longer than the window, so `_compress` always leaves at its early return |
| `ShortTermMemory_proof` | `MemoryKeeps`, `MemoryKeepsRecent` | `KeptInv`: while not excused, what a compression at work read is still the oldest of the set, so the ranks it removes are those it summarised, and as many newer ones stay as are to be kept |

`MemoryTypes` is the one type invariant that no run checks, and `OldInvalidated` the one safety property: TLC would find
nothing that the proofs do not say. `NeverSummarised` is the finding of `ShortTermMemory_defaults` for every such setting.

*The think filter.* `Process` and `Seen` are recursive functions on sequences, and the library's theorems of induction take an
operator as a parameter, which the provers cannot instantiate. `ThinkTag_proof` does without them: that numbers are
well founded under `<` is a fact without a parameter, so a set of sequences that has each sequence whose shorter ones it has,
has them all (`ByLength`), and a recursion that looks at shorter sequences only has a solution (`Recursion`), which is what a
recursive definition chooses. With that `Process` may be unfolded, and the rest is an induction on the length of the buffer.

Only model-checked: the liveness properties `BrokenServersReconnect`, `WorkersFinish` and `CallsSettle`, whose proofs need
`ENABLED` for the fairness of each action, for which the prover has no rules. Every other property of a passing run is a theorem.
That the models are of the code is not proved: each definition is mapped to its lines in `PROJECT.json`.

## 5. Where the code and its documents disagree

Five runs find a counterexample to something a comment or a document says; `PROJECT.json` quotes it:
the health loop that waits for a deleted client (`MCPManager_health`), the clean shutdown that disables every skill
(`SkillManager_shutdown`), the refresh token that is good twice (`AuthService_twice`), the streamed reply that is never
stored after Stop (`ChatStream_stop`) and the threshold that never compresses with the defaults (`ShortTermMemory_defaults`).

The models also reach the following, which have no run of their own; they are the reasons for the
history premises.

- A server deleted while its connect is in flight is connected and registered afterwards
  (`services/mcp/manager.py:93`), against `mcp_servers.py:142` "Deregister MCP server (D-17: disconnect,
  remove tools, delete record)".
- A failed connect leaves the status at "connecting", or at "connected" from an earlier process; the
  docstring of `connect_server` (`manager.py:85`) says "Updates server.status in database".
- A server name that contains `__` may be covered by another's prefix (`registry.py:115`): disconnecting `a`
  removes the tools of `a__b`.
- One server that stays down keeps the only health task (`manager.py:215`), against 05-CONTEXT.md:18 "Failures
  are isolated".
- A DELETE or PATCH served by another gunicorn worker removes or renames the row and reaches no other manager: this one
  keeps the client, its session and its tools (`ClientsHaveRows` excepts such names), against the same D-17.
- A server that accepts a connection and then stays silent holds up whatever awaits it: at startup `connect_all`'s
  gather, and with it the whole lifespan; at a repair the only health task.
- Server names are not unique: the second row's connect overwrites the first client and leaks its session.
- With several workers, `cleanup_stale` of one that starts removes the containers of the others
  (`services/skill/sandbox.py:184`); their records and tools stay. That is the premise `crowded`.
- A hot update of an enabled skill enables the new version and leaves its row "inactive" (D-31 has it go on running): the
  next start does not bring it back, and no property here speaks of inactive rows. One that fails
  after disabling the old version leaves it disabled; one whose commit fails leaves the new version running.
- Knowledge skills register no tools, so the summaries (`services/skill/manager.py:350`) never list them.
- The timer refreshes past the shared promise (`api-client.ts:186`), so one tab alone can send a refresh token twice
  at a time; the service grants both (`AuthService_twice`; test_auth.py:158 tries it in sequence only).
- A skill that is disabled while a health check has it on its list is started again by that check
  (`services/skill/manager.py:268`), against `skills.py:212` "Disable a skill: stop container, unregister tools.".
  `DisabledStaysDisabled` claims the rest: no later check brings it back.
- A reply to `/me` or to a refresh that arrives after a logout signs the user in again (`auth-store.ts:123`,
  `api-client.ts:64`), against `auth-store.ts:83` "Logout endpoint may fail, still clear local state".
  `LoggedOutStaysOut` claims the rest: a logout with no such reply outstanding lasts until the next login.
- After a reload no timer runs until the next refresh. `refreshTokens` of the store (`auth-store.ts:94-106`) is
  never called.
- A closing think tag split between two chunks is not recognised: only partial *opening* tags are held back, though
  the filter's docstring (`event_mapper.py:29-33`) speaks of tags split across chunks. The rest of the reply is
  shown as thinking and not stored.
- A chunk that carries both tool calls and words loses the words (`chat.py:84-91`, `if`/`elif`). An error of the write
  at the end of a turn is logged and swallowed (`chat.py:248-249`): the reply was shown and no table has it.
- When the connection of a chat request fails at the client, the server may go on and store the reply; the view never
  shows it until it is mounted anew.
- A turn cancelled between `plan` and `execute` leaves tool calls without answers in the checkpoint, and later
  turns of that conversation send them to the provider (02-04-PLAN.md:23 says it "can resume from a checkpoint
  after interruption").
- Nothing emits the events from which tool results would be drawn, so a tool card never completes;
  regenerating stores the user's message again; both plan's and respond's answers are streamed; apologies of failed
  nodes are not; no `text-end` is sent; a deleted conversation's checkpoints stay. `analyze` says it prepends its context
  (`nodes/analyze.py:45`), but what it returns is appended to the thread after the user's message, once more in each turn.
- *The list.* Rows created in the same instant as the last of a page are skipped (`conversation_service.py:54`: the ids
  of the cursor are decoded and never compared). The parameter `limit` has no lower bound (`conversations.py:30`).
- *The view.* A turn invalidates no query, so a conversation that is opened again within the cache's life shows the rows of
  the first time, and the answer to the refetch is ignored for the view is no longer empty (`ChatView.tsx:85`); if
  those rows were none, the welcome screen for up to 30 seconds. A text sent before the history arrives keeps the history out.
  Regenerating stores the user's text again.
- `handleDelete` compares with the conversation of the render in which it was confirmed (`ConversationList.tsx:52`): a user who
  has moved on meanwhile is thrown out of the conversation now open.
- Two texts sent from the start page at once create two conversations; the first text may wait in a history entry
  for the user to come back to it. Opening the conversation from the list before its creation is answered leaves the
  text in the entry, since the key does not change, until a reload sends it.
- The chat request sends the token as it is (`ChatView.tsx:64`), past the refresh of `api-client.ts`: with an expired token it fails.
- *Memory.* With the defaults, a window of 20 and 15 + 5 messages kept, messages beyond the window are dropped and none is
  ever summarised: see `ShortTermMemory_defaults`.
- With a larger window, ranks that are stale remove messages nobody summarised (`short_term.py:185`), when the window trims or
  another compression removes meanwhile; `short_term.py:119` says "removes the summarized messages from the sorted
  set". Each summary replaces the one before it and does not include it.
- `analyze` takes the last 10 messages only (`nodes/analyze.py:145`), so ten of the 20 kept are in neither the summary nor the
  prompt; `short_term.py:62` documents the roles "human, ai, system", and `analyze` takes "user" and "assistant".
  `MemoryService.add_message` has no caller in the repository, and no `user_id` is in the graph's state.

## 6. Abstractions, and what is not modelled

- *MCP*: one process in full and the others by what they write; PostgreSQL is available (the swallowed failures of
  a status update are not modelled) and its calls end; every tool of a
  listing is registered or none; a tool's call and its result are left out, since a handler only forwards.
- *Skills*: Docker creates and starts a container or does neither; a failure to remove a stale container is
  ignored, as in the code; script skills behave as knowledge skills for the manager. Validation of a package is a
  pure check that precedes the first change of state.
- *Auth*: one tab; a request without an answer fails in the end; users are not deleted; the redirect after a refused refresh is immediate; a login is one step together
  with the request for `/me` it starts. New tokens differ from those in use (uuid4).
- *Chat*: whitespace around tags and the tail `[\s>]*` of the pattern are abstracted; the lines of one
  filtered event are yielded in one step; a checkpoint is written in one step at a node's end; system messages and
  the memory that `analyze` injects are left out; polling `is_disconnected` has the outcome of `Cut`.
- *Conversations and view*: the list's order and that of the messages is by `created_at`, taken as the order in which
  messages are stored; one tab; the user is slower than a render (a click meets the view the location names, `Rendered`),
  while answers may arrive in between; a conversation the tab creates has its id in the model from the
  start, and nothing reads it before the answer; the first page alone feeds the sidebar, which is taken to list
  whatever was ever listed (`Known`), as a stale list may; text and answer of a message are one value.
- *Memory*: timestamps differ (`time.time()` of one process, with the role and text in the member); times to live are
  expiry at any time; the settings are the same after a restart, being constants of `main.py`; a message that is not
  JSON does not occur, as `add_message` alone writes them.
- *Long-term memory* is not modelled: it appends facts to a vector store, and whether a fact is stored is decided by a language
  model and a vector search, of which the code requires nothing that could be checked. Nor does it run: `respond` starts it only
  with a `user_id`, which nothing puts into the state, and `extract_and_store` reads LangChain messages as dictionaries.
- *WebSocket channel* is not modelled: no router includes the endpoint and nothing calls the manager.
- *Not modelled*: package validation and the sidecar (pure, or without state the backend reads), the tool handler
  (stateless), views (rendering over caches), schemas, migrations, configuration, deployment (declarations).

## 7. Plan

Done, in this order: the tool registry and the MCP manager, the skill manager, authentication, the chat stream,
the conversation service with its pages, the conversation view, the short-term memory.

What could come next: `ChatStream` as a refinement of the turns of `ConversationView` (`Accept`, `Stream`, `Finish`, `Store`,
`TurnFails`, `TurnBreaks` are what a tab sees of it); the agent graph on its own, with what `analyze` appends to the thread; a second tab on the
same storage, if the client comes to listen to storage events.

Proofs to come: that `ChatStream` refines those turns, if it is stated; the invariants that hold when operations do overlap,
weaker than `SInv` and `Orderly`. Liveness stays with TLC.
