----------------------------- MODULE MCPManager -----------------------------
(***************************************************************************)
(* The MCP subsystem of one backend process: MCPManager with its MCPClient *)
(* objects and its health task, the /mcp-servers endpoints that drive it,  *)
(* the mcp_servers table, and its part of the tool registry.               *)
(*                                                                         *)
(* The process runs one asyncio event loop, so code between two awaits is  *)
(* atomic and everything interleaves at the awaits.  A step here is the    *)
(* code between two awaits; the pc of a worker names the await it is       *)
(* suspended at, or "idle".  A database transaction is one step.           *)
(*                                                                         *)
(* Workers are the coroutines in flight: a request and the background task *)
(* it starts share one slot of Task, and connect_all runs one coroutine    *)
(* for each row at startup.  The health task and shutdown are single.      *)
(*                                                                         *)
(* Remote servers are the environment: they come and go, one that goes     *)
(* down forgets its sessions, and one that is up may refuse a call or      *)
(* never answer it.  So are the other processes: gunicorn starts several,  *)
(* with one table and a manager each.                                      *)
(***************************************************************************)
EXTENDS ToolRegistry, FiniteSets

CONSTANTS
    Row,        \* primary keys of the mcp_servers table
    Name,       \* server names, each a sequence of segments (ToolRegistry)
    Url,        \* server URLs
    Tool,       \* tool names that remote servers list
    Task,       \* slots for concurrent requests
    Client,     \* MCPClient objects that can be alive at once
    Shared,     \* rows that other processes serve requests on, too
    NoClient, NoRow, NoName, NoUrl

Worker == Task \cup Row

ASSUME NullAssumption ==
    /\ NoClient \notin Client
    /\ NoRow \notin Row
    /\ NoName \notin Name
    /\ NoUrl \notin Url

ASSUME WorkerAssumption == Task \cap Row = {}

ASSUME SharedAssumption == Shared \subseteq Row

VARIABLES
    rows,       \* mcp_servers: row -> [name, url, status]
    clients,    \* MCPManager.clients: name -> client
    client,     \* the MCPClient objects
    tools,      \* ToolRegistry._tools: key -> the client its handler wraps
    task,       \* the workers
    health,     \* the health task
    stop,       \* disconnect_all: names still to do, client being closed
    phase,      \* lifespan: "down", "startup", "running", "stopping"
    up,         \* URLs whose remote server answers
    clash,      \* history: an operation ran on a name another one was using
    foreign     \* history: names other processes wrote since this one booted

vars == <<rows, clients, client, tools, task, health, stop, phase, up, clash, foreign>>

-----------------------------------------------------------------------------
\* Types.

Status == {"connecting", "connected", "disconnected"}

RowRecord == [name : Name, url : Url, status : Status]

ClientRecord == [name : Name \cup {NoName}, url : Url \cup {NoUrl},
                 session : {"none", "dead", "open", "mute"}]
                                    \* "mute": a call on it is never answered

TaskRecord == [op   : {"none", "connect", "update", "delete"},
               pc   : {"idle", "fetched", "swap", "close", "new", "connect",
                       "list", "status", "erase"},
               row  : Row \cup {NoRow},
               old  : Name \cup {NoName},
               name : Name \cup {NoName},
               url  : Url \cup {NoUrl},
               cl   : Client \cup {NoClient}]

HealthRecord == [pc   : {"off", "sleep", "scan", "probe", "mark", "backoff",
                         "close", "connect", "list", "status"},
                 todo : SUBSET (Name \X Client),
                 name : Name \cup {NoName},
                 cl   : Client \cup {NoClient}]

Idle == [op |-> "none", pc |-> "idle", row |-> NoRow, old |-> NoName,
         name |-> NoName, url |-> NoUrl, cl |-> NoClient]

Resting(pc, todo) == [pc |-> pc, todo |-> todo, name |-> NoName, cl |-> NoClient]

NotStopping == [todo |-> {}, cl |-> NoClient]

TypeOK ==
    /\ DOMAIN rows \subseteq Row
    /\ \A r \in DOMAIN rows : rows[r] \in RowRecord
    /\ DOMAIN clients \subseteq Name
    /\ \A n \in DOMAIN clients : clients[n] \in Client
    /\ client \in [Client -> ClientRecord]
    /\ \A k \in DOMAIN tools : tools[k] \in Client
    /\ task \in [Worker -> TaskRecord]
    /\ health \in HealthRecord
    /\ stop \in [todo : SUBSET Name, cl : Client \cup {NoClient}]
    /\ phase \in {"down", "startup", "running", "stopping"}
    /\ up \subseteq Url
    /\ clash \in BOOLEAN /\ foreign \subseteq Name

-----------------------------------------------------------------------------
\* Helpers.

Without(f, x) == Restrict(f, DOMAIN f \ {x})
With(f, x, v) == [y \in DOMAIN f \cup {x} |-> IF y = x THEN v ELSE f[y]]

\* A client nothing refers to: where a new MCPClient can live.
Unreferenced(c) ==
    /\ \A n \in DOMAIN clients : clients[n] # c
    /\ \A k \in DOMAIN tools : tools[k] # c
    /\ \A w \in Worker : task[w].cl # c
    /\ health.cl # c
    /\ \A e \in health.todo : e[2] # c
    /\ stop.cl # c

\* list_tools() reaches the server through this client.
Answers(c) == client[c].session = "open" /\ client[c].url \in up

\* The call somebody awaits on this client has no timeout and no answer.
Silent(c) == client[c].session = "mute"

SetSession(c, s) == client' = [client EXCEPT ![c].session = s]

\* What if disconnect_server() forgot the registry?
PopServerKeepsTools(n) ==
    /\ clients' = Without(clients, n)
    /\ tools' = tools

\* The part of disconnect_server() before its await.
PopServer(n) ==
    /\ clients' = Without(clients, n)
    /\ tools' = IF n \in DOMAIN clients THEN Unregister(tools, n) ELSE tools

\* The namespaced tools of a listing, each with a handler on client c.
Handlers(n, c, listing) == [k \in {Key(n, t) : t \in listing} |-> c]

\* What if the update of a missing row made one?
StatusUpsert(r, s) == rows' = With(rows, r, [status |-> s])

\* _update_server_status(): by primary key, a missing row is ignored.
StatusById(r, s) ==
    rows' = IF r \in DOMAIN rows THEN [rows EXCEPT ![r].status = s] ELSE rows

\* _update_server_status_by_name(): scalar_one_or_none() raises when two
\* rows carry the name, and the error is swallowed.
StatusByName(n, s) ==
    rows' = [r \in DOMAIN rows |->
                IF \A q \in DOMAIN rows : rows[q].name = n <=> q = r
                THEN [rows[r] EXCEPT !.status = s]
                ELSE rows[r]]

\* Names a worker or the health task is working on.
WorkerOn(w, n) == task[w].pc # "idle" /\ n \in {task[w].old, task[w].name}
HealthOn(n) ==
    /\ health.pc \in {"mark", "backoff", "close", "connect", "list", "status"}
    /\ health.name = n

\* History: worker w takes up the names ns, which others use or have used.
NoteClash(w, r, ns) ==
    clash' = (\/ clash
              \/ \E n \in ns : HealthOn(n)
              \/ \E n \in ns : \E v \in Worker \ {w} : WorkerOn(v, n)
              \/ \E q \in DOMAIN rows \ {r} : rows[q].name \in ns
              \/ ns \cap foreign # {})

-----------------------------------------------------------------------------
\* Startup: the rows are what an earlier process left; nothing runs yet.

Init ==
    /\ \E rs \in SUBSET Row : rows \in [rs -> RowRecord]
    /\ clients = NoTools
    /\ client = [c \in Client |-> [name |-> NoName, url |-> NoUrl, session |-> "none"]]
    /\ tools = NoTools
    /\ task = [w \in Worker |-> Idle]
    /\ health = Resting("off", {})
    /\ stop = NotStopping
    /\ phase = "down"
    /\ up \in SUBSET Url
    /\ clash = FALSE /\ foreign = {}

\* connect_all(): one coroutine for each row of the table.
Boot ==
    /\ phase = "down"
    /\ phase' = "startup"
    /\ task' = [w \in Worker |->
                  IF w \in DOMAIN rows
                  THEN [Idle EXCEPT !.op = "connect", !.pc = "new", !.row = w,
                                    !.name = rows[w].name, !.url = rows[w].url]
                  ELSE Idle]
    /\ clash' = \E q, r \in DOMAIN rows : q # r /\ rows[q].name = rows[r].name
    /\ foreign' = {}
    /\ UNCHANGED <<rows, clients, client, tools, health, stop, up>>

\* gather() is done: the health task starts and requests are served.
Ready ==
    /\ phase = "startup"
    /\ \A w \in Worker : task[w].pc = "idle"
    /\ phase' = "running"
    /\ health' = Resting("sleep", {})
    /\ UNCHANGED <<rows, clients, client, tools, task, stop, up, clash, foreign>>

-----------------------------------------------------------------------------
\* Requests.  A request changes the table, and the background task it
\* creates, if any, goes on in the same slot after the response.

\* POST: the row is committed and _connect_and_update is scheduled.
RegisterServer(t, r, n, u) ==
    /\ phase = "running"
    /\ task[t].pc = "idle"
    /\ r \notin DOMAIN rows
    /\ rows' = With(rows, r, [name |-> n, url |-> u, status |-> "connecting"])
    /\ task' = [task EXCEPT ![t] = [Idle EXCEPT !.op = "connect", !.pc = "new",
                                    !.row = r, !.name = n, !.url = u]]
    /\ NoteClash(t, r, {n})
    /\ UNCHANGED <<clients, client, tools, health, stop, phase, up, foreign>>

\* PATCH, first part: the row is loaded and its name kept as old_name.
FetchForUpdate(t, r) ==
    /\ phase = "running"
    /\ task[t].pc = "idle"
    /\ r \in DOMAIN rows
    /\ task' = [task EXCEPT ![t] = [Idle EXCEPT !.op = "update", !.pc = "fetched",
                                    !.row = r, !.old = rows[r].name]]
    /\ NoteClash(t, r, {rows[r].name})
    /\ UNCHANGED <<rows, clients, client, tools, health, stop, phase, up, foreign>>

\* What if old_name were read after the update?
CommitUpdateThenOldName(t, n, u) ==
    LET r == task[t].row IN
    /\ task[t].pc = "fetched"
    /\ r \in DOMAIN rows
    /\ rows' = [rows EXCEPT ![r] = [name |-> n, url |-> u, status |-> "connecting"]]
    /\ task' = [task EXCEPT ![t] =
                  [@ EXCEPT !.pc = "swap", !.old = n, !.name = n, !.url = u]]
    /\ NoteClash(t, r, {task[t].old, n})
    /\ UNCHANGED <<clients, client, tools, health, stop, phase, up, foreign>>

\* PATCH, second part: the fields that were sent are written and
\* _reconnect_server is scheduled.
CommitUpdate(t, n, u) ==
    LET r == task[t].row IN
    /\ task[t].pc = "fetched"
    /\ r \in DOMAIN rows
    /\ rows' = [rows EXCEPT ![r] = [name |-> n, url |-> u, status |-> "connecting"]]
    /\ task' = [task EXCEPT ![t] =
                  [@ EXCEPT !.pc = "swap", !.name = n, !.url = u]]
    /\ NoteClash(t, r, {task[t].old, n})
    /\ UNCHANGED <<clients, client, tools, health, stop, phase, up, foreign>>

\* PATCH of a row that was deleted meanwhile: the flush fails.
UpdateLost(t) ==
    /\ task[t].pc = "fetched"
    /\ task[t].row \notin DOMAIN rows
    /\ task' = [task EXCEPT ![t] = Idle]
    /\ UNCHANGED <<rows, clients, client, tools, health, stop, phase, up, clash, foreign>>

\* DELETE: the row is loaded, then disconnect_server(server.name) starts.
DeleteServer(t, r) ==
    LET n == rows[r].name IN
    /\ phase = "running"
    /\ task[t].pc = "idle"
    /\ r \in DOMAIN rows
    /\ PopServer(n)
    /\ task' = [task EXCEPT ![t] =
                  [Idle EXCEPT !.op = "delete", !.row = r, !.old = n,
                       !.pc = IF n \in DOMAIN clients THEN "close" ELSE "erase",
                       !.cl = IF n \in DOMAIN clients THEN clients[n] ELSE NoClient]]
    /\ NoteClash(t, r, {n})
    /\ UNCHANGED <<rows, client, health, stop, phase, up, foreign>>

\* DELETE, last part: the row goes.
EraseRow(t) ==
    /\ task[t].pc = "erase"
    /\ rows' = Without(rows, task[t].row)
    /\ task' = [task EXCEPT ![t] = Idle]
    /\ UNCHANGED <<clients, client, tools, health, stop, phase, up, clash, foreign>>

-----------------------------------------------------------------------------
\* connect_server() and disconnect_server() as the workers run them.

\* _reconnect_server starts: disconnect_server(old_name) up to its await.
SwapOut(t) ==
    LET n == task[t].old IN
    /\ task[t].pc = "swap"
    /\ PopServer(n)
    /\ task' = [task EXCEPT ![t] =
                  [@ EXCEPT !.pc = IF n \in DOMAIN clients THEN "close" ELSE "new",
                            !.cl = IF n \in DOMAIN clients THEN clients[n] ELSE NoClient]]
    /\ UNCHANGED <<rows, client, health, stop, phase, up, clash, foreign>>

\* What if the old client were dropped without disconnecting it?
ClosedWithoutDisconnect(t) ==
    /\ task[t].pc = "close"
    /\ task' = [task EXCEPT ![t] =
                  [@ EXCEPT !.pc = IF task[t].op = "delete" THEN "erase" ELSE "new",
                            !.cl = NoClient]]
    /\ UNCHANGED <<rows, clients, client, tools, health, stop, phase, up, clash, foreign>>

\* client.disconnect() returns.
Closed(t) ==
    /\ task[t].pc = "close"
    /\ SetSession(task[t].cl, "none")
    /\ task' = [task EXCEPT ![t] =
                  [@ EXCEPT !.pc = IF task[t].op = "delete" THEN "erase" ELSE "new",
                            !.cl = NoClient]]
    /\ UNCHANGED <<rows, clients, tools, health, stop, phase, up, clash, foreign>>

\* connect_server(): a new MCPClient starts to connect.
NewClient(w, c) ==
    /\ task[w].pc = "new"
    /\ Unreferenced(c)
    /\ client' = [client EXCEPT ![c] = [name |-> task[w].name, url |-> task[w].url,
                                        session |-> "none"]]
    /\ task' = [task EXCEPT ![w] = [@ EXCEPT !.pc = "connect", !.cl = c]]
    /\ UNCHANGED <<rows, clients, tools, health, stop, phase, up, clash, foreign>>

\* connect() succeeds: the client is published, and _sync_tools drops the
\* old tools and asks for the listing.
Connected(w) ==
    LET c == task[w].cl
        n == task[w].name
    IN
    /\ task[w].pc = "connect"
    /\ client[c].url \in up /\ ~Silent(c)
    /\ SetSession(c, "open")
    /\ clients' = With(clients, n, c)
    /\ tools' = Unregister(tools, n)
    /\ task' = [task EXCEPT ![w].pc = "list"]
    /\ UNCHANGED <<rows, health, stop, phase, up, clash, foreign>>

\* connect() raises, whether or not the server is up; a session that was not
\* initialized may stay behind.  Every caller swallows the error.
ConnectFailed(w) ==
    /\ task[w].pc = "connect"
    /\ ~Silent(task[w].cl)
    /\ \E s \in {"none", "dead"} : SetSession(task[w].cl, s)
    /\ task' = [task EXCEPT ![w] = Idle]
    /\ UNCHANGED <<rows, clients, tools, health, stop, phase, up, clash, foreign>>

\* The listing arrives: all its tools are registered in one go.
Listed(w, listing) ==
    /\ task[w].pc = "list"
    /\ Answers(task[w].cl)
    /\ tools' = Register(tools, Handlers(task[w].name, task[w].cl, listing))
    /\ task' = [task EXCEPT ![w].pc = "status"]
    /\ UNCHANGED <<rows, clients, client, health, stop, phase, up, clash, foreign>>

\* What if _sync_tools asked again until it got a listing?
ListRetried(w) ==
    /\ task[w].pc = "list"
    /\ UNCHANGED vars

\* list_tools() raises: _sync_tools logs and returns as if it had worked.
ListFailed(w) ==
    /\ task[w].pc = "list"
    /\ ~Silent(task[w].cl)
    /\ task' = [task EXCEPT ![w].pc = "status"]
    /\ UNCHANGED <<rows, clients, client, tools, health, stop, phase, up, clash, foreign>>

\* The row, if it is still there, becomes "connected".
MarkConnected(w) ==
    /\ task[w].pc = "status"
    /\ StatusById(task[w].row, "connected")
    /\ task' = [task EXCEPT ![w] = Idle]
    /\ UNCHANGED <<clients, client, tools, health, stop, phase, up, clash, foreign>>

-----------------------------------------------------------------------------
\* The health task.

\* The interval is over: _check_all_servers takes list(clients.items()).
WakeUp ==
    /\ health.pc = "sleep"
    /\ health' = Resting("scan", {<<n, clients[n]>> : n \in DOMAIN clients})
    /\ UNCHANGED <<rows, clients, client, tools, task, stop, phase, up, clash, foreign>>

\* The next server: skipped without a session, probed otherwise.
NextServer(n, c) ==
    LET rest == health.todo \ {<<n, c>>} IN
    /\ health.pc = "scan"
    /\ <<n, c>> \in health.todo
    /\ health' = IF client[c].session = "none"
                 THEN Resting("scan", rest)
                 ELSE [pc |-> "probe", todo |-> rest, name |-> n, cl |-> c]
    /\ UNCHANGED <<rows, clients, client, tools, task, stop, phase, up, clash, foreign>>

ScanDone ==
    /\ health.pc = "scan"
    /\ health.todo = {}
    /\ health' = Resting("sleep", {})
    /\ UNCHANGED <<rows, clients, client, tools, task, stop, phase, up, clash, foreign>>

ProbeOk ==
    /\ health.pc = "probe"
    /\ client[health.cl].session \in {"open", "mute"}
    /\ client[health.cl].url \in up
    /\ health' = Resting("scan", health.todo)
    /\ UNCHANGED <<rows, clients, client, tools, task, stop, phase, up, clash, foreign>>

\* An error, or no answer within five seconds: _handle_server_failure.
ProbeFailed ==
    /\ health.pc = "probe"
    /\ health' = [health EXCEPT !.pc = "mark", !.cl = NoClient]
    /\ clash' = (clash \/ \E w \in Worker : WorkerOn(w, health.name))
    /\ UNCHANGED <<rows, clients, client, tools, task, stop, phase, up, foreign>>

MarkDisconnected ==
    /\ health.pc = "mark"
    /\ StatusByName(health.name, "disconnected")
    /\ health' = [health EXCEPT !.pc = "backoff"]
    /\ UNCHANGED <<clients, client, tools, task, stop, phase, up, clash, foreign>>

\* The backoff is over: the client now under the name is reconnected.  With
\* no client there the loop goes round, which changes nothing.
Retry ==
    /\ health.pc = "backoff"
    /\ health.name \in DOMAIN clients
    /\ health' = [health EXCEPT !.pc = "close", !.cl = clients[health.name]]
    /\ UNCHANGED <<rows, clients, client, tools, task, stop, phase, up, clash, foreign>>

RetryClosed ==
    /\ health.pc = "close"
    /\ SetSession(health.cl, "none")
    /\ health' = [health EXCEPT !.pc = "connect"]
    /\ UNCHANGED <<rows, clients, tools, task, stop, phase, up, clash, foreign>>

Reconnected ==
    /\ health.pc = "connect"
    /\ client[health.cl].url \in up /\ ~Silent(health.cl)
    /\ SetSession(health.cl, "open")
    /\ tools' = Unregister(tools, health.name)
    /\ health' = [health EXCEPT !.pc = "list"]
    /\ UNCHANGED <<rows, clients, task, stop, phase, up, clash, foreign>>

\* What if a failed reconnect were left to the next round of checks?
ReconnectGivenUp ==
    /\ health.pc = "connect"
    /\ ~Silent(health.cl)
    /\ \E s \in {"none", "dead"} : SetSession(health.cl, s)
    /\ health' = Resting("scan", health.todo)
    /\ UNCHANGED <<rows, clients, tools, task, stop, phase, up, clash, foreign>>

\* connect() raises: a longer backoff.
ReconnectFailed ==
    /\ health.pc = "connect"
    /\ ~Silent(health.cl)
    /\ \E s \in {"none", "dead"} : SetSession(health.cl, s)
    /\ health' = [health EXCEPT !.pc = "backoff", !.cl = NoClient]
    /\ UNCHANGED <<rows, clients, tools, task, stop, phase, up, clash, foreign>>

Relisted(listing) ==
    /\ health.pc = "list"
    /\ Answers(health.cl)
    /\ tools' = Register(tools, Handlers(health.name, health.cl, listing))
    /\ health' = [health EXCEPT !.pc = "status"]
    /\ UNCHANGED <<rows, clients, client, task, stop, phase, up, clash, foreign>>

RelistFailed ==
    /\ health.pc = "list"
    /\ ~Silent(health.cl)
    /\ health' = [health EXCEPT !.pc = "status"]
    /\ UNCHANGED <<rows, clients, client, tools, task, stop, phase, up, clash, foreign>>

MarkReconnected ==
    /\ health.pc = "status"
    /\ StatusByName(health.name, "connected")
    /\ health' = Resting("scan", health.todo)
    /\ UNCHANGED <<clients, client, tools, task, stop, phase, up, clash, foreign>>

-----------------------------------------------------------------------------
\* Shutdown and crash.

\* After the last response the health task is cancelled where it is and
\* disconnect_all starts.  Background tasks still run.
Shutdown ==
    /\ phase = "running"
    /\ \A t \in Task : task[t].op # "delete" /\ task[t].pc # "fetched"
    /\ phase' = "stopping"
    /\ health' = Resting("off", {})
    /\ stop' = [NotStopping EXCEPT !.todo = DOMAIN clients]
    /\ UNCHANGED <<rows, clients, client, tools, task, up, clash, foreign>>

StopServer(n) ==
    /\ stop.cl = NoClient
    /\ n \in stop.todo
    /\ PopServer(n)
    /\ stop' = [todo |-> stop.todo \ {n},
                cl |-> IF n \in DOMAIN clients THEN clients[n] ELSE NoClient]
    /\ clash' = (clash \/ \E w \in Worker : WorkerOn(w, n))
    /\ UNCHANGED <<rows, client, task, health, phase, up, foreign>>

StopClosed ==
    /\ stop.cl # NoClient
    /\ SetSession(stop.cl, "none")
    /\ stop' = [stop EXCEPT !.cl = NoClient]
    /\ UNCHANGED <<rows, clients, tools, task, health, phase, up, clash, foreign>>

\* The process ends and only the table survives.
ProcessEnds ==
    /\ phase' = "down"
    /\ clients' = NoTools
    /\ client' = [c \in Client |-> [name |-> NoName, url |-> NoUrl, session |-> "none"]]
    /\ tools' = NoTools
    /\ task' = [w \in Worker |-> Idle]
    /\ health' = Resting("off", {})
    /\ stop' = NotStopping
    /\ clash' = FALSE /\ foreign' = {}
    /\ UNCHANGED <<rows, up>>

Exit == phase = "stopping" /\ stop = NotStopping /\ ProcessEnds

Crash == phase # "down" /\ ProcessEnds

-----------------------------------------------------------------------------
\* Remote servers.

RemoteUp(u) ==
    /\ u \notin up
    /\ up' = up \cup {u}
    /\ UNCHANGED <<rows, clients, client, tools, task, health, stop, phase, clash, foreign>>

RemoteDown(u) ==
    /\ u \in up
    /\ up' = up \ {u}
    /\ client' = [c \in Client |->
                    IF client[c].url = u /\ client[c].session \in {"open", "mute"}
                    THEN [client[c] EXCEPT !.session = "dead"]
                    ELSE client[c]]
    /\ UNCHANGED <<rows, clients, tools, task, health, stop, phase, clash, foreign>>

\* Somebody awaits this call on the client.
Awaits(c, pc) ==
    \/ \E w \in Worker : task[w].pc = pc /\ task[w].cl = c
    \/ health.pc = pc /\ health.cl = c

\* initialize() or list_tools() has no timeout: the server keeps the
\* connection and says nothing.  Only the probe of the health task gives up.
Swallowed(c) ==
    /\ \/ Awaits(c, "connect") /\ client[c].session = "none"
       \/ Awaits(c, "list") /\ client[c].session = "open"
    /\ client[c].url \in up
    /\ SetSession(c, "mute")
    /\ UNCHANGED <<rows, clients, tools, task, health, stop, phase, up, clash, foreign>>

-----------------------------------------------------------------------------
\* Other processes on the same table: they serve requests on its rows, and
\* nobody tells this manager.

\* History: another process changed the names ns in the table.  A PATCH that
\* has only loaded its row does nothing yet.
NoteForeign(ns) ==
    /\ foreign' = foreign \cup ns
    /\ clash' = (clash \/ \E w \in Worker, n \in ns :
                            WorkerOn(w, n) /\ task[w].pc # "fetched")
    /\ UNCHANGED <<clients, client, tools, task, health, stop, phase, up>>

NameOf(r) == {rows[q].name : q \in {r} \cap DOMAIN rows}

\* A POST or a PATCH is committed.
WrittenElsewhere(r, n, u) ==
    /\ rows' = With(rows, r, [name |-> n, url |-> u, status |-> "connecting"])
    /\ NoteForeign(NameOf(r) \cup {n})

\* A DELETE is committed.
ErasedElsewhere(r) ==
    /\ r \in DOMAIN rows
    /\ rows' = Without(rows, r)
    /\ NoteForeign(NameOf(r))

\* A connect or a health check marks the row.
MarkedElsewhere(r, s) ==
    /\ StatusById(r, s)
    /\ UNCHANGED <<clients, client, tools, task, health, stop, phase, up, clash, foreign>>

-----------------------------------------------------------------------------

Request(t) ==
    \/ \E r \in Row, n \in Name, u \in Url : RegisterServer(t, r, n, u)
    \/ \E r \in Row : FetchForUpdate(t, r)
    \/ \E r \in Row : DeleteServer(t, r)

Work(w) ==
    \/ \E n \in Name, u \in Url : CommitUpdate(w, n, u)
    \/ UpdateLost(w)
    \/ SwapOut(w)
    \/ Closed(w)
    \/ EraseRow(w)
    \/ \E c \in Client : NewClient(w, c)
    \/ Connected(w)
    \/ ConnectFailed(w)
    \/ \E listing \in SUBSET Tool : Listed(w, listing)
    \/ ListFailed(w)
    \/ MarkConnected(w)

Health ==
    \/ WakeUp
    \/ \E n \in Name, c \in Client : NextServer(n, c)
    \/ ScanDone
    \/ ProbeOk
    \/ ProbeFailed
    \/ MarkDisconnected
    \/ Retry
    \/ RetryClosed
    \/ Reconnected
    \/ ReconnectFailed
    \/ \E listing \in SUBSET Tool : Relisted(listing)
    \/ RelistFailed
    \/ MarkReconnected

Lifespan ==
    \/ Boot
    \/ Ready
    \/ Shutdown
    \/ \E n \in Name : StopServer(n)
    \/ StopClosed
    \/ Exit
    \/ Crash

Remote ==
    \/ \E u \in Url : RemoteUp(u) \/ RemoteDown(u)
    \/ \E c \in Client : Swallowed(c)

Elsewhere ==
    \E r \in Shared :
        \/ \E n \in Name, u \in Url : WrittenElsewhere(r, n, u)
        \/ ErasedElsewhere(r)
        \/ \E s \in {"connected", "disconnected"} : MarkedElsewhere(r, s)

Next ==
    \/ \E t \in Task : Request(t)
    \/ \E w \in Worker : Work(w)
    \/ Health
    \/ Lifespan
    \/ Remote
    \/ Elsewhere

Spec == Init /\ [][Next]_vars
-----------------------------------------------------------------------------
\* Safety.

\* Nobody is in the middle of an operation on the name.
Settled(n) == ~HealthOn(n) /\ \A w \in Worker : ~WorkerOn(w, n)

\* Somebody is suspended in the middle of a call on the client.
InUse(c) ==
    \/ \E w \in Worker : task[w].cl = c
    \/ health.cl = c
    \/ stop.cl = c

\* As long as no two operations overlap on one server name, every tool whose
\* server nobody works on has its handler on the client now under that name:
\* no tool of a removed server, no handler left on a replaced client
\* (disconnect_server, _sync_tools, _handle_server_failure).
ToolsOwned ==
    ~clash =>
        \A k \in DOMAIN tools :
            LET n == client[tools[k]].name IN
            Settled(n) => n \in DOMAIN clients /\ tools[k] = clients[n]

\* As long as no two operations overlap on one server name, a client whose
\* name no other process has written stands for a row with that name and its
\* current URL: neither a delete nor a PATCH that renames or moves a server
\* leaves the old connection behind (delete_server, update_server and their
\* background tasks).
ClientsHaveRows ==
    ~clash =>
        \A n \in DOMAIN clients \ foreign : Settled(n) =>
            \E r \in DOMAIN rows :
                rows[r].name = n /\ rows[r].url = client[clients[n]].url

\* As long as no two operations overlap on one server name, a session is
\* open only on a client the manager still holds: none is leaked by a
\* reconnect, a swap or a shutdown (MCPClient.disconnect and its callers).
SessionsOwned ==
    ~clash =>
        \A c \in Client : client[c].session \in {"open", "mute"} /\ ~InUse(c) =>
            \E n \in DOMAIN clients : clients[n] = c

\* Names that are not a prefix of another one, nor it of them.
Separate == {n \in Name : \A m \in Name : PrefixFree({m, n})}

\* The server that answers a tool found in the namespace of a server.
AnsweredBy ==
    [n \in Separate |-> [t \in Tool |->
        IF Key(n, t) \in DOMAIN tools THEN client[tools[Key(n, t)]].name ELSE NoName]]

Directory ==
    INSTANCE ToolDirectory WITH Name <- Separate, NoServer <- NoName,
                                answeredBy <- AnsweredBy

\* The flat registry implements one directory for each server whose name is
\* a prefix of no other and has none: a step of the manager touches the tools
\* of one such server at most, and a tool in its namespace is answered by it,
\* whatever the names of the others (D-09 namespaces).
DirectorySpec == Directory!Spec
-----------------------------------------------------------------------------
\* Liveness.

\* The event loop runs what is ready: a coroutine goes on when the call it
\* awaits returns or fails, which a call on a silent server need not do; what
\* a call came to is not undone when others reconnect the client, hence the
\* strong fairness.  A server that stays up takes the connection in the end,
\* when it is tried again and again.  Nothing is assumed of requests, crashes,
\* other processes or who is up.
Fairness ==
    /\ \A w \in Worker : SF_vars(Work(w))
    /\ WF_vars(Health)
    /\ SF_vars(Reconnected)
    /\ WF_vars(Boot)
    /\ WF_vars(Ready)

FairSpec == Spec /\ Fairness

Broken(n) == n \in DOMAIN clients /\ client[clients[n]].session # "open"

\* The process runs, and the servers are up and leave no call unanswered.
Calm == phase = "running" /\ up = Url /\ \A c \in Client : ~Silent(c)

\* The health task waits for a client that is gone to come back.
Astray == health.pc = "backoff" /\ health.name \notin DOMAIN clients

\* Once the process keeps running and the remote servers stay up and answer,
\* every client without a working session is reconnected, or is gone, unless
\* the server under repair was taken away (D-04, D-05: _health_check_loop and
\* _handle_server_failure).
BrokenServersReconnect ==
    <>[](Calm /\ ~Astray) => \A n \in Name : []<>~Broken(n)

\* A worker awaits connect() or list_tools() of a silent server.
Waits(w) == task[w].pc \in {"connect", "list"} /\ Silent(task[w].cl)

\* Nothing but a server that is silent for ever holds up what a request or the
\* startup began: each worker comes to an end again and again, or one call of
\* its is never answered (connect_all, the background tasks).
WorkersFinish ==
    \A w \in Worker : []<>(task[w].pc = "idle") \/ <>[]Waits(w)

\* "Periodic health check -- background asyncio task pings each connected
\* server at regular intervals" (D-04): a calm system goes on checking.
HealthChecksGoOn == <>[]Calm => []<>(health.pc = "sleep")
=============================================================================
