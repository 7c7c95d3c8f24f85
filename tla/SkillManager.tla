---------------------------- MODULE SkillManager ----------------------------
(***************************************************************************)
(* The skill subsystem: SkillManager with its health task, the /skills     *)
(* endpoints that drive it, the skills table, the MinIO packages and the   *)
(* Docker containers.  A process is a gunicorn worker: each has a manager  *)
(* of its own, while the table, the packages and the containers, which     *)
(* are named after their skill, are shared.                                *)
(*                                                                         *)
(* Docker and MinIO calls block the event loop, so only database calls and *)
(* the health request are awaited: a step is the code between two of them. *)
(* Script and knowledge skills have neither container nor tools and are    *)
(* one type here; a service skill declares tools.  The tools of a skill    *)
(* come and go together and all reach the container of that name, so a     *)
(* registry is the set of skills whose tools it holds.                     *)
(***************************************************************************)
EXTENDS Naturals, FiniteSets, Functions

CONSTANTS
    Process,    \* backend worker processes
    Row,        \* primary keys of the skills table
    Name,       \* skill names
    Version,    \* versions of a package
    Task,       \* slots for concurrent requests
    NoProcess, NoRow, NoName, NoVersion

ASSUME NullAssumption ==
    /\ NoProcess \notin Process
    /\ NoRow \notin Row
    /\ NoName \notin Name
    /\ NoVersion \notin Version

VARIABLES
    rows,       \* committed rows: row -> [name, type, ver, status]
    packages,   \* MinIO objects <<name, version>>
    docker,     \* names of the skill containers that exist
    tools,      \* per process: skills whose tools are registered
    containers, \* per process: SkillManager.containers
    content,    \* per process: SkillManager._skill_content, by version
    task,       \* requests in flight
    health,     \* per process: the health task
    life,       \* per process: lifespan, enable_all and disable_all
    wanted,     \* history: skills enabled and not disabled or deleted since,
                \* or only while a health check had them on its list
    upset,      \* history: operations overlapped on a name, Docker refused to
                \* stop a container, a startup could not enable a skill, or a
                \* hot update was not committed
    crowded     \* history: a process started while another was up

local == <<tools, containers, content>>
vars == <<rows, packages, docker, local, task, health, life, wanted, upset, crowded>>

-----------------------------------------------------------------------------
\* Types.

Type == {"service", "knowledge"}
Status == {"inactive", "enabled", "disabled"}
RowRecord == [name : Name, type : Type, ver : Version, status : Status]

\* A skill object as a coroutine loaded it, its row included.
Loaded == [row : Row, name : Name, type : Type, ver : Version]
NoSkill == [row |-> NoRow, name |-> NoName, type |-> "knowledge", ver |-> NoVersion]

TaskRecord == [op    : {"none", "upload", "delete", "enable", "disable"},
               pc    : {"idle", "off", "store", "create", "on", "commit", "erase"},
               proc  : Process \cup {NoProcess},
               skill : Loaded \cup {NoSkill},   \* the skill worked on
               old   : Row \cup {NoRow},        \* the row an upload replaces
               was   : BOOLEAN]                 \* was_enabled

HealthRecord == [pc    : {"stopped", "sleep", "scan", "probe", "fetch", "off", "on"},
                 todo  : SUBSET Name,
                 name  : Name \cup {NoName},
                 skill : Loaded \cup {NoSkill}]

LifeRecord == [phase : {"down", "startup", "running", "stopping"},
               todo  : SUBSET Loaded,           \* enable_all
               names : SUBSET Name,             \* disable_all
               skill : Loaded \cup {NoSkill},   \* being enabled
               name  : Name \cup {NoName}]      \* being disabled

Idle == [op |-> "none", pc |-> "idle", proc |-> NoProcess, skill |-> NoSkill,
         old |-> NoRow, was |-> FALSE]

Resting(pc, todo) == [pc |-> pc, todo |-> todo, name |-> NoName, skill |-> NoSkill]

Living(phase, todo, names) ==
    [phase |-> phase, todo |-> todo, names |-> names, skill |-> NoSkill, name |-> NoName]

TypeOK ==
    /\ DOMAIN rows \subseteq Row
    /\ \A r \in DOMAIN rows : rows[r] \in RowRecord
    /\ packages \subseteq Name \X Version
    /\ docker \subseteq Name
    /\ tools \in [Process -> SUBSET Name]
    /\ containers \in [Process -> SUBSET Name]
    /\ content \in [Process -> [Name -> Version \cup {NoVersion}]]
    /\ task \in [Task -> TaskRecord]
    /\ health \in [Process -> HealthRecord]
    /\ life \in [Process -> LifeRecord]
    /\ wanted \subseteq Name
    /\ upset \in BOOLEAN
    /\ crowded \in BOOLEAN

-----------------------------------------------------------------------------
\* Helpers.

Skill(r) == [row |-> r, name |-> rows[r].name, type |-> rows[r].type, ver |-> rows[r].ver]

RowsNamed(n) == {r \in DOMAIN rows : rows[r].name = n}

\* Mutant of StatusById: a row that is not there is added.
StatusUpsert(r, s) ==
    rows' = [q \in DOMAIN rows \cup {r} |->
                IF q \in DOMAIN rows
                THEN [rows[q] EXCEPT !.status = IF q = r THEN s ELSE @]
                ELSE [status |-> s]]

\* _update_skill_status(): by primary key, in a session of its own, which
\* sees committed rows only.
StatusById(r, s) ==
    rows' = IF r \in DOMAIN rows THEN [rows EXCEPT ![r].status = s] ELSE rows

\* _update_skill_status_by_name(): names are unique.
StatusByName(n, s) ==
    rows' = [r \in DOMAIN rows |->
                IF rows[r].name = n THEN [rows[r] EXCEPT !.status = s] ELSE rows[r]]

\* Who works on a name.
TaskOn(t, n) == task[t].pc # "idle" /\ task[t].skill.name = n
HealthOn(p, n) == health[p].pc \in {"fetch", "off", "on"} /\ health[p].name = n
LifeOn(p, n) == n \in {life[p].skill.name, life[p].name}

\* The skills among ns that no health check under way will come to.
Unchecked(ns) == {n \in ns : \A p \in Process : n \notin health[p].todo \cup {health[p].name}}

Settled(n) ==
    /\ \A t \in Task : ~TaskOn(t, n)
    /\ \A p \in Process : ~HealthOn(p, n) /\ ~LifeOn(p, n)

\* _enable_one() up to its await, when all goes well: the body is cached,
\* and a service gets its container and its tools.
EnablePart(p, s) ==
    /\ <<s.name, s.ver>> \in packages
    /\ content' = [content EXCEPT ![p][s.name] = s.ver]
    /\ IF s.type = "service"
       THEN /\ s.name \notin docker
            /\ docker' = docker \cup {s.name}
            /\ containers' = [containers EXCEPT ![p] = @ \cup {s.name}]
            /\ tools' = [tools EXCEPT ![p] = @ \cup {s.name}]
       ELSE /\ tools' = [tools EXCEPT ![p] = @ \ {s.name}]
            /\ UNCHANGED <<docker, containers>>

\* _enable_one() raises: no package, or, the body being cached by then, no
\* container, be it only because one of that name exists.
EnableFails(p, s) ==
    /\ \/ UNCHANGED content
       \/ /\ s.type = "service"
          /\ <<s.name, s.ver>> \in packages
          /\ content' = [content EXCEPT ![p][s.name] = s.ver]
    /\ UNCHANGED <<docker, containers, tools>>

\* Mutant of DisablePart: the record of the container is read, not popped.
DisablePartKeepsRecord(p, n) ==
    /\ tools' = [tools EXCEPT ![p] = @ \ {n}]
    /\ docker' = IF n \in containers[p] THEN docker \ {n} ELSE docker
    /\ content' = [content EXCEPT ![p][n] = NoVersion]
    /\ UNCHANGED containers

\* disable_skill() up to its await, when all goes well.
DisablePart(p, n) ==
    /\ tools' = [tools EXCEPT ![p] = @ \ {n}]
    /\ containers' = [containers EXCEPT ![p] = @ \ {n}]
    /\ docker' = IF n \in containers[p] THEN docker \ {n} ELSE docker
    /\ content' = [content EXCEPT ![p][n] = NoVersion]

\* Mutant of DisableFails: the container is stopped before its tools go.
StopFailsFirst(p, n) ==
    /\ n \in containers[p] \cap docker
    /\ containers' = [containers EXCEPT ![p] = @ \ {n}]
    /\ UNCHANGED <<docker, tools, content>>

\* disable_skill() raises: Docker would not stop the container, which the
\* manager has forgotten by then.
DisableFails(p, n) ==
    /\ n \in containers[p] \cap docker
    /\ tools' = [tools EXCEPT ![p] = @ \ {n}]
    /\ containers' = [containers EXCEPT ![p] = @ \ {n}]
    /\ UNCHANGED <<docker, content>>

-----------------------------------------------------------------------------
\* The skills table may hold anything at first, with a package for each row.

Init ==
    /\ \E rs \in SUBSET Row :
          rows \in {f \in [rs -> RowRecord] : IsInjective([r \in rs |-> f[r].name])}
    /\ packages = {<<rows[r].name, rows[r].ver>> : r \in DOMAIN rows}
    /\ docker = {}
    /\ tools = [p \in Process |-> {}]
    /\ containers = [p \in Process |-> {}]
    /\ content = [p \in Process |-> [n \in Name |-> NoVersion]]
    /\ task = [t \in Task |-> Idle]
    /\ health = [p \in Process |-> Resting("stopped", {})]
    /\ life = [p \in Process |-> Living("down", {}, {})]
    /\ wanted = {rows[r].name : r \in {q \in DOMAIN rows : rows[q].status = "enabled"}}
    /\ upset = FALSE
    /\ crowded = FALSE

-----------------------------------------------------------------------------
\* Requests.

Free(t, p) == task[t].pc = "idle" /\ life[p].phase = "running"

\* The request worked on behalf of process p moves to its next await.
Goes(t, op, pc, p, s) ==
    task' = [task EXCEPT ![t] = [Idle EXCEPT !.op = op, !.pc = pc, !.proc = p, !.skill = s]]

Ends(t) == task' = [task EXCEPT ![t] = Idle]

Await(t, pc) == task' = [task EXCEPT ![t].pc = pc]

\* POST /enable: the row is loaded and _enable_one runs.
EnableSkill(t, p, r) ==
    /\ Free(t, p)
    /\ r \in DOMAIN rows
    /\ \/ EnablePart(p, Skill(r)) /\ Goes(t, "enable", "on", p, Skill(r))
       \/ EnableFails(p, Skill(r)) /\ Ends(t)
    /\ upset' = (upset \/ ~Settled(rows[r].name))
    /\ UNCHANGED <<rows, packages, health, life, wanted, crowded>>

\* _enable_one ends: the row, if it is still there, becomes "enabled".
Enabled(t) ==
    LET s == task[t].skill IN
    /\ task[t].pc = "on"
    /\ task[t].op = "enable"
    /\ StatusById(s.row, "enabled")
    /\ Ends(t)
    /\ wanted' = wanted \cup {s.name}
    /\ UNCHANGED <<packages, docker, local, health, life, upset, crowded>>

\* POST /disable: the row is loaded and disable_skill runs.
DisableSkill(t, p, r) ==
    /\ Free(t, p)
    /\ r \in DOMAIN rows
    /\ \/ /\ DisablePart(p, rows[r].name)
          /\ Goes(t, "disable", "off", p, Skill(r))
          /\ upset' = (upset \/ ~Settled(rows[r].name))
       \/ /\ DisableFails(p, rows[r].name)
          /\ Ends(t)
          /\ upset' = TRUE
    /\ UNCHANGED <<rows, packages, health, life, wanted, crowded>>

Disabled(t) ==
    LET s == task[t].skill IN
    /\ task[t].pc = "off"
    /\ task[t].op = "disable"
    /\ StatusByName(s.name, "disabled")
    /\ Ends(t)
    /\ wanted' = wanted \ Unchecked({s.name})
    /\ UNCHANGED <<packages, docker, local, health, life, upset, crowded>>

\* DELETE: disable_skill runs, and should it raise, the rest goes on.
DeleteSkill(t, p, r) ==
    /\ Free(t, p)
    /\ r \in DOMAIN rows
    /\ \/ /\ DisablePart(p, rows[r].name)
          /\ Goes(t, "delete", "off", p, Skill(r))
          /\ upset' = (upset \/ ~Settled(rows[r].name))
          /\ UNCHANGED packages
       \/ /\ DisableFails(p, rows[r].name)
          /\ Goes(t, "delete", "erase", p, Skill(r))
          /\ upset' = TRUE
          /\ packages' \in {packages, packages \ {<<rows[r].name, rows[r].ver>>}}
    /\ UNCHANGED <<rows, health, life, wanted, crowded>>

\* Mutant of DisabledToDelete: the status is left to the deletion.
DeleteUndisabled(t) ==
    LET s == task[t].skill IN
    /\ task[t].pc = "off"
    /\ task[t].op = "delete"
    /\ packages' \in {packages, packages \ {<<s.name, s.ver>>}}
    /\ Await(t, "erase")
    /\ UNCHANGED <<rows, docker, local, health, life, wanted, upset, crowded>>

\* The status is written, then the package goes if MinIO lets it.
DisabledToDelete(t) ==
    LET s == task[t].skill IN
    /\ task[t].pc = "off"
    /\ task[t].op = "delete"
    /\ StatusByName(s.name, "disabled")
    /\ packages' \in {packages, packages \ {<<s.name, s.ver>>}}
    /\ Await(t, "erase")
    /\ UNCHANGED <<docker, local, health, life, wanted, upset, crowded>>

\* The row is deleted.
Erased(t) ==
    LET s == task[t].skill IN
    /\ task[t].pc = "erase"
    /\ rows' = Restrict(rows, DOMAIN rows \ {s.row})
    /\ Ends(t)
    /\ wanted' = wanted \ Unchecked({s.name})
    /\ UNCHANGED <<packages, docker, local, health, life, upset, crowded>>

\* The deletion is rolled back: the row stays, disabled, be the package gone.
NotErased(t) ==
    /\ task[t].pc = "erase"
    /\ Ends(t)
    /\ wanted' = wanted \ Unchecked({task[t].skill.name})
    /\ UNCHANGED <<rows, packages, docker, local, health, life, upset, crowded>>

\* POST of a package: the row of that name is looked up, and a skill that
\* was enabled is disabled first.  The new row takes the unused key r.
UploadSkill(t, p, r, n, ty, v) ==
    LET old == RowsNamed(n)
        was == \E q \in old : rows[q].status = "enabled"
        start(pc) == task' = [task EXCEPT ![t] =
            [op |-> "upload", pc |-> pc, proc |-> p, was |-> was,
             old |-> IF old = {} THEN NoRow ELSE CHOOSE q \in old : TRUE,
             skill |-> [row |-> r, name |-> n, type |-> ty, ver |-> v]]]
    IN
    /\ Free(t, p)
    /\ r \notin DOMAIN rows
    /\ \A u \in Task : task[u].skill.row # r
    /\ \/ /\ ~was
          /\ start("store")
          /\ upset' = (upset \/ ~Settled(n))
          /\ UNCHANGED <<docker, local>>
       \/ /\ was
          /\ DisablePart(p, n)
          /\ start("off")
          /\ upset' = (upset \/ ~Settled(n))
       \/ /\ was
          /\ DisableFails(p, n)
          /\ upset' = TRUE
          /\ UNCHANGED task
    /\ UNCHANGED <<rows, packages, health, life, wanted, crowded>>

DisabledToUpload(t) ==
    /\ task[t].pc = "off"
    /\ task[t].op = "upload"
    /\ StatusByName(task[t].skill.name, "disabled")
    /\ Await(t, "store")
    /\ UNCHANGED <<packages, docker, local, health, life, wanted, upset, crowded>>

\* The transaction has deleted the old row; the package is stored.
Stored(t) ==
    LET s == task[t].skill IN
    /\ task[t].pc = "store"
    /\ packages' = packages \cup {<<s.name, s.ver>>}
    /\ Await(t, "create")
    /\ UNCHANGED <<rows, docker, local, health, life, wanted, upset, crowded>>

\* MinIO fails: the transaction is rolled back.
NotStored(t) ==
    /\ task[t].pc = "store"
    /\ Ends(t)
    /\ UNCHANGED <<rows, packages, docker, local, health, life, wanted, upset, crowded>>

\* The name is taken by a row that the transaction does not replace.
Taken(t) == RowsNamed(task[t].skill.name) \ {task[t].old} # {}

\* The insert waits for the transaction of another upload of the name.
InsertBlocked(t) ==
    \E u \in Task \ {t} :
        /\ task[u].op = "upload"
        /\ task[u].pc \in {"on", "commit"}
        /\ task[u].skill.name = task[t].skill.name

\* The row is inserted, uncommitted, and a skill that was enabled is
\* enabled again.
Created(t) ==
    LET s == task[t].skill
        p == task[t].proc
    IN
    /\ task[t].pc = "create"
    /\ ~InsertBlocked(t)
    /\ ~Taken(t)
    /\ \/ ~task[t].was /\ Await(t, "commit") /\ UNCHANGED <<docker, local>>
       \/ task[t].was /\ EnablePart(p, s) /\ Await(t, "on")
       \/ task[t].was /\ EnableFails(p, s) /\ Ends(t)
    /\ UNCHANGED <<rows, packages, health, life, wanted, upset, crowded>>

\* The insert violates the unique name: the transaction is rolled back.
NotCreated(t) ==
    /\ task[t].pc = "create"
    /\ ~InsertBlocked(t)
    /\ Taken(t)
    /\ Ends(t)
    /\ UNCHANGED <<rows, packages, docker, local, health, life, wanted, upset, crowded>>

\* _enable_one sets the status of the row it was given, in a session of its
\* own: no row has that key yet.
EnabledInUpload(t) ==
    /\ task[t].pc = "on"
    /\ task[t].op = "upload"
    /\ StatusById(task[t].skill.row, "enabled")
    /\ Await(t, "commit")
    /\ UNCHANGED <<packages, docker, local, health, life, wanted, upset, crowded>>

\* The transaction commits: the new row is "inactive".
Committed(t) ==
    LET s == task[t].skill IN
    /\ task[t].pc = "commit"
    /\ rows' = [r \in (DOMAIN rows \ {task[t].old}) \cup {s.row} |->
                  IF r = s.row
                  THEN [name |-> s.name, type |-> s.type, ver |-> s.ver,
                        status |-> "inactive"]
                  ELSE rows[r]]
    /\ Ends(t)
    /\ UNCHANGED <<packages, docker, local, health, life, wanted, upset, crowded>>

\* The transaction is rolled back: the old row, if any, stays, while a skill
\* that was enabled runs in its new version.
CommitFails(t) ==
    /\ task[t].pc = "commit"
    /\ Ends(t)
    /\ upset' = (upset \/ task[t].was)
    /\ UNCHANGED <<rows, packages, docker, local, health, life, wanted, crowded>>

-----------------------------------------------------------------------------
\* The health task.

Moves(p, pc) == health' = [health EXCEPT ![p].pc = pc]

\* On to the next container of the snapshot.
NextContainer(p) ==
    health' = [health EXCEPT ![p] = Resting("scan", health[p].todo)]

\* Mutant of WakeUp: the skills of the table are checked.
WakeUpOnTable(p) ==
    /\ health[p].pc = "sleep"
    /\ health' = [health EXCEPT ![p] =
                    Resting("scan", {rows[r].name : r \in DOMAIN rows})]
    /\ UNCHANGED <<rows, packages, docker, local, task, life, wanted, upset, crowded>>

\* A snapshot of the containers is taken.
WakeUp(p) ==
    /\ health[p].pc = "sleep"
    /\ health' = [health EXCEPT ![p] = Resting("scan", containers[p])]
    /\ UNCHANGED <<rows, packages, docker, local, task, life, wanted, upset, crowded>>

Probe(p, n) ==
    /\ health[p].pc = "scan"
    /\ n \in health[p].todo
    /\ health' = [health EXCEPT ![p] =
                    [Resting("probe", @.todo \ {n}) EXCEPT !.name = n]]
    /\ UNCHANGED <<rows, packages, docker, local, task, life, wanted, upset, crowded>>

ScanDone(p) ==
    /\ health[p].pc = "scan"
    /\ health[p].todo = {}
    /\ Moves(p, "sleep")
    /\ UNCHANGED <<rows, packages, docker, local, task, life, wanted, upset, crowded>>

\* /health answers 200: the container is there.
ProbeOk(p) ==
    /\ health[p].pc = "probe"
    /\ health[p].name \in docker
    /\ NextContainer(p)
    /\ UNCHANGED <<rows, packages, docker, local, task, life, wanted, upset, crowded>>

\* It does not, as may happen at any time: a restart is attempted.
ProbeFailed(p) ==
    /\ health[p].pc = "probe"
    /\ Moves(p, "fetch")
    /\ upset' = (upset \/ ~Settled(health[p].name))
    /\ UNCHANGED <<rows, packages, docker, local, task, life, wanted, crowded>>

\* The row of that name is read, and a service is disabled.
Restart(p) ==
    LET n == health[p].name
        service == {r \in RowsNamed(n) : rows[r].type = "service"}
    IN
    /\ health[p].pc = "fetch"
    /\ \/ /\ service = {}
          /\ NextContainer(p)
          /\ UNCHANGED <<docker, local, upset>>
       \/ \E r \in service :
            \/ /\ DisablePart(p, n)
               /\ health' = [health EXCEPT ![p].pc = "off", ![p].skill = Skill(r)]
               /\ UNCHANGED upset
            \/ /\ DisableFails(p, n)
               /\ NextContainer(p)
               /\ upset' = TRUE
    /\ UNCHANGED <<rows, packages, task, life, wanted, crowded>>

\* Mutant of Restarted: the restart does not pass through "disabled".
RestartedQuietly(p) ==
    LET s == health[p].skill IN
    /\ health[p].pc = "off"
    /\ \/ EnablePart(p, s) /\ Moves(p, "on")
       \/ EnableFails(p, s) /\ NextContainer(p)
    /\ UNCHANGED <<rows, packages, task, life, wanted, upset, crowded>>

\* The row becomes "disabled"; the skill is enabled as it was read.
Restarted(p) ==
    LET s == health[p].skill IN
    /\ health[p].pc = "off"
    /\ StatusByName(s.name, "disabled")
    /\ \/ EnablePart(p, s) /\ Moves(p, "on")
       \/ EnableFails(p, s) /\ NextContainer(p)
    /\ UNCHANGED <<packages, task, life, wanted, upset, crowded>>

\* Mutant of MarkEnabled: a restart leaves the status as it is.
RestartUnmarked(p) ==
    /\ health[p].pc = "on"
    /\ NextContainer(p)
    /\ UNCHANGED <<rows, packages, docker, local, task, life, wanted, upset, crowded>>

MarkEnabled(p) ==
    /\ health[p].pc = "on"
    /\ StatusById(health[p].skill.row, "enabled")
    /\ NextContainer(p)
    /\ UNCHANGED <<packages, docker, local, task, life, wanted, upset, crowded>>

-----------------------------------------------------------------------------
\* The lifespan of a process.

\* Mutant of Boot: containers left over stay.
BootUncleaned(p) ==
    /\ life[p].phase = "down"
    /\ life' = [life EXCEPT ![p] = Living("startup",
                   {Skill(r) : r \in {q \in DOMAIN rows : rows[q].status = "enabled"}}, {})]
    /\ UNCHANGED <<rows, packages, docker, local, task, health, wanted, upset, crowded>>

\* Containers left over are removed, be they those of another process that
\* is up; the enabled rows are read.
Boot(p) ==
    /\ life[p].phase = "down"
    /\ docker' = {}
    /\ life' = [life EXCEPT ![p] = Living("startup",
                   {Skill(r) : r \in {q \in DOMAIN rows : rows[q].status = "enabled"}}, {})]
    /\ crowded' = (crowded \/ \E q \in Process : life[q].phase # "down")
    /\ UNCHANGED <<rows, packages, local, task, health, wanted, upset>>

\* enable_all() takes the next skill; one that cannot be enabled is passed
\* over.
StartOne(p, s) ==
    /\ life[p].phase = "startup"
    /\ life[p].skill = NoSkill
    /\ s \in life[p].todo
    /\ \/ /\ EnablePart(p, s)
          /\ life' = [life EXCEPT ![p].todo = @ \ {s}, ![p].skill = s]
          /\ upset' = (upset \/ ~Settled(s.name))
       \/ /\ EnableFails(p, s)
          /\ life' = [life EXCEPT ![p].todo = @ \ {s}]
          /\ upset' = TRUE
    /\ UNCHANGED <<rows, packages, task, health, wanted, crowded>>

StartedOne(p) ==
    /\ life[p].phase = "startup"
    /\ life[p].skill # NoSkill
    /\ StatusById(life[p].skill.row, "enabled")
    /\ life' = [life EXCEPT ![p].skill = NoSkill]
    /\ UNCHANGED <<packages, docker, local, task, health, wanted, upset, crowded>>

Ready(p) ==
    /\ life[p].phase = "startup"
    /\ life[p].skill = NoSkill
    /\ life[p].todo = {}
    /\ life' = [life EXCEPT ![p].phase = "running"]
    /\ health' = [health EXCEPT ![p] = Resting("sleep", {})]
    /\ UNCHANGED <<rows, packages, docker, local, task, wanted, upset, crowded>>

\* Once no request is in flight the health task is cancelled, wherever it
\* is, and disable_all() lists the skills with a container or a tool.  The
\* status the health task was writing may be committed.
Shutdown(p) ==
    /\ life[p].phase = "running"
    /\ \A t \in Task : task[t].proc # p
    /\ health' = [health EXCEPT ![p] = Resting("stopped", {})]
    /\ life' = [life EXCEPT ![p] = Living("stopping", {}, containers[p] \cup tools[p])]
    /\ \/ UNCHANGED rows
       \/ health[p].pc = "off" /\ StatusByName(health[p].name, "disabled")
       \/ health[p].pc = "on" /\ StatusById(health[p].skill.row, "enabled")
    /\ UNCHANGED <<packages, docker, local, task, wanted, upset, crowded>>

\* disable_all() takes the next skill.
StopOne(p, n) ==
    /\ life[p].phase = "stopping"
    /\ life[p].name = NoName
    /\ n \in life[p].names
    /\ DisablePart(p, n)
    /\ life' = [life EXCEPT ![p].names = @ \ {n}, ![p].name = n]
    /\ upset' = (upset \/ ~Settled(n))
    /\ UNCHANGED <<rows, packages, task, health, wanted, crowded>>

StoppedOne(p) ==
    /\ life[p].phase = "stopping"
    /\ life[p].name # NoName
    /\ StatusByName(life[p].name, "disabled")
    /\ life' = [life EXCEPT ![p].name = NoName]
    /\ UNCHANGED <<packages, docker, local, task, health, wanted, upset, crowded>>

\* The memory of a process goes with it, and so do its requests.
ProcessEnds(p) ==
    /\ tools' = [tools EXCEPT ![p] = {}]
    /\ containers' = [containers EXCEPT ![p] = {}]
    /\ content' = [content EXCEPT ![p] = [n \in Name |-> NoVersion]]
    /\ task' = [t \in Task |-> IF task[t].proc = p THEN Idle ELSE task[t]]
    /\ health' = [health EXCEPT ![p] = Resting("stopped", {})]
    /\ life' = [life EXCEPT ![p] = Living("down", {}, {})]
    /\ UNCHANGED <<rows, packages, docker, wanted, upset, crowded>>

\* disable_all() is through, or stops at a container Docker will not stop.
Exit(p) ==
    /\ life[p].phase = "stopping"
    /\ life[p].name = NoName
    /\ life[p].names = {} \/ life[p].names \cap containers[p] \cap docker # {}
    /\ ProcessEnds(p)

Crash(p) == life[p].phase # "down" /\ ProcessEnds(p)

-----------------------------------------------------------------------------
Request(t) ==
    \/ \E p \in Process, r \in Row :
          \/ EnableSkill(t, p, r) \/ DisableSkill(t, p, r) \/ DeleteSkill(t, p, r)
          \/ \E n \in Name, ty \in Type, v \in Version : UploadSkill(t, p, r, n, ty, v)
    \/ Enabled(t) \/ Disabled(t) \/ DisabledToDelete(t) \/ Erased(t) \/ NotErased(t)
    \/ DisabledToUpload(t) \/ Stored(t) \/ NotStored(t) \/ Created(t) \/ NotCreated(t)
    \/ EnabledInUpload(t) \/ Committed(t) \/ CommitFails(t)

Health(p) ==
    \/ WakeUp(p) \/ ScanDone(p) \/ (\E n \in Name : Probe(p, n))
    \/ ProbeOk(p) \/ ProbeFailed(p) \/ Restart(p) \/ Restarted(p) \/ MarkEnabled(p)

Lifespan(p) ==
    \/ Boot(p) \/ (\E s \in life[p].todo : StartOne(p, s)) \/ StartedOne(p) \/ Ready(p)
    \/ Shutdown(p) \/ (\E n \in Name : StopOne(p, n)) \/ StoppedOne(p)
    \/ Exit(p) \/ Crash(p)

Next ==
    \/ \E t \in Task : Request(t)
    \/ \E p \in Process : Health(p) \/ Lifespan(p)

Spec == Init /\ [][Next]_vars

-----------------------------------------------------------------------------
\* Properties.

\* No tool of a service skill outlives its container record: whatever
\* fails halfway, an agent never sees a tool of a container that this
\* manager has let go.
ToolsHaveContainers == \A p \in Process : tools[p] \subseteq containers[p]

\* A container the manager holds exists, unless a process started beside
\* another and removed its containers: the tools that post to it reach
\* something, and disable_skill() has something to stop.
ContainersExist == ~crowded => \A p \in Process : containers[p] \subseteq docker

\* Nobody works on the name in a process that serves requests.
Quiet(p, n) == life[p].phase = "running" /\ Settled(n)

\* Processes came one after the other, and so did the operations on a name.
Serial == ~upset /\ ~crowded

\* What the table says of a skill is so once operations on it are over, if
\* they came one at a time and Docker did as told.  A skill that is
\* disabled has neither container nor tools ...
DisabledMeansStopped ==
    Serial => \A p \in Process, r \in DOMAIN rows :
        (Quiet(p, rows[r].name) /\ rows[r].status = "disabled")
            => rows[r].name \notin containers[p] \cup docker

\* ... one that is enabled has its current body loaded and, if it is a
\* service, runs with its tools, be it through restarts by the health task
\* or of the process ...
EnabledMeansRunning ==
    Serial => \A p \in Process, r \in DOMAIN rows :
        (Quiet(p, rows[r].name) /\ rows[r].status = "enabled")
            => /\ content[p][rows[r].name] = rows[r].ver
               /\ rows[r].type = "service"
                    => rows[r].name \in containers[p] \cap tools[p]

\* ... and a container, across crashes, hot updates and deletions, belongs
\* to a skill of the table and can be stopped.
NoOrphanContainers ==
    Serial => \A p \in Process, n \in docker :
        Quiet(p, n) => n \in containers[p] /\ RowsNamed(n) # {}

\* A skill is enabled only while its package is there for the next start
\* to enable it from, wherever a deletion or an update is cut short.
EnabledHasPackage ==
    Serial => \A r \in DOMAIN rows :
        rows[r].status = "enabled" => <<rows[r].name, rows[r].ver>> \in packages

\* A skill that a request disabled or deleted stays stopped until the next
\* that enables it, unless a health check had it on its list when it was
\* (skills.py:212 "Disable a skill: stop container, unregister tools.").
DisabledStaysDisabled ==
    Serial => \A p \in Process, r \in DOMAIN rows :
        (Quiet(p, rows[r].name) /\ rows[r].name \notin wanted)
            => rows[r].name \notin containers[p] \cup tools[p]

\* Stopping a process un-enables no skill, for the next start to bring them
\* back (manager.py:61 "Per D-32: Platform restart recovery -- read enabled
\* skills, ...").
ShutdownKeepsEnabled ==
    [][\A p \in Process : life[p].phase = "stopping" /\ life'[p] # life[p]
          => \A r \in DOMAIN rows \cap DOMAIN rows' :
                rows[r].status = "enabled" => rows'[r].status = "enabled"]_vars
=============================================================================
