---------------------- MODULE SkillManager_table_proof ----------------------
(***************************************************************************)
(* Proofs that the skills table tells the truth: as long as processes and  *)
(* the operations on a skill come one at a time, the containers, the tools,*)
(* the packages and what users asked for agree with the rows.              *)
(* The argument follows one name at a time: an operation touches what is   *)
(* kept under the name it works on, and leaves every other name as it is.  *)
(***************************************************************************)
EXTENDS SkillManager_proof

USE NullAssumption DEF Serial

-----------------------------------------------------------------------------
\* The inductive invariant.

\* The body of s is loaded, and a service runs with its tools.
Runs(p, s) ==
    /\ content[p][s.name] = s.ver
    /\ s.type = "service" => s.name \in containers[p] \cap tools[p]

Stopped(n) == \A p \in Process : n \notin containers[p]

\* The skill object s is what the table says.
Held(s) == s.row \in DOMAIN rows /\ s = Skill(s.row)

Packaged(s) == <<s.name, s.ver>> \in packages

\* The table says of n what is the case.
Agrees(n) ==
    \A p \in Process, r \in RowsNamed(n) : life[p].phase # "down" =>
        /\ rows[r].status = "disabled" => n \notin containers[p]
        /\ rows[r].status = "enabled" => Runs(p, Skill(r))

\* What a request holds on to at its awaits.
TaskClaim(t) ==
    LET s == task[t].skill
        n == s.name
    IN
    /\ task[t].op # "none"
    /\ task[t].op = "enable" =>
          task[t].pc = "on" /\ Held(s) /\ Packaged(s) /\ Runs(task[t].proc, s)
    /\ task[t].op = "disable" => task[t].pc = "off" /\ Held(s) /\ Stopped(n)
    /\ task[t].op = "delete" =>
          /\ task[t].pc \in {"off", "erase"}
          /\ Held(s) /\ Stopped(n)
          /\ task[t].pc = "erase" => \A r \in RowsNamed(n) : rows[r].status # "enabled"
    /\ task[t].op = "upload" =>
          /\ task[t].pc # "erase"
          /\ RowsNamed(n) = {task[t].old} \ {NoRow}
          /\ task[t].was => RowsNamed(n) # {} /\ n \in wanted
          /\ task[t].pc = "off" => task[t].was /\ Stopped(n)
          /\ task[t].pc = "on" => task[t].was
          /\ task[t].pc \in {"store", "create", "on", "commit"} =>
                \A r \in RowsNamed(n) : rows[r].status # "enabled"

\* What the health task holds on to.
HealthClaim(p) ==
    LET s == health[p].skill IN
    /\ health[p].pc = "off" => Held(s) /\ Stopped(s.name)
    /\ health[p].pc = "on" => Held(s) /\ Packaged(s) /\ Runs(p, s)

\* Nobody works on n, or nobody has begun to change it.
Undisturbed(n) ==
    /\ \A t \in Task : TaskOn(t, n) =>
          task[t].pc \in {"store", "create"} \/ (task[t].pc = "commit" /\ ~task[t].was)
    /\ \A p \in Process : HealthOn(p, n) => health[p].pc = "fetch"
    /\ \A p \in Process : life[p].phase \in {"down", "running"}

Starting(n) ==
    \A p \in Process : life[p].phase = "startup" =>
        /\ \A s \in life[p].todo \cup ({life[p].skill} \ {NoSkill}) :
              s.name = n => Held(s) /\ rows[s.row].status = "enabled"
        /\ life[p].skill # NoSkill /\ life[p].skill.name = n => Runs(p, life[p].skill)
        /\ \A r \in RowsNamed(n) : rows[r].status = "enabled" =>
              Skill(r) \in life[p].todo \/ Runs(p, Skill(r))
        /\ n \in containers[p] => \E r \in RowsNamed(n) : rows[r].status = "enabled"

Enabling(n) == \E t \in Task : TaskOn(t, n) /\ task[t].op = "enable"

Orderly(n) ==
    /\ \A q, r \in RowsNamed(n) : q = r
    /\ \A r \in RowsNamed(n) : rows[r].status = "enabled" => Packaged(Skill(r)) /\ n \in wanted
    /\ \A t, u \in Task : TaskOn(t, n) /\ TaskOn(u, n) => t = u
    /\ \A t \in Task, p \in Process : TaskOn(t, n) => ~HealthOn(p, n)
    /\ \A t \in Task : TaskOn(t, n) => TaskClaim(t)
    /\ \A p \in Process : HealthOn(p, n) => HealthClaim(p)
    /\ \A p \in Process :
          n \in containers[p] \cup health[p].todo \cup {health[p].name}
              => n \in wanted \/ Enabling(n)
    /\ \A p \in Process : n \in containers[p] => RowsNamed(n) # {}
    /\ \A p \in Process : life[p].phase # "down" => (n \in docker <=> n \in containers[p])
    /\ Undisturbed(n) => Agrees(n)
    /\ Starting(n)

\* The keys of the rows that uploads are about to insert.
Fresh ==
    /\ \A t \in Task : task[t].op = "upload" => task[t].skill.row \notin DOMAIN rows
    /\ \A t, u \in Task :
          task[t].op = "upload" /\ task[u].op = "upload" /\ task[t].skill.row = task[u].skill.row
              => t = u

OInv == Serial => Fresh /\ \A n \in Name : Orderly(n)

-----------------------------------------------------------------------------
\* What a step leaves alone under the name m.

SameRows(m) ==
    /\ RowsNamed(m)' = RowsNamed(m)
    /\ \A r \in RowsNamed(m) : rows'[r] = rows[r]

SameContents(m) ==
    /\ \A p \in Process :
          /\ m \in containers'[p] <=> m \in containers[p]
          /\ m \in tools'[p] <=> m \in tools[p]
          /\ content'[p][m] = content[p][m]
    /\ m \in docker' <=> m \in docker

SameTasks(m) ==
    \A t \in Task :
        /\ TaskOn(t, m)' <=> TaskOn(t, m)
        /\ TaskOn(t, m) => task'[t] = task[t]

SameHealth(m) ==
    \A p \in Process :
        /\ HealthOn(p, m)' <=> HealthOn(p, m)
        /\ HealthOn(p, m) => health'[p] = health[p]
        /\ m \in health'[p].todo \cup {health'[p].name}
              => m \in containers[p] \cup health[p].todo \cup {health[p].name}

SameLife(m) ==
    \A p \in Process :
        /\ life'[p].phase = life[p].phase
        /\ \A s \in Loaded : s.name = m =>
              /\ s \in life'[p].todo <=> s \in life[p].todo
              /\ life'[p].skill = s <=> life[p].skill = s

SameStock(m) ==
    /\ m \in wanted => m \in wanted'
    /\ \A v \in Version : <<m, v>> \in packages => <<m, v>> \in packages'

Same(m) ==
    SameRows(m) /\ SameContents(m) /\ SameTasks(m) /\ SameHealth(m) /\ SameLife(m) /\ SameStock(m)

LEMMA HeldRow ==
    ASSUME NEW s, Held(s)
    PROVE  s.row \in DOMAIN rows /\ s.row \in RowsNamed(s.name)
<1>1. Skill(s.row).name = rows[s.row].name
  BY DEF Skill
<1> QED BY <1>1 DEF Held, RowsNamed

LEMMA SkillObjects ==
    ASSUME NEW m \in Name, SameRows(m), SameContents(m), SameStock(m),
           NEW s \in Loaded, s.name = m
    PROVE  /\ Held(s) => Held(s)' /\ rows'[s.row] = rows[s.row]
           /\ Packaged(s) => Packaged(s)'
           /\ \A p \in Process : Runs(p, s)' <=> Runs(p, s)
           /\ Stopped(m)' <=> Stopped(m)
<1>1. s.ver \in Version
  BY DEF Loaded
<1>2. ASSUME Held(s) PROVE Held(s)' /\ rows'[s.row] = rows[s.row]
  <2>1. s.row \in RowsNamed(m)
    BY <1>2 DEF Held, Skill, RowsNamed
  <2> QED BY <1>2, <2>1 DEF SameRows, Held, Skill, RowsNamed
<1> QED BY <1>1, <1>2 DEF SameContents, SameStock, Packaged, Runs, Stopped

\* A step that leaves a name alone leaves it in order.
LEMMA FrameName ==
    ASSUME IInv, IInv', NEW m \in Name, Same(m), Orderly(m)
    PROVE  Orderly(m)'
<1> USE DEF Same
<1>1. \A r \in RowsNamed(m) : Skill(r)' = Skill(r) /\ Skill(r) \in Loaded /\ Skill(r).name = m
  BY SkillLoaded DEF SameRows, Skill, RowsNamed, IInv
<1>2. \A t \in Task : TaskOn(t, m) => task[t].skill \in Loaded /\ task[t].skill.name = m /\ task[t].proc \in Process
  BY AtWork DEF TaskOn, IInv
<1>3. \A p \in Process : HealthOn(p, m) /\ health[p].pc # "fetch" =>
         health[p].skill \in Loaded /\ health[p].skill.name = m
  BY Checked DEF HealthOn, IInv, Checks
<1>4. Enabling(m)' <=> Enabling(m)
  BY DEF SameTasks, Enabling
<1>5. ASSUME NEW t \in Task, TaskOn(t, m)' PROVE TaskClaim(t)'
  <2>1. TaskOn(t, m) /\ task'[t] = task[t] /\ TaskClaim(t)
    BY <1>5 DEF SameTasks, Orderly
  <2> QED BY <2>1, <1>2, SkillObjects DEF TaskClaim, SameRows, SameStock
<1>6. ASSUME NEW p \in Process, HealthOn(p, m)' PROVE HealthClaim(p)'
  <2>1. HealthOn(p, m) /\ health'[p] = health[p] /\ HealthClaim(p)
    BY <1>6 DEF SameHealth, Orderly
  <2> QED BY <2>1, <1>3, SkillObjects DEF HealthClaim
<1>7. Undisturbed(m)' => Agrees(m)'
  <2>1. Undisturbed(m)' => Undisturbed(m)
    BY DEF Undisturbed, SameTasks, SameHealth, SameLife
  <2>2. Agrees(m) => Agrees(m)'
    BY <1>1, SkillObjects DEF Agrees, SameRows, SameContents, SameLife
  <2> QED BY <2>1, <2>2 DEF Orderly
<1>8. Starting(m)'
  <2> SUFFICES ASSUME NEW p \in Process, life'[p].phase = "startup"
               PROVE  /\ \A s \in life'[p].todo \cup ({life'[p].skill} \ {NoSkill}) :
                            s.name = m => Held(s)' /\ rows'[s.row].status = "enabled"
                      /\ life'[p].skill # NoSkill /\ life'[p].skill.name = m
                            => Runs(p, life[p].skill)'
                      /\ \A r \in RowsNamed(m)' : rows'[r].status = "enabled" =>
                            Skill(r)' \in life'[p].todo \/ Runs(p, Skill(r))'
                      /\ m \in containers'[p] => \E r \in RowsNamed(m)' : rows'[r].status = "enabled"
    BY DEF Starting, Runs, Skill
  <2>1. life[p].phase = "startup"
    BY DEF SameLife
  <2>2. life'[p].todo \subseteq Loaded /\ (life'[p].skill # NoSkill => life'[p].skill \in Loaded)
    BY DEF IInv, Lives, LifeRecord
  <2>3. \A s \in life'[p].todo \cup ({life'[p].skill} \ {NoSkill}) :
                            s.name = m => Held(s)' /\ rows'[s.row].status = "enabled"
    <3> SUFFICES ASSUME NEW s \in life'[p].todo \cup ({life'[p].skill} \ {NoSkill}), s.name = m
                 PROVE  Held(s)' /\ rows'[s.row].status = "enabled"
      OBVIOUS
    <3>1. s \in Loaded /\ s \in life[p].todo \cup ({life[p].skill} \ {NoSkill})
      BY <2>2 DEF SameLife
    <3> QED BY <3>1, <2>1, SkillObjects DEF Orderly, Starting
  <2>4. life'[p].skill # NoSkill /\ life'[p].skill.name = m => Runs(p, life[p].skill)'
    BY <2>1, <2>2, SkillObjects DEF Orderly, Starting, SameLife
  <2>5. \A r \in RowsNamed(m)' : rows'[r].status = "enabled" =>
                            Skill(r)' \in life'[p].todo \/ Runs(p, Skill(r))'
    BY <1>1, <2>1, SkillObjects DEF Orderly, Starting, SameLife, SameRows
  <2>6. m \in containers'[p] => \E r \in RowsNamed(m)' : rows'[r].status = "enabled"
    BY <2>1 DEF Orderly, Starting, SameRows, SameContents
  <2> QED BY <2>3, <2>4, <2>5, <2>6
<1>9. \A r \in RowsNamed(m)' : rows'[r].status = "enabled" => Packaged(Skill(r))' /\ m \in wanted'
  BY <1>1, SkillObjects DEF Orderly, SameRows, SameStock
<1>10. /\ \A q, r \in RowsNamed(m)' : q = r
       /\ \A p \in Process :
             m \in containers'[p] \cup health'[p].todo \cup {health'[p].name}
                => m \in wanted' \/ Enabling(m)'
       /\ \A p \in Process : m \in containers'[p] => RowsNamed(m)' # {}
       /\ \A p \in Process : life'[p].phase # "down" => (m \in docker' <=> m \in containers'[p])
  BY <1>4 DEF Orderly, SameRows, SameContents, SameHealth, SameLife, SameStock
<1>11. /\ \A t, u \in Task : TaskOn(t, m)' /\ TaskOn(u, m)' => t = u
       /\ \A t \in Task, p \in Process : TaskOn(t, m)' => ~HealthOn(p, m)'
  BY DEF Orderly, SameTasks, SameHealth
<1> QED
  BY <1>5, <1>6, <1>7, <1>8, <1>9, <1>10, <1>11 DEF Orderly

-----------------------------------------------------------------------------
\* What each helper leaves alone.

LEMMA StatusByIdLocal ==
    ASSUME NEW r, NEW x, StatusById(r, x), NEW m \in Name,
           r \in DOMAIN rows => rows[r].name # m
    PROVE  SameRows(m)
  BY DEF StatusById, SameRows, RowsNamed

LEMMA StatusByNameLocal ==
    ASSUME Table, NEW n, NEW x, StatusByName(n, x), NEW m \in Name \ {n}
    PROVE  SameRows(m)
  BY DEF Table, RowRecord, StatusByName, SameRows, RowsNamed

LEMMA StatusSet ==
    ASSUME Table, NEW n \in Name, NEW x \in Status,
           \/ StatusByName(n, x)
           \/ \E r : RowsNamed(n) = {r} /\ StatusById(r, x)
    PROVE  /\ RowsNamed(n)' = RowsNamed(n)
           /\ \A r \in RowsNamed(n) : rows'[r].status = x /\ Skill(r)' = Skill(r)
           /\ DOMAIN rows' = DOMAIN rows
<1>1. CASE StatusByName(n, x)
  BY <1>1 DEF Table, RowRecord, StatusByName, RowsNamed, Skill
<1>2. ASSUME NEW r, RowsNamed(n) = {r}, StatusById(r, x)
      PROVE  /\ RowsNamed(n)' = RowsNamed(n)
             /\ \A q \in RowsNamed(n) : rows'[q].status = x /\ Skill(q)' = Skill(q)
             /\ DOMAIN rows' = DOMAIN rows
  <2>1. r \in DOMAIN rows /\ rows[r].name = n
    BY <1>2 DEF RowsNamed
  <2>2. rows' = [rows EXCEPT ![r].status = x]
    BY <1>2, <2>1 DEF StatusById
  <2>3. rows[r] \in RowRecord
    BY <2>1 DEF Table
  <2> QED BY <1>2, <2>1, <2>2, <2>3 DEF RowsNamed, Skill, RowRecord
<1> QED BY <1>1, <1>2

LEMMA EnablePartLocal ==
    ASSUME Memory, NEW p \in Process, NEW s \in Loaded, EnablePart(p, s), NEW m \in Name \ {s.name}
    PROVE  SameContents(m)
  BY DEF Memory, EnablePart, SameContents, Loaded

LEMMA EnableFailsLocal ==
    ASSUME Memory, NEW p \in Process, NEW s \in Loaded, EnableFails(p, s), NEW m \in Name \ {s.name}
    PROVE  SameContents(m)
  BY DEF Memory, EnableFails, SameContents, Loaded

LEMMA DisablePartLocal ==
    ASSUME Memory, NEW p \in Process, NEW n \in Name, DisablePart(p, n), NEW m \in Name \ {n}
    PROVE  SameContents(m)
  BY DEF Memory, DisablePart, SameContents

\* A process that is up beside no other.
Lone(p) == life[p].phase # "down" /\ \A q \in Process \ {p} : life[q].phase = "down"

LEMMA UpAlone ==
    ASSUME MInv, Serial, NEW p \in Process, life[p].phase # "down"
    PROVE  Lone(p) /\ \A q \in Process \ {p} : containers[q] = {}
  BY DEF MInv, Alone, Booted, Lone

LEMMA EnablePartHere ==
    ASSUME Memory, MInv, Serial, NEW p \in Process, life[p].phase # "down",
           NEW s \in Loaded, EnablePart(p, s), NEW n, n = s.name
    PROVE  /\ Packaged(s)
           /\ Runs(p, s)'
           /\ (\A q \in Process : life[q].phase # "down" => (n \in docker <=> n \in containers[q]))
                 => \A q \in Process : life[q].phase # "down" => (n \in docker' <=> n \in containers'[q])
           /\ \A q \in Process : n \in containers[q] => n \in containers'[q]
           /\ \A q \in Process \ {p} : containers'[q] = {}
<1>1. \A q \in Process \ {p} : containers[q] = {}
  BY UpAlone
<1>2. /\ Packaged(s)
      /\ Runs(p, s)'
      /\ (n \in docker <=> n \in containers[p]) => (n \in docker' <=> n \in containers'[p])
      /\ \A q \in Process : n \in containers[q] => n \in containers'[q]
  BY DEF Memory, Loaded, EnablePart, Packaged, Runs
<1>3. \A q \in Process \ {p} : containers'[q] = containers[q]
  BY DEF Memory, EnablePart
<1>4. \A q \in Process : life[q].phase # "down" => q = p
  BY UpAlone DEF Lone
<1> QED BY <1>1, <1>2, <1>3, <1>4

LEMMA DisablePartHere ==
    ASSUME Memory, MInv, Serial, NEW p \in Process, life[p].phase # "down",
           NEW n \in Name, DisablePart(p, n)
    PROVE  /\ Stopped(n)'
           /\ (\A q \in Process : life[q].phase # "down" => (n \in docker <=> n \in containers[q]))
                 => \A q \in Process : life[q].phase # "down" => (n \in docker' <=> n \in containers'[q])
<1>1. \A q \in Process \ {p} : containers[q] = {}
  BY UpAlone
<1>2. \A q \in Process : life[q].phase # "down" => q = p
  BY UpAlone DEF Lone
<1>3. Stopped(n)' /\ ((n \in docker <=> n \in containers[p]) => (n \in docker' <=> n \in containers'[p]))
  BY <1>1 DEF Memory, DisablePart, Stopped
<1> QED BY <1>2, <1>3

LEMMA EndsLocal ==
    ASSUME Tasks, NEW t \in Task, Ends(t), NEW m \in Name, ~TaskOn(t, m)
    PROVE  SameTasks(m)
  BY DEF Tasks, Ends, Idle, SameTasks, TaskOn

LEMMA GoesLocal ==
    ASSUME Tasks, NEW t \in Task, NEW op, NEW pc, NEW p, NEW s, Goes(t, op, pc, p, s),
           NEW m \in Name \ {s.name}, ~TaskOn(t, m)
    PROVE  SameTasks(m)
  BY DEF Tasks, Goes, Idle, SameTasks, TaskOn

LEMMA AwaitLocal ==
    ASSUME Tasks, NEW t \in Task, NEW pc, Await(t, pc), NEW m \in Name \ {task[t].skill.name}
    PROVE  SameTasks(m)
  BY DEF Tasks, TaskRecord, Await, SameTasks, TaskOn

LEMMA MovesLocal ==
    ASSUME Checks, NEW p \in Process, NEW pc, Moves(p, pc), NEW m \in Name \ {health[p].name}
    PROVE  SameHealth(m)
  BY DEF Checks, HealthRecord, Moves, SameHealth, HealthOn

LEMMA NextContainerLocal ==
    ASSUME Checks, NEW p \in Process, NextContainer(p), NEW m \in Name, ~HealthOn(p, m)
    PROVE  SameHealth(m)
  BY DEF Checks, HealthRecord, NextContainer, Resting, SameHealth, HealthOn

\* A part none of whose variables changes.
LEMMA Unchanged ==
    ASSUME NEW m \in Name
    PROVE  /\ UNCHANGED rows => SameRows(m)
           /\ UNCHANGED <<docker, local>> => SameContents(m)
           /\ UNCHANGED task => SameTasks(m)
           /\ UNCHANGED health => SameHealth(m)
           /\ UNCHANGED life => SameLife(m)
           /\ UNCHANGED <<packages, wanted>> => SameStock(m)
  BY DEF local, SameRows, RowsNamed, SameContents, SameTasks, TaskOn, SameHealth, HealthOn,
         SameLife, SameStock

\* The keys of uploads stay unused.
LEMMA FreshKept ==
    ASSUME Fresh, DOMAIN rows' \subseteq DOMAIN rows,
           \A u \in Task : task'[u].op = "upload" =>
               task[u].op = "upload" /\ task'[u].skill = task[u].skill
    PROVE  Fresh'
  BY DEF Fresh

LEMMA TaskEffects ==
    ASSUME Tasks, NEW t \in Task
    PROVE  /\ \A u \in Task \ {t} : Ends(t) => task'[u] = task[u]
           /\ \A pc : \A u \in Task \ {t} : Await(t, pc) => task'[u] = task[u]
           /\ \A op, pc, p, s : \A u \in Task \ {t} :
                 Goes(t, op, pc, p, s) => task'[u] = task[u]
           /\ Ends(t) => task'[t] = Idle
           /\ \A pc : Await(t, pc) =>
                 /\ task'[t].pc = pc
                 /\ task'[t].op = task[t].op
                 /\ task'[t].proc = task[t].proc
                 /\ task'[t].skill = task[t].skill
                 /\ task'[t].old = task[t].old
                 /\ task'[t].was = task[t].was
           /\ \A op, pc, p, s : Goes(t, op, pc, p, s) =>
                 /\ task'[t].pc = pc
                 /\ task'[t].op = op
                 /\ task'[t].proc = p
                 /\ task'[t].skill = s
<1>1. task \in [Task -> TaskRecord]
  BY DEF Tasks
<1>2. \A pc : Await(t, pc) =>
                 /\ task'[t].pc = pc
                 /\ task'[t].op = task[t].op
                 /\ task'[t].proc = task[t].proc
                 /\ task'[t].skill = task[t].skill
                 /\ task'[t].old = task[t].old
                 /\ task'[t].was = task[t].was
  BY <1>1 DEF Await, TaskRecord
<1>3. \A op, pc, p, s : Goes(t, op, pc, p, s) =>
                 /\ task'[t].pc = pc
                 /\ task'[t].op = op
                 /\ task'[t].proc = p
                 /\ task'[t].skill = s
  BY <1>1 DEF Goes, Idle
<1> QED BY <1>1, <1>2, <1>3 DEF Ends, Await, Goes

LEMMA FreshSteps ==
    ASSUME Tasks, Fresh, NEW t \in Task, DOMAIN rows' \subseteq DOMAIN rows,
           \/ Ends(t)
           \/ \E pc : Await(t, pc)
           \/ \E pc, p, s : \E op \in {"enable", "disable", "delete"} : Goes(t, op, pc, p, s)
    PROVE  Fresh'
<1>1. \A u \in Task \ {t} : task'[u] = task[u]
  BY TaskEffects
<1>2. task'[t].op = "upload" => task[t].op = "upload" /\ task'[t].skill = task[t].skill
  BY TaskEffects DEF Idle
<1> QED BY <1>1, <1>2, FreshKept

-----------------------------------------------------------------------------
\* Who works alone.

\* A request that is under way works on its name alone.
LEMMA AtWorkAlone ==
    ASSUME IInv, MInv, OInv, Serial, NEW t \in Task, task[t].pc # "idle",
           NEW n, n = task[t].skill.name
    PROVE  /\ n \in Name
           /\ TaskOn(t, n) /\ TaskClaim(t) /\ Orderly(n)
           /\ \A u \in Task \ {t} : ~TaskOn(u, n)
           /\ \A p \in Process : ~HealthOn(p, n)
           /\ \A p \in Process : life[p].phase \in {"down", "running"}
           /\ \A m \in Name \ {n} : ~TaskOn(t, m)
           /\ task[t].proc \in Process /\ life[task[t].proc].phase = "running"
           /\ Lone(task[t].proc)
<1>1. n \in Name /\ task[t].proc \in Process
  BY AtWork DEF IInv
<1>2. Orderly(n) /\ TaskOn(t, n)
  BY <1>1 DEF OInv, TaskOn
<1>3. life[task[t].proc].phase = "running"
  BY DEF MInv, Awake
<1>4. Lone(task[t].proc)
  BY <1>1, <1>3, UpAlone
<1>5. \A p \in Process : life[p].phase \in {"down", "running"}
  BY <1>1, <1>3, <1>4 DEF Lone
<1> QED BY <1>1, <1>2, <1>3, <1>4, <1>5 DEF Orderly, TaskOn

\* One that begins on a settled name finds the table true.
LEMMA BeginAlone ==
    ASSUME IInv, MInv, OInv, Serial, NEW n \in Name, Settled(n),
           NEW p \in Process, life[p].phase = "running"
    PROVE  /\ \A t \in Task : ~TaskOn(t, n)
           /\ \A q \in Process : ~HealthOn(q, n) /\ life[q].phase \in {"down", "running"}
           /\ Orderly(n) /\ Agrees(n) /\ Lone(p)
<1>1. Lone(p)
  BY UpAlone
<1>2. \A q \in Process : life[q].phase \in {"down", "running"}
  BY <1>1 DEF Lone
<1> QED BY <1>1, <1>2 DEF Settled, OInv, Orderly, Undisturbed

\* Each name is in order when the one worked on is and the rest is left.
LEMMA Assemble ==
    ASSUME IInv, IInv', OInv, Serial, NEW n \in Name,
           \A m \in Name \ {n} : Same(m), Orderly(n)', Fresh'
    PROVE  OInv'
  BY FrameName DEF OInv

-----------------------------------------------------------------------------
\* Requests.

LEMMA OrderEnable ==
    ASSUME IInv, IInv', MInv, OInv, Serial',
           NEW t \in Task, NEW p \in Process, NEW r \in Row, EnableSkill(t, p, r)
    PROVE  OInv'
<1>0. PICK n \in Name, s \in Loaded : r \in DOMAIN rows /\ n = rows[r].name /\ s = Skill(r)
  BY SkillLoaded DEF EnableSkill, IInv
<1>1. s.name = n /\ Held(s) /\ r \in RowsNamed(n)
  BY <1>0 DEF Held, RowsNamed, Skill
<1>2. Serial /\ Settled(n) /\ life[p].phase = "running" /\ task[t].pc = "idle"
  BY <1>0 DEF EnableSkill, Free, IInv, Rest
<1>3. /\ \A u \in Task : ~TaskOn(u, n)
      /\ \A q \in Process : ~HealthOn(q, n) /\ life[q].phase \in {"down", "running"}
      /\ Orderly(n) /\ Agrees(n) /\ Lone(p)
  BY <1>1, <1>2, BeginAlone
<1>4. UNCHANGED <<rows, packages, health, life, wanted>>
  BY DEF EnableSkill
<1>5. CASE EnablePart(p, s) /\ Goes(t, "enable", "on", p, s)
  <2>1. \A m \in Name \ {n} : Same(m)
    BY <1>1, <1>2, <1>4, <1>5, Unchanged, EnablePartLocal, GoesLocal DEF Same, IInv, TaskOn
  <2>2. Fresh'
    BY <1>2, <1>4, <1>5, FreshSteps DEF OInv, IInv
  <2>3. \A u \in Task : TaskOn(u, n)' <=> u = t
    BY <1>1, <1>3, <1>5, TaskEffects DEF TaskOn, IInv
  <2>4. TaskClaim(t)'
    <3>1. Packaged(s)' /\ Runs(p, s)' /\ Held(s)'
      BY <1>1, <1>2, <1>4, <1>5, EnablePartHere DEF Held, Skill, Packaged, IInv
    <3>2. task'[t].op = "enable" /\ task'[t].pc = "on" /\ task'[t].proc = p /\ task'[t].skill = s
      BY <1>5, TaskEffects DEF IInv
    <3> QED BY <3>1, <3>2 DEF TaskClaim
  <2>5. Orderly(n)'
    <3>1. RowsNamed(n)' = RowsNamed(n) /\ \A q \in Process : ~HealthOn(q, n)'
      BY <1>3, <1>4 DEF RowsNamed, HealthOn
    <3>2. Enabling(n)'
      BY <1>5, <2>3, TaskEffects DEF Enabling, IInv
    <3>3. ~Undisturbed(n)' /\ Starting(n)'
      BY <1>3, <1>4, <1>5, <2>3, TaskEffects DEF Undisturbed, Starting, IInv
    <3>4. \A q \in Process : life'[q].phase # "down" => (n \in docker' <=> n \in containers'[q])
      BY <1>1, <1>2, <1>3, <1>4, <1>5, EnablePartHere DEF Orderly, IInv
    <3>5. \A q \in RowsNamed(n) : rows[q].status = "enabled" => Packaged(Skill(q))' /\ n \in wanted'
      BY <1>3, <1>4 DEF Orderly, Packaged, Skill
    <3>6. \A q \in RowsNamed(n)' : rows'[q].status = "enabled" => Packaged(Skill(q))' /\ n \in wanted'
      BY <1>4, <3>1, <3>5
    <3> QED BY <1>1, <1>3, <2>3, <2>4, <3>1, <3>2, <3>3, <3>4, <3>6 DEF Orderly
  <2> QED BY <1>1, <1>2, <2>1, <2>2, <2>5, Assemble
<1>6. CASE EnableFails(p, s) /\ Ends(t)
  <2>1. \A m \in Name \ {n} : Same(m)
    BY <1>1, <1>2, <1>4, <1>6, Unchanged, EnableFailsLocal, EndsLocal DEF Same, IInv, TaskOn
  <2>2. Fresh'
    BY <1>2, <1>4, <1>6, FreshSteps DEF OInv, IInv
  <2>3. \A u \in Task : ~TaskOn(u, n)'
    BY <1>3, <1>6, TaskEffects DEF TaskOn, IInv, Idle
  <2>4. Agrees(n)'
    <3> SUFFICES ASSUME NEW q \in RowsNamed(n), NEW o \in Process, life[o].phase # "down"
                 PROVE  /\ rows[q].status = "disabled" => n \notin containers'[o]
                        /\ rows[q].status = "enabled" => Runs(o, Skill(q))'
      BY <1>4 DEF Agrees, RowsNamed
    <3>1. q = r /\ Skill(q) = s
      BY <1>0, <1>1, <1>3 DEF Orderly
    <3>2. o = p
      BY <1>3 DEF Lone
    <3> QED BY <1>1, <1>3, <1>4, <1>6, <3>1, <3>2 DEF Agrees, EnableFails, Runs, Skill, IInv, Memory
  <2>5. Orderly(n)'
    <3>1. RowsNamed(n)' = RowsNamed(n) /\ \A q \in Process : ~HealthOn(q, n)'
      BY <1>3, <1>4 DEF RowsNamed, HealthOn
    <3>2. UNCHANGED <<docker, containers, tools>>
      BY <1>6 DEF EnableFails
    <3>3. ~Enabling(n) /\ Starting(n)'
      BY <1>3, <1>4 DEF Enabling, Starting
    <3>5. \A q \in RowsNamed(n) : rows[q].status = "enabled" => Packaged(Skill(q))' /\ n \in wanted'
      BY <1>3, <1>4 DEF Orderly, Packaged, Skill
    <3>6. \A q \in RowsNamed(n)' : rows'[q].status = "enabled" => Packaged(Skill(q))' /\ n \in wanted'
      BY <1>4, <3>1, <3>5
    <3> QED BY <1>3, <1>4, <2>3, <2>4, <3>1, <3>2, <3>3, <3>6 DEF Orderly
  <2> QED BY <1>1, <1>2, <2>1, <2>2, <2>5, Assemble
<1> QED BY <1>0, <1>5, <1>6 DEF EnableSkill

LEMMA OrderEnabled ==
    ASSUME IInv, IInv', MInv, OInv, Serial', NEW t \in Task, Enabled(t)
    PROVE  OInv'
<1>0. PICK s \in Loaded, n \in Name : s = task[t].skill /\ n = s.name
  BY AtWork DEF Enabled, IInv
<1>1. /\ Serial /\ task[t].pc = "on" /\ task[t].op = "enable"
      /\ StatusById(s.row, "enabled") /\ Ends(t) /\ wanted' = wanted \cup {n}
      /\ UNCHANGED <<packages, docker, local, health, life>>
  BY <1>0 DEF Enabled
<1>2. /\ TaskOn(t, n) /\ TaskClaim(t) /\ Orderly(n)
      /\ \A u \in Task \ {t} : ~TaskOn(u, n)
      /\ \A p \in Process : ~HealthOn(p, n) /\ life[p].phase \in {"down", "running"}
      /\ \A m \in Name \ {n} : ~TaskOn(t, m)
      /\ task[t].proc \in Process
  BY <1>0, <1>1, AtWorkAlone
<1>3. /\ Held(s) /\ Packaged(s) /\ RowsNamed(n) = {s.row}
      /\ \A p \in Process : life[p].phase # "down" => Runs(p, s)
  <2>1. Held(s) /\ Packaged(s) /\ Runs(task[t].proc, s)
    BY <1>0, <1>1, <1>2 DEF TaskClaim
  <2>2. \A p \in Process : life[p].phase # "down" => p = task[t].proc
    BY <1>0, <1>1, AtWorkAlone DEF Lone
  <2>3. \A r \in DOMAIN rows : rows[r].name = n => r = s.row
    BY <1>0, <1>2, <2>1 DEF Orderly, Held, Skill, RowsNamed
  <2> QED BY <1>0, <2>1, <2>2, <2>3 DEF Held, Skill, RowsNamed
<1>4. /\ RowsNamed(n)' = {s.row} /\ rows'[s.row].status = "enabled" /\ Skill(s.row)' = s
      /\ DOMAIN rows' = DOMAIN rows
  BY <1>1, <1>3, StatusSet DEF Status, IInv, Held
<1>5. \A m \in Name \ {n} : Same(m)
  <2>1. \A m \in Name \ {n} : SameRows(m)
    BY <1>0, <1>1, <1>3, StatusByIdLocal DEF RowsNamed
  <2>2. \A m \in Name \ {n} : SameTasks(m)
    BY <1>1, <1>2, EndsLocal DEF IInv
  <2>3. \A m \in Name \ {n} : SameStock(m)
    BY <1>1 DEF SameStock
  <2> QED BY <1>1, <2>1, <2>2, <2>3, Unchanged DEF Same
<1>6. Fresh'
  BY <1>1, <1>4, FreshSteps DEF OInv, IInv
<1>7. Orderly(n)'
  <2>1. \A u \in Task : ~TaskOn(u, n)'
    BY <1>1, <1>2, TaskEffects DEF TaskOn, IInv, Idle
  <2>2. (\A p \in Process : ~HealthOn(p, n)') /\ Starting(n)'
    BY <1>1, <1>2 DEF HealthOn, Starting
  <2>3. Agrees(n)' /\ Packaged(s)'
    BY <1>0, <1>1, <1>3, <1>4 DEF Agrees, Runs, Packaged, local
  <2> QED BY <1>1, <1>2, <1>4, <2>1, <2>2, <2>3 DEF Orderly, local
<1> QED BY <1>1, <1>5, <1>6, <1>7, Assemble

LEMMA OrderDisable ==
    ASSUME IInv, IInv', MInv, OInv, Serial',
           NEW t \in Task, NEW p \in Process, NEW r \in Row,
           DisableSkill(t, p, r) \/ DeleteSkill(t, p, r)
    PROVE  OInv'
<1>0. PICK n \in Name, s \in Loaded : r \in DOMAIN rows /\ n = rows[r].name /\ s = Skill(r)
  BY SkillLoaded DEF DisableSkill, DeleteSkill, IInv
<1>1. s.name = n /\ Held(s) /\ r \in RowsNamed(n)
  BY <1>0 DEF Held, RowsNamed, Skill
<1>2. PICK op \in {"disable", "delete"} :
         DisablePart(p, n) /\ Goes(t, op, "off", p, s) /\ upset' = (upset \/ ~Settled(n))
  BY <1>0 DEF DisableSkill, DeleteSkill
<1>3. /\ UNCHANGED <<rows, packages, health, life, wanted>>
      /\ Serial /\ Settled(n) /\ life[p].phase = "running" /\ task[t].pc = "idle"
  BY <1>0, <1>2 DEF DisableSkill, DeleteSkill, Free, IInv, Rest
<1>4. /\ \A u \in Task : ~TaskOn(u, n)
      /\ \A q \in Process : ~HealthOn(q, n) /\ life[q].phase \in {"down", "running"}
      /\ Orderly(n)
  BY <1>1, <1>3, BeginAlone
<1>5. \A m \in Name \ {n} : Same(m)
  BY <1>1, <1>2, <1>3, Unchanged, DisablePartLocal, GoesLocal DEF Same, IInv, TaskOn
<1>6. Fresh'
  BY <1>2, <1>3, FreshSteps DEF OInv, IInv
<1>7. Orderly(n)'
  <2>1. \A u \in Task : TaskOn(u, n)' <=> u = t
    BY <1>1, <1>2, <1>4, TaskEffects DEF TaskOn, IInv
  <2>2. RowsNamed(n)' = RowsNamed(n) /\ \A q \in Process : ~HealthOn(q, n)'
    BY <1>3, <1>4 DEF RowsNamed, HealthOn
  <2>3. /\ Stopped(n)'
        /\ \A q \in Process : life'[q].phase # "down" => (n \in docker' <=> n \in containers'[q])
    <3>1. life[p].phase # "down"
      BY <1>3
    <3> QED BY <1>2, <1>3, <1>4, <3>1, DisablePartHere DEF Orderly, IInv
  <2>4. TaskClaim(t)'
    BY <1>1, <1>2, <1>3, <2>3, TaskEffects DEF TaskClaim, Held, Skill, IInv
  <2>5. ~Undisturbed(n)' /\ Starting(n)'
    BY <1>2, <1>3, <1>4, <2>1, TaskEffects DEF Undisturbed, Starting, IInv
  <2>6. \A q \in RowsNamed(n) : rows[q].status = "enabled" => Packaged(Skill(q))' /\ n \in wanted'
    BY <1>3, <1>4 DEF Orderly, Packaged, Skill
  <2>7. \A q \in RowsNamed(n)' : rows'[q].status = "enabled" => Packaged(Skill(q))' /\ n \in wanted'
    BY <1>3, <2>2, <2>6
  <2>8. ~Enabling(n)
    BY <1>4 DEF Enabling
  <2> QED BY <1>3, <1>4, <2>1, <2>2, <2>3, <2>4, <2>5, <2>7, <2>8 DEF Orderly, Stopped
<1> QED BY <1>3, <1>5, <1>6, <1>7, Assemble

LEMMA OrderDisabled ==
    ASSUME IInv, IInv', MInv, OInv, Serial', NEW t \in Task, Disabled(t)
    PROVE  OInv'
<1>0. PICK s \in Loaded, n \in Name : s = task[t].skill /\ n = s.name
  BY AtWork DEF Disabled, IInv
<1>1. /\ Serial /\ task[t].pc = "off" /\ task[t].op = "disable"
      /\ StatusByName(n, "disabled") /\ Ends(t) /\ wanted' = wanted \ Unchecked({n})
      /\ UNCHANGED <<packages, docker, local, health, life>>
  BY <1>0 DEF Disabled
<1>2. /\ TaskOn(t, n) /\ TaskClaim(t) /\ Orderly(n)
      /\ \A u \in Task \ {t} : ~TaskOn(u, n)
      /\ \A p \in Process : ~HealthOn(p, n) /\ life[p].phase \in {"down", "running"}
      /\ \A m \in Name \ {n} : ~TaskOn(t, m)
  BY <1>0, <1>1, AtWorkAlone
<1>3. Stopped(n) /\ ~Enabling(n)
  BY <1>0, <1>1, <1>2 DEF TaskClaim, Enabling
<1>4. /\ RowsNamed(n)' = RowsNamed(n) /\ DOMAIN rows' = DOMAIN rows
      /\ \A r \in RowsNamed(n) : rows'[r].status = "disabled"
  BY <1>1, StatusSet DEF Status, IInv
<1>5. \A m \in Name \ {n} : Same(m)
  <2>1. \A m \in Name \ {n} : SameTasks(m)
    BY <1>1, <1>2, EndsLocal DEF IInv
  <2>2. \A m \in Name \ {n} : SameStock(m)
    BY <1>1 DEF SameStock, Unchecked
  <2> QED BY <1>1, <2>1, <2>2, Unchanged, StatusByNameLocal DEF Same, IInv
<1>6. Fresh'
  BY <1>1, <1>4, FreshSteps DEF OInv, IInv
<1>7. Orderly(n)'
  <2>1. \A u \in Task : ~TaskOn(u, n)'
    BY <1>1, <1>2, TaskEffects DEF TaskOn, IInv, Idle
  <2>2. (\A p \in Process : ~HealthOn(p, n)') /\ Starting(n)'
    BY <1>1, <1>2 DEF HealthOn, Starting
  <2>3. Agrees(n)'
    BY <1>1, <1>3, <1>4 DEF Agrees, Stopped, local
  <2>4. \A p \in Process : n \in containers'[p] \cup health'[p].todo \cup {health'[p].name}
              => n \in wanted'
    BY <1>1, <1>2, <1>3 DEF Orderly, Stopped, Unchecked, local
  <2> QED BY <1>1, <1>2, <1>4, <2>1, <2>2, <2>3, <2>4 DEF Orderly, local
<1> QED BY <1>1, <1>5, <1>6, <1>7, Assemble

LEMMA OrderToDelete ==
    ASSUME IInv, IInv', MInv, OInv, Serial', NEW t \in Task, DisabledToDelete(t)
    PROVE  OInv'
<1>0. PICK s \in Loaded, n \in Name : s = task[t].skill /\ n = s.name
  BY AtWork DEF DisabledToDelete, IInv
<1>1. /\ Serial /\ task[t].pc = "off" /\ task[t].op = "delete"
      /\ StatusByName(n, "disabled") /\ Await(t, "erase")
      /\ packages' \in {packages, packages \ {<<n, s.ver>>}}
      /\ UNCHANGED <<docker, local, health, life, wanted>>
  BY <1>0 DEF DisabledToDelete
<1>2. /\ TaskOn(t, n) /\ TaskClaim(t) /\ Orderly(n)
      /\ \A u \in Task \ {t} : ~TaskOn(u, n)
      /\ \A p \in Process : ~HealthOn(p, n) /\ life[p].phase \in {"down", "running"}
  BY <1>0, <1>1, AtWorkAlone
<1>3. Stopped(n) /\ ~Enabling(n) /\ Held(s) /\ s.row \in RowsNamed(n)
  BY <1>0, <1>1, <1>2 DEF TaskClaim, Enabling, Held, Skill, RowsNamed
<1>4. /\ RowsNamed(n)' = RowsNamed(n) /\ DOMAIN rows' = DOMAIN rows
      /\ \A r \in RowsNamed(n) : rows'[r].status = "disabled" /\ Skill(r)' = Skill(r)
  BY <1>1, StatusSet DEF Status, IInv
<1>5. \A m \in Name \ {n} : Same(m)
  <2>1. \A m \in Name \ {n} : SameTasks(m)
    BY <1>0, <1>1, AwaitLocal DEF IInv
  <2>2. \A m \in Name \ {n} : SameStock(m)
    BY <1>1 DEF SameStock
  <2> QED BY <1>1, <2>1, <2>2, Unchanged, StatusByNameLocal DEF Same, IInv
<1>6. Fresh'
  BY <1>1, <1>4, FreshSteps DEF OInv, IInv
<1>7. Orderly(n)'
  <2>1. \A u \in Task : TaskOn(u, n)' <=> u = t
    BY <1>0, <1>1, <1>2, TaskEffects DEF TaskOn, IInv
  <2>2. \A p \in Process : ~HealthOn(p, n)'
    BY <1>1, <1>2 DEF HealthOn
  <2>3. TaskClaim(t)'
    <3>1. Held(s)' /\ Stopped(n)'
      BY <1>1, <1>3, <1>4 DEF Held, Stopped, local
    <3>2. task'[t].op = "delete" /\ task'[t].pc = "erase" /\ task'[t].skill = s
      BY <1>0, <1>1, TaskEffects DEF IInv
    <3>3. \A r \in RowsNamed(n)' : rows'[r].status # "enabled"
      BY <1>4
    <3> QED BY <1>0, <3>1, <3>2, <3>3 DEF TaskClaim
  <2>4. ~Undisturbed(n)' /\ Starting(n)'
    BY <1>1, <1>2, <2>1, TaskEffects DEF Undisturbed, Starting, IInv
  <2> QED BY <1>1, <1>2, <1>3, <1>4, <2>1, <2>2, <2>3, <2>4 DEF Orderly, local
<1> QED BY <1>1, <1>5, <1>6, <1>7, Assemble

LEMMA OrderErased ==
    ASSUME IInv, IInv', MInv, OInv, Serial', NEW t \in Task, Erased(t)
    PROVE  OInv'
<1>0. PICK s \in Loaded, n \in Name : s = task[t].skill /\ n = s.name
  BY AtWork DEF Erased, IInv
<1>1. /\ Serial /\ task[t].pc = "erase"
      /\ rows' = [r \in DOMAIN rows \ {s.row} |-> rows[r]]
      /\ Ends(t) /\ wanted' = wanted \ Unchecked({n})
      /\ UNCHANGED <<packages, docker, local, health, life>>
  BY <1>0 DEF Erased, Restrict
<1>2. /\ TaskOn(t, n) /\ TaskClaim(t) /\ Orderly(n)
      /\ \A u \in Task \ {t} : ~TaskOn(u, n)
      /\ \A p \in Process : ~HealthOn(p, n) /\ life[p].phase \in {"down", "running"}
      /\ \A m \in Name \ {n} : ~TaskOn(t, m)
  BY <1>0, <1>1, AtWorkAlone
<1>3. task[t].op = "delete"
  BY <1>1, <1>2 DEF TaskClaim, IInv, Tasks, TaskRecord
<1>4. Stopped(n) /\ ~Enabling(n) /\ RowsNamed(n) = {s.row}
  <2>1. Stopped(n) /\ ~Enabling(n) /\ Held(s)
    BY <1>0, <1>2, <1>3 DEF TaskClaim, Enabling
  <2>2. \A r \in DOMAIN rows : rows[r].name = n => r = s.row
    BY <1>0, <1>2, <2>1 DEF Orderly, Held, Skill, RowsNamed
  <2> QED BY <1>0, <2>1, <2>2 DEF Held, Skill, RowsNamed
<1>5. RowsNamed(n)' = {} /\ \A m \in Name \ {n} : SameRows(m)
  BY <1>1, <1>4 DEF RowsNamed, SameRows
<1>6. \A m \in Name \ {n} : Same(m)
  <2>1. \A m \in Name \ {n} : SameTasks(m)
    BY <1>1, <1>2, EndsLocal DEF IInv
  <2>2. \A m \in Name \ {n} : SameStock(m)
    BY <1>1 DEF SameStock, Unchecked
  <2> QED BY <1>1, <1>5, <2>1, <2>2, Unchanged DEF Same
<1>7. Fresh'
  BY <1>1, FreshSteps DEF OInv, IInv
<1>8. Orderly(n)'
  <2>1. \A u \in Task : ~TaskOn(u, n)'
    BY <1>1, <1>2, TaskEffects DEF TaskOn, IInv, Idle
  <2>2. (\A p \in Process : ~HealthOn(p, n)') /\ Starting(n)' /\ Agrees(n)'
    BY <1>1, <1>2, <1>5 DEF HealthOn, Starting, Agrees
  <2>3. \A p \in Process :
           /\ n \notin containers'[p]
           /\ n \in health'[p].todo \cup {health'[p].name} => n \in wanted'
    BY <1>1, <1>2, <1>4 DEF Orderly, Stopped, Unchecked, local
  <2> QED BY <1>1, <1>2, <1>5, <2>1, <2>2, <2>3 DEF Orderly, local
<1> QED BY <1>1, <1>6, <1>7, <1>8, Assemble

LEMMA OrderNotErased ==
    ASSUME IInv, IInv', MInv, OInv, Serial', NEW t \in Task, NotErased(t)
    PROVE  OInv'
<1>0. PICK s \in Loaded, n \in Name : s = task[t].skill /\ n = s.name
  BY AtWork DEF NotErased, IInv
<1>1. /\ Serial /\ task[t].pc = "erase"
      /\ Ends(t) /\ wanted' = wanted \ Unchecked({n})
      /\ UNCHANGED <<rows, packages, docker, local, health, life>>
  BY <1>0 DEF NotErased
<1>2. /\ TaskOn(t, n) /\ TaskClaim(t) /\ Orderly(n)
      /\ \A u \in Task \ {t} : ~TaskOn(u, n)
      /\ \A p \in Process : ~HealthOn(p, n) /\ life[p].phase \in {"down", "running"}
      /\ \A m \in Name \ {n} : ~TaskOn(t, m)
  BY <1>0, <1>1, AtWorkAlone
<1>3. task[t].op = "delete"
  BY <1>1, <1>2 DEF TaskClaim, IInv, Tasks, TaskRecord
<1>4. Stopped(n) /\ ~Enabling(n) /\ \A r \in RowsNamed(n) : rows[r].status # "enabled"
  BY <1>0, <1>1, <1>2, <1>3 DEF TaskClaim, Enabling
<1>5. \A m \in Name \ {n} : Same(m)
  <2>1. \A m \in Name \ {n} : SameTasks(m)
    BY <1>1, <1>2, EndsLocal DEF IInv
  <2>2. \A m \in Name \ {n} : SameStock(m)
    BY <1>1 DEF SameStock, Unchecked
  <2> QED BY <1>1, <2>1, <2>2, Unchanged DEF Same
<1>6. Fresh'
  BY <1>1, FreshSteps DEF OInv, IInv
<1>7. Orderly(n)'
  <2>1. \A u \in Task : ~TaskOn(u, n)'
    BY <1>1, <1>2, TaskEffects DEF TaskOn, IInv, Idle
  <2>2. (\A p \in Process : ~HealthOn(p, n)') /\ Starting(n)' /\ RowsNamed(n)' = RowsNamed(n)
    BY <1>1, <1>2 DEF HealthOn, Starting, RowsNamed
  <2>3. Agrees(n)'
    BY <1>1, <1>4, <2>2 DEF Agrees, Stopped, local
  <2>4. \A p \in Process :
           /\ n \notin containers'[p]
           /\ n \in health'[p].todo \cup {health'[p].name} => n \in wanted'
    BY <1>1, <1>2, <1>4 DEF Orderly, Stopped, Unchecked, local
  <2>5. \A r \in RowsNamed(n)' : rows'[r].status # "enabled"
    BY <1>1, <1>4, <2>2
  <2> QED BY <1>1, <1>2, <2>1, <2>2, <2>3, <2>4, <2>5 DEF Orderly, local
<1> QED BY <1>1, <1>5, <1>6, <1>7, Assemble

LEMMA OrderUpload ==
    ASSUME IInv, IInv', MInv, OInv, Serial',
           NEW t \in Task, NEW p \in Process, NEW r \in Row, NEW n \in Name, NEW ty \in Type,
           NEW v \in Version, UploadSkill(t, p, r, n, ty, v)
    PROVE  OInv'
<1> DEFINE k(pc, was, old) == [op |-> "upload", pc |-> pc, proc |-> p, was |-> was, old |-> old,
                               skill |-> [row |-> r, name |-> n, type |-> ty, ver |-> v]]
<1>1. PICK was \in BOOLEAN, old \in Row \cup {NoRow}, pc \in {"store", "off"} :
         /\ was <=> \E q \in RowsNamed(n) : rows[q].status = "enabled"
         /\ old = IF RowsNamed(n) = {} THEN NoRow ELSE CHOOSE q \in RowsNamed(n) : TRUE
         /\ task' = [task EXCEPT ![t] = k(pc, was, old)]
         /\ \/ pc = "store" /\ ~was /\ UNCHANGED <<docker, local>>
            \/ pc = "off" /\ was /\ DisablePart(p, n)
  <2>1. (IF RowsNamed(n) = {} THEN NoRow ELSE CHOOSE q \in RowsNamed(n) : TRUE) \in Row \cup {NoRow}
    BY DEF RowsNamed, IInv, Table
  <2> QED BY <2>1 DEF UploadSkill
<1>2. /\ UNCHANGED <<rows, packages, health, life, wanted>>
      /\ Serial /\ Settled(n) /\ life[p].phase = "running" /\ task[t].pc = "idle"
      /\ r \notin DOMAIN rows /\ \A u \in Task : task[u].skill.row # r
  BY DEF UploadSkill, Free, IInv, Rest
<1>3. /\ \A u \in Task : ~TaskOn(u, n)
      /\ \A q \in Process : ~HealthOn(q, n) /\ life[q].phase \in {"down", "running"}
      /\ Orderly(n) /\ Agrees(n)
  BY <1>2, BeginAlone
<1>4. RowsNamed(n) = {old} \ {NoRow}
  BY <1>1, <1>3 DEF Orderly, RowsNamed, IInv, Table
<1>5. /\ task'[t] = k(pc, was, old)
      /\ \A u \in Task \ {t} : task'[u] = task[u]
  BY <1>1 DEF IInv, Tasks
<1>6. \A m \in Name \ {n} : Same(m)
  <2>1. \A m \in Name \ {n} : SameTasks(m)
    BY <1>2, <1>5 DEF SameTasks, TaskOn
  <2>2. \A m \in Name \ {n} : SameContents(m)
    BY <1>1, Unchanged, DisablePartLocal DEF IInv
  <2> QED BY <1>2, <2>1, <2>2, Unchanged DEF Same
<1>7. Fresh'
  BY <1>2, <1>5 DEF OInv, Fresh
<1>8. Orderly(n)'
  <2>1. \A u \in Task : TaskOn(u, n)' <=> u = t
    BY <1>1, <1>3, <1>5 DEF TaskOn
  <2>2. RowsNamed(n)' = RowsNamed(n) /\ \A q \in Process : ~HealthOn(q, n)'
    BY <1>2, <1>3 DEF RowsNamed, HealthOn
  <2>3. /\ pc = "off" => Stopped(n)'
        /\ \A q \in Process : life'[q].phase # "down" => (n \in docker' <=> n \in containers'[q])
        /\ \A q \in Process : n \in containers'[q] => n \in containers[q]
    BY <1>1, <1>2, <1>3, DisablePartHere DEF Orderly, IInv, local, Stopped
  <2>4. TaskClaim(t)'
    <3>1. was => RowsNamed(n) # {} /\ n \in wanted
      BY <1>1, <1>3 DEF Orderly
    <3>2. pc = "store" => \A q \in RowsNamed(n) : rows'[q].status # "enabled"
      BY <1>1, <1>2
    <3> QED BY <1>1, <1>2, <1>4, <1>5, <2>2, <2>3, <3>1, <3>2 DEF TaskClaim
  <2>5. Undisturbed(n)' => Agrees(n)'
    <3>1. CASE pc = "off"
      BY <1>5, <2>1, <3>1 DEF Undisturbed
    <3>2. CASE pc = "store"
      BY <1>1, <1>2, <1>3, <2>2, <3>2 DEF Agrees, Runs, Skill, local
    <3> QED BY <3>1, <3>2
  <2>6. Starting(n)'
    BY <1>2, <1>3 DEF Starting
  <2>7. \A q \in RowsNamed(n) : rows[q].status = "enabled" => Packaged(Skill(q))' /\ n \in wanted'
    BY <1>2, <1>3 DEF Orderly, Packaged, Skill
  <2>8. \A q \in RowsNamed(n)' : rows'[q].status = "enabled" => Packaged(Skill(q))' /\ n \in wanted'
    BY <1>2, <2>2, <2>7
  <2>9. ~Enabling(n)
    BY <1>3 DEF Enabling
  <2> QED BY <1>2, <1>3, <2>1, <2>2, <2>3, <2>4, <2>5, <2>6, <2>8, <2>9 DEF Orderly
<1> QED BY <1>2, <1>6, <1>7, <1>8, Assemble

\* The steps of an upload between two awaits that begin or end nothing.
LEMMA OrderUploading ==
    ASSUME IInv, IInv', MInv, OInv, Serial', NEW t \in Task,
           DisabledToUpload(t) \/ Stored(t) \/ EnabledInUpload(t) \/ (Created(t) /\ ~task[t].was)
    PROVE  OInv'
<1>0. PICK s \in Loaded, n \in Name : s = task[t].skill /\ n = s.name
  BY AtWork DEF DisabledToUpload, Stored, EnabledInUpload, Created, IInv
<1>1. /\ Serial /\ task[t].pc # "idle"
      /\ UNCHANGED <<docker, local, health, life, wanted>>
  BY <1>0 DEF DisabledToUpload, Stored, EnabledInUpload, Created
<1>2. /\ TaskOn(t, n) /\ TaskClaim(t) /\ Orderly(n)
      /\ \A u \in Task \ {t} : ~TaskOn(u, n)
      /\ \A p \in Process : ~HealthOn(p, n) /\ life[p].phase \in {"down", "running"}
  BY <1>0, <1>1, AtWorkAlone
<1>3. task[t].op = "upload"
  BY <1>2 DEF DisabledToUpload, Stored, EnabledInUpload, Created, TaskClaim, IInv, Tasks,
              TaskRecord
<1>4. PICK pc \in {"store", "create", "commit"} :
         /\ Await(t, pc)
         /\ pc = "store" => StatusByName(n, "disabled") /\ UNCHANGED packages /\ task[t].pc = "off"
         /\ pc = "create" => UNCHANGED rows /\ packages' = packages \cup {<<n, s.ver>>}
                                /\ task[t].pc = "store"
         /\ pc = "commit" => UNCHANGED <<rows, packages>> /\ task[t].pc \in {"create", "on"}
  BY <1>0, <1>3 DEF DisabledToUpload, Stored, EnabledInUpload, Created, StatusById, OInv, Fresh,
                    IInv, Rest
<1>5. /\ RowsNamed(n)' = RowsNamed(n) /\ DOMAIN rows' = DOMAIN rows
      /\ \A r \in RowsNamed(n) : Skill(r)' = Skill(r)
      /\ \A r \in RowsNamed(n) :
            rows'[r].status # "enabled" /\ (rows'[r].status = "disabled" =>
                                               Stopped(n) \/ rows'[r] = rows[r])
  <2>1. CASE pc = "store"
    BY <1>0, <1>2, <1>3, <1>4, <2>1, StatusSet DEF Status, IInv, TaskClaim
  <2>2. CASE pc # "store"
    BY <1>0, <1>2, <1>3, <1>4, <2>2 DEF RowsNamed, Skill, TaskClaim
  <2> QED BY <2>1, <2>2
<1>6. \A m \in Name \ {n} : Same(m)
  <2>1. \A m \in Name \ {n} : SameTasks(m)
    BY <1>0, <1>4, AwaitLocal DEF IInv
  <2>2. \A m \in Name \ {n} : SameStock(m)
    BY <1>1, <1>4 DEF SameStock
  <2>3. \A m \in Name \ {n} : SameRows(m)
    BY <1>4, Unchanged, StatusByNameLocal DEF IInv
  <2> QED BY <1>1, <2>1, <2>2, <2>3, Unchanged DEF Same
<1>7. Fresh'
  BY <1>1, <1>4, <1>5, FreshSteps DEF OInv, IInv
<1>8. Orderly(n)'
  <2>1. \A u \in Task : TaskOn(u, n)' <=> u = t
    <3>1. /\ task'[t].pc = pc /\ task'[t].skill = s
          /\ \A u \in Task \ {t} : task'[u] = task[u]
      BY <1>0, <1>4, TaskEffects DEF IInv
    <3> QED BY <1>0, <1>2, <3>1 DEF TaskOn
  <2>2. (\A p \in Process : ~HealthOn(p, n)') /\ Starting(n)'
    BY <1>1, <1>2 DEF HealthOn, Starting
  <2>3. TaskClaim(t)'
    <3>1. /\ task'[t].pc = pc /\ task'[t].op = "upload" /\ task'[t].skill = s
          /\ task'[t].old = task[t].old /\ task'[t].was = task[t].was
      BY <1>0, <1>3, <1>4, TaskEffects DEF IInv
    <3>2. /\ RowsNamed(n) = {task[t].old} \ {NoRow}
          /\ task[t].was => RowsNamed(n) # {} /\ n \in wanted
          /\ \A r \in RowsNamed(n) : rows'[r].status # "enabled"
      BY <1>0, <1>2, <1>3, <1>5 DEF TaskClaim
    <3> QED BY <1>0, <1>1, <1>4, <1>5, <3>1, <3>2 DEF TaskClaim
  <2>4. Undisturbed(n)' => Agrees(n)'
    <3> SUFFICES ASSUME Undisturbed(n)' PROVE Agrees(n)'
      OBVIOUS
    <3>1. pc \in {"store", "create"} \/ (pc = "commit" /\ ~task[t].was)
      BY <1>4, <2>1, TaskEffects DEF Undisturbed, IInv
    <3>2. CASE pc = "store"
      <4>1. Stopped(n)'
        BY <1>0, <1>1, <1>2, <1>3, <1>4, <3>2 DEF TaskClaim, Stopped, local
      <4> QED BY <1>5, <4>1 DEF Agrees, Stopped
    <3>3. CASE pc = "create"
      <4>1. Agrees(n)
        BY <1>0, <1>2, <1>4, <3>3 DEF Orderly, Undisturbed
      <4> QED BY <1>1, <1>4, <1>5, <3>3, <4>1 DEF Agrees, local
    <3>4. CASE pc = "commit" /\ ~task[t].was
      <4>1. task[t].pc = "create"
        BY <1>0, <1>2, <1>3, <1>4, <3>4 DEF TaskClaim
      <4>2. Agrees(n)
        BY <1>2, <4>1 DEF Orderly, Undisturbed
      <4> QED BY <1>1, <1>4, <1>5, <3>4, <4>2 DEF Agrees, local
    <3> QED BY <3>1, <3>2, <3>3, <3>4
  <2>5. ~Enabling(n)
    BY <1>2, <1>3 DEF Enabling
  <2> QED BY <1>1, <1>2, <1>5, <2>1, <2>2, <2>3, <2>4, <2>5 DEF Orderly, local
<1> QED BY <1>1, <1>6, <1>7, <1>8, Assemble

\* An upload ends: rolled back, or with the skill enabled again or not.
LEMMA OrderRolledBack ==
    ASSUME IInv, IInv', MInv, OInv, Serial', NEW t \in Task,
           \/ NotStored(t)
           \/ NotCreated(t)
           \/ CommitFails(t)
           \/ Created(t) /\ EnableFails(task[t].proc, task[t].skill) /\ Ends(t)
    PROVE  OInv'
<1>0. PICK s \in Loaded, n \in Name : s = task[t].skill /\ n = s.name
  BY AtWork DEF NotStored, NotCreated, CommitFails, Created, IInv
<1>1. /\ Serial /\ Ends(t)
      /\ task[t].pc \in {"store", "create"} \/ (task[t].pc = "commit" /\ ~task[t].was)
      /\ UNCHANGED <<rows, packages, docker, tools, containers, health, life, wanted>>
  <2>1. CASE CommitFails(t)
    BY <2>1 DEF CommitFails, local
  <2>2. CASE ~CommitFails(t)
    BY <1>0, <2>2 DEF NotStored, NotCreated, Created, EnableFails, local
  <2> QED BY <2>1, <2>2
<1>2. /\ TaskOn(t, n) /\ TaskClaim(t) /\ Orderly(n)
      /\ \A u \in Task \ {t} : ~TaskOn(u, n)
      /\ \A p \in Process : ~HealthOn(p, n) /\ life[p].phase \in {"down", "running"}
      /\ \A m \in Name \ {n} : ~TaskOn(t, m)
      /\ task[t].proc \in Process
  BY <1>0, <1>1, AtWorkAlone
<1>3. task[t].op = "upload"
  BY <1>1, <1>2 DEF TaskClaim, IInv, Tasks, TaskRecord
<1>4. Agrees(n) /\ \A r \in RowsNamed(n) : rows[r].status # "enabled"
  BY <1>0, <1>1, <1>2, <1>3 DEF TaskClaim, Orderly, Undisturbed
<1>5. \A m \in Name \ {n} : Same(m)
  <2>1. \A m \in Name \ {n} : SameTasks(m)
    BY <1>1, <1>2, EndsLocal DEF IInv
  <2>2. \A m \in Name \ {n} : SameContents(m)
    BY <1>0, <1>2, Unchanged, EnableFailsLocal DEF NotStored, NotCreated, CommitFails, IInv
  <2> QED BY <1>1, <2>1, <2>2, Unchanged DEF Same
<1>6. Fresh'
  BY <1>1, FreshSteps DEF OInv, IInv
<1>7. Orderly(n)'
  <2>1. \A u \in Task : ~TaskOn(u, n)'
    BY <1>1, <1>2, TaskEffects DEF TaskOn, IInv, Idle
  <2>2. RowsNamed(n)' = RowsNamed(n) /\ (\A p \in Process : ~HealthOn(p, n)') /\ Starting(n)'
    BY <1>1, <1>2 DEF RowsNamed, HealthOn, Starting
  <2>3. Agrees(n)'
    BY <1>1, <1>4, <2>2 DEF Agrees
  <2>4. ~Enabling(n)
    BY <1>2, <1>3 DEF Enabling
  <2> QED BY <1>1, <1>2, <1>4, <2>1, <2>2, <2>3, <2>4 DEF Orderly
<1> QED BY <1>1, <1>5, <1>6, <1>7, Assemble

LEMMA OrderCreated ==
    ASSUME IInv, IInv', MInv, OInv, Serial', NEW t \in Task, Created(t),
           task[t].was, EnablePart(task[t].proc, task[t].skill), Await(t, "on")
    PROVE  OInv'
<1>0. PICK s \in Loaded, n \in Name : s = task[t].skill /\ n = s.name
  BY AtWork DEF Created, IInv
<1>1. /\ Serial /\ task[t].pc = "create"
      /\ UNCHANGED <<rows, packages, health, life, wanted>>
  BY <1>0 DEF Created
<1>2. /\ TaskOn(t, n) /\ TaskClaim(t) /\ Orderly(n)
      /\ \A u \in Task \ {t} : ~TaskOn(u, n)
      /\ \A p \in Process : ~HealthOn(p, n) /\ life[p].phase \in {"down", "running"}
      /\ task[t].proc \in Process /\ life[task[t].proc].phase = "running"
  BY <1>0, <1>1, AtWorkAlone
<1>3. task[t].op = "upload" /\ n \in wanted /\ RowsNamed(n) # {}
  BY <1>0, <1>1, <1>2 DEF TaskClaim, IInv, Tasks, TaskRecord
<1>5. \A m \in Name \ {n} : Same(m)
  BY <1>0, <1>1, <1>2, AwaitLocal, EnablePartLocal, Unchanged DEF Same, IInv
<1>6. Fresh'
  BY <1>1, FreshSteps DEF OInv, IInv
<1>7. Orderly(n)'
  <2>0. /\ task'[t].pc = "on" /\ task'[t].skill = s
        /\ \A u \in Task \ {t} : task'[u] = task[u]
    BY <1>0, TaskEffects DEF IInv
  <2>1. \A u \in Task : TaskOn(u, n)' <=> u = t
    BY <1>0, <1>2, <2>0 DEF TaskOn
  <2>2. RowsNamed(n)' = RowsNamed(n) /\ (\A p \in Process : ~HealthOn(p, n)') /\ Starting(n)'
    BY <1>1, <1>2 DEF RowsNamed, HealthOn, Starting
  <2>3. TaskClaim(t)'
    BY <1>0, <1>1, <1>2, <1>3, <2>2, TaskEffects DEF TaskClaim, IInv
  <2>4. ~Undisturbed(n)'
    BY <2>0, <2>1 DEF Undisturbed
  <2>5. \A q \in Process : life'[q].phase # "down" => (n \in docker' <=> n \in containers'[q])
    BY <1>0, <1>1, <1>2, EnablePartHere DEF Orderly, IInv
  <2>6. \A r \in RowsNamed(n)' : rows'[r].status # "enabled"
    BY <1>0, <1>1, <1>2, <1>3, <2>2 DEF TaskClaim
  <2> QED BY <1>1, <1>2, <1>3, <2>1, <2>2, <2>3, <2>4, <2>5, <2>6 DEF Orderly
<1> QED BY <1>1, <1>5, <1>6, <1>7, Assemble

LEMMA OrderCommitted ==
    ASSUME IInv, IInv', MInv, OInv, Serial', NEW t \in Task, Committed(t)
    PROVE  OInv'
<1>0. PICK s \in Loaded, n \in Name : s = task[t].skill /\ n = s.name
  BY AtWork DEF Committed, IInv
<1>1. /\ Serial /\ task[t].pc = "commit" /\ Ends(t)
      /\ DOMAIN rows' = (DOMAIN rows \ {task[t].old}) \cup {s.row}
      /\ rows'[s.row].name = n /\ rows'[s.row].status = "inactive"
      /\ \A r \in DOMAIN rows' \ {s.row} : rows'[r] = rows[r]
      /\ UNCHANGED <<packages, docker, local, health, life, wanted>>
  BY <1>0 DEF Committed
<1>2. /\ TaskOn(t, n) /\ TaskClaim(t) /\ Orderly(n)
      /\ \A u \in Task \ {t} : ~TaskOn(u, n)
      /\ \A p \in Process : ~HealthOn(p, n) /\ life[p].phase \in {"down", "running"}
      /\ \A m \in Name \ {n} : ~TaskOn(t, m)
  BY <1>0, <1>1, AtWorkAlone
<1>3. task[t].op = "upload" /\ s.row \notin DOMAIN rows /\ RowsNamed(n) = {task[t].old} \ {NoRow}
  BY <1>0, <1>1, <1>2 DEF TaskClaim, IInv, Tasks, TaskRecord, OInv, Fresh
<1>4. RowsNamed(n)' = {s.row}
  BY <1>1, <1>3 DEF RowsNamed, IInv, Table
<1>5. \A m \in Name \ {n} : Same(m)
  <2>1. \A m \in Name \ {n} : SameTasks(m)
    BY <1>1, <1>2, EndsLocal DEF IInv
  <2>2. \A m \in Name \ {n} : SameRows(m)
    BY <1>1, <1>3 DEF RowsNamed, SameRows, IInv, Table
  <2> QED BY <1>1, <2>1, <2>2, Unchanged DEF Same
<1>6. Fresh'
  <2>1. \A u \in Task \ {t} : task'[u] = task[u]
    BY <1>1, TaskEffects DEF IInv
  <2>2. task'[t].op = "none"
    BY <1>1, TaskEffects DEF IInv, Idle
  <2>3. \A u \in Task \ {t} : task[u].op = "upload" => task[u].skill.row # s.row
    BY <1>0, <1>1, <1>3 DEF OInv, Fresh
  <2> QED BY <1>1, <2>1, <2>2, <2>3 DEF OInv, Fresh
<1>7. Orderly(n)'
  <2>1. \A u \in Task : ~TaskOn(u, n)'
    BY <1>1, <1>2, TaskEffects DEF TaskOn, IInv, Idle
  <2>2. (\A p \in Process : ~HealthOn(p, n)') /\ Starting(n)'
    BY <1>1, <1>2 DEF HealthOn, Starting
  <2>3. Agrees(n)'
    BY <1>1, <1>4 DEF Agrees
  <2>4. ~Enabling(n)
    BY <1>2, <1>3 DEF Enabling
  <2> QED BY <1>1, <1>2, <1>4, <2>1, <2>2, <2>3, <2>4 DEF Orderly, local
<1> QED BY <1>1, <1>5, <1>6, <1>7, Assemble

-----------------------------------------------------------------------------
\* The health task.

\* The steps that move on in the list: what it holds were containers.
LEMMA OrderScan ==
    ASSUME IInv, IInv', MInv, OInv, Serial', NEW p \in Process,
           WakeUp(p) \/ ScanDone(p) \/ (\E n \in Name : Probe(p, n)) \/ ProbeOk(p)
    PROVE  OInv'
<1>1. Serial /\ UNCHANGED <<rows, packages, docker, local, task, life, wanted>>
  BY DEF WakeUp, ScanDone, Probe, ProbeOk, IInv, Rest
<1>2. ASSUME NEW m \in Name PROVE SameHealth(m)
  <2>1. CASE WakeUp(p)
    BY <2>1 DEF WakeUp, IInv, Checks, Resting, SameHealth, HealthOn
  <2>2. CASE ScanDone(p)
    BY <2>2 DEF ScanDone, Moves, IInv, Checks, HealthRecord, SameHealth, HealthOn
  <2>3. ASSUME NEW n \in Name, Probe(p, n) PROVE SameHealth(m)
    BY <2>3 DEF Probe, IInv, Checks, Resting, SameHealth, HealthOn
  <2>4. CASE ProbeOk(p)
    BY <2>4, NextContainerLocal DEF ProbeOk, HealthOn, IInv
  <2> QED BY <2>1, <2>2, <2>3, <2>4
<1>3. \A m \in Name : Same(m)
  BY <1>1, <1>2, Unchanged DEF Same
<1>4. Fresh'
  BY <1>1 DEF OInv, Fresh
<1> QED BY <1>1, <1>3, <1>4, FrameName DEF OInv

LEMMA OrderProbeFailed ==
    ASSUME IInv, IInv', MInv, OInv, Serial', NEW p \in Process, ProbeFailed(p)
    PROVE  OInv'
<1>0. PICK n \in Name : n = health[p].name
  BY Checked DEF ProbeFailed, IInv
<1>1. /\ Serial /\ Settled(n) /\ life[p].phase = "running" /\ Moves(p, "fetch")
      /\ UNCHANGED <<rows, packages, docker, local, task, life, wanted>>
  BY <1>0 DEF ProbeFailed, IInv, Rest, MInv, Awake
<1>2. /\ \A u \in Task : ~TaskOn(u, n)
      /\ \A q \in Process : ~HealthOn(q, n) /\ life[q].phase \in {"down", "running"}
      /\ Orderly(n) /\ Agrees(n)
  BY <1>1, BeginAlone
<1>3. \A m \in Name \ {n} : Same(m)
  BY <1>0, <1>1, Unchanged, MovesLocal DEF Same, IInv
<1>4. Fresh'
  BY <1>1 DEF OInv, Fresh
<1>5. Orderly(n)'
  <2>1. /\ \A q \in Process : HealthOn(q, n)' => health'[q].pc = "fetch"
        /\ \A q \in Process : health'[q].todo = health[q].todo /\ health'[q].name = health[q].name
    BY <1>1, <1>2 DEF Moves, HealthOn, IInv, Checks, HealthRecord
  <2>2. RowsNamed(n)' = RowsNamed(n) /\ (\A u \in Task : ~TaskOn(u, n)') /\ Starting(n)'
    BY <1>1, <1>2 DEF RowsNamed, TaskOn, Starting
  <2>3. Agrees(n)'
    BY <1>1, <1>2, <2>2 DEF Agrees, Runs, Skill, local
  <2>4. \A q \in Process : HealthOn(q, n)' => HealthClaim(q)'
    BY <2>1 DEF HealthClaim
  <2>5. \A q \in RowsNamed(n) : rows[q].status = "enabled" => Packaged(Skill(q))' /\ n \in wanted'
    BY <1>1, <1>2 DEF Orderly, Packaged, Skill
  <2>6. \A q \in RowsNamed(n)' : rows'[q].status = "enabled" => Packaged(Skill(q))' /\ n \in wanted'
    BY <1>1, <2>2, <2>5
  <2>7. ~Enabling(n)
    BY <1>2 DEF Enabling
  <2> QED BY <1>1, <1>2, <2>1, <2>2, <2>3, <2>4, <2>6, <2>7 DEF Orderly, local
<1> QED BY <1>1, <1>3, <1>4, <1>5, Assemble

\* A restart under way works on its name alone.
LEMMA RestartAlone ==
    ASSUME IInv, MInv, OInv, Serial, NEW p \in Process,
           health[p].pc \in {"fetch", "off", "on"}, NEW n, n = health[p].name
    PROVE  /\ n \in Name
           /\ HealthOn(p, n) /\ HealthClaim(p) /\ Orderly(n) /\ n \in wanted
           /\ \A u \in Task : ~TaskOn(u, n)
           /\ life[p].phase = "running" /\ \A q \in Process \ {p} : ~HealthOn(q, n)
           /\ \A q \in Process : (q = p /\ life[q].phase = "running") \/ life[q].phase = "down"
           /\ \A m \in Name \ {n} : ~HealthOn(p, m)
           /\ ~Enabling(n)
<1>1. n \in Name /\ HealthOn(p, n)
  BY Checked DEF IInv, HealthOn
<1>2. Orderly(n) /\ HealthClaim(p) /\ \A u \in Task : ~TaskOn(u, n)
  BY <1>1 DEF OInv, Orderly
<1>3. ~Enabling(n)
  BY <1>2 DEF Enabling
<1>4. n \in wanted
  BY <1>2, <1>3 DEF Orderly
<1>5. life[p].phase = "running" /\ Lone(p)
  BY UpAlone DEF MInv, Awake
<1>6. \A q \in Process : (q = p /\ life[q].phase = "running") \/ life[q].phase = "down"
  BY <1>5 DEF Lone
<1>7. \A q \in Process : ~HealthOn(q, n) \/ q = p
  BY <1>6 DEF MInv, Awake, HealthOn
<1> QED BY <1>1, <1>2, <1>3, <1>4, <1>5, <1>6, <1>7 DEF HealthOn

LEMMA OrderRestart ==
    ASSUME IInv, IInv', MInv, OInv, Serial', NEW p \in Process, Restart(p)
    PROVE  OInv'
<1>0. PICK n \in Name : n = health[p].name
  BY Checked DEF Restart, IInv
<1>1. health[p].pc = "fetch" /\ UNCHANGED <<rows, packages, task, life, wanted>>
  BY DEF Restart
<1>2. Serial
  BY DEF Restart, IInv, Rest
<1>3. /\ HealthOn(p, n) /\ HealthClaim(p) /\ Orderly(n) /\ n \in wanted
      /\ \A u \in Task : ~TaskOn(u, n)
      /\ \A q \in Process : (q = p /\ life[q].phase = "running") \/ life[q].phase = "down"
      /\ life[p].phase = "running" /\ \A q \in Process \ {p} : ~HealthOn(q, n)
      /\ \A m \in Name \ {n} : ~HealthOn(p, m)
  BY <1>0, <1>1, <1>2, RestartAlone
<1>4. Fresh'
  BY <1>1, <1>2 DEF OInv, Fresh
<1>5. RowsNamed(n)' = RowsNamed(n) /\ (\A u \in Task : ~TaskOn(u, n)') /\ Starting(n)'
  BY <1>1, <1>3 DEF RowsNamed, TaskOn, Starting
<1>6. \A q \in RowsNamed(n)' : rows'[q].status = "enabled" => Packaged(Skill(q))' /\ n \in wanted'
  <2>1. \A q \in RowsNamed(n) : rows[q].status = "enabled" => Packaged(Skill(q))' /\ n \in wanted'
    BY <1>1, <1>3 DEF Orderly, Packaged, Skill
  <2> QED BY <1>1, <1>5, <2>1
<1>7. CASE NextContainer(p) /\ UNCHANGED <<docker, local, upset>>
  <2>1. \A m \in Name \ {n} : Same(m)
    BY <1>1, <1>3, <1>7, Unchanged, NextContainerLocal DEF Same, IInv
  <2>2. \A q \in Process : ~HealthOn(q, n)' /\ health'[q].todo = health[q].todo
    BY <1>3, <1>7 DEF NextContainer, Resting, HealthOn, IInv, Checks
  <2>3. Agrees(n)'
    <3>1. Agrees(n)
      BY <1>1, <1>3 DEF Orderly, Undisturbed
    <3> QED BY <1>1, <1>5, <1>7, <3>1 DEF Agrees, Runs, Skill, local
  <2>4. Orderly(n)'
    BY <1>1, <1>3, <1>5, <1>6, <1>7, <2>2, <2>3 DEF Orderly, local
  <2> QED BY <1>2, <1>4, <2>1, <2>4, Assemble
<1>8. ASSUME NEW r \in RowsNamed(n), DisablePart(p, n),
             health' = [health EXCEPT ![p].pc = "off", ![p].skill = Skill(r)]
      PROVE  OInv'
  <2>0. /\ health'[p].pc = "off" /\ health'[p].skill = Skill(r) /\ health'[p].name = n
        /\ health'[p].todo = health[p].todo
        /\ \A q \in Process \ {p} : health'[q] = health[q]
    <3>1. /\ health[p] \in HealthRecord
          /\ health' = [health EXCEPT ![p] = [health[p] EXCEPT !.pc = "off", !.skill = Skill(r)]]
      BY <1>8 DEF IInv, Checks
    <3> QED BY <1>0, <3>1 DEF HealthRecord, IInv, Checks
  <2>1. \A m \in Name \ {n} : Same(m)
    <3>1. \A m \in Name \ {n} : SameHealth(m)
      BY <1>3, <2>0 DEF SameHealth, HealthOn
    <3> QED BY <1>1, <1>8, <3>1, Unchanged, DisablePartLocal DEF Same, IInv
  <2>2. /\ Stopped(n)'
        /\ \A q \in Process : life'[q].phase # "down" => (n \in docker' <=> n \in containers'[q])
    <3>1. life[p].phase # "down"
      BY <1>3
    <3> QED BY <1>1, <1>2, <1>3, <1>8, <3>1, DisablePartHere DEF Orderly, IInv
  <2>3. Skill(r).name = n /\ Skill(r) = Skill(r)' /\ Skill(r).row = r /\ r \in DOMAIN rows'
    BY <1>1 DEF RowsNamed, Skill
  <2>4. \A q \in Process : HealthOn(q, n)' => HealthClaim(q)'
    <3>1. HealthClaim(p)'
      BY <1>3, <2>0, <2>2, <2>3 DEF HealthClaim, Held
    <3> QED BY <1>3, <2>0, <3>1 DEF HealthOn
  <2>5. ~Undisturbed(n)'
    BY <2>0 DEF Undisturbed, HealthOn
  <2>6. Orderly(n)'
    BY <1>1, <1>3, <1>5, <1>6, <2>2, <2>4, <2>5 DEF Orderly, Stopped
  <2> QED BY <1>2, <1>4, <2>1, <2>6, Assemble
<1> QED BY <1>0, <1>7, <1>8 DEF Restart

LEMMA OrderRestarted ==
    ASSUME IInv, IInv', MInv, OInv, Serial', NEW p \in Process, Restarted(p)
    PROVE  OInv'
<1>0. PICK s \in Loaded, n \in Name : s = health[p].skill /\ n = s.name /\ n = health[p].name
  BY Checked DEF Restarted, IInv, Checks
<1>1. /\ health[p].pc = "off" /\ Serial /\ StatusByName(n, "disabled")
      /\ UNCHANGED <<packages, task, life, wanted>>
  BY <1>0 DEF Restarted
<1>2. /\ HealthOn(p, n) /\ HealthClaim(p) /\ Orderly(n) /\ n \in wanted
      /\ \A u \in Task : ~TaskOn(u, n)
      /\ \A q \in Process : (q = p /\ life[q].phase = "running") \/ life[q].phase = "down"
      /\ life[p].phase = "running" /\ \A q \in Process \ {p} : ~HealthOn(q, n)
      /\ \A m \in Name \ {n} : ~HealthOn(p, m)
  BY <1>0, <1>1, RestartAlone
<1>3. /\ RowsNamed(n)' = RowsNamed(n) /\ DOMAIN rows' = DOMAIN rows
      /\ \A r \in RowsNamed(n) : rows'[r].status = "disabled" /\ Skill(r)' = Skill(r)
  BY <1>1, StatusSet DEF Status, IInv
<1>4. Held(s) /\ Stopped(n) /\ s.row \in RowsNamed(n) /\ Held(s)'
  <2>1. Held(s) /\ Stopped(n)
    BY <1>0, <1>1, <1>2 DEF HealthClaim
  <2>2. s.row \in RowsNamed(n)
    BY <1>0, <2>1, HeldRow
  <2> QED BY <1>3, <2>1, <2>2 DEF Held
<1>5. Fresh'
  BY <1>1, <1>3 DEF OInv, Fresh
<1>6. (\A u \in Task : ~TaskOn(u, n)') /\ Starting(n)'
  BY <1>1, <1>2 DEF TaskOn, Starting
<1>7. CASE EnablePart(p, s) /\ Moves(p, "on")
  <2>0. /\ health'[p].pc = "on" /\ health'[p].skill = s /\ health'[p].name = n
        /\ \A q \in Process \ {p} : health'[q] = health[q]
    BY <1>0, <1>7 DEF Moves, IInv, Checks, HealthRecord
  <2>1. \A m \in Name \ {n} : Same(m)
    BY <1>0, <1>1, <1>7, Unchanged, MovesLocal, StatusByNameLocal, EnablePartLocal DEF Same, IInv
  <2>2. /\ Packaged(s)' /\ Runs(p, s)'
        /\ \A q \in Process : life'[q].phase # "down" => (n \in docker' <=> n \in containers'[q])
    <3>1. life[p].phase # "down"
      BY <1>2
    <3>2. \A q \in Process : life[q].phase # "down" => (n \in docker <=> n \in containers[q])
      BY <1>2 DEF Orderly
    <3>3. UNCHANGED life
      BY <1>1
    <3>4. /\ Packaged(s) /\ Runs(p, s)'
          /\ \A q \in Process : life[q].phase # "down" => (n \in docker' <=> n \in containers'[q])
      <4>1. Memory /\ Serial /\ EnablePart(p, s) /\ n = s.name
        BY <1>0, <1>1, <1>7 DEF IInv
      <4> QED BY <3>1, <3>2, <4>1, EnablePartHere
    <3> QED BY <1>1, <3>3, <3>4 DEF Packaged
  <2>3. \A q \in Process : HealthOn(q, n)' => HealthClaim(q)'
    <3>1. HealthClaim(p)'
      BY <1>4, <2>0, <2>2 DEF HealthClaim
    <3> QED BY <1>2, <2>0, <3>1 DEF HealthOn
  <2>4. ~Undisturbed(n)'
    BY <2>0 DEF Undisturbed, HealthOn
  <2>5. Orderly(n)'
    BY <1>1, <1>2, <1>3, <1>4, <1>6, <2>2, <2>3, <2>4 DEF Orderly
  <2> QED BY <1>1, <1>5, <2>1, <2>5, Assemble
<1>8. CASE EnableFails(p, s) /\ NextContainer(p)
  <2>1. \A m \in Name \ {n} : Same(m)
    BY <1>0, <1>1, <1>2, <1>8, Unchanged, NextContainerLocal, StatusByNameLocal, EnableFailsLocal
       DEF Same, IInv
  <2>2. (\A q \in Process : ~HealthOn(q, n)') /\ UNCHANGED <<docker, containers>>
    BY <1>2, <1>8 DEF NextContainer, Resting, HealthOn, IInv, Checks, EnableFails
  <2>3. Agrees(n)'
    BY <1>3, <1>4, <2>2 DEF Agrees, Stopped
  <2>4. Orderly(n)'
    BY <1>1, <1>2, <1>3, <1>4, <1>6, <2>2, <2>3 DEF Orderly
  <2> QED BY <1>1, <1>5, <2>1, <2>4, Assemble
<1> QED BY <1>0, <1>7, <1>8 DEF Restarted

LEMMA OrderMarkEnabled ==
    ASSUME IInv, IInv', MInv, OInv, Serial', NEW p \in Process, MarkEnabled(p)
    PROVE  OInv'
<1>0. PICK s \in Loaded, n \in Name : s = health[p].skill /\ n = s.name /\ n = health[p].name
  BY Checked DEF MarkEnabled, IInv, Checks
<1>1. /\ health[p].pc = "on" /\ Serial /\ StatusById(s.row, "enabled") /\ NextContainer(p)
      /\ UNCHANGED <<packages, docker, local, task, life, wanted>>
  BY <1>0 DEF MarkEnabled
<1>2. /\ HealthOn(p, n) /\ HealthClaim(p) /\ Orderly(n) /\ n \in wanted
      /\ \A u \in Task : ~TaskOn(u, n)
      /\ \A q \in Process : (q = p /\ life[q].phase = "running") \/ life[q].phase = "down"
      /\ life[p].phase = "running" /\ \A q \in Process \ {p} : ~HealthOn(q, n)
      /\ \A m \in Name \ {n} : ~HealthOn(p, m)
  BY <1>0, <1>1, RestartAlone
<1>3. Held(s) /\ Packaged(s) /\ Runs(p, s) /\ RowsNamed(n) = {s.row}
  <2>1. Held(s) /\ Packaged(s) /\ Runs(p, s)
    BY <1>0, <1>1, <1>2 DEF HealthClaim
  <2> QED BY <1>0, <1>2, <2>1, HeldRow DEF Orderly
<1>4. /\ RowsNamed(n)' = {s.row} /\ DOMAIN rows' = DOMAIN rows
      /\ rows'[s.row].status = "enabled" /\ Skill(s.row)' = s
  BY <1>1, <1>3, StatusSet DEF Status, IInv, Held
<1>5. \A m \in Name \ {n} : Same(m)
  <2>1. \A m \in Name \ {n} : SameRows(m)
    BY <1>0, <1>1, <1>3, StatusByIdLocal DEF RowsNamed
  <2> QED BY <1>1, <1>2, <2>1, Unchanged, NextContainerLocal DEF Same, IInv
<1>6. Fresh'
  BY <1>1, <1>4 DEF OInv, Fresh
<1>7. Orderly(n)'
  <2>1. (\A u \in Task : ~TaskOn(u, n)') /\ Starting(n)'
    BY <1>1, <1>2 DEF TaskOn, Starting
  <2>2. \A q \in Process : ~HealthOn(q, n)'
    BY <1>1, <1>2 DEF NextContainer, Resting, HealthOn, IInv, Checks
  <2>3. Agrees(n)' /\ Packaged(s)'
    BY <1>0, <1>1, <1>2, <1>3, <1>4 DEF Agrees, Runs, Packaged, local
  <2> QED BY <1>1, <1>2, <1>4, <2>1, <2>2, <2>3 DEF Orderly, local
<1> QED BY <1>1, <1>5, <1>6, <1>7, Assemble

-----------------------------------------------------------------------------
\* The lifespan of the process.

\* Nobody works in a process that does not serve.
LEMMA NobodyWorks ==
    ASSUME IInv, MInv, NEW p \in Process, life[p].phase # "running",
           \A q \in Process \ {p} : life[q].phase = "down"
    PROVE  /\ \A t \in Task : task[t].pc = "idle"
           /\ \A q \in Process : health[q].pc = "stopped"
           /\ \A n \in Name : ~Enabling(n) /\ (\A t \in Task : ~TaskOn(t, n))
                                 /\ \A q \in Process : ~HealthOn(q, n)
<1>1. \A q \in Process : life[q].phase # "running"
  OBVIOUS
<1>2. \A t \in Task : task[t].pc = "idle"
  BY <1>1, AtWork DEF MInv, Awake, IInv
<1>3. \A q \in Process : health[q].pc = "stopped"
  BY <1>1 DEF MInv, Awake
<1> QED BY <1>1, <1>2, <1>3 DEF TaskOn, HealthOn, Enabling

LEMMA OrderBoot ==
    ASSUME IInv, IInv', MInv, OInv, Serial', NEW p \in Process, Boot(p)
    PROVE  OInv'
<1>1. /\ life[p].phase = "down" /\ docker' = {}
      /\ life' = [life EXCEPT ![p] = Living("startup",
                   {Skill(r) : r \in {q \in DOMAIN rows : rows[q].status = "enabled"}}, {})]
      /\ UNCHANGED <<rows, packages, local, task, health, wanted>> /\ Serial
  BY DEF Boot, IInv, Rest
<1>0. \A q \in Process : life[q].phase = "down"
  BY DEF Boot, IInv, Rest
<1>2. /\ \A n \in Name : ~Enabling(n) /\ (\A t \in Task : ~TaskOn(t, n))
                                 /\ \A q \in Process : ~HealthOn(q, n)
      /\ \A q \in Process : containers[q] = {}
  BY <1>0, <1>1, NobodyWorks DEF MInv, Booted
<1>3. /\ \A q \in Process \ {p} : life'[q].phase = "down"
      /\ life'[p].phase = "startup" /\ life'[p].skill = NoSkill
      /\ life'[p].todo = {Skill(r) : r \in {q \in DOMAIN rows : rows[q].status = "enabled"}}
  BY <1>0, <1>1 DEF Living, IInv, Lives
<1>4. Fresh'
  BY <1>1 DEF OInv, Fresh
<1>5. ASSUME NEW n \in Name PROVE Orderly(n)'
  <2>1. Orderly(n)
    BY <1>1 DEF OInv
  <2>2. /\ \A t \in Task : ~TaskOn(t, n)'
        /\ \A q \in Process : ~HealthOn(q, n)'
        /\ RowsNamed(n)' = RowsNamed(n)
        /\ \A q \in Process : containers'[q] = {}
        /\ \A s : Held(s)' = Held(s)
        /\ \A r : Skill(r)' = Skill(r)
    BY <1>1, <1>2 DEF TaskOn, HealthOn, RowsNamed, local, Held, Skill
  <2>3. ~Undisturbed(n)'
    BY <1>3 DEF Undisturbed
  <2>4. Starting(n)'
    <3>1. \A s \in life'[p].todo : Held(s) /\ rows[s.row].status = "enabled"
      BY <1>3 DEF Held, Skill
    <3>2. \A r \in RowsNamed(n) : rows[r].status = "enabled" => Skill(r) \in life'[p].todo
      BY <1>3 DEF RowsNamed
    <3>3. \A r \in RowsNamed(n)' : rows'[r].status = "enabled" => Skill(r)' \in life'[p].todo
      BY <1>1, <2>2, <3>2
    <3>4. \A q \in Process : life'[q].phase = "startup" => q = p
      BY <1>3
    <3> QED BY <1>1, <1>3, <2>2, <3>1, <3>3, <3>4 DEF Starting
  <2>5. \A r \in RowsNamed(n) : rows[r].status = "enabled" => Packaged(Skill(r))' /\ n \in wanted'
    BY <1>1, <2>1 DEF Orderly, Packaged, Skill
  <2>6. \A r \in RowsNamed(n)' : rows'[r].status = "enabled" => Packaged(Skill(r))' /\ n \in wanted'
    BY <1>1, <2>2, <2>5
  <2> QED BY <1>1, <1>2, <2>1, <2>2, <2>3, <2>4, <2>6 DEF Orderly
<1> QED BY <1>4, <1>5 DEF OInv

LEMMA OrderStartOne ==
    ASSUME IInv, IInv', MInv, OInv, Serial',
           NEW p \in Process, NEW s \in life[p].todo, StartOne(p, s)
    PROVE  OInv'
<1>0. s \in Loaded /\ \E n \in Name : n = s.name
  BY Lived DEF IInv, Loaded
<1>1. PICK n \in Name : n = s.name
  BY <1>0
<1>2. /\ life[p].phase = "startup" /\ life[p].skill = NoSkill /\ Serial /\ EnablePart(p, s)
      /\ life' = [life EXCEPT ![p].todo = @ \ {s}, ![p].skill = s]
      /\ UNCHANGED <<rows, packages, task, health, wanted>>
  BY DEF StartOne, IInv, Rest
<1>3. /\ \A t \in Task : ~TaskOn(t, n)
      /\ \A q \in Process : (q = p \/ life[q].phase = "down") /\ ~HealthOn(q, n)
      /\ Orderly(n)
  BY <1>2, NobodyWorks, UpAlone DEF OInv, Lone
<1>4. Held(s) /\ rows[s.row].status = "enabled" /\ RowsNamed(n) = {s.row}
      /\ Packaged(s) /\ n \in wanted
  <2>1. Held(s) /\ rows[s.row].status = "enabled"
    BY <1>1, <1>2, <1>3 DEF Orderly, Starting
  <2>2. RowsNamed(n) = {s.row} /\ s = Skill(s.row)
    BY <1>1, <1>3, <2>1, HeldRow DEF Orderly, Held
  <2> QED BY <1>3, <2>1, <2>2 DEF Orderly
<1>5. /\ \A q \in Process \ {p} : life'[q] = life[q] /\ life[q].phase = "down"
      /\ life'[p].phase = "startup" /\ life'[p].skill = s /\ life'[p].todo = life[p].todo \ {s}
  BY <1>2, <1>3 DEF IInv, Lives, LifeRecord
<1>6. \A m \in Name \ {n} : Same(m)
  <2>1. \A m \in Name \ {n} : SameLife(m)
    <3>1. \A q \in Loaded : q.name # n => q # s /\ (q.name \in Name => q # NoSkill)
      BY <1>1 DEF NoSkill
    <3> QED BY <1>2, <1>3, <1>5, <3>1 DEF SameLife
  <2> QED BY <1>0, <1>1, <1>2, <2>1, Unchanged, EnablePartLocal DEF Same, IInv
<1>7. Fresh'
  BY <1>2 DEF OInv, Fresh
<1>8. Orderly(n)'
  <2>1. /\ \A t \in Task : ~TaskOn(t, n)'
        /\ \A q \in Process : ~HealthOn(q, n)'
        /\ RowsNamed(n)' = {s.row} /\ Skill(s.row)' = s /\ Held(s)'
    BY <1>2, <1>3, <1>4 DEF TaskOn, HealthOn, RowsNamed, Skill, Held
  <2>2. /\ Runs(p, s)' /\ Packaged(s)'
        /\ \A q \in Process : life'[q].phase # "down" => (n \in docker' <=> n \in containers'[q])
    <3>1. life[p].phase # "down"
      BY <1>2
    <3>2. \A q \in Process : life[q].phase # "down" => (n \in docker <=> n \in containers[q])
      BY <1>3 DEF Orderly
    <3>3. \A q \in Process : life'[q].phase = life[q].phase
      BY <1>2, <1>5
    <3> QED BY <1>0, <1>1, <1>2, <3>1, <3>2, <3>3, EnablePartHere DEF IInv, Packaged
  <2>3. ~Undisturbed(n)'
    BY <1>5 DEF Undisturbed
  <2>4. Starting(n)'
    <3>1. \A q \in life'[p].todo \cup ({life'[p].skill} \ {NoSkill}) :
              q.name = n => Held(q)' /\ rows'[q.row].status = "enabled"
      <4>1. \A q \in life[p].todo : q.name = n => Held(q) /\ rows[q.row].status = "enabled"
        BY <1>2, <1>3 DEF Orderly, Starting
      <4> QED BY <1>2, <1>4, <1>5, <2>1, <4>1 DEF Held, Skill
    <3>2. Runs(p, life[p].skill)'
      BY <1>5, <2>2 DEF Runs
    <3>3. \E r \in RowsNamed(n)' : rows'[r].status = "enabled"
      BY <1>2, <1>4, <2>1
    <3>4. \A q \in Process : life'[q].phase = "startup" => q = p
      BY <1>5
    <3>5. Skill(s.row)' = s
      BY <2>1
    <3> QED BY <2>1, <2>2, <3>1, <3>2, <3>3, <3>4, <3>5 DEF Starting
  <2> QED BY <1>2, <1>3, <1>4, <2>1, <2>2, <2>3, <2>4 DEF Orderly
<1> QED BY <1>2, <1>6, <1>7, <1>8, Assemble

LEMMA OrderStartedOne ==
    ASSUME IInv, IInv', MInv, OInv, Serial', NEW p \in Process, StartedOne(p)
    PROVE  OInv'
<1>0. PICK s \in Loaded, n \in Name : s = life[p].skill /\ n = s.name
  BY Lived DEF StartedOne, IInv, Loaded
<1>1. /\ life[p].phase = "startup" /\ s # NoSkill /\ Serial /\ StatusById(s.row, "enabled")
      /\ life' = [life EXCEPT ![p].skill = NoSkill]
      /\ UNCHANGED <<packages, docker, local, task, health, wanted>>
  BY <1>0 DEF StartedOne, IInv, Rest
<1>2. /\ \A t \in Task : ~TaskOn(t, n)
      /\ \A q \in Process : (q = p \/ life[q].phase = "down") /\ ~HealthOn(q, n)
      /\ Orderly(n)
  BY <1>1, NobodyWorks, UpAlone DEF OInv, Lone
<1>3. Held(s) /\ rows[s.row].status = "enabled" /\ RowsNamed(n) = {s.row} /\ Runs(p, s)
  <2>1. Held(s) /\ rows[s.row].status = "enabled" /\ Runs(p, s)
    BY <1>0, <1>1, <1>2 DEF Orderly, Starting
  <2> QED BY <1>0, <1>2, <2>1, HeldRow DEF Orderly
<1>4. DOMAIN rows' = DOMAIN rows /\ \A r \in DOMAIN rows : rows'[r] = rows[r]
  <2>1. /\ s.row \in DOMAIN rows /\ rows[s.row] \in RowRecord
        /\ rows' = [rows EXCEPT ![s.row] = [rows[s.row] EXCEPT !.status = "enabled"]]
    BY <1>1, <1>3 DEF StatusById, Held, IInv, Table
  <2>2. [rows[s.row] EXCEPT !.status = "enabled"] = rows[s.row]
    BY <1>3, <2>1 DEF RowRecord
  <2> QED BY <2>1, <2>2
<1>5. /\ \A q \in Process \ {p} : life'[q] = life[q] /\ life[q].phase = "down"
      /\ life'[p].phase = "startup" /\ life'[p].skill = NoSkill /\ life'[p].todo = life[p].todo
  BY <1>1, <1>2 DEF IInv, Lives, LifeRecord
<1>6. \A m \in Name \ {n} : Same(m)
  <2>1. \A m \in Name \ {n} : SameLife(m)
    <3>1. \A q \in Loaded : q.name # n => q # s /\ (q.name \in Name => q # NoSkill)
      BY <1>0 DEF NoSkill
    <3> QED BY <1>0, <1>1, <1>2, <1>5, <3>1 DEF SameLife
  <2>2. \A m \in Name \ {n} : SameRows(m)
    BY <1>4 DEF SameRows, RowsNamed
  <2> QED BY <1>1, <2>1, <2>2, Unchanged DEF Same
<1>7. Fresh'
  BY <1>1, <1>4 DEF OInv, Fresh
<1>8. Orderly(n)'
  <2>1. /\ \A t \in Task : ~TaskOn(t, n)'
        /\ \A q \in Process : ~HealthOn(q, n)'
        /\ RowsNamed(n)' = {s.row} /\ Skill(s.row)' = s
    BY <1>1, <1>2, <1>3, <1>4 DEF TaskOn, HealthOn, RowsNamed, Skill, Held
  <2>2. Runs(p, s)'
    BY <1>1, <1>3 DEF Runs, local
  <2>3. ~Undisturbed(n)'
    BY <1>5 DEF Undisturbed
  <2>4. Starting(n)'
    <3>1. \A q \in life'[p].todo : q.name = n => Held(q)' /\ rows'[q.row].status = "enabled"
      <4>1. \A q \in life[p].todo : q.name = n => Held(q) /\ rows[q.row].status = "enabled"
        BY <1>1, <1>2 DEF Orderly, Starting
      <4> QED BY <1>4, <1>5, <4>1 DEF Held, Skill
    <3>3. \E r \in RowsNamed(n)' : rows'[r].status = "enabled"
      BY <1>3, <1>4, <2>1 DEF Held
    <3>4. \A q \in Process : life'[q].phase = "startup" => q = p
      BY <1>5
    <3> QED BY <1>5, <2>1, <2>2, <3>1, <3>3, <3>4 DEF Starting
  <2>5. Packaged(Skill(s.row))' /\ n \in wanted'
    BY <1>1, <1>2, <1>3, <2>1 DEF Orderly, Packaged, Held
  <2> QED BY <1>1, <1>2, <1>3, <2>1, <2>3, <2>4, <2>5 DEF Orderly, local
<1> QED BY <1>1, <1>6, <1>7, <1>8, Assemble

\* Once every enabled skill has been started the table is true.
LEMMA OrderReady ==
    ASSUME IInv, IInv', MInv, OInv, Serial', NEW p \in Process, Ready(p)
    PROVE  OInv'
<1>1. /\ life[p].phase = "startup" /\ life[p].skill = NoSkill /\ life[p].todo = {} /\ Serial
      /\ life' = [life EXCEPT ![p].phase = "running"]
      /\ health' = [health EXCEPT ![p] = Resting("sleep", {})]
      /\ UNCHANGED <<rows, packages, docker, local, task, wanted>>
  BY DEF Ready, IInv, Rest
<1>2. /\ \A n \in Name : ~Enabling(n) /\ (\A t \in Task : ~TaskOn(t, n))
                                 /\ \A q \in Process : ~HealthOn(q, n)
      /\ \A q \in Process \ {p} : life[q].phase = "down"
  BY <1>1, NobodyWorks, UpAlone DEF Lone
<1>3. /\ \A q \in Process \ {p} : life'[q].phase = "down"
      /\ life'[p].phase = "running"
      /\ health'[p].pc = "sleep" /\ health'[p].todo = {} /\ health'[p].name = NoName
  BY <1>1, <1>2 DEF Resting, IInv, Lives, Checks, LifeRecord
<1>4. Fresh'
  BY <1>1 DEF OInv, Fresh
<1>5. ASSUME NEW n \in Name PROVE Orderly(n)'
  <2>1. Orderly(n)
    BY <1>1 DEF OInv
  <2>2. /\ \A t \in Task : ~TaskOn(t, n)'
        /\ \A q \in Process : ~HealthOn(q, n)'
        /\ RowsNamed(n)' = RowsNamed(n)
    BY <1>1, <1>2, <1>3 DEF TaskOn, HealthOn, RowsNamed
  <2>3. Agrees(n)
    BY <1>1, <1>2, <2>1 DEF Orderly, Starting, Agrees
  <2>4. Agrees(n)'
    BY <1>1, <2>2, <2>3 DEF Agrees, Runs, Skill, local
  <2>5. Starting(n)'
    BY <1>3 DEF Starting
  <2>6. \A r \in RowsNamed(n) : rows[r].status = "enabled" => Packaged(Skill(r))' /\ n \in wanted'
    BY <1>1, <2>1 DEF Orderly, Packaged, Skill
  <2>7. \A r \in RowsNamed(n)' : rows'[r].status = "enabled" => Packaged(Skill(r))' /\ n \in wanted'
    BY <1>1, <2>2, <2>6
  <2>8. \A q \in Process :
           n \in containers'[q] \cup health'[q].todo \cup {health'[q].name} => n \in wanted'
    BY <1>1, <1>2, <1>3, <2>1 DEF Orderly, local
  <2>9. \A q \in Process : life'[q].phase # "down" => (n \in docker' <=> n \in containers'[q])
    BY <1>1, <1>2, <2>1 DEF Orderly, local
  <2> QED BY <1>1, <2>1, <2>2, <2>4, <2>5, <2>7, <2>8, <2>9 DEF Orderly, local
<1> QED BY <1>4, <1>5 DEF OInv

\* A status that a cancelled restart was writing is one it may write.
LEMMA OrderShutdown ==
    ASSUME IInv, IInv', MInv, OInv, Serial', NEW p \in Process, Shutdown(p)
    PROVE  OInv'
<1>1. /\ life[p].phase = "running" /\ Serial /\ \A t \in Task : task[t].proc # p
      /\ health' = [health EXCEPT ![p] = Resting("stopped", {})]
      /\ life' = [life EXCEPT ![p] = Living("stopping", {}, containers[p] \cup tools[p])]
      /\ UNCHANGED <<packages, docker, local, task, wanted>>
  BY DEF Shutdown, IInv, Rest
<1>2. Lone(p)
  BY <1>1, UpAlone
<1>3. \A t \in Task : task[t].pc = "idle"
  BY <1>1, <1>2, AtWork DEF IInv, MInv, Awake, Lone
<1>4. /\ \A q \in Process \ {p} : life'[q].phase = "down" /\ health'[q] = health[q]
      /\ life'[p].phase = "stopping"
      /\ health'[p].pc = "stopped" /\ health'[p].todo = {} /\ health'[p].name = NoName
  BY <1>1, <1>2 DEF Resting, Living, IInv, Lives, Checks, Lone
<1>5. /\ DOMAIN rows' = DOMAIN rows
      /\ \A n \in Name : RowsNamed(n)' = RowsNamed(n)
      /\ \A n \in Name : \A r \in RowsNamed(n) :
            /\ Skill(r)' = Skill(r)
            /\ rows'[r].status = "enabled" =>
                  rows[r].status = "enabled" \/ (Packaged(Skill(r)) /\ n \in wanted)
  <2>1. CASE UNCHANGED rows
    BY <2>1 DEF RowsNamed, Skill
  <2>2. CASE health[p].pc = "off" /\ StatusByName(health[p].name, "disabled")
    BY <2>2 DEF StatusByName, RowsNamed, Skill, IInv, Table, RowRecord
  <2>3. CASE health[p].pc = "on" /\ StatusById(health[p].skill.row, "enabled")
    <3>0. PICK s \in Loaded, n \in Name : s = health[p].skill /\ n = s.name /\ n = health[p].name
      BY <2>3, Checked DEF IInv, Checks
    <3>1. Held(s) /\ Packaged(s) /\ n \in wanted /\ RowsNamed(n) = {s.row} /\ s = Skill(s.row)
      <4>1. HealthClaim(p) /\ Orderly(n) /\ n \in wanted
        BY <1>1, <2>3, <3>0, RestartAlone
      <4> QED BY <2>3, <3>0, <4>1, HeldRow DEF HealthClaim, Orderly, Held
    <3>2. /\ RowsNamed(n)' = RowsNamed(n) /\ DOMAIN rows' = DOMAIN rows
          /\ \A r \in RowsNamed(n) : Skill(r)' = Skill(r)
      BY <2>3, <3>0, <3>1, StatusSet DEF Status, IInv
    <3>3. \A m \in Name \ {n} : SameRows(m)
      BY <2>3, <3>0, <3>1, StatusByIdLocal DEF RowsNamed
    <3>4. ASSUME NEW m \in Name
          PROVE  /\ RowsNamed(m)' = RowsNamed(m)
                 /\ \A r \in RowsNamed(m) :
                       /\ Skill(r)' = Skill(r)
                       /\ rows'[r].status = "enabled" =>
                             rows[r].status = "enabled" \/ (Packaged(Skill(r)) /\ m \in wanted)
      BY <3>1, <3>2, <3>3 DEF SameRows, Skill
    <3> QED BY <3>2, <3>4
  <2> QED BY <2>1, <2>2, <2>3 DEF Shutdown
<1>6. Fresh'
  BY <1>1, <1>5 DEF OInv, Fresh
<1>7. ASSUME NEW n \in Name PROVE Orderly(n)'
  <2>1. Orderly(n) /\ ~Enabling(n)
    BY <1>1, <1>3 DEF OInv, Enabling, TaskOn
  <2>2. /\ \A t \in Task : ~TaskOn(t, n)'
        /\ \A q \in Process : ~HealthOn(q, n)'
        /\ ~Undisturbed(n)' /\ Starting(n)'
    <3>1. \A q \in Process \ {p} : health[q].pc = "stopped"
      BY <1>2 DEF MInv, Awake, Lone
    <3>2. \A q \in Process : ~HealthOn(q, n)'
      BY <1>4, <3>1 DEF HealthOn
    <3> QED BY <1>1, <1>3, <1>4, <3>2 DEF TaskOn, Undisturbed, Starting
  <2>3. \A r \in RowsNamed(n) : rows[r].status = "enabled" => Packaged(Skill(r)) /\ n \in wanted
    BY <2>1 DEF Orderly
  <2>4. \A r \in RowsNamed(n)' : rows'[r].status = "enabled" => Packaged(Skill(r))' /\ n \in wanted'
    BY <1>1, <1>5, <2>3 DEF Packaged
  <2> QED BY <1>1, <1>2, <1>4, <1>5, <2>1, <2>2, <2>4 DEF Orderly, local
<1> QED BY <1>6, <1>7 DEF OInv

LEMMA OrderStopOne ==
    ASSUME IInv, IInv', MInv, OInv, Serial',
           NEW p \in Process, NEW n \in Name, StopOne(p, n)
    PROVE  OInv'
<1>1. /\ life[p].phase = "stopping" /\ Serial /\ DisablePart(p, n)
      /\ life' = [life EXCEPT ![p].names = @ \ {n}, ![p].name = n]
      /\ UNCHANGED <<rows, packages, task, health, wanted>>
  BY DEF StopOne, IInv, Rest
<1>2. /\ \A t \in Task : ~TaskOn(t, n)
      /\ \A q \in Process : (q = p \/ life[q].phase = "down") /\ ~HealthOn(q, n)
      /\ Orderly(n) /\ ~Enabling(n)
  BY <1>1, NobodyWorks, UpAlone DEF OInv, Lone
<1>3. \A q \in Process :
         life'[q].phase = life[q].phase /\ life'[q].todo = life[q].todo /\ life'[q].skill = life[q].skill
  BY <1>1 DEF IInv, Lives, LifeRecord
<1>4. \A m \in Name \ {n} : Same(m)
  <2>1. \A m \in Name \ {n} : SameLife(m)
    BY <1>3 DEF SameLife
  <2> QED BY <1>1, <2>1, Unchanged, DisablePartLocal DEF Same, IInv
<1>5. Fresh'
  BY <1>1 DEF OInv, Fresh
<1>6. Orderly(n)'
  <2>1. /\ \A t \in Task : ~TaskOn(t, n)'
        /\ \A q \in Process : ~HealthOn(q, n)'
        /\ RowsNamed(n)' = RowsNamed(n)
        /\ Starting(n)' /\ ~Undisturbed(n)'
    BY <1>1, <1>2, <1>3 DEF TaskOn, HealthOn, RowsNamed, Starting, Undisturbed
  <2>2. /\ Stopped(n)'
        /\ \A q \in Process : life'[q].phase # "down" => (n \in docker' <=> n \in containers'[q])
    BY <1>1, <1>2, <1>3, DisablePartHere DEF Orderly, IInv
  <2>3. \A r \in RowsNamed(n) : rows[r].status = "enabled" => Packaged(Skill(r))' /\ n \in wanted'
    BY <1>1, <1>2 DEF Orderly, Packaged, Skill
  <2>4. \A r \in RowsNamed(n)' : rows'[r].status = "enabled" => Packaged(Skill(r))' /\ n \in wanted'
    BY <1>1, <2>1, <2>3
  <2> QED BY <1>1, <1>2, <2>1, <2>2, <2>4 DEF Orderly, Stopped
<1> QED BY <1>1, <1>4, <1>5, <1>6, Assemble

LEMMA OrderStoppedOne ==
    ASSUME IInv, IInv', MInv, OInv, Serial', NEW p \in Process, StoppedOne(p)
    PROVE  OInv'
<1>0. PICK n \in Name : n = life[p].name
  BY DEF StoppedOne, IInv, Lives, LifeRecord
<1>1. /\ life[p].phase = "stopping" /\ Serial /\ StatusByName(n, "disabled")
      /\ life' = [life EXCEPT ![p].name = NoName]
      /\ UNCHANGED <<packages, docker, local, task, health, wanted>>
  BY <1>0 DEF StoppedOne, IInv, Rest
<1>2. /\ \A t \in Task : ~TaskOn(t, n)
      /\ \A q \in Process : (q = p \/ life[q].phase = "down") /\ ~HealthOn(q, n)
      /\ Orderly(n) /\ ~Enabling(n)
  BY <1>1, NobodyWorks, UpAlone DEF OInv, Lone
<1>3. \A q \in Process :
         life'[q].phase = life[q].phase /\ life'[q].todo = life[q].todo /\ life'[q].skill = life[q].skill
  BY <1>1 DEF IInv, Lives, LifeRecord
<1>4. \A m \in Name \ {n} : Same(m)
  <2>1. \A m \in Name \ {n} : SameLife(m)
    BY <1>3 DEF SameLife
  <2> QED BY <1>1, <2>1, Unchanged, StatusByNameLocal DEF Same, IInv
<1>5. /\ RowsNamed(n)' = RowsNamed(n) /\ DOMAIN rows' = DOMAIN rows
      /\ \A r \in RowsNamed(n) : rows'[r].status = "disabled"
  BY <1>1, StatusSet DEF Status, IInv
<1>6. Fresh'
  BY <1>1, <1>5 DEF OInv, Fresh
<1>7. Orderly(n)'
  <2>1. /\ \A t \in Task : ~TaskOn(t, n)'
        /\ \A q \in Process : ~HealthOn(q, n)'
        /\ Starting(n)' /\ ~Undisturbed(n)'
    BY <1>1, <1>2, <1>3 DEF TaskOn, HealthOn, Starting, Undisturbed
  <2> QED BY <1>1, <1>2, <1>3, <1>5, <2>1 DEF Orderly, local
<1> QED BY <1>1, <1>4, <1>6, <1>7, Assemble

LEMMA OrderProcessEnds ==
    ASSUME IInv, IInv', MInv, OInv, Serial', NEW p \in Process, life[p].phase # "down", ProcessEnds(p)
    PROVE  OInv'
<1>1. Serial /\ UNCHANGED <<rows, packages, docker, wanted>>
  BY DEF ProcessEnds, IInv, Rest
<1>2. \A q \in Process :
         /\ containers'[q] = {} /\ life'[q].phase = "down"
         /\ health'[q].pc = "stopped" /\ health'[q].todo = {} /\ health'[q].name = NoName
  <2>1. Lone(p) /\ \A q \in Process \ {p} : containers[q] = {}
    BY <1>1, UpAlone
  <2>2. /\ containers'[p] = {} /\ life'[p].phase = "down"
        /\ health'[p].pc = "stopped" /\ health'[p].todo = {} /\ health'[p].name = NoName
        /\ \A q \in Process \ {p} :
              containers'[q] = containers[q] /\ life'[q] = life[q] /\ health'[q] = health[q]
    BY DEF ProcessEnds, Resting, Living, IInv, Memory, Checks, Lives
  <2>3. \A q \in Process \ {p} :
           health[q].pc = "stopped" /\ health[q].todo = {} /\ health[q].name = NoName
    BY <2>1 DEF Lone, MInv, Awake
  <2> QED BY <2>1, <2>2, <2>3 DEF Lone
<1>3. \A t \in Task : task'[t].pc = "idle" /\ (task'[t] = Idle \/ task'[t] = task[t])
  <2>1. \A t \in Task : task[t].pc # "idle" => task[t].proc = p
    BY <1>1, AtWork, UpAlone DEF IInv, MInv, Awake, Lone
  <2>2. Idle.pc = "idle"
    BY DEF Idle
  <2> QED BY <2>1, <2>2 DEF ProcessEnds
<1>4. Fresh'
  <2>1. Idle.op = "none"
    BY DEF Idle
  <2> QED BY <1>1, <1>3, <2>1, FreshKept DEF OInv
<1>5. ASSUME NEW n \in Name PROVE Orderly(n)'
  <2>1. Orderly(n)
    BY <1>1 DEF OInv
  <2>2. /\ \A t \in Task : ~TaskOn(t, n)'
        /\ \A q \in Process : ~HealthOn(q, n)'
        /\ RowsNamed(n)' = RowsNamed(n)
        /\ Starting(n)'
    BY <1>1, <1>2, <1>3 DEF TaskOn, HealthOn, RowsNamed, Starting
  <2>3. Undisturbed(n)' => Agrees(n)'
    BY <1>2 DEF Undisturbed, Agrees
  <2>4. \A r \in RowsNamed(n) : rows[r].status = "enabled" => Packaged(Skill(r))' /\ n \in wanted'
    BY <1>1, <2>1 DEF Orderly, Packaged, Skill
  <2>5. \A r \in RowsNamed(n)' : rows'[r].status = "enabled" => Packaged(Skill(r))' /\ n \in wanted'
    BY <1>1, <2>2, <2>4
  <2> QED BY <1>1, <1>2, <2>1, <2>2, <2>3, <2>5 DEF Orderly
<1> QED BY <1>4, <1>5 DEF OInv

-----------------------------------------------------------------------------
\* The theorems.

\* A table of any content, and nothing running.
LEMMA InitOInv == Init => OInv
<1> SUFFICES ASSUME Init PROVE OInv
  OBVIOUS
<1>1. Table /\ IsInjective([r \in DOMAIN rows |-> rows[r].name])
  <2>1. Table
    BY InitIInv DEF IInv
  <2>2. PICK rs \in SUBSET Row :
           rows \in {f \in [rs -> RowRecord] : IsInjective([r \in rs |-> f[r].name])}
    BY DEF Init
  <2>3. DOMAIN rows = rs
    BY <2>2
  <2> QED BY <2>1, <2>2, <2>3
<1>2. Fresh
  BY DEF Init, Fresh, Idle
<1>3. ASSUME NEW n \in Name PROVE Orderly(n)
  <2>1. /\ \A t \in Task : ~TaskOn(t, n)
        /\ \A q \in Process : ~HealthOn(q, n)
        /\ \A q \in Process : life[q].phase = "down" /\ containers[q] = {}
        /\ \A q \in Process : health[q].todo = {} /\ health[q].name = NoName
    BY DEF Init, TaskOn, Idle, HealthOn, Resting, Living
  <2>2. \A q, r \in RowsNamed(n) : q = r
    BY <1>1 DEF RowsNamed, IsInjective
  <2>3. \A r \in RowsNamed(n) : rows[r].status = "enabled" => Packaged(Skill(r)) /\ n \in wanted
    BY DEF Init, RowsNamed, Packaged, Skill
  <2>4. Starting(n) /\ (Undisturbed(n) => Agrees(n))
    BY <2>1 DEF Starting, Undisturbed, Agrees
  <2> QED BY <2>1, <2>2, <2>3, <2>4 DEF Orderly
<1> QED BY <1>2, <1>3 DEF OInv

\* Every step, of a request, of the health task or of the lifespan, keeps
\* every name in order.
LEMMA StepOInv ==
    IInv /\ IInv' /\ MInv /\ OInv /\ [Next]_vars => OInv'
<1> SUFFICES ASSUME IInv, IInv', MInv, OInv, [Next]_vars, Serial' PROVE OInv'
  BY DEF OInv
<1>1. ASSUME NEW t \in Task, Request(t) PROVE OInv'
  <2>1. ASSUME Created(t) PROVE OInv'
    <3>1. task[t].was \in BOOLEAN
      BY DEF IInv, Tasks, TaskRecord
    <3>2. CASE ~task[t].was
      BY <2>1, <3>2, OrderUploading
    <3>3. CASE task[t].was
      BY <2>1, <3>3, OrderCreated, OrderRolledBack DEF Created
    <3> QED BY <3>1, <3>2, <3>3
  <2>2. ASSUME NEW p \in Process, NEW r \in Row,
               EnableSkill(t, p, r) \/ DisableSkill(t, p, r) \/ DeleteSkill(t, p, r)
        PROVE  OInv'
    BY <2>2, OrderEnable, OrderDisable
  <2>3. ASSUME NEW p \in Process, NEW r \in Row, NEW n \in Name, NEW ty \in Type,
               NEW v \in Version, UploadSkill(t, p, r, n, ty, v)
        PROVE  OInv'
    BY <2>3, OrderUpload
  <2>4. CASE Enabled(t) \/ Disabled(t)
    BY <2>4, OrderEnabled, OrderDisabled
  <2>5. CASE DisabledToDelete(t) \/ Erased(t) \/ NotErased(t)
    BY <2>5, OrderToDelete, OrderErased, OrderNotErased
  <2>6. CASE DisabledToUpload(t) \/ Stored(t) \/ EnabledInUpload(t)
    BY <2>6, OrderUploading
  <2>7. CASE NotStored(t) \/ NotCreated(t) \/ CommitFails(t)
    BY <2>7, OrderRolledBack
  <2>8. CASE Committed(t)
    BY <2>8, OrderCommitted
  <2> QED
    BY <1>1, <2>1, <2>2, <2>3, <2>4, <2>5, <2>6, <2>7, <2>8 DEF Request
<1>2. ASSUME NEW p \in Process, Health(p) PROVE OInv'
  BY <1>2, OrderScan, OrderProbeFailed, OrderRestart, OrderRestarted, OrderMarkEnabled DEF Health
<1>3. ASSUME NEW p \in Process, Lifespan(p) PROVE OInv'
  BY <1>3, OrderBoot, OrderStartOne, OrderStartedOne, OrderReady, OrderShutdown, OrderStopOne,
     OrderStoppedOne, OrderProcessEnds
  DEF Lifespan, Exit, Crash
<1>4. CASE UNCHANGED vars
  <2>1. \A m \in Name : Same(m)
    BY <1>4, Unchanged DEF vars, Same
  <2> QED BY <1>4, <2>1, FrameName DEF OInv, Fresh, vars
<1> QED BY <1>1, <1>2, <1>3, <1>4 DEF Next

\* The invariant.
LEMMA TableInvariant ==
    Spec => [](IInv /\ MInv /\ OInv)
<1> QED BY InitIInv, StepIInv, InitMInv, StepMInv, InitOInv, StepOInv, PTL DEF Spec

\* What the table calls disabled has neither a
\* container record nor a container once the operations on it are over.
THEOREM DisabledStopped ==
    Spec => []DisabledMeansStopped
<1>1. IInv /\ MInv /\ OInv => DisabledMeansStopped
  <2> SUFFICES ASSUME IInv, MInv, OInv, Serial, NEW p \in Process, NEW r \in DOMAIN rows,
                      Quiet(p, rows[r].name), rows[r].status = "disabled"
               PROVE  rows[r].name \notin containers[p] \cup docker
    BY DEF DisabledMeansStopped
  <2>1. PICK n \in Name : n = rows[r].name
    BY SkillLoaded DEF IInv
  <2>2. Orderly(n) /\ Agrees(n) /\ life[p].phase = "running"
    BY <2>1, BeginAlone DEF Quiet
  <2> QED BY <2>1, <2>2 DEF Orderly, Agrees, RowsNamed
<1> QED BY <1>1, TableInvariant, PTL

\* What the table calls enabled has the body of
\* its current version loaded and, a service, runs with its tools: after
\* enabling, restarts by the health task and restarts of the process.
THEOREM EnabledRuns ==
    Spec => []EnabledMeansRunning
<1>1. IInv /\ MInv /\ OInv => EnabledMeansRunning
  <2> SUFFICES ASSUME IInv, MInv, OInv, Serial, NEW p \in Process, NEW r \in DOMAIN rows,
                      Quiet(p, rows[r].name), rows[r].status = "enabled"
               PROVE  /\ content[p][rows[r].name] = rows[r].ver
                      /\ rows[r].type = "service"
                           => rows[r].name \in containers[p] \cap tools[p]
    BY DEF EnabledMeansRunning
  <2>1. PICK n \in Name : n = rows[r].name
    BY SkillLoaded DEF IInv
  <2>2. Agrees(n) /\ r \in RowsNamed(n)
    BY <2>1, BeginAlone DEF Quiet, RowsNamed
  <2>3. Runs(p, Skill(r))
    BY <2>2 DEF Agrees, Quiet
  <2> QED BY <2>3 DEF Runs, Skill
<1> QED BY <1>1, TableInvariant, PTL

\* Every container belongs to a skill of the table
\* and its manager can stop it, across crashes, hot updates and deletions.
THEOREM ContainersOwned ==
    Spec => []NoOrphanContainers
<1>1. IInv /\ MInv /\ OInv => NoOrphanContainers
  <2> SUFFICES ASSUME IInv, MInv, OInv, Serial, NEW p \in Process, NEW n \in docker,
                      Quiet(p, n)
               PROVE  n \in containers[p] /\ RowsNamed(n) # {}
    BY DEF NoOrphanContainers
  <2>1. n \in Name
    BY DEF IInv, Memory
  <2>2. Orderly(n) /\ life[p].phase = "running"
    BY <2>1 DEF OInv, Quiet
  <2> QED BY <2>2 DEF Orderly
<1> QED BY <1>1, TableInvariant, PTL

\* A skill is enabled only while its package is
\* there to be enabled from again.
THEOREM EnabledPackaged ==
    Spec => []EnabledHasPackage
<1>1. IInv /\ MInv /\ OInv => EnabledHasPackage
  <2> SUFFICES ASSUME IInv, OInv, Serial, NEW r \in DOMAIN rows, rows[r].status = "enabled"
               PROVE  <<rows[r].name, rows[r].ver>> \in packages
    BY DEF EnabledHasPackage
  <2>1. rows[r].name \in Name
    BY SkillLoaded DEF IInv
  <2>2. Orderly(rows[r].name) /\ r \in RowsNamed(rows[r].name)
    BY <2>1 DEF OInv, RowsNamed
  <2>3. Packaged(Skill(r))
    BY <2>2 DEF Orderly
  <2> QED BY <2>3 DEF Packaged, Skill
<1> QED BY <1>1, TableInvariant, PTL

\* A skill that was disabled or deleted stays
\* stopped until it is enabled again, but for a check that had it listed.
THEOREM DisabledIsFinal ==
    Spec => []DisabledStaysDisabled
<1>1. IInv /\ MInv /\ OInv => DisabledStaysDisabled
  <2> SUFFICES ASSUME IInv, MInv, OInv, Serial, NEW p \in Process, NEW r \in DOMAIN rows,
                      Quiet(p, rows[r].name), rows[r].name \notin wanted
               PROVE  rows[r].name \notin containers[p] \cup tools[p]
    BY DEF DisabledStaysDisabled
  <2>1. PICK n \in Name : n = rows[r].name
    BY SkillLoaded DEF IInv
  <2>2. Orderly(n) /\ \A t \in Task : ~TaskOn(t, n)
    BY <2>1, BeginAlone DEF Quiet
  <2>3. n \notin containers[p]
    BY <2>1, <2>2 DEF Orderly, Enabling
  <2> QED BY <2>1, <2>3 DEF MInv, ToolsHaveContainers
<1> QED BY <1>1, TableInvariant, PTL
=============================================================================
