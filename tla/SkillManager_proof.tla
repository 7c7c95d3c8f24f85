------------------------- MODULE SkillManager_proof -------------------------
(***************************************************************************)
(* Proofs about SkillManager, for any number of processes, rows, names,    *)
(* versions and requests: type correctness, that tools never outlive the   *)
(* record of their container, and that every container a manager holds     *)
(* exists unless a process started while another was up.                   *)
(***************************************************************************)
EXTENDS SkillManager, TLAPS

USE NullAssumption

\* The types of what a step of work on a skill changes.
Table ==
    /\ DOMAIN rows \subseteq Row
    /\ \A r \in DOMAIN rows : rows[r] \in RowRecord

Memory ==
    /\ docker \subseteq Name
    /\ tools \in [Process -> SUBSET Name]
    /\ containers \in [Process -> SUBSET Name]
    /\ content \in [Process -> [Name -> Version \cup {NoVersion}]]

\* Whoever is at work has something to work on: with it, type correctness
\* is inductive.
Tasks ==
    /\ task \in [Task -> TaskRecord]
    /\ \A t \in Task : task[t].pc # "idle" =>
            task[t].skill \in Loaded /\ task[t].proc \in Process

Checks ==
    /\ health \in [Process -> HealthRecord]
    /\ \A p \in Process :
          /\ health[p].pc \in {"probe", "fetch", "off", "on"} => health[p].name \in Name
          /\ health[p].pc \in {"off", "on"} =>
                health[p].skill \in Loaded /\ health[p].skill.name = health[p].name

Lives == life \in [Process -> LifeRecord]

Rest ==
    /\ packages \subseteq Name \X Version
    /\ wanted \subseteq Name
    /\ upset \in BOOLEAN
    /\ crowded \in BOOLEAN

IInv == Table /\ Memory /\ Tasks /\ Checks /\ Lives /\ Rest

\* A part none of whose variables changes stays as it is.
LEMMA Frame ==
    ASSUME IInv
    PROVE  /\ UNCHANGED rows => Table'
           /\ UNCHANGED <<docker, local>> => Memory'
           /\ UNCHANGED task => Tasks'
           /\ UNCHANGED health => Checks'
           /\ UNCHANGED life => Lives'
           /\ UNCHANGED <<packages, wanted, upset, crowded>> => Rest'
           /\ Table' /\ Memory' /\ Tasks' /\ Checks' /\ Lives' /\ Rest' => IInv'
  BY DEF IInv, Table, Memory, Tasks, Checks, Lives, Rest, local

LEMMA SkillLoaded ==
    ASSUME Table
    PROVE  \A r \in DOMAIN rows :
              /\ Skill(r) \in Loaded
              /\ Skill(r).name = rows[r].name
              /\ rows[r].name \in Name
              /\ rows[r].ver \in Version
  BY DEF Table, Skill, Loaded, RowRecord

LEMMA StatusByIdTypes ==
    ASSUME Table, NEW r, NEW s \in Status, StatusById(r, s)
    PROVE  Table'
  BY DEF Table, StatusById, RowRecord

LEMMA StatusByNameTypes ==
    ASSUME Table, NEW n, NEW s \in Status, StatusByName(n, s)
    PROVE  Table'
  BY DEF Table, StatusByName, RowRecord

LEMMA Cached ==
    ASSUME Memory, NEW p \in Process, NEW n \in Name, NEW v \in Version \cup {NoVersion},
           content' = [content EXCEPT ![p][n] = v]
    PROVE  content' \in [Process -> [Name -> Version \cup {NoVersion}]]
  BY DEF Memory

LEMMA EnablePartTypes ==
    ASSUME Memory, NEW p \in Process, NEW s \in Loaded, EnablePart(p, s)
    PROVE  Memory'
<1>1. s.name \in Name /\ s.ver \in Version \cup {NoVersion}
  BY DEF Loaded
<1>2. content' \in [Process -> [Name -> Version \cup {NoVersion}]]
  BY <1>1, Cached DEF EnablePart
<1> QED BY <1>1, <1>2 DEF Memory, EnablePart

LEMMA EnableFailsTypes ==
    ASSUME Memory, NEW p \in Process, NEW s \in Loaded, EnableFails(p, s)
    PROVE  Memory'
<1>1. s.name \in Name /\ s.ver \in Version \cup {NoVersion}
  BY DEF Loaded
<1>2. content' \in [Process -> [Name -> Version \cup {NoVersion}]]
  BY <1>1, Cached DEF EnableFails, Memory
<1> QED BY <1>1, <1>2 DEF Memory, EnableFails

LEMMA DisablePartTypes ==
    ASSUME Memory, NEW p \in Process, NEW n \in Name, DisablePart(p, n)
    PROVE  Memory'
  BY DEF Memory, DisablePart

LEMMA DisableFailsTypes ==
    ASSUME Memory, NEW p \in Process, NEW n \in Name, DisableFails(p, n)
    PROVE  Memory'
  BY DEF Memory, DisableFails

LEMMA AtWork ==
    ASSUME Tasks, NEW t \in Task, task[t].pc # "idle"
    PROVE  /\ task[t].skill \in Loaded
           /\ task[t].skill.row \in Row
           /\ task[t].skill.name \in Name
           /\ task[t].skill.ver \in Version
           /\ task[t].skill.type \in Type
           /\ task[t].proc \in Process
           /\ task[t].old \in Row \cup {NoRow}
  BY DEF Tasks, Loaded, TaskRecord

LEMMA EndsTypes ==
    ASSUME Tasks, NEW t \in Task, Ends(t)
    PROVE  Tasks'
  BY DEF Tasks, Ends, Idle, TaskRecord

LEMMA GoesTypes ==
    ASSUME Tasks, NEW t \in Task, NEW p \in Process, NEW s \in Loaded,
           NEW op \in {"upload", "delete", "enable", "disable"},
           NEW pc \in {"off", "store", "create", "on", "commit", "erase"},
           Goes(t, op, pc, p, s)
    PROVE  Tasks'
  BY DEF Tasks, Goes, Idle, TaskRecord

LEMMA AwaitTypes ==
    ASSUME Tasks, NEW t \in Task, task[t].pc # "idle",
           NEW pc \in {"off", "store", "create", "on", "commit", "erase"},
           Await(t, pc)
    PROVE  Tasks'
<1>1. /\ task[t] \in TaskRecord
      /\ task' = [task EXCEPT ![t] = [task[t] EXCEPT !.pc = pc]]
  BY DEF Tasks, Await
<1>2. /\ [task[t] EXCEPT !.pc = pc] \in TaskRecord
      /\ [task[t] EXCEPT !.pc = pc].skill = task[t].skill
      /\ [task[t] EXCEPT !.pc = pc].proc = task[t].proc
  BY <1>1 DEF TaskRecord
<1> QED BY <1>1, <1>2 DEF Tasks

LEMMA MovesTypes ==
    ASSUME Checks, NEW p \in Process, NEW pc \in {"sleep", "fetch", "on"}, Moves(p, pc),
           pc = "fetch" => health[p].pc = "probe",
           pc = "on" => health[p].pc = "off"
    PROVE  Checks'
<1>1. /\ health[p] \in HealthRecord
      /\ health' = [health EXCEPT ![p] = [health[p] EXCEPT !.pc = pc]]
  BY DEF Checks, Moves
<1>2. /\ [health[p] EXCEPT !.pc = pc] \in HealthRecord
      /\ [health[p] EXCEPT !.pc = pc].pc = pc
      /\ [health[p] EXCEPT !.pc = pc].skill = health[p].skill
      /\ [health[p] EXCEPT !.pc = pc].name = health[p].name
  BY <1>1 DEF HealthRecord
<1> QED BY <1>1, <1>2 DEF Checks

LEMMA NextContainerTypes ==
    ASSUME Checks, NEW p \in Process, NextContainer(p)
    PROVE  Checks'
<1>1. Resting("scan", health[p].todo) \in HealthRecord
  BY DEF Checks, HealthRecord, Resting
<1> QED BY <1>1 DEF Checks, NextContainer, Resting

LEMMA Checked ==
    ASSUME Checks, NEW p \in Process
    PROVE  /\ health[p].todo \subseteq Name
           /\ health[p].pc \in {"probe", "fetch", "off", "on"} => health[p].name \in Name
           /\ health[p].pc \in {"off", "on"} =>
                 health[p].skill \in Loaded /\ health[p].skill.name \in Name
  BY DEF Checks, HealthRecord

LEMMA RestsTypes ==
    ASSUME Checks, NEW p \in Process, NEW pc \in {"stopped", "sleep", "scan"},
           NEW todo \in SUBSET Name,
           health' = [health EXCEPT ![p] = Resting(pc, todo)]
    PROVE  Checks'
<1>1. Resting(pc, todo) \in HealthRecord /\ Resting(pc, todo).pc = pc
  BY DEF HealthRecord, Resting
<1> QED BY <1>1 DEF Checks

LEMMA Lived ==
    ASSUME Lives, NEW p \in Process
    PROVE  /\ life[p] \in LifeRecord
           /\ life[p].todo \subseteq Loaded
           /\ life[p].names \subseteq Name
           /\ life[p].skill # NoSkill => life[p].skill \in Loaded
  BY DEF Lives, LifeRecord

LEMMA LivesOn ==
    ASSUME Lives, NEW p \in Process, NEW k \in LifeRecord, life' = [life EXCEPT ![p] = k]
    PROVE  Lives'
  BY DEF Lives

LEMMA LivingTypes ==
    ASSUME NEW ph \in {"down", "startup", "running", "stopping"},
           NEW todo \in SUBSET Loaded, NEW names \in SUBSET Name
    PROVE  Living(ph, todo, names) \in LifeRecord
  BY DEF Living, LifeRecord

LEMMA InitIInv == Init => IInv
<1> SUFFICES ASSUME Init PROVE IInv
  OBVIOUS
<1>1. Table
  BY DEF Init, Table
<1>6. Rest
  <2>1. packages \subseteq Name \X Version
    BY <1>1, SkillLoaded DEF Init
  <2>2. wanted \subseteq Name
    BY <1>1, SkillLoaded DEF Init
  <2> QED BY <2>1, <2>2 DEF Init, Rest
<1>2. Memory
  BY DEF Init, Memory
<1>3. Tasks
  BY DEF Init, Tasks, Idle, TaskRecord
<1>4. Checks
  BY DEF Init, Checks, Resting, HealthRecord
<1>5. Lives
  BY DEF Init, Lives, Living, LifeRecord
<1> QED BY <1>1, <1>2, <1>3, <1>4, <1>5, <1>6 DEF IInv

\* Every step keeps the types, and whoever is at work knows at what.
LEMMA StepIInv == IInv /\ [Next]_vars => IInv'
<1> SUFFICES ASSUME IInv, [Next]_vars PROVE IInv'
  OBVIOUS
<1> USE DEF IInv
<1>1. ASSUME NEW t \in Task, NEW p \in Process, NEW r \in Row, EnableSkill(t, p, r)
      PROVE  IInv'
  <2>1. Memory'
    BY <1>1, EnablePartTypes, EnableFailsTypes, SkillLoaded DEF EnableSkill, Free
  <2>2. Tasks'
    BY <1>1, EndsTypes, GoesTypes, SkillLoaded DEF EnableSkill, Free
  <2>3. Rest'
    BY <1>1, SkillLoaded DEF EnableSkill, Free, Rest
  <2> QED BY <1>1, <2>1, <2>2, <2>3, Frame DEF EnableSkill
<1>2. ASSUME NEW t \in Task, Enabled(t)
      PROVE  IInv'
  <2>1. Table'
    BY <1>2, StatusByIdTypes, AtWork DEF Enabled, Status
  <2>2. Tasks'
    BY <1>2, EndsTypes, AtWork DEF Enabled
  <2>3. Rest'
    BY <1>2, AtWork DEF Enabled, Rest
  <2> QED BY <1>2, <2>1, <2>2, <2>3, Frame DEF Enabled
<1>3. ASSUME NEW t \in Task, NEW p \in Process, NEW r \in Row, DisableSkill(t, p, r)
      PROVE  IInv'
  <2>1. Memory'
    BY <1>3, DisablePartTypes, DisableFailsTypes, SkillLoaded DEF DisableSkill
  <2>2. Tasks'
    BY <1>3, EndsTypes, GoesTypes, SkillLoaded DEF DisableSkill, Free
  <2>3. Rest'
    BY <1>3, SkillLoaded DEF DisableSkill, Free, Rest
  <2> QED BY <1>3, <2>1, <2>2, <2>3, Frame DEF DisableSkill
<1>4. ASSUME NEW t \in Task, Disabled(t)
      PROVE  IInv'
  <2>1. Table'
    BY <1>4, StatusByNameTypes DEF Disabled, Status
  <2>2. Tasks'
    BY <1>4, EndsTypes DEF Disabled
  <2>3. Rest'
    BY <1>4 DEF Disabled, Rest
  <2> QED BY <1>4, <2>1, <2>2, <2>3, Frame DEF Disabled
<1>5. ASSUME NEW t \in Task, NEW p \in Process, NEW r \in Row, DeleteSkill(t, p, r)
      PROVE  IInv'
  <2>1. Memory'
    BY <1>5, DisablePartTypes, DisableFailsTypes, SkillLoaded DEF DeleteSkill
  <2>2. Tasks'
    BY <1>5, GoesTypes, SkillLoaded DEF DeleteSkill, Free
  <2>3. Rest'
    BY <1>5, SkillLoaded DEF DeleteSkill, Free, Rest
  <2> QED BY <1>5, <2>1, <2>2, <2>3, Frame DEF DeleteSkill
<1>6. ASSUME NEW t \in Task, DisabledToDelete(t)
      PROVE  IInv'
  <2>1. Table'
    BY <1>6, StatusByNameTypes DEF DisabledToDelete, Status
  <2>2. Tasks'
    BY <1>6, AwaitTypes DEF DisabledToDelete
  <2>3. Rest'
    BY <1>6 DEF DisabledToDelete, Rest
  <2> QED BY <1>6, <2>1, <2>2, <2>3, Frame DEF DisabledToDelete
<1>7. ASSUME NEW t \in Task, Erased(t)
      PROVE  IInv'
  <2>1. Table'
    BY <1>7 DEF Erased, Restrict, Table
  <2>2. Tasks'
    BY <1>7, EndsTypes DEF Erased, Restrict
  <2>3. Rest'
    BY <1>7 DEF Erased, Restrict, Rest
  <2> QED BY <1>7, <2>1, <2>2, <2>3, Frame DEF Erased
<1>8. ASSUME NEW t \in Task, NEW p \in Process, NEW r \in Row, NEW n \in Name, NEW ty \in Type, NEW v \in Version, UploadSkill(t, p, r, n, ty, v)
      PROVE  IInv'
  <2>1. Memory'
    BY <1>8, DisablePartTypes, DisableFailsTypes, Frame DEF UploadSkill
  <2>2. Tasks'
    <3> DEFINE k(pc, was, old) ==
                 [op |-> "upload", pc |-> pc, proc |-> p, was |-> was, old |-> old,
                  skill |-> [row |-> r, name |-> n, type |-> ty, ver |-> v]]
               was == \E q \in RowsNamed(n) : rows[q].status = "enabled"
               old == IF RowsNamed(n) = {} THEN NoRow ELSE CHOOSE q \in RowsNamed(n) : TRUE
    <3>1. old \in Row \cup {NoRow}
      BY DEF RowsNamed, Table
    <3>2. \A pc \in {"store", "off"} :
             /\ k(pc, was, old) \in TaskRecord
             /\ k(pc, was, old).skill \in Loaded
             /\ k(pc, was, old).proc \in Process
      BY <3>1 DEF TaskRecord, Loaded
    <3>3. \/ task' = [task EXCEPT ![t] = k("store", was, old)]
          \/ task' = [task EXCEPT ![t] = k("off", was, old)]
          \/ UNCHANGED task
      BY <1>8 DEF UploadSkill
    <3> HIDE DEF k, was, old
    <3> QED BY <3>2, <3>3 DEF Tasks
  <2>3. Rest'
    BY <1>8 DEF UploadSkill, Free, RowsNamed, Rest
  <2> QED BY <1>8, <2>1, <2>2, <2>3, Frame DEF UploadSkill
<1>9. ASSUME NEW t \in Task, DisabledToUpload(t)
      PROVE  IInv'
  <2>1. Table'
    BY <1>9, StatusByNameTypes DEF DisabledToUpload, Status
  <2>2. Tasks'
    BY <1>9, AwaitTypes DEF DisabledToUpload
  <2> QED BY <1>9, <2>1, <2>2, Frame DEF DisabledToUpload
<1>10. ASSUME NEW t \in Task, Stored(t)
      PROVE  IInv'
  <2>1. Tasks'
    BY <1>10, AwaitTypes, AtWork DEF Stored
  <2>2. Rest'
    BY <1>10, AtWork DEF Stored, Rest
  <2> QED BY <1>10, <2>1, <2>2, Frame DEF Stored
<1>11. ASSUME NEW t \in Task, NotStored(t)
      PROVE  IInv'
  <2>1. Tasks'
    BY <1>11, EndsTypes DEF NotStored
  <2> QED BY <1>11, <2>1, Frame DEF NotStored
<1>12. ASSUME NEW t \in Task, Created(t)
      PROVE  IInv'
  <2>1. Memory'
    BY <1>12, EnablePartTypes, EnableFailsTypes, AtWork, Frame DEF Created
  <2>2. Tasks'
    BY <1>12, AwaitTypes, EndsTypes, AtWork DEF Created
  <2> QED BY <1>12, <2>1, <2>2, Frame DEF Created
<1>13. ASSUME NEW t \in Task, NotCreated(t)
      PROVE  IInv'
  <2>1. Tasks'
    BY <1>13, EndsTypes DEF NotCreated
  <2> QED BY <1>13, <2>1, Frame DEF NotCreated
<1>14. ASSUME NEW t \in Task, EnabledInUpload(t)
      PROVE  IInv'
  <2>1. Table'
    BY <1>14, StatusByIdTypes DEF EnabledInUpload, Status
  <2>2. Tasks'
    BY <1>14, AwaitTypes DEF EnabledInUpload
  <2> QED BY <1>14, <2>1, <2>2, Frame DEF EnabledInUpload
<1>15. ASSUME NEW t \in Task, Committed(t)
      PROVE  IInv'
  <2>1. Table'
    <3> DEFINE s == task[t].skill
               new == [name |-> s.name, type |-> s.type, ver |-> s.ver, status |-> "inactive"]
    <3>1. new \in RowRecord /\ s.row \in Row
      BY <1>15, AtWork DEF Committed, RowRecord, Status
    <3>2. rows' = [r \in (DOMAIN rows \ {task[t].old}) \cup {s.row} |->
                     IF r = s.row THEN new ELSE rows[r]]
      BY <1>15 DEF Committed
    <3> HIDE DEF new, s
    <3> QED BY <3>1, <3>2 DEF Table
  <2>2. Tasks'
    BY <1>15, EndsTypes, AtWork DEF Committed
  <2>3. Rest'
    BY <1>15, AtWork DEF Committed, Rest
  <2> QED BY <1>15, <2>1, <2>2, <2>3, Frame DEF Committed
<1>33. ASSUME NEW t \in Task, NotErased(t)
      PROVE  IInv'
  <2>1. Tasks'
    BY <1>33, EndsTypes DEF NotErased
  <2>2. Rest'
    BY <1>33 DEF NotErased, Rest
  <2> QED BY <1>33, <2>1, <2>2, Frame DEF NotErased
<1>34. ASSUME NEW t \in Task, CommitFails(t)
      PROVE  IInv'
  <2>1. Tasks'
    BY <1>34, EndsTypes DEF CommitFails
  <2>2. Rest'
    BY <1>34 DEF CommitFails, Rest, Tasks, TaskRecord
  <2> QED BY <1>34, <2>1, <2>2, Frame DEF CommitFails
<1>16. ASSUME NEW p \in Process, WakeUp(p)
      PROVE  IInv'
  <2>1. Checks'
    BY <1>16, RestsTypes DEF WakeUp, Memory
  <2> QED BY <1>16, <2>1, Frame DEF WakeUp
<1>17. ASSUME NEW p \in Process, ScanDone(p)
      PROVE  IInv'
  <2>1. Checks'
    BY <1>17, MovesTypes DEF ScanDone
  <2> QED BY <1>17, <2>1, Frame DEF ScanDone
<1>18. ASSUME NEW p \in Process, NEW n \in Name, Probe(p, n)
      PROVE  IInv'
  <2>1. Checks'
    <3> DEFINE k == [Resting("probe", health[p].todo \ {n}) EXCEPT !.name = n]
    <3>1. k \in HealthRecord /\ k.pc = "probe" /\ k.name = n
      BY Checked DEF HealthRecord, Resting
    <3>2. health' = [health EXCEPT ![p] = k]
      BY <1>18 DEF Probe, Checks
    <3> QED BY <3>1, <3>2 DEF Checks
  <2> QED BY <1>18, <2>1, Frame DEF Probe
<1>19. ASSUME NEW p \in Process, ProbeOk(p)
      PROVE  IInv'
  <2>1. Checks'
    BY <1>19, NextContainerTypes DEF ProbeOk
  <2> QED BY <1>19, <2>1, Frame DEF ProbeOk
<1>20. ASSUME NEW p \in Process, ProbeFailed(p)
      PROVE  IInv'
  <2>1. Checks'
    BY <1>20, MovesTypes DEF ProbeFailed
  <2>2. Rest'
    BY <1>20 DEF ProbeFailed, Rest
  <2> QED BY <1>20, <2>1, <2>2, Frame DEF ProbeFailed
<1>21. ASSUME NEW p \in Process, Restart(p)
      PROVE  IInv'
  <2>1. Memory'
    BY <1>21, Checked, DisablePartTypes, DisableFailsTypes, Frame DEF Restart
  <2>2. Checks'
    <3> DEFINE off(r) == [health[p] EXCEPT !.pc = "off", !.skill = Skill(r)]
    <3>1. CASE NextContainer(p)
      BY <3>1, NextContainerTypes
    <3>2. ASSUME NEW r \in RowsNamed(health[p].name),
                 health' = [health EXCEPT ![p].pc = "off", ![p].skill = Skill(r)]
          PROVE  Checks'
      <4>1. /\ Skill(r) \in Loaded
            /\ Skill(r).name = health[p].name
            /\ health[p] \in HealthRecord
            /\ health[p].name \in Name
        BY <1>21, SkillLoaded, Checked DEF RowsNamed, Restart, Checks
      <4>2. /\ off(r) \in HealthRecord
            /\ off(r).name = health[p].name
            /\ off(r).skill = Skill(r)
        BY <4>1 DEF HealthRecord
      <4>3. health' = [health EXCEPT ![p] = off(r)]
        BY <3>2 DEF Checks
      <4> QED BY <4>1, <4>2, <4>3 DEF Checks
    <3> QED BY <1>21, <3>1, <3>2 DEF Restart
  <2>3. Rest'
    BY <1>21, SkillLoaded DEF Restart, RowsNamed, Rest
  <2> QED BY <1>21, <2>1, <2>2, <2>3, Frame DEF Restart
<1>22. ASSUME NEW p \in Process, Restarted(p)
      PROVE  IInv'
  <2>1. Table'
    BY <1>22, StatusByNameTypes DEF Restarted, Status
  <2>2. Memory'
    BY <1>22, Checked, EnablePartTypes, EnableFailsTypes DEF Restarted
  <2>3. Checks'
    BY <1>22, MovesTypes, NextContainerTypes DEF Restarted
  <2> QED BY <1>22, <2>1, <2>2, <2>3, Frame DEF Restarted
<1>23. ASSUME NEW p \in Process, MarkEnabled(p)
      PROVE  IInv'
  <2>1. Table'
    BY <1>23, StatusByIdTypes DEF MarkEnabled, Status
  <2>2. Checks'
    BY <1>23, NextContainerTypes DEF MarkEnabled
  <2> QED BY <1>23, <2>1, <2>2, Frame DEF MarkEnabled
<1>24. ASSUME NEW p \in Process, Boot(p)
      PROVE  IInv'
  <2>1. Memory'
    BY <1>24 DEF Boot, Memory, local
  <2>2. Lives'
    BY <1>24, SkillLoaded, LivingTypes, LivesOn DEF Boot
  <2>3. Rest'
    BY <1>24 DEF Boot, Rest
  <2> QED BY <1>24, <2>1, <2>2, <2>3, Frame DEF Boot
<1>25. ASSUME NEW p \in Process, NEW s \in life[p].todo, StartOne(p, s)
      PROVE  IInv'
  <2>1. Memory'
    <3>1. s \in Loaded
      BY Lived
    <3> QED BY <1>25, <3>1, EnablePartTypes, EnableFailsTypes DEF StartOne
  <2>2. Lives'
    <3>1. /\ [life[p] EXCEPT !.todo = @ \ {s}] \in LifeRecord
          /\ [life[p] EXCEPT !.todo = @ \ {s}, !.skill = s] \in LifeRecord
      BY Lived DEF LifeRecord
    <3>2. \/ life' = [life EXCEPT ![p] = [life[p] EXCEPT !.todo = @ \ {s}]]
          \/ life' = [life EXCEPT ![p] = [life[p] EXCEPT !.todo = @ \ {s}, !.skill = s]]
      BY <1>25 DEF StartOne, Lives
    <3> QED BY <3>1, <3>2, LivesOn
  <2>3. Rest'
    BY <1>25 DEF StartOne, Rest
  <2> QED BY <1>25, <2>1, <2>2, <2>3, Frame DEF StartOne
<1>26. ASSUME NEW p \in Process, StartedOne(p)
      PROVE  IInv'
  <2>1. Table'
    BY <1>26, StatusByIdTypes DEF StartedOne, Status
  <2>2. Lives'
    <3>1. [life[p] EXCEPT !.skill = NoSkill] \in LifeRecord
      BY Lived DEF LifeRecord
    <3>2. life' = [life EXCEPT ![p] = [life[p] EXCEPT !.skill = NoSkill]]
      BY <1>26 DEF StartedOne
    <3> QED BY <3>1, <3>2, LivesOn
  <2> QED BY <1>26, <2>1, <2>2, Frame DEF StartedOne
<1>27. ASSUME NEW p \in Process, Ready(p)
      PROVE  IInv'
  <2>1. Checks'
    BY <1>27, RestsTypes DEF Ready
  <2>2. Lives'
    <3>1. [life[p] EXCEPT !.phase = "running"] \in LifeRecord
      BY Lived DEF LifeRecord
    <3>2. life' = [life EXCEPT ![p] = [life[p] EXCEPT !.phase = "running"]]
      BY <1>27 DEF Ready
    <3> QED BY <3>1, <3>2, LivesOn
  <2> QED BY <1>27, <2>1, <2>2, Frame DEF Ready
<1>28. ASSUME NEW p \in Process, Shutdown(p)
      PROVE  IInv'
  <2>1. Table'
    BY <1>28, StatusByIdTypes, StatusByNameTypes, Frame DEF Shutdown, Status
  <2>2. Checks'
    <3>1. health' = [health EXCEPT ![p] = Resting("stopped", {})]
      BY <1>28 DEF Shutdown
    <3> QED BY <3>1, {} \in SUBSET Name, "stopped" \in {"stopped", "sleep", "scan"}, RestsTypes
  <2>3. Lives'
    BY <1>28, LivingTypes, LivesOn DEF Shutdown, Memory
  <2> QED BY <1>28, <2>1, <2>2, <2>3, Frame DEF Shutdown
<1>29. ASSUME NEW p \in Process, NEW n \in Name, StopOne(p, n)
      PROVE  IInv'
  <2>1. Memory'
    BY <1>29, DisablePartTypes DEF StopOne
  <2>2. Lives'
    <3>1. [life[p] EXCEPT !.names = @ \ {n}, !.name = n] \in LifeRecord
      BY Lived DEF LifeRecord
    <3>2. life' = [life EXCEPT ![p] = [life[p] EXCEPT !.names = @ \ {n}, !.name = n]]
      BY <1>29 DEF StopOne, Lives
    <3> QED BY <3>1, <3>2, LivesOn
  <2>3. Rest'
    BY <1>29 DEF StopOne, Rest
  <2> QED BY <1>29, <2>1, <2>2, <2>3, Frame DEF StopOne
<1>30. ASSUME NEW p \in Process, StoppedOne(p)
      PROVE  IInv'
  <2>1. Table'
    BY <1>30, StatusByNameTypes DEF StoppedOne, Status
  <2>2. Lives'
    <3>1. [life[p] EXCEPT !.name = NoName] \in LifeRecord
      BY Lived DEF LifeRecord
    <3>2. life' = [life EXCEPT ![p] = [life[p] EXCEPT !.name = NoName]]
      BY <1>30 DEF StoppedOne
    <3> QED BY <3>1, <3>2, LivesOn
  <2> QED BY <1>30, <2>1, <2>2, Frame DEF StoppedOne
<1>31. ASSUME NEW p \in Process, ProcessEnds(p)
      PROVE  IInv'
  <2>1. Memory'
    BY <1>31 DEF ProcessEnds, Idle, Resting, Living, Memory
  <2>2. Tasks'
    BY <1>31 DEF ProcessEnds, Tasks, Idle, TaskRecord
  <2>3. Checks'
    <3>1. health' = [health EXCEPT ![p] = Resting("stopped", {})]
      BY <1>31 DEF ProcessEnds
    <3> QED BY <3>1, {} \in SUBSET Name, "stopped" \in {"stopped", "sleep", "scan"}, RestsTypes
  <2>4. Lives'
    BY <1>31, LivingTypes, LivesOn DEF ProcessEnds
  <2> QED BY <1>31, <2>1, <2>2, <2>3, <2>4, Frame DEF ProcessEnds
<1>32. CASE UNCHANGED vars
  BY <1>32, Frame DEF vars
<1> QED
  BY <1>1, <1>2, <1>3, <1>4, <1>5, <1>6, <1>7, <1>8, <1>9, <1>10, <1>11,
  <1>12, <1>13, <1>14, <1>15, <1>16, <1>17, <1>18, <1>19, <1>20, <1>21,
  <1>22, <1>23, <1>24, <1>25, <1>26, <1>27, <1>28, <1>29, <1>30, <1>31,
  <1>32, <1>33, <1>34
  DEF Next, Request, Health, Lifespan, Exit, Crash

\* Type correctness: every record, request and task of the skill subsystem
\* has its type, whatever overlaps, fails or crashes.
THEOREM TypeCorrect == Spec => []TypeOK
<1>1. IInv => TypeOK
  BY DEF IInv, Table, Memory, Tasks, Checks, Lives, Rest, TypeOK
<1> QED BY <1>1, InitIInv, StepIInv, PTL DEF Spec

-----------------------------------------------------------------------------
\* What the memory of a manager promises.

\* A process that is down holds no container.
Booted == \A p \in Process : life[p].phase = "down" => containers[p] = {}

\* One process is up at a time, unless one started beside another.
Alone ==
    ~crowded => \A p, q \in Process :
                   life[p].phase # "down" /\ life[q].phase # "down" => p = q

\* Requests and the health task work in a process that serves.
Awake ==
    /\ \A t \in Task : task[t].pc # "idle" => life[task[t].proc].phase = "running"
    /\ \A p \in Process : health[p].pc # "stopped" => life[p].phase = "running"
    /\ \A p \in Process : health[p].pc = "stopped" => health[p].todo = {} /\ health[p].name = NoName

MInv == ToolsHaveContainers /\ Booted /\ Awake /\ Alone /\ ContainersExist

LEMMA EnablePartKeeps ==
    ASSUME Memory, MInv, NEW p \in Process, NEW s \in Loaded, EnablePart(p, s),
           UNCHANGED crowded
    PROVE  /\ ToolsHaveContainers'
           /\ \A q \in Process : q # p => containers'[q] = containers[q]
           /\ ContainersExist'
<1>1. CASE s.type = "service"
  <2>1. /\ docker' = docker \cup {s.name}
        /\ containers' = [containers EXCEPT ![p] = @ \cup {s.name}]
        /\ tools' = [tools EXCEPT ![p] = @ \cup {s.name}]
    BY <1>1 DEF EnablePart
  <2>2. /\ \A q \in Process : q # p => containers'[q] = containers[q] /\ tools'[q] = tools[q]
        /\ containers'[p] = containers[p] \cup {s.name}
        /\ tools'[p] = tools[p] \cup {s.name}
    BY <2>1 DEF Memory
  <2>3. ToolsHaveContainers'
    BY <2>2 DEF MInv, ToolsHaveContainers
  <2>4. ContainersExist'
    BY <2>1, <2>2 DEF MInv, ContainersExist
  <2> QED BY <2>2, <2>3, <2>4
<1>2. CASE s.type # "service"
  BY <1>2 DEF Memory, MInv, EnablePart, ToolsHaveContainers, ContainersExist, Loaded
<1> QED BY <1>1, <1>2

LEMMA EnableFailsKeeps ==
    ASSUME Memory, MInv, NEW p \in Process, NEW s \in Loaded, EnableFails(p, s),
           UNCHANGED crowded
    PROVE  /\ ToolsHaveContainers'
           /\ UNCHANGED containers
           /\ ContainersExist'
  BY DEF Memory, MInv, EnableFails, ToolsHaveContainers, ContainersExist, Booted, Alone

LEMMA DisablePartKeeps ==
    ASSUME Memory, MInv, NEW p \in Process, NEW n \in Name, DisablePart(p, n),
           UNCHANGED crowded
    PROVE  /\ ToolsHaveContainers'
           /\ \A q \in Process : containers'[q] \subseteq containers[q]
           /\ ContainersExist'
  BY DEF Memory, MInv, DisablePart, ToolsHaveContainers, ContainersExist, Booted, Alone

LEMMA DisableFailsKeeps ==
    ASSUME Memory, MInv, NEW p \in Process, NEW n \in Name, DisableFails(p, n),
           UNCHANGED crowded
    PROVE  /\ ToolsHaveContainers'
           /\ \A q \in Process : containers'[q] \subseteq containers[q]
           /\ ContainersExist'
  BY DEF Memory, MInv, DisableFails, ToolsHaveContainers, ContainersExist, Booted, Alone

LEMMA SameMemory ==
    ASSUME MInv, UNCHANGED <<docker, local, crowded>>
    PROVE  /\ ToolsHaveContainers'
           /\ UNCHANGED containers
           /\ ContainersExist'
  BY DEF MInv, ToolsHaveContainers, ContainersExist, local

LEMMA EndsAwake ==
    ASSUME Tasks, Awake, NEW t \in Task, Ends(t), UNCHANGED <<health, life>>
    PROVE  Awake'
  BY DEF Tasks, Awake, Ends, Idle

LEMMA GoesAwake ==
    ASSUME Tasks, Awake, NEW t \in Task, NEW op, NEW pc, NEW p, NEW s, Goes(t, op, pc, p, s),
           life[p].phase = "running", UNCHANGED <<health, life>>
    PROVE  Awake'
  BY DEF Tasks, Awake, Goes, Idle

LEMMA AwaitAwake ==
    ASSUME Tasks, Awake, NEW t \in Task, NEW pc, Await(t, pc), task[t].pc # "idle",
           UNCHANGED <<health, life>>
    PROVE  Awake'
  BY DEF Tasks, Awake, Await, TaskRecord

LEMMA InitMInv == Init => MInv
  BY NullAssumption DEF Init, MInv, ToolsHaveContainers, Booted, Awake, Alone, Living, ContainersExist, Idle, Resting

\* Every step keeps tools, containers and Docker together.
LEMMA StepMInv == IInv /\ MInv /\ [Next]_vars => MInv'
<1> SUFFICES ASSUME IInv, MInv, [Next]_vars PROVE MInv'
  OBVIOUS
<1> USE DEF IInv
<1>1. ASSUME NEW t \in Task, NEW p \in Process, NEW r \in Row, EnableSkill(t, p, r)
      PROVE  MInv'
  <2>1. Awake'
    BY <1>1, EndsAwake, GoesAwake DEF EnableSkill, Free, MInv
  <2>2. ToolsHaveContainers' /\ Booted' /\ Alone' /\ ContainersExist'
    BY <1>1, EnablePartKeeps, EnableFailsKeeps, SameMemory, SkillLoaded DEF EnableSkill, Free, MInv, Booted, Awake, Alone, Lives, Tasks
  <2> QED BY <2>1, <2>2 DEF MInv
<1>2. ASSUME NEW t \in Task, Enabled(t)
      PROVE  MInv'
  BY <1>2, SameMemory DEF Enabled, Ends, Idle, MInv, Booted, Awake, Alone, Tasks, Checks, Lives
<1>3. ASSUME NEW t \in Task, NEW p \in Process, NEW r \in Row, DisableSkill(t, p, r)
      PROVE  MInv'
  <2>1. Awake'
    BY <1>3, EndsAwake, GoesAwake DEF DisableSkill, Free, MInv
  <2>2. ToolsHaveContainers' /\ Booted' /\ Alone' /\ ContainersExist'
    BY <1>3, DisablePartKeeps, DisableFailsKeeps, SameMemory, SkillLoaded DEF DisableSkill, Free, MInv, Booted, Awake, Alone, Lives, Tasks
  <2> QED BY <2>1, <2>2 DEF MInv
<1>4. ASSUME NEW t \in Task, Disabled(t)
      PROVE  MInv'
  BY <1>4, SameMemory DEF Disabled, Ends, Idle, MInv, Booted, Awake, Alone, Tasks, Checks, Lives
<1>5. ASSUME NEW t \in Task, NEW p \in Process, NEW r \in Row, DeleteSkill(t, p, r)
      PROVE  MInv'
  <2>1. Awake'
    BY <1>5, GoesAwake DEF DeleteSkill, Free, MInv
  <2>2. ToolsHaveContainers' /\ Booted' /\ Alone' /\ ContainersExist'
    BY <1>5, DisablePartKeeps, DisableFailsKeeps, SameMemory, SkillLoaded DEF DeleteSkill, Free, MInv, Booted, Awake, Alone, Lives, Tasks
  <2> QED BY <2>1, <2>2 DEF MInv
<1>6. ASSUME NEW t \in Task, DisabledToDelete(t)
      PROVE  MInv'
  BY <1>6, SameMemory DEF DisabledToDelete, Await, MInv, Booted, Awake, Alone, Tasks, Checks, Lives
<1>7. ASSUME NEW t \in Task, Erased(t)
      PROVE  MInv'
  BY <1>7, SameMemory DEF Erased, Ends, Idle, MInv, Booted, Awake, Alone, Tasks, Checks, Lives
<1>8. ASSUME NEW t \in Task, NEW p \in Process, NEW r \in Row, NEW n \in Name, NEW ty \in Type, NEW v \in Version, UploadSkill(t, p, r, n, ty, v)
      PROVE  MInv'
  <2>1. Awake'
    BY <1>8 DEF UploadSkill, Free, MInv, Awake, Tasks, Checks, Lives
  <2>2. ToolsHaveContainers' /\ Booted' /\ Alone' /\ ContainersExist'
    BY <1>8, DisablePartKeeps, DisableFailsKeeps, SameMemory DEF UploadSkill, Free, MInv, Booted, Awake, Alone, Lives, Tasks
  <2> QED BY <2>1, <2>2 DEF MInv
<1>9. ASSUME NEW t \in Task, DisabledToUpload(t)
      PROVE  MInv'
  BY <1>9, SameMemory DEF DisabledToUpload, Await, MInv, Booted, Awake, Alone, Tasks, Checks, Lives
<1>10. ASSUME NEW t \in Task, Stored(t)
      PROVE  MInv'
  BY <1>10, SameMemory DEF Stored, Await, MInv, Booted, Awake, Alone, Tasks, Checks, Lives
<1>11. ASSUME NEW t \in Task, NotStored(t)
      PROVE  MInv'
  BY <1>11, SameMemory DEF NotStored, Ends, Idle, MInv, Booted, Awake, Alone, Tasks, Checks, Lives
<1>12. ASSUME NEW t \in Task, Created(t)
      PROVE  MInv'
  <2>1. Awake'
    BY <1>12, EndsAwake, AwaitAwake DEF Created, MInv
  <2>2. ToolsHaveContainers' /\ Booted' /\ Alone' /\ ContainersExist'
    BY <1>12, EnablePartKeeps, EnableFailsKeeps, SameMemory, AtWork DEF Created, MInv, Booted, Awake, Alone, Lives, Tasks
  <2> QED BY <2>1, <2>2 DEF MInv
<1>13. ASSUME NEW t \in Task, NotCreated(t)
      PROVE  MInv'
  BY <1>13, SameMemory DEF NotCreated, Ends, Idle, MInv, Booted, Awake, Alone, Tasks, Checks, Lives
<1>14. ASSUME NEW t \in Task, EnabledInUpload(t)
      PROVE  MInv'
  BY <1>14, SameMemory DEF EnabledInUpload, Await, MInv, Booted, Awake, Alone, Tasks, Checks, Lives
<1>15. ASSUME NEW t \in Task, Committed(t)
      PROVE  MInv'
  BY <1>15, SameMemory DEF Committed, Ends, Idle, MInv, Booted, Awake, Alone, Tasks, Checks, Lives
<1>33. ASSUME NEW t \in Task, NotErased(t)
      PROVE  MInv'
  BY <1>33, SameMemory DEF NotErased, Ends, Idle, MInv, Booted, Awake, Alone, Tasks, Checks, Lives
<1>34. ASSUME NEW t \in Task, CommitFails(t)
      PROVE  MInv'
  BY <1>34, SameMemory DEF CommitFails, Ends, Idle, MInv, Booted, Awake, Alone, Tasks, Checks, Lives
<1>16. ASSUME NEW p \in Process, WakeUp(p)
      PROVE  MInv'
  BY <1>16, SameMemory DEF WakeUp, Resting, MInv, Booted, Awake, Alone, Tasks, Checks, Lives
<1>17. ASSUME NEW p \in Process, ScanDone(p)
      PROVE  MInv'
  BY <1>17, SameMemory DEF ScanDone, Moves, MInv, Booted, Awake, Alone, Tasks, Checks, Lives
<1>18. ASSUME NEW p \in Process, NEW n \in Name, Probe(p, n)
      PROVE  MInv'
  BY <1>18, SameMemory DEF Probe, Resting, MInv, Booted, Awake, Alone, Tasks, Checks, Lives
<1>19. ASSUME NEW p \in Process, ProbeOk(p)
      PROVE  MInv'
  BY <1>19, SameMemory DEF ProbeOk, NextContainer, Resting, MInv, Booted, Awake, Alone, Tasks, Checks, Lives
<1>20. ASSUME NEW p \in Process, ProbeFailed(p)
      PROVE  MInv'
  BY <1>20, SameMemory DEF ProbeFailed, Moves, MInv, Booted, Awake, Alone, Tasks, Checks, Lives
<1>21. ASSUME NEW p \in Process, Restart(p)
      PROVE  MInv'
  <2>1. Awake'
    <3>1. /\ health'[p].pc # "stopped" /\ health[p].pc = "fetch"
          /\ \A q \in Process \ {p} : health'[q] = health[q]
          /\ UNCHANGED <<task, life>>
      BY <1>21 DEF Restart, NextContainer, Resting, Checks, HealthRecord
    <3> QED BY <3>1 DEF MInv, Awake
  <2>2. ToolsHaveContainers' /\ Booted' /\ Alone' /\ ContainersExist'
    BY <1>21, DisablePartKeeps, DisableFailsKeeps, SameMemory, Checked DEF Restart, MInv, Booted, Awake, Alone, Lives, Tasks
  <2> QED BY <2>1, <2>2 DEF MInv
<1>22. ASSUME NEW p \in Process, Restarted(p)
      PROVE  MInv'
  <2>1. Awake'
    <3>1. /\ health'[p].pc # "stopped" /\ health[p].pc = "off"
          /\ \A q \in Process \ {p} : health'[q] = health[q]
          /\ UNCHANGED <<task, life>>
      BY <1>22 DEF Restarted, Moves, NextContainer, Resting, Checks, HealthRecord
    <3> QED BY <3>1 DEF MInv, Awake
  <2>2. ToolsHaveContainers' /\ Booted' /\ Alone' /\ ContainersExist'
    BY <1>22, EnablePartKeeps, EnableFailsKeeps, SameMemory, Checked DEF Restarted, MInv, Booted, Awake, Alone, Lives, Tasks
  <2> QED BY <2>1, <2>2 DEF MInv
<1>23. ASSUME NEW p \in Process, MarkEnabled(p)
      PROVE  MInv'
  BY <1>23, SameMemory DEF MarkEnabled, NextContainer, Resting, MInv, Booted, Awake, Alone, Tasks, Checks, Lives
<1>24. ASSUME NEW p \in Process, Boot(p)
      PROVE  MInv'
  <2>1. /\ life[p].phase = "down" /\ life'[p].phase = "startup"
        /\ \A q \in Process \ {p} : life'[q] = life[q]
        /\ UNCHANGED <<tools, containers, task, health>>
        /\ crowded' = (crowded \/ \E q \in Process : life[q].phase # "down")
    BY <1>24 DEF Boot, Living, Lives, local
  <2>2. Alone' /\ Booted' /\ ToolsHaveContainers'
    BY <2>1 DEF MInv, Alone, Booted, ToolsHaveContainers
  <2>3. ContainersExist'
    BY <2>1 DEF MInv, Booted, ContainersExist
  <2>4. Awake'
    BY <2>1, AtWork DEF MInv, Awake
  <2> QED BY <2>2, <2>3, <2>4 DEF MInv
<1>25. ASSUME NEW p \in Process, NEW s \in life[p].todo, StartOne(p, s)
      PROVE  MInv'
  <2>1. Awake'
    BY <1>25 DEF StartOne, MInv, Awake, Tasks, Checks, Lives
  <2>2. ToolsHaveContainers' /\ Booted' /\ Alone' /\ ContainersExist'
    <3>1. s \in Loaded
      BY Lived
    <3>2. \A q \in Process : life'[q].phase = life[q].phase
      BY <1>25 DEF StartOne, Lives, LifeRecord
    <3>3. /\ ToolsHaveContainers'
          /\ \A q \in Process : q # p => containers'[q] = containers[q]
          /\ ContainersExist'
      BY <1>25, <3>1, EnablePartKeeps, EnableFailsKeeps DEF StartOne
    <3> QED BY <1>25, <3>2, <3>3 DEF StartOne, MInv, Booted, Alone
  <2> QED BY <2>1, <2>2 DEF MInv
<1>26. ASSUME NEW p \in Process, StartedOne(p)
      PROVE  MInv'
  BY <1>26, SameMemory DEF StartedOne, MInv, Booted, Awake, Alone, Tasks, Checks, Lives
<1>27. ASSUME NEW p \in Process, Ready(p)
      PROVE  MInv'
  BY <1>27, SameMemory DEF Ready, Resting, MInv, Booted, Awake, Alone, Tasks, Checks, Lives
<1>28. ASSUME NEW p \in Process, Shutdown(p)
      PROVE  MInv'
  BY <1>28, SameMemory DEF Shutdown, Resting, Living, MInv, Booted, Awake, Alone, Tasks, Checks, Lives
<1>29. ASSUME NEW p \in Process, NEW n \in Name, StopOne(p, n)
      PROVE  MInv'
  <2>1. Awake'
    BY <1>29 DEF StopOne, MInv, Awake, Tasks, Checks, Lives
  <2>2. ToolsHaveContainers' /\ Booted' /\ Alone' /\ ContainersExist'
    BY <1>29, DisablePartKeeps, SameMemory DEF StopOne, MInv, Booted, Awake, Alone, Lives, Tasks
  <2> QED BY <2>1, <2>2 DEF MInv
<1>30. ASSUME NEW p \in Process, StoppedOne(p)
      PROVE  MInv'
  BY <1>30, SameMemory DEF StoppedOne, MInv, Booted, Awake, Alone, Tasks, Checks, Lives
<1>31. ASSUME NEW p \in Process, ProcessEnds(p)
      PROVE  MInv'
  BY <1>31 DEF ProcessEnds, Ends, Idle, Resting, Living, MInv, Booted, Awake, Alone, ToolsHaveContainers, ContainersExist, Booted, Alone, Lives, Memory, Tasks, Checks, local
<1>32. CASE UNCHANGED vars
  BY <1>32, SameMemory DEF vars, local, MInv, Booted, Awake, Alone
<1> QED
  BY <1>1, <1>2, <1>3, <1>4, <1>5, <1>6, <1>7, <1>8, <1>9, <1>10, <1>11,
  <1>12, <1>13, <1>14, <1>15, <1>16, <1>17, <1>18, <1>19, <1>20, <1>21,
  <1>22, <1>23, <1>24, <1>25, <1>26, <1>27, <1>28, <1>29, <1>30, <1>31,
  <1>32, <1>33, <1>34
  DEF Next, Request, Health, Lifespan, Exit, Crash

\* No tool of a service skill outlives the record of its container: an
\* agent never sees a tool of a container that its manager has let go,
\* whatever fails halfway.
THEOREM ToolsBacked == Spec => []ToolsHaveContainers
<1>1. IInv /\ MInv => ToolsHaveContainers
  BY DEF MInv
<1> QED BY <1>1, InitIInv, StepIInv, InitMInv, StepMInv, PTL DEF Spec

\* Every container that a manager holds exists, be it across crashes and
\* with other processes before and after: what it takes is that none starts,
\* and cleans up, while another is up.
THEOREM ContainersBacked == Spec => []ContainersExist
<1>1. IInv /\ MInv => ContainersExist
  BY DEF MInv
<1> QED BY <1>1, InitIInv, StepIInv, InitMInv, StepMInv, PTL DEF Spec
=============================================================================
