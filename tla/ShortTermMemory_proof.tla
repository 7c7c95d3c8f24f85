------------------------ MODULE ShortTermMemory_proof ------------------------
(***************************************************************************)
(* Proofs about ShortTermMemory: compressions that do not overlap lose     *)
(* nothing, and the defaults never start one.                              *)
(***************************************************************************)
EXTENDS ShortTermMemory, FiniteSetTheorems, TLAPS

-----------------------------------------------------------------------------
\* Ranks.

LEMMA OldestRest ==
    ASSUME NEW s, IsFiniteSet(s), NEW n \in Nat, NEW t, IsOldest(t, s, n)
    PROVE  /\ t \subseteq s
           /\ IsFiniteSet(s \ t) /\ Cardinality(s \ t) \in Nat
           /\ n <= Cardinality(s) => Cardinality(t) = n /\ Cardinality(s \ t) = Cardinality(s) - n
<1>1. Cardinality(s) \in Nat
    BY FS_CardinalityType
<1>2. t \subseteq s
    BY DEF IsOldest
<1>3. /\ IsFiniteSet(s \ t)
      /\ Cardinality(s \ t) = Cardinality(s) - Cardinality(s \cap t)
    BY <1>2, FS_Subset, FS_Difference
<1>4. s \cap t = t
    BY <1>2
<1>5. Cardinality(s \ t) \in Nat
    BY <1>3, FS_CardinalityType
<1> QED
    BY <1>1, <1>2, <1>3, <1>4, <1>5 DEF IsOldest

LEMMA OldestSame ==
    ASSUME NEW s \in SUBSET Nat, IsFiniteSet(s), NEW n \in Nat, n <= Cardinality(s),
           NEW t, IsOldest(t, s, n), NEW u, IsOldest(u, s, n)
    PROVE  t = u
<1>1. Cardinality(s) \in Nat
    BY FS_CardinalityType
<1>2. /\ t \subseteq s /\ u \subseteq s /\ Cardinality(t) = n /\ Cardinality(u) = n
      /\ \A a \in t, b \in s \ t : a < b
      /\ \A a \in u, b \in s \ u : a < b
    BY <1>1 DEF IsOldest
<1>3. t \subseteq u \/ u \subseteq t
  <2> SUFFICES ASSUME NEW a \in t \ u, NEW b \in u \ t PROVE FALSE
      OBVIOUS
  <2>1. a < b /\ b < a /\ a \in Nat /\ b \in Nat
      BY <1>2
  <2> QED
      BY <2>1
<1>4. IsFiniteSet(t) /\ IsFiniteSet(u)
    BY <1>2, FS_Subset
<1>5. CASE t \subseteq u
    BY <1>2, <1>4, <1>5, FS_Subset
<1>6. CASE u \subseteq t
    BY <1>2, <1>4, <1>6, FS_Subset
<1> QED
    BY <1>3, <1>5, <1>6

\* A message that is newer than all does not change the ranks of the others.
LEMMA OldestBeforeNewer ==
    ASSUME NEW s \in SUBSET Nat, IsFiniteSet(s), NEW n \in Nat, n <= Cardinality(s),
           NEW t, IsOldest(t, s, n), NEW m \in Nat, \A a \in s : a < m
    PROVE  IsOldest(t, s \cup {m}, n)
<1>1. Cardinality(s) \in Nat
    BY FS_CardinalityType
<1>2. m \notin s /\ Cardinality(s \cup {m}) = Cardinality(s) + 1
  <2>1. m \notin s
      OBVIOUS
  <2> QED
      BY <2>1, FS_AddElement
<1>3. t \subseteq s /\ Cardinality(t) = n /\ \A a \in t, b \in s \ t : a < b
    BY <1>1 DEF IsOldest
<1>4. \A a \in t, b \in (s \cup {m}) \ t : a < b
    BY <1>3
<1> QED
    BY <1>1, <1>2, <1>3, <1>4 DEF IsOldest

-----------------------------------------------------------------------------
\* Types.

Typed == TypeOK /\ \A k \in Task : task[k].old \subseteq written

LEMMA Finite ==
    ASSUME Typed
    PROVE  /\ IsFiniteSet(written) /\ written \subseteq Nat
           /\ \A s \in SUBSET written : IsFiniteSet(s) /\ Cardinality(s) \in Nat
           /\ Cardinality(window) \in Nat
           /\ setting.window_size \in Nat /\ keep_count \in Nat
<1> USE DEF Typed, TypeOK
<1>1. IsFiniteSet(1 .. now)
  <2>1. now \in Int
      OBVIOUS
  <2> QED
      BY <2>1, FS_Interval
<1>2. IsFiniteSet(written) /\ written \subseteq Nat
  <2>1. written \in SUBSET (1 .. now) /\ 1 .. now \subseteq Nat
      OBVIOUS
  <2> HIDE DEF Typed, TypeOK
  <2>2. IsFiniteSet(written)
      BY <1>1, <2>1, FS_Subset
  <2> QED
      BY <2>1, <2>2
<1>3. \A s \in SUBSET written : IsFiniteSet(s) /\ Cardinality(s) \in Nat
    BY <1>2, FS_Subset, FS_CardinalityType
<1>4. setting.window_size \in Nat /\ setting.summary_threshold \in Nat
    BY SettingsAssumption
<1>5. keep_count \in Nat
    BY <1>4, SpareAssumption DEF keep_count
<1> QED
    BY <1>2, <1>3, <1>4, <1>5

LEMMA TypedStep == Typed /\ [Next]_vars => Typed'
<1> SUFFICES ASSUME Typed, [Next]_vars PROVE Typed'
    OBVIOUS
<1> USE DEF Typed, TypeOK, TaskRecord, Idle
<1>1. CASE UNCHANGED vars
    BY <1>1 DEF vars
<1>2. CASE Stamp
    BY <1>2 DEF Stamp
<1>3. CASE CountFew
    BY <1>3 DEF CountFew
<1>4. ASSUME NEW m \in stamped, AddFails(m) PROVE Typed'
    BY <1>4 DEF AddFails
<1>5. ASSUME NEW m \in stamped, NEW t \in SUBSET (window \cup {m}), Write(m, t) PROVE Typed'
    BY <1>5 DEF Write
<1>6. ASSUME NEW k \in Task, CountMany(k) \/ Leave(k) \/ Fail(k) PROVE Typed'
  <2>1. task' \in [Task -> TaskRecord] /\ \A j \in Task : task'[j].old \subseteq task[j].old
      BY <1>6 DEF CountMany, Leave, Fail
  <2>2. UNCHANGED <<setting, now, stamped, window, summary, written, covered, excused>> /\ uncounted' \in Nat
      BY <1>6 DEF CountMany, Leave, Fail
  <2> QED
      BY <2>1, <2>2
<1>7. ASSUME NEW k \in Task, Summarise(k) PROVE Typed'
  <2>1. task[k].old \subseteq written
      OBVIOUS
  <2>2. task' \in [Task -> TaskRecord] /\ \A j \in Task : task'[j].old = task[j].old
      BY <1>7 DEF Summarise
  <2> QED
      BY <1>7, <2>1, <2>2 DEF Summarise
<1>8. ASSUME NEW k \in Task, NEW t \in SUBSET window, Ask(k, t) PROVE Typed'
  <2>1. t \subseteq written /\ t \subseteq Nat
      BY Finite
  <2>2. task' \in [Task -> TaskRecord] /\ \A j \in Task : task'[j].old \subseteq written
      BY <1>8, <2>1 DEF Ask
  <2> QED
      BY <1>8, <2>2 DEF Ask
<1>9. ASSUME NEW k \in Task, NEW t \in SUBSET window, Remove(k, t) PROVE Typed'
  <2>1. task' \in [Task -> TaskRecord] /\ \A j \in Task : task'[j].old \subseteq task[j].old
      BY <1>9 DEF Remove
  <2> QED
      BY <1>9, <2>1 DEF Remove
<1>10. CASE Expire \/ ExpireSummary
    BY <1>10 DEF Expire, ExpireSummary
<1>11. CASE Restart
  <2>1. task' \in [Task -> TaskRecord] /\ \A k \in Task : task'[k].old = {}
      BY <1>11 DEF Restart
  <2> QED
      BY <1>11, <2>1 DEF Restart
<1> QED
    BY <1>1, <1>2, <1>3, <1>4, <1>5, <1>6, <1>7, <1>8, <1>9, <1>10, <1>11 DEF Next, Add, Compress

LEMMA TypedInit == Init => Typed
<1> SUFFICES ASSUME Init PROVE Typed
    OBVIOUS
<1>1. task \in [Task -> TaskRecord] /\ \A k \in Task : task[k].old = {}
    BY DEF Init, TaskRecord, Idle
<1> QED
    BY <1>1 DEF Init, Typed, TypeOK

LEMMA TypedInvariant == Spec => []Typed
BY TypedInit, TypedStep, PTL DEF Spec

\* The window and the summary are of messages that were written.
THEOREM MemoryTypes == Spec => []TypeOK
<1>1. Typed => TypeOK
    BY DEF Typed
<1> QED
    BY <1>1, TypedInvariant, PTL

-----------------------------------------------------------------------------
\* The size of the window.

WithinWindow == Cardinality(window) <= setting.window_size

\* A window that is not longer than what a compression keeps is never summarised.
IdleWithinWindow ==
    setting.window_size <= keep_count => summary = NoSummary /\ \A k \in Task : ~AtWork(k)

IdleInv == Typed /\ WithinWindow /\ IdleWithinWindow

LEMMA WindowStep == Typed /\ WithinWindow /\ [Next]_vars => WithinWindow'
<1> SUFFICES ASSUME Typed, WithinWindow, [Next]_vars PROVE WithinWindow'
    OBVIOUS
<1> USE DEF WithinWindow
<1>1. setting' = setting
    BY DEF Next, Add, Compress, vars, Stamp, CountFew, AddFails, Write, CountMany, Leave, Summarise, Fail,
           Ask, Remove, Expire, ExpireSummary, Restart
<1>2. /\ IsFiniteSet(window) /\ Cardinality(window) \in Nat /\ setting.window_size \in Nat
    BY Finite DEF Typed, TypeOK
<1>3. CASE window' \subseteq window
  <2>1. Cardinality(window') \in Nat /\ Cardinality(window') <= Cardinality(window)
      BY <1>2, <1>3, FS_Subset, FS_CardinalityType
  <2> QED
      BY <1>1, <1>2, <2>1
<1>4. ASSUME NEW m \in stamped, NEW t \in SUBSET (window \cup {m}), Write(m, t) PROVE WithinWindow'
  <2> DEFINE s == window \cup {m}
  <2>1. IsFiniteSet(s) /\ Cardinality(s) \in Nat
      BY <1>2, FS_AddElement, FS_CardinalityType
  <2>2. IsOldest(t, s, Excess(s)) /\ window' = s \ t
      BY <1>4 DEF Write
  <2> HIDE DEF s
  <2>3. Excess(s) \in Nat /\ Excess(s) <= Cardinality(s) /\ Cardinality(s) - Excess(s) <= setting.window_size
      BY <1>2, <2>1 DEF Excess
  <2>4. Cardinality(s \ t) = Cardinality(s) - Excess(s)
      BY <2>1, <2>2, <2>3, OldestRest
  <2> QED
      BY <1>1, <2>2, <2>3, <2>4
<1> QED
    BY <1>3, <1>4 DEF Next, Add, Compress, vars, Stamp, CountFew, AddFails, CountMany, Leave, Summarise, Fail,
                      Ask, Remove, Expire, ExpireSummary, Restart

LEMMA IdleStep == IdleInv /\ [Next]_vars => IdleInv'
<1> SUFFICES ASSUME IdleInv, [Next]_vars PROVE IdleInv'
    OBVIOUS
<1> USE DEF IdleInv
<1>1. Typed' /\ WithinWindow'
    BY TypedStep, WindowStep
<1>2. SUFFICES ASSUME setting.window_size <= keep_count
               PROVE  summary' = NoSummary /\ \A k \in Task : task'[k].pc \notin {"asked", "stored"}
  <2>1. setting' = setting
      BY DEF Next, Add, Compress, vars, Stamp, CountFew, AddFails, Write, CountMany, Leave, Summarise, Fail,
             Ask, Remove, Expire, ExpireSummary, Restart
  <2> QED
      BY <1>1, <2>1 DEF IdleWithinWindow, keep_count, AtWork
<1>3. /\ summary = NoSummary /\ \A k \in Task : task[k].pc \notin {"asked", "stored"}
      /\ task \in [Task -> TaskRecord]
    BY <1>2 DEF IdleWithinWindow, AtWork, Typed, TypeOK
<1>4. Cardinality(window) <= keep_count
    BY <1>2, Finite DEF WithinWindow
<1>5. ASSUME NEW k \in Task, NEW t, Ask(k, t) PROVE FALSE
    BY <1>4, <1>5, Finite DEF Ask
<1>6. ASSUME NEW k \in Task, Summarise(k) \/ \E t \in SUBSET window : Remove(k, t) PROVE FALSE
    BY <1>3, <1>6 DEF Summarise, Remove
<1>7. ASSUME NEW k \in Task, CountMany(k) \/ Leave(k) \/ Fail(k)
      PROVE  summary' = NoSummary /\ \A j \in Task : task'[j].pc \notin {"asked", "stored"}
    BY <1>3, <1>7 DEF CountMany, Leave, Fail, Idle, TaskRecord
<1>8. CASE UNCHANGED vars \/ Add \/ Expire \/ ExpireSummary \/ Restart
  <2>1. summary' = NoSummary /\ (task' = task \/ task' = [k \in Task |-> Idle])
      BY <1>3, <1>8 DEF vars, Add, Stamp, CountFew, AddFails, Write, Expire, ExpireSummary, Restart
  <2> QED
      BY <1>3, <2>1 DEF Idle
<1> QED
    BY <1>5, <1>6, <1>7, <1>8 DEF Next, Compress

\* With a window no longer than what a compression keeps, as the defaults make it,
\* no model is ever asked for a summary (short_term.py, _compress).
THEOREM NeverSummarised == Spec => []IdleWithinWindow
<1>1. Init => IdleInv
  <2> SUFFICES ASSUME Init PROVE IdleInv
      OBVIOUS
  <2>1. Typed
      BY TypedInit
  <2>2. WithinWindow
      BY <2>1, Finite, FS_EmptySet DEF Init, WithinWindow
  <2> QED
      BY <2>1, <2>2 DEF Init, IdleInv, IdleWithinWindow, AtWork, Idle
<1>2. IdleInv => IdleWithinWindow
    BY DEF IdleInv
<1> QED
    BY <1>1, <1>2, IdleStep, PTL DEF Spec

-----------------------------------------------------------------------------
\* What a compression at work removes is what its summary is of.

Alone == \A j, k \in Task : AtWork(j) /\ AtWork(k) => j = k

Oldest(k) ==
    /\ IsOldest(task[k].old, window, Cardinality(task[k].old))
    /\ Cardinality(task[k].old) + keep_count <= Cardinality(window)
    /\ task[k].pc = "stored" => task[k].old \subseteq covered

Kept == Alone /\ (\A k \in Task : AtWork(k) => Oldest(k)) /\ NothingForgotten /\ RecentKept

KeptInv == Typed /\ (~excused => Kept)

\* Steps that leave the window alone.
LEMMA KeptAside ==
    ASSUME KeptInv, ~excused, UNCHANGED <<setting, window, written>>, covered \subseteq covered',
           \A k \in Task : AtWork(k)' => /\ AtWork(k)
                                         /\ task'[k].old = task[k].old
                                         /\ task'[k].pc = "stored" => task[k].old \subseteq covered'
    PROVE  Kept'
<1>1. Kept
    BY DEF KeptInv
<1>2. Alone'
    BY <1>1 DEF Kept, Alone
<1>3. ASSUME NEW k \in Task, AtWork(k)' PROVE Oldest(k)'
    BY <1>1, <1>3 DEF Kept, Oldest, keep_count, IsOldest
<1>4. NothingForgotten' /\ RecentKept'
    BY <1>1 DEF Kept, NothingForgotten, RecentKept, keep_count
<1> QED
    BY <1>2, <1>3, <1>4 DEF Kept

LEMMA KeptWrite ==
    ASSUME KeptInv, NEW m \in stamped, NEW t \in SUBSET (window \cup {m}), Write(m, t), ~excused'
    PROVE  Kept'
<1>0. Typed /\ Kept /\ ~excused /\ t = {} /\ \A k \in Task : AtWork(k) => \A n \in window : ~(n > m)
    BY DEF Write, KeptInv
<1>1. /\ UNCHANGED <<setting, task, covered>>
      /\ window' = window \cup {m} /\ written' = written \cup {m}
    BY <1>0 DEF Write
<1>2. m \in Nat /\ window \subseteq Nat /\ window \subseteq written /\ written \subseteq Nat
    BY <1>0, Finite DEF Typed, TypeOK
<1>3. /\ IsFiniteSet(window) /\ Cardinality(window) \in Nat
      /\ IsFiniteSet(window') /\ Cardinality(window') >= Cardinality(window) /\ Cardinality(window') \in Nat
    BY <1>0, <1>1, Finite, FS_AddElement, FS_CardinalityType DEF Typed, TypeOK
<1>4. Alone'
    BY <1>0, <1>1 DEF Kept, Alone, AtWork
<1>5. ASSUME NEW k \in Task, AtWork(k)' PROVE Oldest(k)'
  <2> DEFINE n == Cardinality(task[k].old)
  <2>1. AtWork(k) /\ Oldest(k)
      BY <1>0, <1>1, <1>5 DEF Kept, AtWork
  <2>2. n \in Nat /\ n <= Cardinality(window) /\ keep_count \in Nat
    <3>1. task[k].old \subseteq written
        BY <1>0 DEF Typed
    <3>2. n \in Nat /\ keep_count \in Nat
        BY <1>0, <3>1, Finite
    <3> QED
        BY <1>3, <2>1, <3>2 DEF Oldest
  <2>3. IsOldest(task[k].old, window', n)
    <3>1. CASE m \in window
        BY <1>1, <2>1, <3>1 DEF Oldest
    <3>2. CASE m \notin window
      <4>1. \A a \in window : a < m
          BY <1>0, <1>2, <2>1, <3>2
      <4> QED
          BY <1>1, <1>2, <1>3, <2>1, <2>2, <4>1, OldestBeforeNewer DEF Oldest
    <3> QED
        BY <3>1, <3>2
  <2> QED
      BY <1>1, <1>3, <2>1, <2>2, <2>3 DEF Oldest, keep_count
<1>6. NothingForgotten'
    BY <1>0, <1>1 DEF Kept, NothingForgotten
<1>7. RecentKept'
  <2> SUFFICES ASSUME NEW x \in written', Cardinality({n \in written' : n > x}) < keep_count
               PROVE  x \in window'
      BY <1>1 DEF RecentKept, keep_count
  <2>1. CASE x = m
      BY <1>1, <2>1
  <2>2. CASE x \in written
    <3>1. IsFiniteSet(written')
        BY <1>0, <1>1, Finite, FS_AddElement
    <3>2. /\ {n \in written' : n > x} \in SUBSET written'
          /\ {n \in written : n > x} \in SUBSET {n \in written' : n > x}
        BY <1>1
    <3>3. IsFiniteSet({n \in written' : n > x})
        BY <3>1, <3>2, FS_Subset
    <3>4. Cardinality({n \in written : n > x}) <= Cardinality({n \in written' : n > x})
        BY <3>2, <3>3, FS_Subset
    <3>5. /\ Cardinality({n \in written : n > x}) \in Nat
          /\ Cardinality({n \in written' : n > x}) \in Nat /\ keep_count \in Nat
        BY <1>0, <3>3, Finite, FS_CardinalityType
    <3>6. Cardinality({n \in written : n > x}) < keep_count
        BY <3>4, <3>5
    <3> QED
        BY <1>0, <1>1, <2>2, <3>6 DEF Kept, RecentKept
  <2> QED
      BY <1>1, <2>1, <2>2
<1> QED
    BY <1>4, <1>5, <1>6, <1>7 DEF Kept

LEMMA KeptAsk ==
    ASSUME KeptInv, NEW k \in Task, NEW t \in SUBSET window, Ask(k, t), ~excused'
    PROVE  Kept'
<1>0. Typed /\ Kept /\ ~excused /\ \A j \in Task \ {k} : ~AtWork(j)
    BY DEF Ask, KeptInv
<1>1. /\ UNCHANGED <<setting, window, written, covered>>
      /\ task'[k] = [pc |-> "asked", old |-> t] /\ \A j \in Task \ {k} : task'[j] = task[j]
    BY <1>0 DEF Ask, Typed, TypeOK
<1>2. \A j \in Task : AtWork(j)' => j = k
    BY <1>0, <1>1 DEF AtWork
<1>3. Oldest(k)'
  <2> DEFINE n == Cardinality(window) - keep_count
  <2>1. /\ Cardinality(window) \in Nat /\ keep_count \in Nat /\ IsFiniteSet(window)
        /\ Cardinality(window) > keep_count
      BY <1>0, Finite DEF Ask, Typed, TypeOK
  <2>2. n \in Nat /\ n <= Cardinality(window) /\ IsOldest(t, window, n)
      BY <2>1 DEF Ask
  <2>3. Cardinality(t) = n
      BY <2>1, <2>2, OldestRest
  <2> QED
      BY <1>1, <2>1, <2>2, <2>3 DEF Oldest, keep_count, IsOldest
<1>4. NothingForgotten' /\ RecentKept'
    BY <1>0, <1>1 DEF Kept, NothingForgotten, RecentKept, keep_count
<1> QED
    BY <1>2, <1>3, <1>4 DEF Kept, Alone

LEMMA KeptRemove ==
    ASSUME KeptInv, NEW k \in Task, NEW t \in SUBSET window, Remove(k, t), ~excused'
    PROVE  Kept'
<1>0. Typed /\ Kept /\ ~excused /\ AtWork(k) /\ task[k].pc = "stored"
    BY DEF Remove, KeptInv, AtWork
<1>1. /\ UNCHANGED <<setting, written, covered, excused>> /\ window' = window \ t
      /\ task'[k] = Idle /\ \A j \in Task \ {k} : task'[j] = task[j]
    BY <1>0 DEF Remove, Typed, TypeOK
<1>2. \A j \in Task : ~AtWork(j)'
    BY <1>0, <1>1 DEF Kept, Alone, AtWork, Idle
<1> DEFINE n == Cardinality(task[k].old)
<1>3. /\ Cardinality(window) \in Nat /\ keep_count \in Nat /\ n \in Nat
      /\ IsFiniteSet(window) /\ window \in SUBSET Nat /\ window \subseteq written
      /\ written \subseteq Nat
  <2>1. task[k].old \subseteq written /\ window \subseteq written
      BY <1>0 DEF Typed, TypeOK
  <2> QED
      BY <1>0, <2>1, Finite
<1>4. IsOldest(task[k].old, window, n) /\ n + keep_count <= Cardinality(window) /\ task[k].old \subseteq covered
    BY <1>0 DEF Kept, Oldest
<1>5. IsOldest(t, window, n) /\ n <= Cardinality(window)
    BY <1>3, <1>4 DEF Remove
<1>6. t = task[k].old
    BY <1>3, <1>4, <1>5, OldestSame
<1>7. NothingForgotten'
    BY <1>0, <1>1, <1>4, <1>6 DEF Kept, NothingForgotten
<1>8. Cardinality(window \ t) >= keep_count /\ Cardinality(window \ t) \in Nat
  <2> HIDE DEF n
  <2>1. /\ Cardinality(window \ t) \in Nat
        /\ n <= Cardinality(window) => Cardinality(window \ t) = Cardinality(window) - n
    <3>1. IsFiniteSet(window) /\ n \in Nat /\ IsOldest(t, window, n)
        BY <1>3, <1>5
    <3> QED
        BY ONLY <3>1, OldestRest, SMTT(30)
  <2> QED
      BY <1>3, <1>4, <1>5, <2>1
<1>9. RecentKept'
  <2> SUFFICES ASSUME NEW x \in written, Cardinality({m \in written : m > x}) < keep_count
               PROVE  x \in window \ t
      BY <1>1 DEF RecentKept, keep_count
  <2>1. x \in window
      BY <1>0 DEF Kept, RecentKept
  <2>2. ASSUME x \in t PROVE FALSE
    <3>1. \A b \in window \ t : x < b
        BY <1>3, <1>5, <2>2 DEF IsOldest
    <3>2. window \ t \in SUBSET {m \in written : m > x}
        BY <1>3, <3>1
    <3>3. /\ IsFiniteSet({m \in written : m > x})
          /\ Cardinality({m \in written : m > x}) \in Nat
        BY <1>0, Finite
    <3>4. Cardinality(window \ t) <= Cardinality({m \in written : m > x})
        BY <3>2, <3>3, FS_Subset
    <3> QED
        BY <1>3, <1>8, <3>3, <3>4
  <2> QED
      BY <2>1, <2>2
<1> QED
    BY <1>2, <1>7, <1>9 DEF Kept, Alone

LEMMA KeptStep == KeptInv /\ [Next]_vars => KeptInv'
<1> SUFFICES ASSUME KeptInv, [Next]_vars, ~excused' PROVE Kept'
    BY TypedStep DEF KeptInv
<1>1. Typed /\ ~excused
  <2>1. CASE UNCHANGED excused
      BY <2>1 DEF KeptInv
  <2>2. ASSUME NEW m, NEW t, Write(m, t) PROVE ~excused
      BY <2>2 DEF Write
  <2>3. ASSUME NEW k \in Task, NEW t, Ask(k, t) PROVE ~excused
      BY <2>3 DEF Ask
  <2>4. CASE Expire
      BY <2>4 DEF Expire
  <2> QED
      BY <2>1, <2>2, <2>3, <2>4 DEF KeptInv, Next, Add, Compress, vars, Stamp, CountFew, AddFails, CountMany,
         Leave, Summarise, Fail, Remove, ExpireSummary, Restart
<1>2. task \in [Task -> TaskRecord]
    BY <1>1 DEF Typed, TypeOK
<1>3. \A k \in Task : AtWork(k) /\ task[k].pc = "stored" => task[k].old \subseteq covered
    BY <1>1 DEF KeptInv, Kept, Oldest
<1>4. CASE UNCHANGED vars \/ Stamp \/ CountFew \/ (\E m \in stamped : AddFails(m)) \/ ExpireSummary
    BY <1>1, <1>3, <1>4, KeptAside DEF vars, Stamp, CountFew, AddFails, ExpireSummary, AtWork
<1>5. CASE Restart
    BY <1>1, <1>5, KeptAside DEF Restart, Idle, AtWork
<1>6. ASSUME NEW k \in Task, CountMany(k) \/ Leave(k) \/ Fail(k) PROVE Kept'
  <2>1. UNCHANGED <<setting, window, written, covered>>
      BY <1>6 DEF CountMany, Leave, Fail
  <2>2. \A j \in Task : AtWork(j)' => AtWork(j) /\ task'[j] = task[j]
      BY <1>2, <1>6 DEF CountMany, Leave, Fail, Idle, AtWork, TaskRecord
  <2> QED
      BY <1>1, <1>3, <2>1, <2>2, KeptAside
<1>7. ASSUME NEW k \in Task, Summarise(k) PROVE Kept'
  <2>1. UNCHANGED <<setting, window, written>> /\ covered' = covered \cup task[k].old
      BY <1>7 DEF Summarise
  <2>2. \A j \in Task : AtWork(j)' => AtWork(j) /\ task'[j].old = task[j].old /\ (j # k => task'[j] = task[j])
      BY <1>2, <1>7 DEF Summarise, AtWork, TaskRecord
  <2> QED
      BY <1>1, <1>3, <2>1, <2>2, KeptAside
<1>8. CASE Expire
    BY <1>8 DEF Expire
<1> QED
    BY <1>4, <1>5, <1>6, <1>7, <1>8, KeptWrite, KeptAsk, KeptRemove DEF Next, Add, Compress

LEMMA KeptInvariant == Spec => []KeptInv
<1>1. Init => KeptInv
  <2> SUFFICES ASSUME Init PROVE Typed /\ Kept
      BY DEF KeptInv
  <2>1. \A k \in Task : ~AtWork(k)
      BY DEF Init, Idle, AtWork
  <2> QED
      BY <2>1, TypedInit DEF Init, Kept, Alone, NothingForgotten, RecentKept
<1> QED
    BY <1>1, KeptStep, PTL DEF Spec

\* Compressions that do not overlap remove what they have had summarised and
\* nothing else, whatever is added meanwhile and wherever they fail.
THEOREM MemoryKeeps == Spec => []NothingForgotten
<1>1. KeptInv => NothingForgotten
    BY DEF KeptInv, Kept, NothingForgotten
<1> QED
    BY <1>1, KeptInvariant, PTL

\* And they leave the last messages alone, as many as they are to keep.
THEOREM MemoryKeepsRecent == Spec => []RecentKept
<1>1. KeptInv => RecentKept
    BY DEF KeptInv, Kept, RecentKept
<1> QED
    BY <1>1, KeptInvariant, PTL
=============================================================================
