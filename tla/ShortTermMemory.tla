--------------------------- MODULE ShortTermMemory ---------------------------
(***************************************************************************)
(* The short-term memory of a thread: a sorted set of Redis that           *)
(* add_message keeps at window_size, and the tasks it starts, which have    *)
(* the oldest messages summarised, and then remove them by their ranks.     *)
(*                                                                         *)
(* A message is its timestamp, and a summary the messages it is of.        *)
(***************************************************************************)
EXTENDS Naturals, FiniteSets

CONSTANTS
    Settings,   \* what a MemoryService may be configured with
    Spare,      \* messages beyond the threshold that are kept as they are
    Task,       \* bound: compressions at a time
    MaxTime,    \* bound: messages
    NoSummary

ASSUME SettingsAssumption == Settings \subseteq [window_size : Nat, summary_threshold : Nat]
ASSUME SpareAssumption == Spare \in Nat

VARIABLES
    setting,    \* the configuration of this process
    now,        \* the last timestamp
    stamped,    \* messages of calls of add_message that have not written them yet
    uncounted,  \* calls that have, and are to count the messages
    window,     \* the sorted set
    summary,
    task,
    written,    \* history: the messages that were written
    covered,    \* history: those that a summary has been of
    excused     \* history: why messages may be lost (see NothingForgotten)

vars == <<setting, now, stamped, uncounted, window, summary, task, written, covered, excused>>

TaskRecord == [pc : {"idle", "started", "asked", "stored"}, old : SUBSET Nat]

Idle == [pc |-> "idle", old |-> {}]

keep_count == setting.summary_threshold + Spare

AtWork(k) == task[k].pc \in {"asked", "stored"}

TypeOK ==
    /\ setting \in Settings
    /\ now \in Nat
    /\ stamped \subseteq 1 .. now
    /\ uncounted \in Nat
    /\ window \subseteq written
    /\ summary = NoSummary \/ summary \subseteq covered
    /\ task \in [Task -> TaskRecord]
    /\ written \subseteq 1 .. now
    /\ covered \subseteq written
    /\ excused \in BOOLEAN

Init ==
    /\ setting \in Settings
    /\ now = 0
    /\ stamped = {}
    /\ uncounted = 0
    /\ window = {}
    /\ summary = NoSummary
    /\ task = [k \in Task |-> Idle]
    /\ written = {}
    /\ covered = {}
    /\ excused = FALSE

-----------------------------------------------------------------------------
\* t is what the ranks 0 to n - 1 of s stand for.
IsOldest(t, s, n) ==
    IF n > Cardinality(s) THEN t = s
    ELSE /\ t \subseteq s
         /\ Cardinality(t) = n
         /\ \A a \in t, b \in s \ t : a < b

\* How many ranks 0 to -(window_size + 1) are.
Excess(s) ==
    IF Cardinality(s) > setting.window_size THEN Cardinality(s) - setting.window_size ELSE 0

-----------------------------------------------------------------------------
\* add_message.

\* It takes the time, ...
Stamp ==
    /\ now < MaxTime
    /\ now' = now + 1
    /\ stamped' = stamped \cup {now'}
    /\ UNCHANGED <<setting, uncounted, window, summary, task, written, covered, excused>>

\* ... writes the message and trims the window in one transaction, maybe later than
\* a call that has a later time, ...
Write(m, t) ==
    /\ m \in stamped
    /\ IsOldest(t, window \cup {m}, Excess(window \cup {m}))
    /\ stamped' = stamped \ {m}
    /\ window' = (window \cup {m}) \ t
    /\ written' = written \cup {m}
    /\ uncounted' = uncounted + 1
    /\ excused' = \/ excused
                  \/ t # {}
                  \/ \E k \in Task : AtWork(k) /\ \E n \in window : n > m
    /\ UNCHANGED <<setting, now, summary, task, covered>>

AddFails(m) ==
    /\ m \in stamped
    /\ stamped' = stamped \ {m}
    /\ UNCHANGED <<setting, now, uncounted, window, summary, task, written, covered, excused>>

\* ... and counts what is there by now.
CountFew ==
    /\ uncounted > 0 /\ Cardinality(window) <= setting.summary_threshold
    /\ uncounted' = uncounted - 1
    /\ UNCHANGED <<setting, now, stamped, window, summary, task, written, covered, excused>>

CountMany(k) ==
    /\ uncounted > 0 /\ Cardinality(window) > setting.summary_threshold
    /\ task[k].pc = "idle"
    /\ uncounted' = uncounted - 1
    /\ task' = [task EXCEPT ![k].pc = "started"]
    /\ UNCHANGED <<setting, now, stamped, window, summary, written, covered, excused>>

-----------------------------------------------------------------------------
\* _compress: it reads the set, ...

Leave(k) ==
    /\ task[k].pc = "started"
    /\ Cardinality(window) <= keep_count
    /\ task' = [task EXCEPT ![k] = Idle]
    /\ UNCHANGED <<setting, now, stamped, uncounted, window, summary, written, covered, excused>>

\* Mutant of Ask: one more than there are beyond those to keep.
AskForOneMore(k, t) ==
    /\ task[k].pc = "started"
    /\ Cardinality(window) > keep_count
    /\ IsOldest(t, window, Cardinality(window) - keep_count + 1)
    /\ task' = [task EXCEPT ![k] = [pc |-> "asked", old |-> t]]
    /\ excused' = (excused \/ \E j \in Task \ {k} : AtWork(j))
    /\ UNCHANGED <<setting, now, stamped, uncounted, window, summary, written, covered>>

Ask(k, t) ==
    /\ task[k].pc = "started"
    /\ Cardinality(window) > keep_count
    /\ IsOldest(t, window, Cardinality(window) - keep_count)
    /\ task' = [task EXCEPT ![k] = [pc |-> "asked", old |-> t]]
    /\ excused' = (excused \/ \E j \in Task \ {k} : AtWork(j))
    /\ UNCHANGED <<setting, now, stamped, uncounted, window, summary, written, covered>>

\* ... stores the summary, in place of the one there is, ...
Summarise(k) ==
    /\ task[k].pc = "asked"
    /\ task' = [task EXCEPT ![k].pc = "stored"]
    /\ summary' = task[k].old
    /\ covered' = covered \cup task[k].old
    /\ UNCHANGED <<setting, now, stamped, uncounted, window, written, excused>>

\* Mutant of Remove: the end of the ranks is taken for that of a slice.
RemoveOneMore(k, t) ==
    /\ task[k].pc = "stored"
    /\ IsOldest(t, window, Cardinality(task[k].old) + 1)
    /\ window' = window \ t
    /\ task' = [task EXCEPT ![k] = Idle]
    /\ UNCHANGED <<setting, now, stamped, uncounted, summary, written, covered, excused>>

\* ... and removes as many messages as it is of.
Remove(k, t) ==
    /\ task[k].pc = "stored"
    /\ IsOldest(t, window, Cardinality(task[k].old))
    /\ window' = window \ t
    /\ task' = [task EXCEPT ![k] = Idle]
    /\ UNCHANGED <<setting, now, stamped, uncounted, summary, written, covered, excused>>

\* The model or Redis fails it.
Fail(k) ==
    /\ task[k].pc # "idle"
    /\ task' = [task EXCEPT ![k] = Idle]
    /\ UNCHANGED <<setting, now, stamped, uncounted, window, summary, written, covered, excused>>

-----------------------------------------------------------------------------
\* The keys expire a day after they were last written.
Expire ==
    /\ window' = {}
    /\ excused' = TRUE
    /\ UNCHANGED <<setting, now, stamped, uncounted, summary, task, written, covered>>

ExpireSummary ==
    /\ summary' = NoSummary
    /\ UNCHANGED <<setting, now, stamped, uncounted, window, task, written, covered, excused>>

\* The process restarts, Redis does not.
Restart ==
    /\ stamped' = {}
    /\ uncounted' = 0
    /\ task' = [k \in Task |-> Idle]
    /\ UNCHANGED <<setting, now, window, summary, written, covered, excused>>

-----------------------------------------------------------------------------
Add ==
    \/ Stamp \/ CountFew
    \/ \E m \in stamped : AddFails(m) \/ \E t \in SUBSET (window \cup {m}) : Write(m, t)

Compress(k) ==
    \/ CountMany(k) \/ Leave(k) \/ Summarise(k) \/ Fail(k)
    \/ \E t \in SUBSET window : Ask(k, t) \/ Remove(k, t)

Next ==
    \/ Add
    \/ \E k \in Task : Compress(k)
    \/ Expire \/ ExpireSummary \/ Restart

Spec == Init /\ [][Next]_vars

-----------------------------------------------------------------------------
\* Properties.

\* A message that was written is in the window, or some summary was made of it, the
\* present one or one it replaced, also when more come while the model is at work, and
\* when a compression fails or dies between its steps: unless the window had no room,
\* compressions overlapped, or a message was written late while one was at work
\* (short_term.py:185, the ranks).
NothingForgotten == ~excused => written \subseteq window \cup covered

\* So it is that the last messages are there word by word: as many as a compression
\* is to keep (short_term.py:136).
RecentKept ==
    ~excused =>
        \A m \in written :
            Cardinality({n \in written : n > m}) < keep_count => m \in window

\* summary_threshold is the "Message count that triggers background compression"
\* (short_term.py:41): a compression that was triggered leaves the set as it is only
\* when the messages are no longer more than that.
ThresholdCompresses ==
    [][\A k \in Task : Leave(k) => Cardinality(window) <= setting.summary_threshold]_vars

=============================================================================
